--------------------------- MODULE UpstreamExchange ---------------------------
(***************************************************************************)
(* What one client request may cost and how it ends, whatever retry loop   *)
(* serves it.  The request proceeds in rounds: a new round starts when the *)
(* gateway answers a retrieval call itself and asks the model again.  In a *)
(* round upstream calls are made one at a time, at most MaxAttempts of     *)
(* them, and a call that has shown output to the client is never followed  *)
(* by another call of the same round.  The request is concluded once.      *)
(* StreamRetry and NonStreamRetry implement this specification.            *)
(***************************************************************************)
EXTENDS Naturals

CONSTANTS
    MaxAttempts,     \* upstream calls in one round (retryConfig.MaxAttempts)
    MaxRetrievals    \* rounds added by retrieval calls (the literal 5)

VARIABLES
    round,      \* retrieval rounds started after the first
    tries,      \* upstream calls made in this round
    calls,      \* upstream calls made in all
    inFlight,   \* a call is open
    served,     \* this round has shown output to the client
    result      \* "pending" until the request is concluded

xvars == <<round, tries, calls, inFlight, served, result>>

\* How a request can end.
Results == {"success", "loop_stop", "exhausted", "partial", "fatal",
            "canceled", "client_gone"}

XInit ==
    /\ round = 0
    /\ tries = 0
    /\ calls = 0
    /\ inFlight = FALSE
    /\ served = FALSE
    /\ result = "pending"

Issue ==
    /\ result = "pending"
    /\ ~inFlight
    /\ ~served
    /\ tries < MaxAttempts
    /\ tries' = tries + 1
    /\ calls' = calls + 1
    /\ inFlight' = TRUE
    /\ UNCHANGED <<round, served, result>>

Deliver ==
    /\ inFlight
    /\ served' = TRUE
    /\ UNCHANGED <<round, tries, calls, inFlight, result>>

\* The call failed before it showed anything: it may be tried again.
Fail ==
    /\ inFlight
    /\ ~served
    /\ inFlight' = FALSE
    /\ UNCHANGED <<round, tries, calls, served, result>>

\* The call asked for elided content: answer it and start over.
NextRound ==
    /\ inFlight
    /\ round < MaxRetrievals
    /\ round' = round + 1
    /\ tries' = 0
    /\ inFlight' = FALSE
    /\ served' = FALSE
    /\ UNCHANGED <<calls, result>>

Conclude(r) ==
    /\ result = "pending"
    /\ r \in {"success", "loop_stop", "partial", "fatal", "client_gone"} => inFlight
    /\ r \in {"loop_stop", "partial"} => served
    /\ r \in {"fatal", "exhausted", "canceled"} => ~served
    /\ r = "exhausted" => tries = MaxAttempts
    /\ r = "canceled" => ~inFlight /\ tries \in 1..(MaxAttempts - 1)
    /\ inFlight' = FALSE
    /\ result' = r
    /\ UNCHANGED <<round, tries, calls, served>>

XNext ==
    \/ Issue
    \/ Deliver
    \/ Fail
    \/ NextRound
    \/ \E r \in Results : Conclude(r)

XSpec == XInit /\ [][XNext]_xvars
===============================================================================
