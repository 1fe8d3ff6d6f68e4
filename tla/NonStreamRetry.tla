----------------------------- MODULE NonStreamRetry -----------------------------
(***************************************************************************)
(* runNonStreamWithRetry of pkg/api/helpers.go: the same loop around a     *)
(* single upstream answer.  Nothing reaches the client before the function *)
(* returns; a retrieval call in the answer is resolved as in the stream,   *)
(* but past the limit the answer is returned as it is.                     *)
(***************************************************************************)
EXTENDS Naturals, Sequences

CONSTANTS
    MaxAttempts,     \* retryConfig.MaxAttempts
    MaxRetrievals,   \* retrieval calls answered per request
    Hashes,          \* content hashes the model can ask for
    NoCall,          \* the answer carries no retrieval call
    NoHash           \* its first retrieval call has no usable hash

ASSUME NonStreamAssumption ==
    /\ MaxAttempts \in Nat \ {0}
    /\ MaxRetrievals \in Nat
    /\ NoCall \notin Hashes
    /\ NoHash \notin Hashes
    /\ NoCall # NoHash

VARIABLES
    pc,             \* where the loop stands
    attempt,        \* the loop variable
    retrievals,     \* retrievalsCount
    resolved,       \* hashes answered: the turns appended to contents
    err,            \* the error of the last call, "nil" if it answered
    respCall,       \* the first retrieval call in the last answer
    outcome,        \* what the function returned
    ctxDone,        \* the request context is canceled
    calls           \* history: upstream calls made

loopVars == <<attempt, retrievals, resolved>>
vars == <<pc, loopVars, err, respCall, outcome, ctxDone, calls>>

ErrKinds == {"retryable", "fatal", "canceled"}

TypeOK ==
    /\ pc \in {"head", "waiting", "calling", "deciding", "done"}
    /\ attempt \in 0..MaxAttempts
    /\ retrievals \in 0..MaxRetrievals
    /\ resolved \in Seq(Hashes)
    /\ err \in ErrKinds \union {"nil"}
    /\ respCall \in Hashes \union {NoCall, NoHash}
    /\ outcome \in {"pending", "success", "exhausted", "fatal", "canceled"}
    /\ ctxDone \in BOOLEAN
    /\ calls \in Nat

Init ==
    /\ pc = "head"
    /\ attempt = 0
    /\ retrievals = 0
    /\ resolved = <<>>
    /\ err = "nil"
    /\ respCall = NoCall
    /\ outcome = "pending"
    /\ ctxDone = FALSE
    /\ calls = 0

Return(result) ==
    /\ pc' = "done"
    /\ outcome' = result

-------------------------------------------------------------------------------
(* The head of the loop. *)

CallGenerate ==
    /\ pc' = "calling"
    /\ calls' = calls + 1
    /\ UNCHANGED <<loopVars, err, respCall, outcome, ctxDone>>

AttemptsLeftOffByOne == attempt <= MaxAttempts

AttemptsLeft == attempt < MaxAttempts

FirstAttempt ==
    /\ pc = "head"
    /\ attempt = 0
    /\ CallGenerate

StartBackoff ==
    /\ pc = "head"
    /\ attempt > 0
    /\ AttemptsLeft
    /\ pc' = "waiting"
    /\ UNCHANGED <<loopVars, err, respCall, outcome, ctxDone, calls>>

\* The loop goes on with its next iteration instead of making the call.
BackoffWithoutCall ==
    /\ pc = "waiting"
    /\ pc' = "head"
    /\ UNCHANGED <<loopVars, err, respCall, outcome, ctxDone, calls>>

BackoffElapsed ==
    /\ pc = "waiting"
    /\ CallGenerate

BackoffCanceled ==
    /\ pc = "waiting"
    /\ ctxDone
    /\ Return("canceled")
    /\ UNCHANGED <<loopVars, err, respCall, ctxDone, calls>>

GiveUp ==
    /\ pc = "head"
    /\ ~AttemptsLeft
    /\ Return("exhausted")
    /\ UNCHANGED <<loopVars, err, respCall, ctxDone, calls>>

-------------------------------------------------------------------------------
(* Vertex.Generate returns. *)

UpstreamAnswers ==
    /\ pc = "calling"
    /\ pc' = "deciding"
    /\ err' = "nil"
    /\ \E call \in Hashes \union {NoCall, NoHash} : respCall' = call
    /\ UNCHANGED <<loopVars, outcome, ctxDone, calls>>

UpstreamFails ==
    /\ pc = "calling"
    /\ pc' = "deciding"
    /\ \E e \in ErrKinds :
        /\ e = "canceled" => ctxDone
        /\ err' = e
    /\ respCall' = NoCall
    /\ UNCHANGED <<loopVars, outcome, ctxDone, calls>>

-------------------------------------------------------------------------------
(* The branches after the call. *)

MustResolve == err = "nil" /\ respCall \in Hashes /\ retrievals < MaxRetrievals

\* The retrieval counter is forgotten.
ResolveRetrievalUncounted ==
    /\ pc = "deciding"
    /\ MustResolve
    /\ attempt' = 0
    /\ pc' = "head"
    /\ UNCHANGED <<retrievals, resolved, err, respCall, outcome, ctxDone, calls>>

ResolveRetrieval ==
    /\ pc = "deciding"
    /\ MustResolve
    /\ retrievals' = retrievals + 1
    /\ resolved' = Append(resolved, respCall)
    /\ attempt' = 0
    /\ pc' = "head"
    /\ UNCHANGED <<err, respCall, outcome, ctxDone, calls>>

ReturnAnswer ==
    /\ pc = "deciding"
    /\ err = "nil"
    /\ ~MustResolve
    /\ Return("success")
    /\ UNCHANGED <<loopVars, err, respCall, ctxDone, calls>>

\* A canceled call is tried again like any other.
IsRetryableAny(e) == e # "nil"

IsRetryable(e) == e = "retryable"

AbortNonRetryable ==
    /\ pc = "deciding"
    /\ err # "nil"
    /\ ~IsRetryable(err)
    /\ Return("fatal")
    /\ UNCHANGED <<loopVars, err, respCall, ctxDone, calls>>

ScheduleRetry ==
    /\ pc = "deciding"
    /\ IsRetryable(err)
    /\ attempt' = attempt + 1
    /\ pc' = "head"
    /\ UNCHANGED <<retrievals, resolved, err, respCall, outcome, ctxDone, calls>>

-------------------------------------------------------------------------------
ContextCanceled ==
    /\ pc # "done"
    /\ ~ctxDone
    /\ ctxDone' = TRUE
    /\ UNCHANGED <<pc, loopVars, err, respCall, outcome, calls>>

\* The handler has its answer; nothing is left to do.
Returned ==
    /\ pc = "done"
    /\ UNCHANGED vars

Gateway ==
    \/ FirstAttempt
    \/ StartBackoff
    \/ BackoffElapsed
    \/ BackoffCanceled
    \/ GiveUp
    \/ ResolveRetrieval
    \/ ReturnAnswer
    \/ AbortNonRetryable
    \/ ScheduleRetry

Upstream == UpstreamAnswers \/ UpstreamFails

Next == Gateway \/ Upstream \/ ContextCanceled \/ Returned

Spec == Init /\ [][Next]_vars

\* The loop runs while it can, timers fire, and Vertex answers or fails.
FairSpec == Spec /\ WF_vars(Gateway) /\ WF_vars(Upstream)

-------------------------------------------------------------------------------
(* Properties. *)

\* A caller who canceled is never made to wait for another upstream call after
\* one has reported the cancellation.
NoCallAfterCancel == [][calls' # calls => err # "canceled"]_vars

\* Every request is answered.
EveryRequestReturns == <>(pc = "done")

Exchange == INSTANCE UpstreamExchange WITH
    round <- retrievals,
    tries <- IF pc \in {"head", "waiting"} \/ outcome \in {"exhausted", "canceled"}
                THEN attempt ELSE attempt + 1,
    inFlight <- pc \in {"calling", "deciding"},
    served <- FALSE,
    result <- outcome

\* runNonStreamWithRetry keeps the promise UpstreamExchange makes.
ImplementsExchange == Exchange!XSpec
===============================================================================
