------------------------------ MODULE StreamRetry ------------------------------
(***************************************************************************)
(* runStreamWithRetry of pkg/api/helpers.go: one streaming request, from   *)
(* the first upstream call to the value returned to the HTTP handler.      *)
(*                                                                         *)
(* One step is one thing another actor can fall between: opening a call,   *)
(* one part of the upstream stream, its end, the decision taken after it,  *)
(* the end of a back-off.  The upstream model, the client's connection and *)
(* the loop detector's verdict on the text are the environment.            *)
(***************************************************************************)
EXTENDS Naturals, Sequences

CONSTANTS
    MaxAttempts,     \* retryConfig.MaxAttempts, 4 in defaultRetry
    MaxRetrievals,   \* retrieval calls answered per request, 5 in the code
    Hashes           \* content hashes the model can ask for

ASSUME StreamRetryAssumption ==
    /\ MaxAttempts \in Nat \ {0}
    /\ MaxRetrievals \in Nat

CONSTANTS
    NoCall,          \* retrievalCall is nil
    NoHash           \* a retrieval call without a usable "hash" argument

ASSUME NoCallAssumption == NoCall \notin Hashes /\ NoHash \notin Hashes /\ NoCall # NoHash

VARIABLES
    pc,             \* where the loop stands
    attempt,        \* the loop variable
    retrievals,     \* retrievalsCount
    resolved,       \* hashes answered, in order: the turns appended to contents
    gotChunk,       \* this attempt has delivered something
    loopFired,      \* this attempt's detector fired and canceled it
    retrievalCall,  \* the retrieval call this attempt withheld
    iterErr,        \* how this attempt's stream ended
    outcome,        \* what the function returned
    ctxDone,        \* the request context is canceled
    client,         \* the client's connection
    calls,          \* history: upstream calls made
    delivered,      \* history: which attempts of which round reached the client
    asked           \* history: usable hashes the latest upstream call asked for

loopVars == <<attempt, retrievals, resolved>>
attemptVars == <<gotChunk, loopFired, retrievalCall, iterErr>>
envVars == <<ctxDone, client>>
history == <<calls, delivered, asked>>
vars == <<pc, loopVars, attemptVars, outcome, envVars, history>>

\* "canceled" is context.Canceled; "retryable" and "fatal" are the two classes
\* isRetryableError makes of the other errors.
ErrKinds == {"retryable", "fatal", "canceled"}
Outcomes == {"success", "loop_stop", "exhausted", "partial", "fatal",
             "canceled", "client_gone"}

TypeOK ==
    /\ pc \in {"head", "waiting", "streaming", "deciding", "done"}
    /\ attempt \in 0..MaxAttempts
    /\ retrievals \in 0..MaxRetrievals
    /\ resolved \in Seq(Hashes)
    /\ gotChunk \in BOOLEAN
    /\ loopFired \in BOOLEAN
    /\ retrievalCall \in Hashes \union {NoCall, NoHash}
    /\ iterErr \in ErrKinds \union {"nil"}
    /\ outcome \in Outcomes \union {"pending"}
    /\ ctxDone \in BOOLEAN
    /\ client \in {"connected", "gone"}
    /\ calls \in Nat
    /\ delivered \subseteq [round : 0..MaxRetrievals, attempt : 0..MaxAttempts]
    /\ asked \subseteq Hashes

Init ==
    /\ pc = "head"
    /\ attempt = 0
    /\ retrievals = 0
    /\ resolved = <<>>
    /\ gotChunk = FALSE
    /\ loopFired = FALSE
    /\ retrievalCall = NoCall
    /\ iterErr = "nil"
    /\ outcome = "pending"
    /\ ctxDone = FALSE
    /\ client = "connected"
    /\ calls = 0
    /\ delivered = {}
    /\ asked = {}

Return(result) ==
    /\ pc' = "done"
    /\ outcome' = result

-------------------------------------------------------------------------------
(* The head of the loop. *)

\* The retrieval call a failed attempt withheld outlives it.
OpenStreamKeepingCall ==
    /\ pc' = "streaming"
    /\ gotChunk' = FALSE
    /\ loopFired' = FALSE
    /\ iterErr' = "nil"
    /\ calls' = calls + 1
    /\ asked' = {}
    /\ UNCHANGED <<loopVars, retrievalCall, outcome, envVars, delivered>>

\* The per-attempt state is fresh and GenerateStream is called.
OpenStream ==
    /\ pc' = "streaming"
    /\ gotChunk' = FALSE
    /\ loopFired' = FALSE
    /\ retrievalCall' = NoCall
    /\ iterErr' = "nil"
    /\ calls' = calls + 1
    /\ asked' = {}
    /\ UNCHANGED <<loopVars, outcome, envVars, delivered>>

AttemptsLeftOffByOne == attempt <= MaxAttempts

AttemptsLeft == attempt < MaxAttempts

FirstAttempt ==
    /\ pc = "head"
    /\ attempt = 0
    /\ OpenStream

StartBackoff ==
    /\ pc = "head"
    /\ attempt > 0
    /\ AttemptsLeft
    /\ pc' = "waiting"
    /\ UNCHANGED <<loopVars, attemptVars, outcome, envVars, history>>

\* The loop goes on with its next iteration instead of making the call.
BackoffWithoutCall ==
    /\ pc = "waiting"
    /\ pc' = "head"
    /\ UNCHANGED <<loopVars, attemptVars, outcome, envVars, history>>

\* waitFor's select: the timer, or the context.  Go picks either when both
\* are ready.
BackoffElapsed ==
    /\ pc = "waiting"
    /\ OpenStream

BackoffCanceled ==
    /\ pc = "waiting"
    /\ ctxDone
    /\ Return("canceled")
    /\ UNCHANGED <<loopVars, attemptVars, envVars, history>>

GiveUp ==
    /\ pc = "head"
    /\ ~AttemptsLeft
    /\ Return("exhausted")
    /\ UNCHANGED <<loopVars, attemptVars, envVars, history>>

-------------------------------------------------------------------------------
(* The stream.  The detector looks at the text after it was delivered; a   *)
(* canceled stream may still yield what was buffered.                      *)

Emit ==
    /\ gotChunk' = TRUE
    /\ delivered' = delivered \union {[round |-> retrievals, attempt |-> attempt]}

DeliverText ==
    /\ pc = "streaming"
    /\ Emit
    /\ \E detected \in BOOLEAN : loopFired' = (loopFired \/ detected)
    /\ UNCHANGED <<pc, loopVars, retrievalCall, iterErr, outcome, envVars, calls, asked>>

DeliverToolCall ==
    /\ pc = "streaming"
    /\ Emit
    /\ UNCHANGED <<pc, loopVars, loopFired, retrievalCall, iterErr, outcome, envVars, calls,
                   asked>>

\* A later retrieval call of the same attempt replaces an earlier one.
WithholdRetrieval ==
    /\ pc = "streaming"
    /\ \E call \in Hashes \union {NoHash} :
        /\ retrievalCall' = call
        /\ asked' = asked \union ({call} \intersect Hashes)
    /\ UNCHANGED <<pc, loopVars, gotChunk, loopFired, iterErr, outcome, envVars, calls,
                   delivered>>

\* onChunk reports that the client cannot be written to.
ClientWriteFails ==
    /\ pc = "streaming"
    /\ client = "gone"
    /\ Return("client_gone")
    /\ UNCHANGED <<loopVars, attemptVars, envVars, history>>

StreamEnds ==
    /\ pc = "streaming"
    /\ pc' = "deciding"
    /\ UNCHANGED <<loopVars, attemptVars, outcome, envVars, history>>

StreamFails ==
    /\ pc = "streaming"
    /\ pc' = "deciding"
    /\ \E err \in ErrKinds :
        /\ err = "canceled" => (ctxDone \/ loopFired)
        /\ iterErr' = err
    /\ UNCHANGED <<loopVars, gotChunk, loopFired, retrievalCall, outcome, envVars, history>>

-------------------------------------------------------------------------------
(* After the stream: the branches of the loop body, in the code's order. *)

IsRetryable(err) == err = "retryable"

MustResolve ==
    /\ iterErr = "nil"
    /\ retrievalCall \in Hashes
    /\ retrievals < MaxRetrievals

\* The detector's cancel is not told from any other error.
EndedWellIgnoringLoop == iterErr = "nil"

EndedWell == iterErr = "nil" \/ (loopFired /\ iterErr = "canceled")

\* A retryable error is retried whatever the client has seen.
OutputShownIgnored == gotChunk /\ iterErr # "retryable"

OutputShown == gotChunk

\* The attempt counter is reset, the retrieval counter forgotten.
ResolveRetrievalUncounted ==
    /\ pc = "deciding"
    /\ MustResolve
    /\ resolved' = resolved
    /\ attempt' = 0
    /\ pc' = "head"
    /\ UNCHANGED <<retrievals, attemptVars, outcome, envVars, history>>

\* The elided content, or the text that it is unavailable, is appended to
\* contents with the call it answers; attempt = -1 and continue.
ResolveRetrieval ==
    /\ pc = "deciding"
    /\ MustResolve
    /\ retrievals' = retrievals + 1
    /\ resolved' = Append(resolved, retrievalCall)
    /\ attempt' = 0
    /\ pc' = "head"
    /\ UNCHANGED <<attemptVars, outcome, envVars, history>>

Complete ==
    /\ pc = "deciding"
    /\ ~MustResolve
    /\ EndedWell
    /\ Return(IF loopFired THEN "loop_stop" ELSE "success")
    /\ UNCHANGED <<loopVars, attemptVars, envVars, history>>

AbortAfterOutput ==
    /\ pc = "deciding"
    /\ ~EndedWell
    /\ OutputShown
    /\ Return("partial")
    /\ UNCHANGED <<loopVars, attemptVars, envVars, history>>

AbortNonRetryable ==
    /\ pc = "deciding"
    /\ ~EndedWell
    /\ ~OutputShown
    /\ ~IsRetryable(iterErr)
    /\ Return("fatal")
    /\ UNCHANGED <<loopVars, attemptVars, envVars, history>>

ScheduleRetry ==
    /\ pc = "deciding"
    /\ ~EndedWell
    /\ ~OutputShown
    /\ IsRetryable(iterErr)
    /\ attempt' = attempt + 1
    /\ pc' = "head"
    /\ UNCHANGED <<retrievals, resolved, attemptVars, outcome, envVars, history>>

-------------------------------------------------------------------------------
(* The client and the server's root context. *)

ClientDisconnects ==
    /\ pc # "done"
    /\ client = "connected"
    /\ client' = "gone"
    /\ UNCHANGED <<pc, loopVars, attemptVars, outcome, ctxDone, history>>

\* net/http notices the disconnect, or a signal cancels the base context.
ContextCanceled ==
    /\ pc # "done"
    /\ ~ctxDone
    /\ ctxDone' = TRUE
    /\ UNCHANGED <<pc, loopVars, attemptVars, outcome, client, history>>

\* The handler has its answer; nothing is left to do.
Returned ==
    /\ pc = "done"
    /\ UNCHANGED vars

Gateway ==
    \/ FirstAttempt
    \/ StartBackoff
    \/ BackoffElapsed
    \/ BackoffCanceled
    \/ GiveUp
    \/ ResolveRetrieval
    \/ Complete
    \/ AbortAfterOutput
    \/ AbortNonRetryable
    \/ ScheduleRetry

Upstream ==
    \/ DeliverText
    \/ DeliverToolCall
    \/ WithholdRetrieval
    \/ ClientWriteFails
    \/ StreamEnds
    \/ StreamFails

Next == Gateway \/ Upstream \/ ClientDisconnects \/ ContextCanceled \/ Returned

Spec == Init /\ [][Next]_vars

\* The loop is one goroutine that runs while it can; a timer fires; and an
\* upstream stream comes to an end (or to an error) if it is not abandoned.
\* Nothing is assumed of the client.
Fairness ==
    /\ WF_vars(Gateway)
    /\ WF_vars(StreamEnds \/ StreamFails \/ ClientWriteFails)

FairSpec == Spec /\ Fairness

-------------------------------------------------------------------------------
(* Properties. *)

\* Output of one round comes from one attempt: a retry never repeats to the
\* client what a failed attempt of the same round already showed (the
\* gotChunk test before isRetryableError).
NoDuplicateWithinRound ==
    \A d, e \in delivered : d.round = e.round => d.attempt = e.attempt

\* One request never costs more than MaxAttempts upstream calls in each of its
\* MaxRetrievals + 1 rounds, although a retrieval restarts the attempt counter.
CallsWithinBudget == calls <= MaxAttempts * (MaxRetrievals + 1)

\* The cancellation the loop detector causes is not reported as an error: the
\* function returns a canceled stream only to a caller who canceled.
OwnCancelHidden ==
    (outcome \in {"partial", "fatal"} /\ iterErr = "canceled") => ctxDone

\* Retrieval calls are kept from the client, so only their answers show them.
\* What is answered was asked by the upstream call that has just ended, never
\* by a failed one before it.  And a request that had retrievals left and ends
\* well with a stream that ended by itself lost no usable call but those an
\* unusable one replaced: with a usable call last it would have gone on.  Calls
\* overwritten by a later one of the same stream (helpers.go:119), calls of a
\* stream that fails or that the detector cancels (helpers.go:208) and calls
\* past the limit are lost without a word to model or client.
AnswersWhatWasAsked ==
    /\ resolved' # resolved => resolved'[Len(resolved')] \in asked
    /\ (/\ pc' = "done" /\ outcome' \in {"success", "loop_stop"}
        /\ iterErr = "nil" /\ retrievals < MaxRetrievals /\ asked # {})
       => retrievalCall = NoHash

RetrievalsAsAsked == [][AnswersWhatWasAsked]_vars

\* Every request is answered: back-offs, retries and retrieval rounds end.
EveryRequestReturns == <>(pc = "done")

\* The request as its cost and its end, without the loop that produces them.
Exchange == INSTANCE UpstreamExchange WITH
    round <- retrievals,
    tries <- IF pc \in {"head", "waiting"} \/ outcome \in {"exhausted", "canceled"}
                THEN attempt ELSE attempt + 1,
    inFlight <- pc \in {"streaming", "deciding"},
    served <- gotChunk /\ pc \notin {"head", "waiting"},
    result <- outcome

\* runStreamWithRetry keeps the promise UpstreamExchange makes: calls of one
\* round stop at the first output, and each way of ending has its cause.
ImplementsExchange == Exchange!XSpec
===============================================================================
