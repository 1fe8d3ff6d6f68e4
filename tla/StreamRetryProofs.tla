--------------------------- MODULE StreamRetryProofs ---------------------------
(***************************************************************************)
(* Proofs about StreamRetry for every MaxAttempts, MaxRetrievals and set   *)
(* of hashes.                                                              *)
(***************************************************************************)
EXTENDS StreamRetry, TLAPS

\* The Boolean conjuncts of TypeOK, and the others: the two kinds are proved
\* by different provers.
FlagsOK ==
    /\ gotChunk \in BOOLEAN
    /\ loopFired \in BOOLEAN
    /\ ctxDone \in BOOLEAN

ValuesOK ==
    /\ pc \in {"head", "waiting", "streaming", "deciding", "done"}
    /\ attempt \in 0..MaxAttempts
    /\ retrievals \in 0..MaxRetrievals
    /\ resolved \in Seq(Hashes)
    /\ retrievalCall \in Hashes \union {NoCall, NoHash}
    /\ iterErr \in ErrKinds \union {"nil"}
    /\ outcome \in Outcomes \union {"pending"}
    /\ client \in {"connected", "gone"}
    /\ calls \in Nat
    /\ delivered \subseteq [round : 0..MaxRetrievals, attempt : 0..MaxAttempts]
    /\ asked \subseteq Hashes

\* Calls made in the current round when the round is still open.
SpentInRound == IF pc \in {"streaming", "deciding"} THEN attempt + 1 ELSE attempt

\* Earlier rounds cost at most MaxAttempts calls each.
CallsInv ==
    /\ pc # "done" => calls <= retrievals * MaxAttempts + SpentInRound
    /\ CallsWithinBudget

AttemptInv ==
    /\ pc \in {"waiting", "streaming", "deciding"} => attempt < MaxAttempts
    /\ pc = "waiting" => attempt > 0

\* The only output of the current round is that of the current attempt.
DeliveredInv ==
    /\ \A d \in delivered : d.round <= retrievals
    /\ \A d \in delivered :
         d.round = retrievals => /\ d.attempt = attempt
                                 /\ gotChunk
                                 /\ pc \notin {"head", "waiting"}
    /\ NoDuplicateWithinRound

\* Who canceled, and what an attempt that will be retried looks like.
CauseInv ==
    /\ loopFired => gotChunk
    /\ iterErr = "canceled" => (ctxDone \/ loopFired)
    /\ (pc \in {"head", "waiting"} /\ attempt > 0) => (~gotChunk /\ iterErr = "retryable")

OutcomeInv ==
    /\ pc = "done" <=> outcome # "pending"
    /\ Len(resolved) = retrievals
    /\ OwnCancelHidden

\* The call kept for the decision is one of those this upstream call asked for.
AskedInv ==
    pc \in {"streaming", "deciding"} =>
        /\ retrievalCall \in Hashes => retrievalCall \in asked
        /\ asked # {} => retrievalCall # NoCall

IInv ==
    TypeOK /\ CallsInv /\ AttemptInv /\ DeliveredInv /\ CauseInv /\ OutcomeInv /\ AskedInv

-------------------------------------------------------------------------------
\* Multiplying the number of rounds by the attempts of a round.
LEMMA RoundCost ==
    ASSUME NEW m \in Nat, NEW r \in Nat, NEW max \in Nat
    PROVE  /\ r * m \in Nat
           /\ m * (max + 1) \in Nat
           /\ (r + 1) * m = r * m + m
           /\ r <= max => r * m + m <= m * (max + 1)
<1>1. r * m \in Nat /\ m * (max + 1) \in Nat /\ (r + 1) * m = r * m + m
  OBVIOUS
<1>2. ASSUME r <= max PROVE r * m + m <= m * (max + 1)
  <2>1. PICK k \in Nat : max = r + k
    BY <1>2, max - r \in Nat, max = r + (max - r)
  <2>2. m * (max + 1) = r * m + m + k * m
    BY <2>1
  <2>3. k * m \in Nat
    OBVIOUS
  <2> QED BY <2>2, <2>3, <1>1
<1> QED BY <1>1, <1>2

\* The invariant holds before the first call.
LEMMA InitInv == Init => IInv
<1> SUFFICES ASSUME Init PROVE IInv
  OBVIOUS
<1> USE StreamRetryAssumption, NoCallAssumption DEF Init
<1>1. TypeOK
  <2>1. FlagsOK
    BY DEF FlagsOK
  <2>2. ValuesOK
    BY DEF ValuesOK, ErrKinds, Outcomes
  <2> QED BY <2>1, <2>2 DEF TypeOK, FlagsOK, ValuesOK
<1>2. CallsInv
  <2>1. 0 * MaxAttempts = 0 /\ 0 <= MaxAttempts * (MaxRetrievals + 1)
    BY RoundCost
  <2> QED BY <2>1 DEF CallsInv, SpentInRound, CallsWithinBudget
<1>3. AttemptInv /\ DeliveredInv
  BY DEF AttemptInv, DeliveredInv, NoDuplicateWithinRound
<1>4. CauseInv /\ OutcomeInv /\ AskedInv
  BY DEF CauseInv, OutcomeInv, OwnCancelHidden, AskedInv
<1> QED BY <1>1, <1>2, <1>3, <1>4 DEF IInv

-------------------------------------------------------------------------------
\* Every step keeps the flags Boolean.
LEMMA StepFlags == FlagsOK /\ [Next]_vars => FlagsOK'
<1> SUFFICES ASSUME FlagsOK, [Next]_vars PROVE FlagsOK'
  OBVIOUS
<1> USE DEF FlagsOK, vars, loopVars, attemptVars, envVars, history
<1>1. CASE FirstAttempt \/ BackoffElapsed
  BY <1>1, Zenon DEF FirstAttempt, BackoffElapsed, OpenStream
<1>2. CASE DeliverText \/ DeliverToolCall
  BY <1>2, Zenon DEF DeliverText, DeliverToolCall, Emit
<1>3. CASE ContextCanceled
  BY <1>3, Zenon DEF ContextCanceled
<1>4. CASE StartBackoff \/ BackoffCanceled \/ GiveUp
  BY <1>4, Zenon DEF StartBackoff, BackoffCanceled, GiveUp
<1>5. CASE ResolveRetrieval \/ Complete \/ AbortAfterOutput
  BY <1>5, Zenon DEF ResolveRetrieval, Complete, AbortAfterOutput
<1>6. CASE AbortNonRetryable \/ ScheduleRetry
  BY <1>6, Zenon DEF AbortNonRetryable, ScheduleRetry
<1>7. CASE WithholdRetrieval \/ ClientWriteFails \/ StreamEnds \/ StreamFails
  BY <1>7, Zenon DEF WithholdRetrieval, ClientWriteFails, StreamEnds, StreamFails
<1>8. CASE ClientDisconnects \/ Returned \/ UNCHANGED vars
  BY <1>8, Zenon DEF ClientDisconnects, Returned
<1> QED
  BY <1>1, <1>2, <1>3, <1>4, <1>5, <1>6, <1>7, <1>8 DEF Next, Gateway, Upstream

\* Every step keeps every variable in its type.
LEMMA StepTypeOK == IInv /\ [Next]_vars => TypeOK'
<1> SUFFICES ASSUME TypeOK, AttemptInv, [Next]_vars PROVE ValuesOK'
  BY StepFlags DEF IInv, TypeOK, FlagsOK, ValuesOK
<1> USE StreamRetryAssumption, NoCallAssumption
    DEF TypeOK, ValuesOK, AttemptInv, ErrKinds, Outcomes, vars, loopVars, attemptVars,
        envVars, history, Return
<1>1. CASE FirstAttempt
  BY <1>1 DEF FirstAttempt, OpenStream
<1>2. CASE StartBackoff
  BY <1>2 DEF StartBackoff, AttemptsLeft
<1>3. CASE BackoffElapsed
  BY <1>3 DEF BackoffElapsed, OpenStream
<1>4. CASE BackoffCanceled \/ GiveUp
  BY <1>4 DEF BackoffCanceled, GiveUp
<1>5. CASE ResolveRetrieval
  BY <1>5 DEF ResolveRetrieval, MustResolve
<1>6. CASE Complete \/ AbortAfterOutput \/ AbortNonRetryable
  BY <1>6 DEF Complete, AbortAfterOutput, AbortNonRetryable
<1>7. CASE ScheduleRetry
  BY <1>7 DEF ScheduleRetry
<1>8. CASE DeliverText \/ DeliverToolCall
  BY <1>8 DEF DeliverText, DeliverToolCall, Emit
<1>9. CASE WithholdRetrieval \/ ClientWriteFails
  BY <1>9 DEF WithholdRetrieval, ClientWriteFails
<1>10. CASE StreamEnds \/ StreamFails
  BY <1>10 DEF StreamEnds, StreamFails
<1>11. CASE ClientDisconnects \/ ContextCanceled
  BY <1>11 DEF ClientDisconnects, ContextCanceled
<1>12. CASE Returned \/ UNCHANGED vars
  BY <1>12 DEF Returned
<1> QED
  BY <1>1, <1>2, <1>3, <1>4, <1>5, <1>6, <1>7, <1>8, <1>9, <1>10, <1>11, <1>12
     DEF Next, Gateway, Upstream

-------------------------------------------------------------------------------
\* No call is opened unless the round has an attempt left.
LEMMA StepAttempt == IInv /\ [Next]_vars => AttemptInv'
<1> SUFFICES ASSUME TypeOK, AttemptInv, [Next]_vars PROVE AttemptInv'
  BY DEF IInv
<1> USE StreamRetryAssumption
    DEF TypeOK, AttemptInv, vars, loopVars, attemptVars, envVars, history, Return
<1>1. CASE FirstAttempt \/ StartBackoff \/ BackoffElapsed
  BY <1>1 DEF FirstAttempt, StartBackoff, BackoffElapsed, OpenStream, AttemptsLeft
<1>2. CASE BackoffCanceled \/ GiveUp \/ ResolveRetrieval \/ ScheduleRetry
  BY <1>2 DEF BackoffCanceled, GiveUp, ResolveRetrieval, ScheduleRetry
<1>3. CASE Complete \/ AbortAfterOutput \/ AbortNonRetryable
  BY <1>3 DEF Complete, AbortAfterOutput, AbortNonRetryable
<1>4. CASE Upstream
  BY <1>4 DEF Upstream, DeliverText, DeliverToolCall, WithholdRetrieval,
              ClientWriteFails, StreamEnds, StreamFails
<1>5. CASE ClientDisconnects \/ ContextCanceled \/ Returned \/ UNCHANGED vars
  BY <1>5 DEF ClientDisconnects, ContextCanceled, Returned
<1> QED
  BY <1>1, <1>2, <1>3, <1>4, <1>5 DEF Next, Gateway

\* A round adds at most MaxAttempts calls to those of the rounds before it.
LEMMA StepCalls == IInv /\ [Next]_vars => CallsInv'
<1> SUFFICES ASSUME TypeOK, CallsInv, AttemptInv, [Next]_vars PROVE CallsInv'
  BY DEF IInv
<1> USE StreamRetryAssumption
    DEF TypeOK, vars, loopVars, attemptVars, envVars, history, Return
<1> DEFINE Cost == retrievals * MaxAttempts
<1>1. /\ Cost \in Nat
      /\ MaxAttempts * (MaxRetrievals + 1) \in Nat
      /\ (retrievals + 1) * MaxAttempts = Cost + MaxAttempts
      /\ Cost + MaxAttempts <= MaxAttempts * (MaxRetrievals + 1)
  BY RoundCost
<1>2. CASE FirstAttempt \/ BackoffElapsed
  <2>1. /\ attempt < MaxAttempts
        /\ calls <= Cost + attempt
    BY <1>2 DEF FirstAttempt, BackoffElapsed, AttemptInv, CallsInv, SpentInRound
  <2>2. calls' = calls + 1 /\ retrievals' = retrievals /\ attempt' = attempt /\ pc' = "streaming"
    BY <1>2 DEF FirstAttempt, BackoffElapsed, OpenStream
  <2> QED BY <2>1, <2>2, <1>1 DEF CallsInv, SpentInRound, CallsWithinBudget
<1>3. CASE ResolveRetrieval
  <2>1. /\ calls <= Cost + (attempt + 1)
        /\ attempt < MaxAttempts
    BY <1>3 DEF ResolveRetrieval, CallsInv, SpentInRound, AttemptInv
  <2>2. /\ retrievals' = retrievals + 1
        /\ attempt' = 0 /\ calls' = calls /\ pc' = "head"
    BY <1>3 DEF ResolveRetrieval
  <2>3. retrievals' * MaxAttempts = Cost + MaxAttempts
    BY <2>2, <1>1
  <2>4. calls' <= retrievals' * MaxAttempts + attempt'
    BY <2>1, <2>2, <2>3, <1>1
  <2> QED BY <2>2, <2>4, CallsInv DEF CallsInv, SpentInRound, CallsWithinBudget
<1>4. CASE ScheduleRetry
  BY <1>4 DEF ScheduleRetry, CallsInv, SpentInRound, CallsWithinBudget
<1>5. CASE StartBackoff \/ BackoffCanceled \/ GiveUp
  BY <1>5 DEF StartBackoff, BackoffCanceled, GiveUp, CallsInv, SpentInRound,
              CallsWithinBudget
<1>6. CASE Complete \/ AbortAfterOutput \/ AbortNonRetryable
  BY <1>6 DEF Complete, AbortAfterOutput, AbortNonRetryable, CallsInv,
              SpentInRound, CallsWithinBudget
<1>7. CASE Upstream
  BY <1>7 DEF Upstream, DeliverText, DeliverToolCall, Emit, WithholdRetrieval,
              ClientWriteFails, StreamEnds, StreamFails, CallsInv, SpentInRound,
              CallsWithinBudget
<1>8. CASE ClientDisconnects \/ ContextCanceled \/ Returned \/ UNCHANGED vars
  BY <1>8 DEF ClientDisconnects, ContextCanceled, Returned, CallsInv,
              SpentInRound, CallsWithinBudget
<1> QED
  BY <1>2, <1>3, <1>4, <1>5, <1>6, <1>7, <1>8 DEF Next, Gateway

\* Output enters the current round under the current attempt, and neither is
\* left for another attempt of the round once there is some.
LEMMA StepDelivered == IInv /\ [Next]_vars => DeliveredInv'
<1> SUFFICES ASSUME TypeOK, DeliveredInv, CauseInv, [Next]_vars PROVE DeliveredInv'
  BY DEF IInv
<1> USE DEF TypeOK, DeliveredInv, NoDuplicateWithinRound, vars, loopVars,
            attemptVars, envVars, history, Return
<1>1. CASE FirstAttempt \/ BackoffElapsed
  BY <1>1 DEF FirstAttempt, BackoffElapsed, OpenStream
<1>2. CASE DeliverText \/ DeliverToolCall
  <2>1. /\ delivered' = delivered \union {[round |-> retrievals, attempt |-> attempt]}
        /\ retrievals' = retrievals /\ attempt' = attempt /\ pc' = "streaming"
    BY <1>2 DEF DeliverText, DeliverToolCall, Emit
  <2>2. gotChunk'
    BY <1>2 DEF DeliverText, DeliverToolCall, Emit
  <2> QED BY <2>1, <2>2
<1>3. CASE ResolveRetrieval
  <2>1. /\ retrievals' = retrievals + 1
        /\ delivered' = delivered
    BY <1>3 DEF ResolveRetrieval
  <2>2. \A d \in delivered : d.round \in Nat /\ d.round <= retrievals
    OBVIOUS
  <2> QED BY <2>1, <2>2
<1>4. CASE ScheduleRetry
  <2>1. /\ ~gotChunk
        /\ retrievals' = retrievals
        /\ delivered' = delivered
    BY <1>4 DEF ScheduleRetry, OutputShown
  <2> QED BY <2>1
<1>5. CASE StartBackoff \/ BackoffCanceled \/ GiveUp
  BY <1>5 DEF StartBackoff, BackoffCanceled, GiveUp
<1>6. CASE Complete \/ AbortAfterOutput \/ AbortNonRetryable
  BY <1>6 DEF Complete, AbortAfterOutput, AbortNonRetryable
<1>7. CASE WithholdRetrieval \/ ClientWriteFails \/ StreamEnds \/ StreamFails
  BY <1>7 DEF WithholdRetrieval, ClientWriteFails, StreamEnds, StreamFails
<1>8. CASE ClientDisconnects \/ ContextCanceled \/ Returned \/ UNCHANGED vars
  BY <1>8 DEF ClientDisconnects, ContextCanceled, Returned
<1> QED
  BY <1>1, <1>2, <1>3, <1>4, <1>5, <1>6, <1>7, <1>8 DEF Next, Gateway, Upstream

\* The detector fires on delivered text only, a canceled stream has someone
\* who canceled it, and what is retried failed retryably without output.
LEMMA StepCause == IInv /\ [Next]_vars => CauseInv'
<1> SUFFICES ASSUME TypeOK, CauseInv, [Next]_vars PROVE CauseInv'
  BY DEF IInv
<1> USE DEF TypeOK, CauseInv, vars, loopVars, attemptVars, envVars, history, Return
<1>1. CASE FirstAttempt \/ BackoffElapsed
  BY <1>1 DEF FirstAttempt, BackoffElapsed, OpenStream
<1>2. CASE DeliverText \/ DeliverToolCall
  BY <1>2 DEF DeliverText, DeliverToolCall, Emit
<1>3. CASE ResolveRetrieval
  BY <1>3 DEF ResolveRetrieval
<1>4. CASE ScheduleRetry
  BY <1>4 DEF ScheduleRetry, OutputShown, IsRetryable
<1>5. CASE StartBackoff \/ BackoffCanceled \/ GiveUp
  BY <1>5 DEF StartBackoff, BackoffCanceled, GiveUp
<1>6. CASE Complete \/ AbortAfterOutput \/ AbortNonRetryable
  BY <1>6 DEF Complete, AbortAfterOutput, AbortNonRetryable
<1>7. CASE WithholdRetrieval \/ ClientWriteFails \/ StreamEnds
  BY <1>7 DEF WithholdRetrieval, ClientWriteFails, StreamEnds
<1>8. CASE StreamFails
  BY <1>8 DEF StreamFails
<1>9. CASE ClientDisconnects \/ ContextCanceled \/ Returned \/ UNCHANGED vars
  BY <1>9 DEF ClientDisconnects, ContextCanceled, Returned
<1> QED
  BY <1>1, <1>2, <1>3, <1>4, <1>5, <1>6, <1>7, <1>8, <1>9 DEF Next, Gateway, Upstream

\* What is returned has its cause in the last attempt.
LEMMA StepOutcome == IInv /\ [Next]_vars => OutcomeInv'
<1> SUFFICES ASSUME TypeOK, CauseInv, OutcomeInv, [Next]_vars PROVE OutcomeInv'
  BY DEF IInv
<1> USE DEF TypeOK, OutcomeInv, OwnCancelHidden, vars, loopVars,
            attemptVars, envVars, history, Return
<1>1. CASE FirstAttempt \/ BackoffElapsed
  BY <1>1 DEF FirstAttempt, BackoffElapsed, OpenStream
<1>2. CASE ResolveRetrieval
  BY <1>2 DEF ResolveRetrieval, MustResolve
<1>3. CASE Complete
  <2>1. /\ pc' = "done"
        /\ outcome' \in {"success", "loop_stop"}
        /\ UNCHANGED <<resolved, retrievals, iterErr, ctxDone>>
    BY <1>3 DEF Complete
  <2> QED BY <2>1
<1>4. CASE AbortAfterOutput \/ AbortNonRetryable
  BY <1>4 DEF AbortAfterOutput, AbortNonRetryable, EndedWell, CauseInv
<1>5. CASE StartBackoff \/ BackoffCanceled \/ GiveUp \/ ScheduleRetry
  BY <1>5 DEF StartBackoff, BackoffCanceled, GiveUp, ScheduleRetry
<1>6. CASE Upstream
  BY <1>6 DEF Upstream, DeliverText, DeliverToolCall, Emit, WithholdRetrieval,
              ClientWriteFails, StreamEnds, StreamFails
<1>7. CASE ClientDisconnects \/ ContextCanceled \/ Returned \/ UNCHANGED vars
  BY <1>7 DEF ClientDisconnects, ContextCanceled, Returned
<1> QED
  BY <1>1, <1>2, <1>3, <1>4, <1>5, <1>6, <1>7 DEF Next, Gateway

\* A retrieval call is kept together with the record that it was asked for, and
\* both are forgotten when the next upstream call is opened.
LEMMA StepAsked == IInv /\ [Next]_vars => AskedInv'
<1> SUFFICES ASSUME TypeOK, AskedInv, [Next]_vars PROVE AskedInv'
  BY DEF IInv
<1> USE NoCallAssumption
    DEF TypeOK, AskedInv, vars, loopVars, attemptVars, envVars, history, Return
<1>1. CASE FirstAttempt \/ BackoffElapsed
  BY <1>1 DEF FirstAttempt, BackoffElapsed, OpenStream
<1>2. CASE DeliverText \/ DeliverToolCall
  BY <1>2 DEF DeliverText, DeliverToolCall, Emit
<1>3. CASE WithholdRetrieval
  BY <1>3 DEF WithholdRetrieval
<1>4. CASE StreamEnds \/ StreamFails \/ ClientWriteFails
  BY <1>4 DEF StreamEnds, StreamFails, ClientWriteFails
<1>5. CASE StartBackoff \/ BackoffCanceled \/ GiveUp \/ ResolveRetrieval \/ ScheduleRetry
  BY <1>5 DEF StartBackoff, BackoffCanceled, GiveUp, ResolveRetrieval, ScheduleRetry
<1>6. CASE Complete \/ AbortAfterOutput \/ AbortNonRetryable
  BY <1>6 DEF Complete, AbortAfterOutput, AbortNonRetryable
<1>7. CASE ClientDisconnects \/ ContextCanceled \/ Returned \/ UNCHANGED vars
  BY <1>7 DEF ClientDisconnects, ContextCanceled, Returned
<1> QED
  BY <1>1, <1>2, <1>3, <1>4, <1>5, <1>6, <1>7 DEF Next, Gateway, Upstream

\* Only ResolveRetrieval answers a call, and only Complete ends a request well.
LEMMA StepAnswers == IInv /\ [Next]_vars => [AnswersWhatWasAsked]_vars
<1> SUFFICES ASSUME TypeOK, OutcomeInv, AskedInv, [Next]_vars, ~ UNCHANGED vars
             PROVE  AnswersWhatWasAsked
  BY DEF IInv
<1> USE NoCallAssumption
    DEF TypeOK, OutcomeInv, AskedInv, AnswersWhatWasAsked, loopVars, attemptVars,
        envVars, history, Return
<1>1. CASE FirstAttempt \/ BackoffElapsed \/ StartBackoff \/ ScheduleRetry
  BY <1>1 DEF FirstAttempt, BackoffElapsed, OpenStream, StartBackoff, ScheduleRetry
<1>2. CASE ResolveRetrieval
  <2>1. /\ resolved' = Append(resolved, retrievalCall)
        /\ pc' = "head"
        /\ retrievalCall \in asked
    BY <1>2 DEF ResolveRetrieval, MustResolve
  <2>2. resolved'[Len(resolved')] = retrievalCall
    BY <2>1
  <2> QED BY <2>1, <2>2
<1>3. CASE Complete
  <2>1. resolved' = resolved
    BY <1>3 DEF Complete
  <2>2. (iterErr = "nil" /\ retrievals < MaxRetrievals) => retrievalCall \notin Hashes
    BY <1>3 DEF Complete, MustResolve
  <2>3. asked # {} => retrievalCall # NoCall
    BY <1>3 DEF Complete
  <2> QED BY <2>1, <2>2, <2>3
<1>4. CASE BackoffCanceled \/ GiveUp \/ AbortAfterOutput \/ AbortNonRetryable
  BY <1>4 DEF BackoffCanceled, GiveUp, AbortAfterOutput, AbortNonRetryable
<1>5. CASE Upstream
  BY <1>5 DEF Upstream, DeliverText, DeliverToolCall, Emit, WithholdRetrieval,
              ClientWriteFails, StreamEnds, StreamFails
<1>6. CASE ClientDisconnects \/ ContextCanceled
  BY <1>6 DEF ClientDisconnects, ContextCanceled
<1>7. ~ Returned
  BY DEF Returned
<1> QED
  BY <1>1, <1>2, <1>3, <1>4, <1>5, <1>6, <1>7 DEF Next, Gateway

-------------------------------------------------------------------------------
\* The inductive invariant holds in every reachable state.
THEOREM Invariance == Spec => []IInv
<1>1. Init => IInv
  BY InitInv
<1>2. IInv /\ [Next]_vars => IInv'
  BY StepTypeOK, StepCalls, StepAttempt, StepDelivered, StepCause, StepOutcome, StepAsked
     DEF IInv
<1> QED BY <1>1, <1>2, PTL DEF Spec

\* Every variable of runStreamWithRetry stays in its type, whatever the limits.
THEOREM TypeCorrect == Spec => []TypeOK
<1>1. IInv => TypeOK
  BY DEF IInv
<1> QED BY <1>1, Invariance, PTL

\* A request costs at most MaxAttempts * (MaxRetrievals + 1) upstream calls.
THEOREM CostBounded == Spec => []CallsWithinBudget
<1>1. IInv => CallsWithinBudget
  BY DEF IInv, CallsInv
<1> QED BY <1>1, Invariance, PTL

\* No retry repeats output of its round.
THEOREM NoDuplicates == Spec => []NoDuplicateWithinRound
<1>1. IInv => NoDuplicateWithinRound
  BY DEF IInv, DeliveredInv
<1> QED BY <1>1, Invariance, PTL

\* The loop detector's cancel never surfaces as an error.
THEOREM OwnCancelNeverSurfaces == Spec => []OwnCancelHidden
<1>1. IInv => OwnCancelHidden
  BY DEF IInv, OutcomeInv
<1> QED BY <1>1, Invariance, PTL

\* Each answer is to a call of the upstream call that has just ended; and with
\* retrievals left, the last usable call of a stream that ended by itself is
\* answered unless an unusable one came after it.
THEOREM RetrievalsAnswered == Spec => RetrievalsAsAsked
<1>1. IInv /\ [Next]_vars => [AnswersWhatWasAsked]_vars
  BY StepAnswers
<1> QED BY <1>1, Invariance, PTL DEF Spec, RetrievalsAsAsked

-------------------------------------------------------------------------------
(* The refinement: every step of the loop is a step of the exchange or     *)
(* changes nothing the exchange sees.                                      *)

\* The initial states agree.
LEMMA RefineInit == Init => Exchange!XInit
  BY DEF Init, Exchange!XInit

\* Each action maps to the exchange step of the same meaning, or to a stutter.
LEMMA RefineStep == IInv /\ [Next]_vars => [Exchange!XNext]_(Exchange!xvars)
<1> SUFFICES ASSUME IInv, [Next]_vars PROVE [Exchange!XNext]_(Exchange!xvars)
  OBVIOUS
<1> USE StreamRetryAssumption
    DEF IInv, TypeOK, AttemptInv, CauseInv, OutcomeInv, vars, loopVars, attemptVars,
        envVars, history, Return, Outcomes, ErrKinds
<1>1. CASE FirstAttempt \/ BackoffElapsed
  <2>1. Exchange!Issue
    BY <1>1 DEF FirstAttempt, BackoffElapsed, OpenStream, Exchange!Issue
  <2> QED BY <2>1 DEF Exchange!XNext
<1>2. CASE DeliverText \/ DeliverToolCall
  <2>1. Exchange!Deliver
    BY <1>2 DEF DeliverText, DeliverToolCall, Emit, Exchange!Deliver
  <2> QED BY <2>1 DEF Exchange!XNext
<1>3. CASE ResolveRetrieval
  <2>1. Exchange!NextRound
    BY <1>3 DEF ResolveRetrieval, MustResolve, Exchange!NextRound
  <2> QED BY <2>1 DEF Exchange!XNext
<1>4. CASE ScheduleRetry
  <2>1. Exchange!Fail
    BY <1>4 DEF ScheduleRetry, OutputShown, Exchange!Fail
  <2> QED BY <2>1 DEF Exchange!XNext
<1>5. CASE Complete \/ AbortAfterOutput \/ AbortNonRetryable \/ ClientWriteFails
  <2>1. outcome' \in {"success", "loop_stop", "partial", "fatal", "client_gone"}
    BY <1>5 DEF Complete, AbortAfterOutput, AbortNonRetryable, ClientWriteFails
  <2>2. Exchange!Conclude(outcome')
    BY <1>5, <2>1 DEF Complete, AbortAfterOutput, AbortNonRetryable, ClientWriteFails,
                      OutputShown, Exchange!Conclude
  <2> QED BY <2>1, <2>2 DEF Exchange!XNext, Exchange!Results
<1>6. CASE BackoffCanceled \/ GiveUp
  <2>1. outcome' \in {"exhausted", "canceled"}
    BY <1>6 DEF BackoffCanceled, GiveUp
  <2>2. Exchange!Conclude(outcome')
    BY <1>6, <2>1 DEF BackoffCanceled, GiveUp, AttemptsLeft, Exchange!Conclude
  <2> QED BY <2>1, <2>2 DEF Exchange!XNext, Exchange!Results
<1>7. CASE StartBackoff \/ WithholdRetrieval \/ StreamEnds \/ StreamFails
  BY <1>7 DEF StartBackoff, WithholdRetrieval, StreamEnds, StreamFails, Exchange!xvars
<1>8. CASE ClientDisconnects \/ ContextCanceled \/ Returned \/ UNCHANGED vars
  BY <1>8 DEF ClientDisconnects, ContextCanceled, Returned, Exchange!xvars
<1> QED
  BY <1>1, <1>2, <1>3, <1>4, <1>5, <1>6, <1>7, <1>8 DEF Next, Gateway, Upstream

\* runStreamWithRetry implements UpstreamExchange.
THEOREM Refinement == Spec => ImplementsExchange
<1>1. Init => Exchange!XInit
  BY RefineInit
<1>2. IInv /\ [Next]_vars => [Exchange!XNext]_(Exchange!xvars)
  BY RefineStep
<1> QED
  BY <1>1, <1>2, Invariance, PTL DEF Spec, ImplementsExchange, Exchange!XSpec
===============================================================================
