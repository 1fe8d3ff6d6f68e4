------------------------- MODULE NonStreamRetryProofs -------------------------
(***************************************************************************)
(* Proofs about NonStreamRetry for every MaxAttempts, MaxRetrievals and    *)
(* set of hashes.                                                          *)
(***************************************************************************)
EXTENDS NonStreamRetry, TLAPS

\* A call is made, and its answer judged, only while the round has attempts
\* left; a back-off follows at least one of them.
AttemptInv ==
    /\ pc \in {"waiting", "calling", "deciding"} => attempt < MaxAttempts
    /\ pc = "waiting" => attempt > 0

\* What stands at the head of a later attempt failed in a way worth retrying.
RetriedInv ==
    /\ pc \in {"head", "waiting"} /\ attempt > 0 => err = "retryable"
    /\ pc \in {"head", "waiting"} /\ attempt = 0 => err = "nil"
    /\ pc \in {"head", "waiting", "calling"} => err # "canceled"

\* Calls made in the current round.
SpentInRound == IF pc \in {"calling", "deciding"} THEN attempt + 1 ELSE attempt

\* Earlier rounds cost at most MaxAttempts calls each.
CallsInv ==
    /\ pc # "done" => calls <= retrievals * MaxAttempts + SpentInRound
    /\ calls <= MaxAttempts * (MaxRetrievals + 1)

OutcomeInv ==
    /\ pc = "done" <=> outcome # "pending"
    /\ Len(resolved) = retrievals

IInv == TypeOK /\ AttemptInv /\ RetriedInv /\ CallsInv /\ OutcomeInv

-------------------------------------------------------------------------------
\* Multiplying the number of rounds by the attempts of a round.
LEMMA RoundCost ==
    ASSUME NEW m \in Nat, NEW r \in Nat, NEW max \in Nat
    PROVE  /\ r * m \in Nat
           /\ m * (max + 1) \in Nat
           /\ (r + 1) * m = r * m + m
           /\ r <= max => r * m + m <= m * (max + 1)
<1>1. r * m \in Nat /\ m * (max + 1) \in Nat /\ (r + 1) * m = r * m + m
  OBVIOUS
<1>2. ASSUME r <= max PROVE r * m + m <= m * (max + 1)
  <2>1. PICK k \in Nat : max = r + k
    BY <1>2, max - r \in Nat, max = r + (max - r)
  <2>2. m * (max + 1) = r * m + m + k * m
    BY <2>1
  <2>3. k * m \in Nat
    OBVIOUS
  <2> QED BY <2>2, <2>3, <1>1
<1> QED BY <1>1, <1>2

\* The invariant holds before the first call.
LEMMA InitInv == Init => IInv
<1> SUFFICES ASSUME Init PROVE IInv
  OBVIOUS
<1> USE NonStreamAssumption DEF Init
<1>1. ctxDone \in BOOLEAN
  OBVIOUS
<1>2. TypeOK
  BY <1>1 DEF TypeOK, ErrKinds
<1>3. 0 * MaxAttempts = 0 /\ 0 <= MaxAttempts * (MaxRetrievals + 1)
  BY RoundCost
<1>4. AttemptInv /\ RetriedInv /\ CallsInv /\ OutcomeInv
  BY <1>3 DEF AttemptInv, RetriedInv, CallsInv, SpentInRound, OutcomeInv
<1> QED BY <1>2, <1>4 DEF IInv

-------------------------------------------------------------------------------
\* The context is canceled or it is not.
LEMMA StepContext == ctxDone \in BOOLEAN /\ [Next]_vars => ctxDone' \in BOOLEAN
<1> SUFFICES ASSUME ctxDone \in BOOLEAN, [Next]_vars PROVE ctxDone' \in BOOLEAN
  OBVIOUS
<1> USE DEF vars, loopVars
<1>1. CASE FirstAttempt \/ BackoffElapsed
  BY <1>1, Zenon DEF FirstAttempt, BackoffElapsed, CallGenerate
<1>2. CASE StartBackoff \/ BackoffCanceled \/ GiveUp
  BY <1>2, Zenon DEF StartBackoff, BackoffCanceled, GiveUp
<1>3. CASE ResolveRetrieval \/ ReturnAnswer \/ AbortNonRetryable \/ ScheduleRetry
  BY <1>3, Zenon DEF ResolveRetrieval, ReturnAnswer, AbortNonRetryable, ScheduleRetry
<1>4. CASE Upstream
  BY <1>4, Zenon DEF Upstream, UpstreamAnswers, UpstreamFails
<1>5. CASE ContextCanceled
  BY <1>5, Zenon DEF ContextCanceled
<1>6. CASE Returned \/ UNCHANGED vars
  BY <1>6, Zenon DEF Returned
<1> QED BY <1>1, <1>2, <1>3, <1>4, <1>5, <1>6 DEF Next, Gateway

\* Every step keeps every variable in its type.
LEMMA StepTypeOK == IInv /\ [Next]_vars => TypeOK'
<1> SUFFICES ASSUME TypeOK, AttemptInv, [Next]_vars PROVE TypeOK'
  BY DEF IInv
<1> USE NonStreamAssumption
    DEF TypeOK, AttemptInv, ErrKinds, vars, loopVars, Return
<1>1. CASE FirstAttempt \/ BackoffElapsed
  BY <1>1, StepContext DEF FirstAttempt, BackoffElapsed, CallGenerate
<1>2. CASE StartBackoff \/ BackoffCanceled \/ GiveUp
  BY <1>2, StepContext DEF StartBackoff, BackoffCanceled, GiveUp
<1>3. CASE ResolveRetrieval
  BY <1>3, StepContext DEF ResolveRetrieval, MustResolve
<1>4. CASE ReturnAnswer \/ AbortNonRetryable
  BY <1>4, StepContext DEF ReturnAnswer, AbortNonRetryable
<1>5. CASE ScheduleRetry
  BY <1>5, StepContext DEF ScheduleRetry
<1>6. CASE Upstream
  BY <1>6, StepContext DEF Upstream, UpstreamAnswers, UpstreamFails
<1>7. CASE ContextCanceled \/ Returned \/ UNCHANGED vars
  BY <1>7, StepContext DEF ContextCanceled, Returned
<1> QED BY <1>1, <1>2, <1>3, <1>4, <1>5, <1>6, <1>7 DEF Next, Gateway

\* No call is opened unless the round has an attempt left.
LEMMA StepAttempt == IInv /\ [Next]_vars => AttemptInv'
<1> SUFFICES ASSUME TypeOK, AttemptInv, [Next]_vars PROVE AttemptInv'
  BY DEF IInv
<1> USE NonStreamAssumption DEF TypeOK, AttemptInv, vars, loopVars, Return
<1>1. CASE FirstAttempt \/ StartBackoff \/ BackoffElapsed
  BY <1>1 DEF FirstAttempt, StartBackoff, BackoffElapsed, CallGenerate, AttemptsLeft
<1>2. CASE BackoffCanceled \/ GiveUp \/ ReturnAnswer \/ AbortNonRetryable
  BY <1>2 DEF BackoffCanceled, GiveUp, ReturnAnswer, AbortNonRetryable
<1>3. CASE ResolveRetrieval \/ ScheduleRetry
  BY <1>3 DEF ResolveRetrieval, ScheduleRetry
<1>4. CASE Upstream
  BY <1>4 DEF Upstream, UpstreamAnswers, UpstreamFails
<1>5. CASE ContextCanceled \/ Returned \/ UNCHANGED vars
  BY <1>5 DEF ContextCanceled, Returned
<1> QED BY <1>1, <1>2, <1>3, <1>4, <1>5 DEF Next, Gateway

\* A reported cancellation or a fatal error leads to the end, not to the head.
LEMMA StepRetried == IInv /\ [Next]_vars => RetriedInv'
<1> SUFFICES ASSUME TypeOK, RetriedInv, [Next]_vars PROVE RetriedInv'
  BY DEF IInv
<1> USE NonStreamAssumption DEF TypeOK, RetriedInv, vars, loopVars, Return
<1>1. CASE FirstAttempt \/ StartBackoff \/ BackoffElapsed
  BY <1>1 DEF FirstAttempt, StartBackoff, BackoffElapsed, CallGenerate
<1>2. CASE BackoffCanceled \/ GiveUp \/ ReturnAnswer \/ AbortNonRetryable
  BY <1>2 DEF BackoffCanceled, GiveUp, ReturnAnswer, AbortNonRetryable
<1>3. CASE ResolveRetrieval
  BY <1>3 DEF ResolveRetrieval, MustResolve
<1>4. CASE ScheduleRetry
  BY <1>4 DEF ScheduleRetry, IsRetryable
<1>5. CASE Upstream
  BY <1>5 DEF Upstream, UpstreamAnswers, UpstreamFails
<1>6. CASE ContextCanceled \/ Returned \/ UNCHANGED vars
  BY <1>6 DEF ContextCanceled, Returned
<1> QED BY <1>1, <1>2, <1>3, <1>4, <1>5, <1>6 DEF Next, Gateway

\* A round adds at most MaxAttempts calls to those of the rounds before it.
LEMMA StepCalls == IInv /\ [Next]_vars => CallsInv'
<1> SUFFICES ASSUME TypeOK, CallsInv, AttemptInv, [Next]_vars PROVE CallsInv'
  BY DEF IInv
<1> USE NonStreamAssumption DEF TypeOK, vars, loopVars, Return
<1> DEFINE Cost == retrievals * MaxAttempts
<1>1. /\ Cost \in Nat
      /\ MaxAttempts * (MaxRetrievals + 1) \in Nat
      /\ (retrievals + 1) * MaxAttempts = Cost + MaxAttempts
      /\ Cost + MaxAttempts <= MaxAttempts * (MaxRetrievals + 1)
  BY RoundCost
<1>2. CASE FirstAttempt \/ BackoffElapsed
  <2>1. attempt < MaxAttempts /\ calls <= Cost + attempt
    BY <1>2 DEF FirstAttempt, BackoffElapsed, AttemptInv, CallsInv, SpentInRound
  <2>2. calls' = calls + 1 /\ retrievals' = retrievals /\ attempt' = attempt /\ pc' = "calling"
    BY <1>2 DEF FirstAttempt, BackoffElapsed, CallGenerate
  <2> QED BY <2>1, <2>2, <1>1 DEF CallsInv, SpentInRound
<1>3. CASE ResolveRetrieval
  <2>1. calls <= Cost + (attempt + 1) /\ attempt < MaxAttempts
    BY <1>3 DEF ResolveRetrieval, CallsInv, SpentInRound, AttemptInv
  <2>2. /\ retrievals' = retrievals + 1
        /\ attempt' = 0 /\ calls' = calls /\ pc' = "head"
    BY <1>3 DEF ResolveRetrieval
  <2>3. retrievals' * MaxAttempts = Cost + MaxAttempts
    BY <2>2, <1>1
  <2>4. calls' <= retrievals' * MaxAttempts + attempt'
    BY <2>1, <2>2, <2>3, <1>1
  <2> QED BY <2>2, <2>4, CallsInv DEF CallsInv, SpentInRound
<1>4. CASE ScheduleRetry \/ StartBackoff
  BY <1>4 DEF ScheduleRetry, StartBackoff, CallsInv, SpentInRound
<1>5. CASE BackoffCanceled \/ GiveUp \/ ReturnAnswer \/ AbortNonRetryable
  BY <1>5 DEF BackoffCanceled, GiveUp, ReturnAnswer, AbortNonRetryable, CallsInv
<1>6. CASE Upstream
  BY <1>6 DEF Upstream, UpstreamAnswers, UpstreamFails, CallsInv, SpentInRound
<1>7. CASE ContextCanceled \/ Returned \/ UNCHANGED vars
  BY <1>7 DEF ContextCanceled, Returned, CallsInv, SpentInRound
<1> QED BY <1>2, <1>3, <1>4, <1>5, <1>6, <1>7 DEF Next, Gateway

\* The loop ends with a result, once, and counts what it has answered.
LEMMA StepOutcome == IInv /\ [Next]_vars => OutcomeInv'
<1> SUFFICES ASSUME TypeOK, OutcomeInv, [Next]_vars PROVE OutcomeInv'
  BY DEF IInv
<1> USE DEF TypeOK, OutcomeInv, vars, loopVars, Return
<1>1. CASE FirstAttempt \/ BackoffElapsed \/ StartBackoff
  BY <1>1 DEF FirstAttempt, BackoffElapsed, StartBackoff, CallGenerate
<1>2. CASE BackoffCanceled \/ GiveUp \/ ReturnAnswer \/ AbortNonRetryable
  BY <1>2 DEF BackoffCanceled, GiveUp, ReturnAnswer, AbortNonRetryable
<1>3. CASE ResolveRetrieval \/ ScheduleRetry
  BY <1>3 DEF ResolveRetrieval, ScheduleRetry, MustResolve
<1>4. CASE Upstream
  BY <1>4 DEF Upstream, UpstreamAnswers, UpstreamFails
<1>5. CASE ContextCanceled \/ Returned \/ UNCHANGED vars
  BY <1>5 DEF ContextCanceled, Returned
<1> QED BY <1>1, <1>2, <1>3, <1>4, <1>5 DEF Next, Gateway

-------------------------------------------------------------------------------
\* The inductive invariant of runNonStreamWithRetry holds in every state.
THEOREM Invariance == Spec => []IInv
<1>1. Init => IInv
  BY InitInv
<1>2. IInv /\ [Next]_vars => IInv'
  BY StepTypeOK, StepAttempt, StepRetried, StepCalls, StepOutcome DEF IInv
<1> QED BY <1>1, <1>2, PTL DEF Spec

\* Every variable of runNonStreamWithRetry stays in its type.
THEOREM TypeCorrect == Spec => []TypeOK
<1>1. IInv => TypeOK
  BY DEF IInv
<1> QED BY <1>1, Invariance, PTL

\* Once a call has reported the cancellation no other is made: the error that
\* stands when a call is opened is that of a retryable failure, or none.
THEOREM CancelEndsTheCalls == Spec => NoCallAfterCancel
<1>1. IInv /\ [Next]_vars => [calls' # calls => err # "canceled"]_vars
  <2> SUFFICES ASSUME RetriedInv, [Next]_vars, calls' # calls PROVE err # "canceled"
    BY DEF IInv
  <2>1. CASE FirstAttempt \/ BackoffElapsed
    BY <2>1 DEF FirstAttempt, BackoffElapsed, RetriedInv
  <2>2. CASE StartBackoff \/ BackoffCanceled \/ GiveUp \/ ResolveRetrieval
    BY <2>2 DEF StartBackoff, BackoffCanceled, GiveUp, ResolveRetrieval
  <2>3. CASE ReturnAnswer \/ AbortNonRetryable \/ ScheduleRetry
    BY <2>3 DEF ReturnAnswer, AbortNonRetryable, ScheduleRetry
  <2>4. CASE Upstream \/ ContextCanceled
    BY <2>4 DEF Upstream, UpstreamAnswers, UpstreamFails, ContextCanceled
  <2>5. CASE Returned \/ UNCHANGED vars
    BY <2>5 DEF Returned, vars
  <2> QED BY <2>1, <2>2, <2>3, <2>4, <2>5 DEF Next, Gateway
<1> QED BY <1>1, Invariance, PTL DEF Spec, NoCallAfterCancel

-------------------------------------------------------------------------------
(* The refinement. *)

\* The initial states agree.
LEMMA RefineInit == Init => Exchange!XInit
  BY DEF Init, Exchange!XInit

\* A call of Generate, from its opening to the decision on its answer, is one
\* call of the exchange; each other action is the exchange's step of the same
\* meaning, or a stutter.
LEMMA RefineStep == IInv /\ [Next]_vars => [Exchange!XNext]_(Exchange!xvars)
<1> SUFFICES ASSUME IInv, [Next]_vars PROVE [Exchange!XNext]_(Exchange!xvars)
  OBVIOUS
<1> USE NonStreamAssumption
    DEF IInv, TypeOK, AttemptInv, OutcomeInv, vars, loopVars, Return
<1>1. CASE FirstAttempt \/ BackoffElapsed
  <2>1. Exchange!Issue
    BY <1>1 DEF FirstAttempt, BackoffElapsed, CallGenerate, Exchange!Issue
  <2> QED BY <2>1 DEF Exchange!XNext
<1>2. CASE ResolveRetrieval
  <2>1. Exchange!NextRound
    BY <1>2 DEF ResolveRetrieval, MustResolve, Exchange!NextRound
  <2> QED BY <2>1 DEF Exchange!XNext
<1>3. CASE ScheduleRetry
  <2>1. Exchange!Fail
    BY <1>3 DEF ScheduleRetry, Exchange!Fail
  <2> QED BY <2>1 DEF Exchange!XNext
<1>4. CASE ReturnAnswer \/ AbortNonRetryable
  <2>1. outcome' \in {"success", "fatal"}
    BY <1>4 DEF ReturnAnswer, AbortNonRetryable
  <2>2. Exchange!Conclude(outcome')
    BY <1>4, <2>1 DEF ReturnAnswer, AbortNonRetryable, Exchange!Conclude
  <2> QED BY <2>1, <2>2 DEF Exchange!XNext, Exchange!Results
<1>5. CASE BackoffCanceled \/ GiveUp
  <2>1. outcome' \in {"exhausted", "canceled"}
    BY <1>5 DEF BackoffCanceled, GiveUp
  <2>2. Exchange!Conclude(outcome')
    BY <1>5, <2>1 DEF BackoffCanceled, GiveUp, AttemptsLeft, Exchange!Conclude
  <2> QED BY <2>1, <2>2 DEF Exchange!XNext, Exchange!Results
<1>6. CASE StartBackoff \/ Upstream
  BY <1>6 DEF StartBackoff, Upstream, UpstreamAnswers, UpstreamFails, Exchange!xvars
<1>7. CASE ContextCanceled \/ Returned \/ UNCHANGED vars
  BY <1>7 DEF ContextCanceled, Returned, Exchange!xvars
<1> QED BY <1>1, <1>2, <1>3, <1>4, <1>5, <1>6, <1>7 DEF Next, Gateway

\* runNonStreamWithRetry implements UpstreamExchange.
THEOREM Refinement == Spec => ImplementsExchange
<1>1. Init => Exchange!XInit
  BY RefineInit
<1>2. IInv /\ [Next]_vars => [Exchange!XNext]_(Exchange!xvars)
  BY RefineStep
<1> QED
  BY <1>1, <1>2, Invariance, PTL DEF Spec, ImplementsExchange, Exchange!XSpec
===============================================================================
