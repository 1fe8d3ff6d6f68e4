-------------------------- MODULE StreamDeliveryProofs --------------------------
(***************************************************************************)
(* Proofs about StreamDelivery: the delivered stream is still the retry    *)
(* loop's, a repetition is caught, the chat stream is well formed, and an  *)
(* answer that ends well has the whole text and each call once.            *)
(*                                                                         *)
(* The inductive invariant is the conjunction of Loop!TypeOK, WireTypes,   *)
(* DetectorInv, ShapeInv, TextInv, MadeInv and ShownInv, each defined and  *)
(* shown to be kept in its own section; the theorems are at the end.       *)
(***************************************************************************)
EXTENDS StreamDelivery, TLAPS, SequenceTheorems, FiniteSetTheorems

\* A request starts as the loop starts.
LEMMA LoopInit == Init => Loop!Init
  BY DEF Init

\* Each step contains one step of the loop, or leaves its variables alone.
LEMMA LoopStep == [Next]_vars => [Loop!Next]_(Loop!vars)
<1> SUFFICES ASSUME [Next]_vars PROVE [Loop!Next]_(Loop!vars)
  OBVIOUS
<1>0. UNCHANGED loop => UNCHANGED Loop!vars
  BY DEF loop, Loop!vars, Loop!loopVars, Loop!attemptVars, Loop!envVars, Loop!history
<1>1. CASE OpenAttempt
  BY <1>1 DEF OpenAttempt, Loop!Next, Loop!Gateway
<1>2. CASE BetweenAttempts
  BY <1>2 DEF BetweenAttempts, Loop!Next, Loop!Gateway
<1>3. CASE Complete
  BY <1>3 DEF Complete, Loop!Next, Loop!Gateway
<1>4. ASSUME NEW call, YieldCall(call) PROVE Loop!Next
  BY <1>4 DEF YieldCall, Loop!Next, Loop!Upstream
<1>5. CASE FlushCall
  BY <1>4, <1>5 DEF FlushCall
<1>6. CASE EndOfStream
  BY <1>6 DEF EndOfStream, Loop!Next, Loop!Upstream
<1>7. CASE CloseWithError \/ CloseWell \/ AbandonAnswer
  BY <1>0, <1>7 DEF CloseWithError, CloseWell, AbandonAnswer
<1>8. CASE UpstreamText
  BY <1>8 DEF UpstreamText, Loop!Next, Loop!Upstream
<1>9. CASE UpstreamCall \/ UpstreamCallStop
  BY <1>4, <1>9 DEF UpstreamCall, UpstreamCallStop
<1>10. CASE UpstreamCallStart \/ UpstreamCallArgs \/ UpstreamReason
  BY <1>0, <1>10 DEF UpstreamCallStart, UpstreamCallArgs, UpstreamReason
<1>11. CASE StreamOver
  BY <1>0, <1>11 DEF StreamOver, UpstreamCloses, UpstreamFails, WriteFails, Loop!Next, Loop!Upstream
<1>12. CASE Environment
  BY <1>12 DEF Environment, Loop!Next
<1>13. CASE Finished \/ UNCHANGED vars
  BY <1>0, <1>13 DEF Finished, vars
<1> QED
  BY <1>1, <1>2, <1>3, <1>5, <1>6, <1>7, <1>8, <1>9, <1>10, <1>11, <1>12, <1>13
     DEF Next, Gateway, Publisher

\* Every streamed request, whatever the publisher and the surface, is a
\* request of runStreamWithRetry.
THEOREM DeliveryIsTheLoop == Spec => Loop!Spec
  BY LoopInit, LoopStep, PTL DEF Spec, Loop!Spec

-------------------------------------------------------------------------------
(* What StreamRetryProofs shows of the loop holds of every delivered       *)
(* stream.  It speaks of an instance of its own, which is the same         *)
(* specification, action by action.                                        *)

Proofs == INSTANCE StreamRetryProofs

\* A step of one instance is the same step of the other.
LEMMA SameStep == [Loop!Next]_(Loop!vars) => [Proofs!Next]_(Proofs!vars)
<1> USE DEF Loop!loopVars, Proofs!loopVars, Loop!attemptVars, Proofs!attemptVars,
            Loop!envVars, Proofs!envVars, Loop!history, Proofs!history
<1>1. /\ Loop!FirstAttempt => Proofs!FirstAttempt
      /\ Loop!StartBackoff => Proofs!StartBackoff
      /\ Loop!BackoffElapsed => Proofs!BackoffElapsed
      /\ Loop!BackoffCanceled => Proofs!BackoffCanceled
      /\ Loop!GiveUp => Proofs!GiveUp
  BY DEF Loop!FirstAttempt, Proofs!FirstAttempt, Loop!StartBackoff,
         Proofs!StartBackoff, Loop!BackoffElapsed, Proofs!BackoffElapsed,
         Loop!BackoffCanceled, Proofs!BackoffCanceled, Loop!GiveUp,
         Proofs!GiveUp, Loop!OpenStream, Proofs!OpenStream, Loop!AttemptsLeft,
         Proofs!AttemptsLeft, Loop!Return, Proofs!Return
<1>2. /\ Loop!ResolveRetrieval => Proofs!ResolveRetrieval
      /\ Loop!Complete => Proofs!Complete
  BY DEF Loop!ResolveRetrieval, Proofs!ResolveRetrieval, Loop!Complete,
         Proofs!Complete, Loop!MustResolve, Proofs!MustResolve, Loop!EndedWell,
         Proofs!EndedWell, Loop!Return, Proofs!Return
<1>3. /\ Loop!AbortAfterOutput => Proofs!AbortAfterOutput
      /\ Loop!AbortNonRetryable => Proofs!AbortNonRetryable
      /\ Loop!ScheduleRetry => Proofs!ScheduleRetry
  BY DEF Loop!AbortAfterOutput, Proofs!AbortAfterOutput, Loop!AbortNonRetryable,
         Proofs!AbortNonRetryable, Loop!ScheduleRetry, Proofs!ScheduleRetry,
         Loop!EndedWell, Proofs!EndedWell, Loop!OutputShown, Proofs!OutputShown,
         Loop!Return, Proofs!Return, Loop!IsRetryable, Proofs!IsRetryable
<1>4. /\ Loop!DeliverText => Proofs!DeliverText
      /\ Loop!DeliverToolCall => Proofs!DeliverToolCall
      /\ Loop!WithholdRetrieval => Proofs!WithholdRetrieval
      /\ Loop!ClientWriteFails => Proofs!ClientWriteFails
      /\ Loop!StreamEnds => Proofs!StreamEnds
      /\ Loop!StreamFails => Proofs!StreamFails
  BY DEF Loop!DeliverText, Proofs!DeliverText, Loop!DeliverToolCall,
         Proofs!DeliverToolCall, Loop!WithholdRetrieval,
         Proofs!WithholdRetrieval, Loop!ClientWriteFails,
         Proofs!ClientWriteFails, Loop!StreamEnds, Proofs!StreamEnds,
         Loop!StreamFails, Proofs!StreamFails, Loop!Emit, Proofs!Emit,
         Loop!Return, Proofs!Return, Loop!ErrKinds, Proofs!ErrKinds
<1>5. /\ Loop!ClientDisconnects => Proofs!ClientDisconnects
      /\ Loop!ContextCanceled => Proofs!ContextCanceled
  BY DEF Loop!ClientDisconnects, Proofs!ClientDisconnects, Loop!ContextCanceled,
         Proofs!ContextCanceled
<1>6. Loop!Returned => Proofs!Returned
  BY DEF Loop!Returned, Proofs!Returned, Loop!vars, Proofs!vars
<1>7. UNCHANGED Loop!vars => UNCHANGED Proofs!vars
  BY DEF Loop!vars, Proofs!vars
<1> QED
  BY <1>1, <1>2, <1>3, <1>4, <1>5, <1>6, <1>7
     DEF Loop!Next, Proofs!Next, Loop!Gateway, Proofs!Gateway, Loop!Upstream,
         Proofs!Upstream

\* A delivered stream is a behaviour of what StreamRetryProofs speaks of.
LEMMA DeliveryIsProved == Spec => Proofs!Spec
<1>1. Loop!Init => Proofs!Init
  BY DEF Loop!Init, Proofs!Init
<1> QED
  BY <1>1, LoopInit, LoopStep, SameStep, PTL DEF Spec, Proofs!Spec

\* Whatever the publisher sends and the surface shows: a request costs at most
\* MaxAttempts * (MaxRetrievals + 1) upstream calls, a retry repeats no output
\* of its round, the detector's cancel is not reported as an error, and each
\* retrieval answered was asked by the upstream call that has just ended.
THEOREM LoopPromises ==
    Spec => [](/\ Loop!CallsWithinBudget
               /\ Loop!NoDuplicateWithinRound
               /\ Loop!OwnCancelHidden)
            /\ Loop!RetrievalsAsAsked
<1> USE StreamDeliveryAssumption
<1>1. Proofs!Spec => []Proofs!CallsWithinBudget
  BY Proofs!CostBounded
<1>2. Proofs!Spec => []Proofs!NoDuplicateWithinRound
  BY Proofs!NoDuplicates
<1>3. Proofs!Spec => []Proofs!OwnCancelHidden
  BY Proofs!OwnCancelNeverSurfaces
<1>4. Proofs!Spec => Proofs!RetrievalsAsAsked
  BY Proofs!RetrievalsAnswered
<1>5. /\ Proofs!CallsWithinBudget => Loop!CallsWithinBudget
      /\ Proofs!NoDuplicateWithinRound => Loop!NoDuplicateWithinRound
      /\ Proofs!OwnCancelHidden => Loop!OwnCancelHidden
      /\ [Proofs!AnswersWhatWasAsked]_(Proofs!vars) => [Loop!AnswersWhatWasAsked]_(Loop!vars)
  BY DEF Proofs!CallsWithinBudget, Loop!CallsWithinBudget,
         Proofs!NoDuplicateWithinRound, Loop!NoDuplicateWithinRound,
         Proofs!OwnCancelHidden, Loop!OwnCancelHidden,
         Proofs!AnswersWhatWasAsked, Loop!AnswersWhatWasAsked, Proofs!vars,
         Loop!vars, Proofs!loopVars, Loop!loopVars, Proofs!attemptVars,
         Loop!attemptVars, Proofs!envVars, Loop!envVars, Proofs!history, Loop!history
<1> QED
  BY <1>1, <1>2, <1>3, <1>4, <1>5, DeliveryIsProved, PTL
     DEF Proofs!RetrievalsAsAsked, Loop!RetrievalsAsAsked

-------------------------------------------------------------------------------
(* The loop detector sees the window as the end of the text: a repetition      *)
(* of what the window can hold is found when it is complete.                   *)

\* The lemmas about folds, for the texts of a stream.
Texts == INSTANCE FoldLemmas WITH Op <- AddText

\* The sizes of the window, the chunk and the threshold are positive.
LEMMA DetectorConstants ==
    /\ LoopWindow \in Nat \ {0} /\ LoopChunk \in Nat \ {0} /\ LoopThreshold \in Nat \ {0}
    /\ LoopChunk * LoopThreshold \in Nat \ {0}
  BY LoopDetectorAssumption

\* The buffer is a suffix of the text.
LEMMA LastOfIsSuffix ==
    ASSUME NEW S, NEW text \in Seq(S), NEW n \in Nat
    PROVE  /\ LastOf(text, n) \in Seq(S)
           /\ Len(LastOf(text, n)) = IF Len(text) <= n THEN Len(text) ELSE n
           /\ \A i \in 1..Len(LastOf(text, n)) :
                LastOf(text, n)[i] = text[Len(text) - Len(LastOf(text, n)) + i]
<1>1. CASE Len(text) <= n
  BY <1>1 DEF LastOf
<1>2. CASE Len(text) > n
  <2> DEFINE m == Len(text) - n + 1
  <2>1. m \in Int /\ Len(text) \in Int /\ \A i \in m..Len(text) : text[i] \in S
    BY <1>2
  <2>2. /\ SubSeq(text, m, Len(text)) \in Seq(S)
        /\ Len(SubSeq(text, m, Len(text))) = IF m <= Len(text) THEN Len(text) - m + 1 ELSE 0
        /\ \A i \in 1..(Len(text) - m + 1) : SubSeq(text, m, Len(text))[i] = text[m + i - 1]
    <3> HIDE DEF m
    <3> QED BY <2>1, SubSeqProperties
  <2>3. LastOf(text, n) = SubSeq(text, m, Len(text))
    BY <1>2 DEF LastOf
  <2>4. Len(LastOf(text, n)) = n
    BY <1>2, <2>2, <2>3
  <2>5. ASSUME NEW i \in 1..Len(LastOf(text, n))
        PROVE  LastOf(text, n)[i] = text[Len(text) - Len(LastOf(text, n)) + i]
    <3>1. i \in 1..(Len(text) - m + 1) /\ m + i - 1 = Len(text) - n + i
      BY <2>4
    <3> QED BY <2>2, <2>3, <2>4, <3>1
  <2>6. LastOf(text, n) \in Seq(S)
    BY <2>2, <2>3
  <2>7. Len(LastOf(text, n)) = IF Len(text) <= n THEN Len(text) ELSE n
    BY <1>2, <2>4
  <2> QED BY <2>5, <2>6, <2>7
<1>3. Len(text) \in Nat
  OBVIOUS
<1> QED BY <1>1, <1>2, <1>3

\* What is dropped early would be dropped anyway.
LEMMA ObserveText ==
    ASSUME NEW S, NEW old \in Seq(S), NEW text \in Seq(S), NEW n \in Nat
    PROVE  LastOf(LastOf(old, n) \o text, n) = LastOf(old \o text, n)
<1> DEFINE buf == LastOf(old, n)
           short == buf \o text
           long == old \o text
           a == LastOf(short, n)
           b == LastOf(long, n)
<1>1. /\ buf \in Seq(S)
      /\ Len(buf) = IF Len(old) <= n THEN Len(old) ELSE n
      /\ \A i \in 1..Len(buf) : buf[i] = old[Len(old) - Len(buf) + i]
  BY LastOfIsSuffix
<1> HIDE DEF buf
<1>2. /\ short \in Seq(S) /\ Len(short) = Len(buf) + Len(text)
      /\ \A i \in 1..(Len(buf) + Len(text)) :
            short[i] = IF i <= Len(buf) THEN buf[i] ELSE text[i - Len(buf)]
  BY <1>1, ConcatProperties
<1>3. /\ long \in Seq(S) /\ Len(long) = Len(old) + Len(text)
      /\ \A i \in 1..(Len(old) + Len(text)) :
            long[i] = IF i <= Len(old) THEN old[i] ELSE text[i - Len(old)]
  BY ConcatProperties
<1> HIDE DEF short, long
<1>4. /\ a \in Seq(S) /\ Len(a) = IF Len(short) <= n THEN Len(short) ELSE n
      /\ \A i \in 1..Len(a) : a[i] = short[Len(short) - Len(a) + i]
  <2>1. short \in Seq(S)
    BY <1>2
  <2> QED BY <2>1, LastOfIsSuffix
<1>5. /\ b \in Seq(S) /\ Len(b) = IF Len(long) <= n THEN Len(long) ELSE n
      /\ \A i \in 1..Len(b) : b[i] = long[Len(long) - Len(b) + i]
  <2>1. long \in Seq(S)
    BY <1>3
  <2> QED BY <2>1, LastOfIsSuffix
<1> HIDE DEF a, b
<1>6. /\ Len(buf) \in Nat /\ Len(text) \in Nat /\ Len(old) \in Nat
      /\ Len(a) \in Nat /\ Len(a) = Len(b)
  BY <1>1, <1>2, <1>3, <1>4, <1>5
<1>7. ASSUME NEW i \in 1..Len(a) PROVE a[i] = b[i]
  <2>0. Len(buf) + Len(text) - Len(a) + i \in Int /\ Len(old) + Len(text) - Len(b) + i \in Int
    BY <1>6
  <2>1. PICK j \in Int : j = Len(buf) + Len(text) - Len(a) + i
    BY <2>0
  <2>2. PICK k \in Int : k = Len(old) + Len(text) - Len(b) + i
    BY <2>0
  <2>3. a[i] = short[j] /\ b[i] = long[k]
    <3>1. Len(short) - Len(a) + i = j /\ Len(long) - Len(b) + i = k
      BY <1>2, <1>3, <1>6, <2>1, <2>2
    <3>2. i \in 1..Len(b)
      BY <1>6
    <3>3. a[i] = short[Len(short) - Len(a) + i]
      BY <1>4
    <3>4. b[i] = long[Len(long) - Len(b) + i]
      BY <1>5, <3>2
    <3> QED BY <3>1, <3>3, <3>4
  <2>4. /\ k - Len(old) = j - Len(buf)
        /\ 1 <= j /\ j <= Len(buf) + Len(text)
        /\ 1 <= k /\ k <= Len(old) + Len(text)
        /\ j <= Len(buf) => j - Len(buf) = k - Len(old)
    <3>1. Len(a) <= Len(buf) + Len(text) /\ Len(b) <= Len(old) + Len(text) /\ 1 <= i /\ i <= Len(a)
      BY <1>2, <1>3, <1>4, <1>5, <1>6
    <3> QED BY <1>6, <2>1, <2>2, <3>1
  <2>5. CASE j <= Len(buf)
    <3>1. k <= Len(old) /\ j \in 1..Len(buf) /\ k = Len(old) - Len(buf) + j
      BY <1>6, <2>4, <2>5
    <3>2. buf[j] = old[k]
      BY <1>1, <3>1
    <3>3. short[j] = buf[j]
      BY <1>2, <1>6, <2>4, <2>5
    <3>4. long[k] = old[k]
      <4>1. k \in 1..(Len(old) + Len(text))
        BY <1>6, <2>4
      <4>2. long[k] = IF k <= Len(old) THEN old[k] ELSE text[k - Len(old)]
        BY <1>3, <4>1
      <4> QED BY <3>1, <4>2
    <3> QED BY <2>3, <3>2, <3>3, <3>4
  <2>6. CASE j > Len(buf)
    <3>1. k > Len(old)
      BY <1>6, <2>4, <2>6
    <3>2. short[j] = text[j - Len(buf)]
      BY <1>2, <1>6, <2>4, <2>6
    <3>3. long[k] = text[k - Len(old)]
      <4>1. k \in 1..(Len(old) + Len(text))
        BY <1>6, <2>4
      <4>2. long[k] = IF k <= Len(old) THEN old[k] ELSE text[k - Len(old)]
        BY <1>3, <4>1
      <4>3. ~(k <= Len(old))
        BY <1>6, <3>1
      <4> QED BY <4>2, <4>3
    <3> QED BY <2>3, <2>4, <3>2, <3>3
  <2> QED BY <1>6, <2>5, <2>6
<1>8. a = b
  BY <1>4, <1>5, <1>6, <1>7, SeqEqual
<1> QED BY <1>8 DEF a, b, buf, short, long

\* A repetition that fits into the buffer is in the buffer.
LEMMA RepetitionKept ==
    ASSUME NEW S, NEW text \in Seq(S), NEW n \in Nat, NEW p \in Nat, NEW k \in Nat,
           k <= n, EndsInRepetition(text, p, k)
    PROVE  EndsInRepetition(LastOf(text, n), p, k)
<1> DEFINE buf == LastOf(text, n)
<1>1. /\ buf \in Seq(S)
      /\ Len(buf) = IF Len(text) <= n THEN Len(text) ELSE n
      /\ \A i \in 1..Len(buf) : buf[i] = text[Len(text) - Len(buf) + i]
  BY LastOfIsSuffix
<1> HIDE DEF buf
<1>2. /\ k <= Len(text)
      /\ \A i \in (Len(text) - k + 1)..(Len(text) - p) : text[i] = text[i + p]
  BY DEF EndsInRepetition
<1>3. Len(buf) \in Nat /\ Len(text) \in Nat /\ k <= Len(buf) /\ Len(buf) <= Len(text)
  BY <1>1, <1>2
<1>4. ASSUME NEW i \in (Len(buf) - k + 1)..(Len(buf) - p) PROVE buf[i] = buf[i + p]
  <2>1. i \in 1..Len(buf) /\ i + p \in 1..Len(buf)
    BY <1>3
  <2>2. PICK j \in Int : j = Len(text) - Len(buf) + i
    BY <1>3
  <2>3. j \in (Len(text) - k + 1)..(Len(text) - p)
    BY <1>3, <2>2
  <2>4. text[j] = text[j + p]
    BY <1>2, <2>3
  <2>5. buf[i] = text[j]
    BY <1>1, <2>1, <2>2
  <2>6. buf[i + p] = text[j + p]
    <3>1. Len(text) - Len(buf) + (i + p) = j + p
      BY <1>3, <2>2
    <3>2. buf[i + p] = text[Len(text) - Len(buf) + (i + p)]
      BY <1>1, <2>1
    <3> QED BY <3>1, <3>2
  <2> QED BY <2>4, <2>5, <2>6
<1>5. EndsInRepetition(buf, p, k)
  BY <1>3, <1>4 DEF EndsInRepetition
<1> QED BY <1>5 DEF buf

\* Multiples of the block's length.
LEMMA Multiples ==
    ASSUME NEW p \in Nat \ {0}, NEW k \in Nat, NEW m \in Nat
    PROVE  /\ k * p \in Nat
           /\ (k + 1) * p = k * p + p
           /\ k <= m => k * p <= m * p
           /\ k < m => k * p < m * p
<1>1. k * p \in Nat /\ m * p \in Nat
  OBVIOUS
<1>2. (k + 1) * p = k * p + p
  OBVIOUS
<1>3. ASSUME k <= m PROVE k * p <= m * p
  <2>1. PICK d \in Nat : m = k + d
    BY <1>3
  <2>2. m * p = k * p + d * p /\ d * p \in Nat
    BY <2>1
  <2> QED BY <1>1, <2>2
<1>4. ASSUME k < m PROVE k * p < m * p
  <2>1. PICK d \in Nat : m = (k + 1) + d
    BY <1>4
  <2>2. m * p = k * p + p + d * p /\ d * p \in Nat
    BY <2>1
  <2> QED BY <1>1, <2>2
<1> QED BY <1>1, <1>2, <1>3, <1>4

\* What the detector tolerates of a block of p suffices for LoopThreshold + 1
\* starts of the same chunk, p apart: it fires.
LEMMA RepetitionDetected ==
    ASSUME NEW S, NEW buf \in Seq(S), NEW p \in Nat \ {0},
           EndsInRepetition(buf, p, Tolerated(p))
    PROVE  LoopDetected(buf)
<1> DEFINE T == LoopThreshold
           C == LoopChunk
           N == Tolerated(p)
           L == Len(buf)
           b == L - N + 1
<1>0. T \in Nat \ {0} /\ C \in Nat \ {0} /\ T * p \in Nat /\ C * T \in Nat /\ L \in Nat
  BY DetectorConstants, Multiples
<1>1. N \in Nat /\ T * p + C <= N /\ C * T <= N
  <2> HIDE DEF T, C, L
  <2>1. N = IF T * p + C > C * T THEN T * p + C ELSE C * T
    BY DEF Tolerated, T, C
  <2> HIDE DEF N
  <2> QED BY <1>0, <2>1
<1>2. N <= L /\ \A i \in b..(L - p) : buf[i] = buf[i + p]
  BY DEF EndsInRepetition
<1> HIDE DEF T, C, N, L
<1>3. b \in Nat \ {0}
  BY <1>0, <1>1, <1>2
<1> HIDE DEF b
<1>4. b = L - N + 1
  BY DEF b
\* The starts fit in.
<1>5. ASSUME NEW k \in 0..T
      PROVE  /\ k * p \in Nat /\ b + k * p \in 1..L
             /\ b + k * p + C - 1 <= L
  <2>1. k \in Nat /\ k * p \in Nat /\ k * p <= T * p
    BY <1>0, Multiples
  <2> QED BY <1>0, <1>1, <1>2, <1>3, <1>4, <2>1
\* The chunks are the same.
<1>6. ASSUME NEW j \in 0..(C - 1), NEW k \in 0..T PROVE buf[b + k * p + j] = buf[b + j]
  <2> DEFINE A == {m \in Nat : m <= T => buf[b + m * p + j] = buf[b + j]}
  <2>1. 0 \in A
    <3>1. 0 * p = 0 /\ b + 0 + j = b + j
      BY <1>3, <1>0
    <3> QED BY <3>1
  <2>2. ASSUME NEW m \in Nat, m \in A PROVE m + 1 \in A
    <3> SUFFICES ASSUME m + 1 <= T PROVE buf[b + (m + 1) * p + j] = buf[b + j]
      OBVIOUS
    <3>1. m \in 0..T /\ m + 1 \in 0..T /\ buf[b + m * p + j] = buf[b + j]
      BY <1>0, <2>2
    <3>2. /\ m * p \in Nat /\ (m + 1) * p = m * p + p
          /\ b + (m + 1) * p + C - 1 <= L
      BY <1>5, <3>1, Multiples
    <3>3. PICK i \in Int : i = b + m * p + j
      BY <1>3, <1>0, <3>2
    <3>4. i \in b..(L - p) /\ i + p = b + (m + 1) * p + j
      BY <1>0, <1>3, <3>2, <3>3
    <3> QED BY <1>2, <3>1, <3>3, <3>4
  <2>3. k \in A
    <3> HIDE DEF A
    <3>1. k \in Nat
      BY <1>0
    <3> QED BY <2>1, <2>2, <3>1, Texts!SetInduction
  <2> QED BY <2>3
<1>7. ASSUME NEW k \in 0..T PROVE b + k * p \in Occurrences(buf, b)
  <2>1. b + k * p \in ChunkStarts(buf)
    BY <1>0, <1>5 DEF ChunkStarts, C, L
  <2>2. ChunkAt(buf, b + k * p) = ChunkAt(buf, b)
    <3>1. PICK a \in Nat : a = b + k * p /\ a >= 1 /\ a + C - 1 <= L
      BY <1>3, <1>5
    <3>2. b >= 1 /\ b + C - 1 <= L
      BY <1>0, <1>1, <1>2, <1>4, <1>5
    <3>3. \A j \in 0..(C - 1) : buf[a + j] = buf[b + j]
      BY <1>6, <3>1
    <3>4. ASSUME NEW x \in Nat, x >= 1, x + C - 1 <= L
          PROVE  /\ ChunkAt(buf, x) \in Seq(S) /\ Len(ChunkAt(buf, x)) = C
                 /\ \A i \in 1..C : ChunkAt(buf, x)[i] = buf[x + (i - 1)]
      <4>1. \A i \in x..(x + C - 1) : buf[i] \in S
        BY <1>0, <3>4 DEF L
      <4>2. x + C - 1 \in Int /\ x \in Int /\ (x + C - 1) - x + 1 = C /\ x <= x + C - 1
        BY <1>0
      <4>3. /\ ChunkAt(buf, x) \in Seq(S)
            /\ Len(ChunkAt(buf, x)) = C
            /\ \A i \in 1..C : ChunkAt(buf, x)[i] = buf[x + i - 1]
        <5>1. ChunkAt(buf, x) = SubSeq(buf, x, x + C - 1)
          BY DEF ChunkAt, C
        <5> QED BY <4>1, <4>2, <5>1, SubSeqProperties
      <4>4. \A i \in 1..C : x + i - 1 = x + (i - 1)
        BY <1>0
      <4> QED BY <4>3, <4>4
    <3>5. \A i \in 1..C : i - 1 \in 0..(C - 1)
      BY <1>0
    <3>6. /\ ChunkAt(buf, a) \in Seq(S) /\ Len(ChunkAt(buf, a)) = C
          /\ ChunkAt(buf, b) \in Seq(S) /\ Len(ChunkAt(buf, b)) = C
          /\ \A i \in 1..C : ChunkAt(buf, a)[i] = ChunkAt(buf, b)[i]
      BY <1>3, <3>1, <3>2, <3>3, <3>4, <3>5
    <3>7. ChunkAt(buf, a) = ChunkAt(buf, b)
      BY <3>6, SeqEqual
    <3> QED BY <3>1, <3>7
  <2> QED BY <2>1, <2>2 DEF Occurrences
<1>8. Cardinality(Occurrences(buf, b)) > T
  <2> DEFINE f == [k \in 0..T |-> b + k * p]
  <2>1. IsFiniteSet(Occurrences(buf, b))
    <3>1. Occurrences(buf, b) \in SUBSET (1..L) /\ IsFiniteSet(1..L)
      BY <1>0, FS_Interval DEF Occurrences, ChunkStarts, L
    <3> QED BY <3>1, FS_Subset
  <2>2. f \in [0..T -> Occurrences(buf, b)]
    BY <1>7
  <2>3. ASSUME NEW k \in 0..T, NEW m \in 0..T, f[k] = f[m] PROVE k = m
    <3>1. k \in Nat /\ m \in Nat /\ k * p \in Nat /\ m * p \in Nat /\ b + k * p = b + m * p
      BY <1>0, <1>5, <2>3
    <3>2. k * p = m * p
      BY <1>3, <3>1
    <3>3. (k < m => k * p < m * p) /\ (m < k => m * p < k * p)
      BY <3>1, Multiples
    <3> QED BY <3>1, <3>2, <3>3
  <2>4. f \in Injection(0..T, Occurrences(buf, b))
    <3> HIDE DEF f
    <3> QED BY <2>2, <2>3 DEF Injection, IsInjective
  <2>5. Cardinality(0..T) = T + 1
    BY <1>0, FS_Interval
  <2>6. Cardinality(0..T) <= Cardinality(Occurrences(buf, b))
    <3> HIDE DEF f
    <3> QED BY <2>1, <2>4, FS_Injection
  <2>7. Cardinality(Occurrences(buf, b)) \in Nat
    BY <2>1, FS_CardinalityType
  <2> QED BY <1>0, <2>5, <2>6, <2>7
<1>9. b \in ChunkStarts(buf)
  <2>1. 0 \in 0..T /\ b + 0 * p = b
    BY <1>0, <1>3
  <2> QED BY <1>5, <1>7, <2>1 DEF Occurrences
<1> QED BY <1>0, <1>1, <1>2, <1>8, <1>9 DEF LoopDetected, T, C, L

-------------------------------------------------------------------------------
(* The unescaper (EntityUnescaper) does with a symbol what its state says,     *)
(* whatever it has written before.                                             *)

\* The lemmas about folds, for the symbols the unescaper reads.
Runes == INSTANCE FoldLemmas WITH Op <- ProcessRune

\* The states of the unescaper.
Modes == {"normal", "entity", "tag", "tagEntity"}

UnescaperStates ==
    [mode : Modes, entity : Seq(Symbols), raw : Seq(Symbols),
     parsed : Seq(Symbols), blocks : Nat, out : Seq(Symbols)]

\* u is the state with these fields.
Has(u, mode, entity, raw, parsed, blocks, out) ==
    /\ u \in UnescaperStates
    /\ u.mode = mode /\ u.entity = entity /\ u.raw = raw
    /\ u.parsed = parsed /\ u.blocks = blocks /\ u.out = out

\* The texts the unescaper works with are texts of the model.
LEMMA SymbolTexts ==
    /\ <<>> \in Seq(Symbols) /\ <<"<">> \in Seq(Symbols) /\ <<"&">> \in Seq(Symbols)
    /\ <<">">> \in Seq(Symbols)
    /\ \A x \in DOMAIN Named : <<Named[x]>> \in Seq(Symbols)
<1>1. \A x \in DOMAIN Named : Named[x] \in Symbols
  BY DEF Symbols
<1>2. /\ "lt" \in DOMAIN Named /\ "gt" \in DOMAIN Named /\ "amp" \in DOMAIN Named
      /\ Named["lt"] = "<" /\ Named["gt"] = ">" /\ Named["amp"] = "&"
  BY DEF Named
<1>3. ASSUME NEW x \in Symbols PROVE <<x>> \in Seq(Symbols)
  OBVIOUS
<1> QED BY <1>1, <1>2, <1>3

\* The fields of a state have their types.
LEMMA Fields ==
    ASSUME NEW u \in UnescaperStates
    PROVE  /\ Has(u, u.mode, u.entity, u.raw, u.parsed, u.blocks, u.out)
           /\ u.mode \in Modes /\ u.entity \in Seq(Symbols)
           /\ u.raw \in Seq(Symbols) /\ u.parsed \in Seq(Symbols) /\ u.blocks \in Nat
           /\ u.out \in Seq(Symbols)
  BY DEF UnescaperStates, Has

\* A state is no more than its fields.
LEMMA SameState ==
    ASSUME NEW u, NEW v, NEW m, NEW e, NEW r, NEW p, NEW b, NEW o,
           Has(u, m, e, r, p, b, o), Has(v, m, e, r, p, b, o)
    PROVE  u = v
<1>1. /\ u \in UnescaperStates /\ v \in UnescaperStates
      /\ u.mode = v.mode /\ u.entity = v.entity /\ u.raw = v.raw
      /\ u.parsed = v.parsed /\ u.blocks = v.blocks /\ u.out = v.out
  BY DEF Has
<1> QED BY <1>1 DEF UnescaperStates

\* One field at a time.
LEMMA WithMode ==
    ASSUME NEW u \in UnescaperStates, NEW x \in Modes
    PROVE  Has([u EXCEPT !.mode = x], x, u.entity, u.raw, u.parsed, u.blocks, u.out)
<1>1. [u EXCEPT !.mode = x] \in UnescaperStates
  BY DEF UnescaperStates
<1> QED BY <1>1 DEF UnescaperStates, Has

\* A state with another entity.
LEMMA WithEntity ==
    ASSUME NEW u \in UnescaperStates, NEW x \in Seq(Symbols)
    PROVE  Has([u EXCEPT !.entity = x], u.mode, x, u.raw, u.parsed, u.blocks, u.out)
<1>1. [u EXCEPT !.entity = x] \in UnescaperStates
  BY DEF UnescaperStates
<1> QED BY <1>1 DEF UnescaperStates, Has

\* A state with other raw text.
LEMMA WithRaw ==
    ASSUME NEW u \in UnescaperStates, NEW x \in Seq(Symbols)
    PROVE  Has([u EXCEPT !.raw = x], u.mode, u.entity, x, u.parsed, u.blocks, u.out)
<1>1. [u EXCEPT !.raw = x] \in UnescaperStates
  BY DEF UnescaperStates
<1> QED BY <1>1 DEF UnescaperStates, Has

\* A state with another parsed tag.
LEMMA WithParsed ==
    ASSUME NEW u \in UnescaperStates, NEW x \in Seq(Symbols)
    PROVE  Has([u EXCEPT !.parsed = x], u.mode, u.entity, u.raw, x, u.blocks, u.out)
<1>1. [u EXCEPT !.parsed = x] \in UnescaperStates
  BY DEF UnescaperStates
<1> QED BY <1>1 DEF UnescaperStates, Has

\* A state with other open blocks.
LEMMA WithBlocks ==
    ASSUME NEW u \in UnescaperStates, NEW x \in Nat
    PROVE  Has([u EXCEPT !.blocks = x], u.mode, u.entity, u.raw, u.parsed, x, u.out)
<1>1. [u EXCEPT !.blocks = x] \in UnescaperStates
  BY DEF UnescaperStates
<1> QED BY <1>1 DEF UnescaperStates, Has

\* A state with another output.
LEMMA WithOut ==
    ASSUME NEW u \in UnescaperStates, NEW x \in Seq(Symbols)
    PROVE  Has([u EXCEPT !.out = x], u.mode, u.entity, u.raw, u.parsed, u.blocks, x)
<1>1. [u EXCEPT !.out = x] \in UnescaperStates
  BY DEF UnescaperStates
<1> QED BY <1>1 DEF UnescaperStates, Has

\* What each helper of the unescaper makes of a state, field by field.
LEMMA WriteHas ==
    ASSUME NEW u \in UnescaperStates, NEW t \in Seq(Symbols)
    PROVE  Has(Write(u, t), u.mode, u.entity, u.raw, u.parsed, u.blocks, u.out \o t)
<1>1. Write(u, t) = [u EXCEPT !.out = u.out \o t]
  BY DEF Write
<1>2. u.out \o t \in Seq(Symbols)
  BY Fields
<1> QED BY <1>1, <1>2, WithOut

\* Back in plain text, nothing is held.
LEMMA NormalHas ==
    ASSUME NEW u \in UnescaperStates
    PROVE  Has(Normal(u), "normal", <<>>, <<>>, <<>>, u.blocks, u.out)
<1>1. "normal" \in Modes /\ <<>> \in Seq(Symbols)
  BY DEF Modes
<1> DEFINE v == [u EXCEPT !.mode = "normal"]
           w == [v EXCEPT !.entity = <<>>]
           x == [w EXCEPT !.raw = <<>>]
           y == [x EXCEPT !.parsed = <<>>]
<1>2. Has(v, "normal", u.entity, u.raw, u.parsed, u.blocks, u.out)
  BY <1>1, WithMode
<1>3. Normal(u) = y
  BY DEF Normal
<1> HIDE DEF v
<1>4. Has(w, "normal", <<>>, u.raw, u.parsed, u.blocks, u.out)
  BY <1>1, <1>2, WithEntity DEF Has
<1> HIDE DEF w
<1>5. Has(x, "normal", <<>>, <<>>, u.parsed, u.blocks, u.out)
  BY <1>1, <1>4, WithRaw DEF Has
<1> HIDE DEF x
<1>6. Has(y, "normal", <<>>, <<>>, <<>>, u.blocks, u.out)
  BY <1>1, <1>5, WithParsed DEF Has
<1> HIDE DEF y
<1> QED BY <1>3, <1>6

\* An opened tag holds the raw text given, and stands for what opens a tag.
LEMMA OpenTagHas ==
    ASSUME NEW u \in UnescaperStates, NEW t \in Seq(Symbols)
    PROVE  Has(OpenTag(u, t), "tag", <<>>, t, <<"<">>, u.blocks, u.out)
<1>1. "tag" \in Modes /\ <<"<">> \in Seq(Symbols)
  BY SymbolTexts DEF Modes
<1> DEFINE n == Normal(u)
           v == [n EXCEPT !.mode = "tag"]
           w == [v EXCEPT !.raw = t]
           x == [w EXCEPT !.parsed = <<"<">>]
<1>2. Has(n, "normal", <<>>, <<>>, <<>>, u.blocks, u.out)
  BY NormalHas
<1>3. OpenTag(u, t) = x
  BY DEF OpenTag
<1> HIDE DEF n
<1>4. Has(v, "tag", <<>>, <<>>, <<>>, u.blocks, u.out)
  BY <1>1, <1>2, WithMode DEF Has
<1> HIDE DEF v
<1>5. Has(w, "tag", <<>>, t, <<>>, u.blocks, u.out)
  BY <1>1, <1>4, WithRaw DEF Has
<1> HIDE DEF w
<1>6. Has(x, "tag", <<>>, t, <<"<">>, u.blocks, u.out)
  BY <1>1, <1>5, WithParsed DEF Has
<1> HIDE DEF x
<1> QED BY <1>3, <1>6

\* An opened entity holds its first symbol, in the mode given.
LEMMA OpenEntityHas ==
    ASSUME NEW u \in UnescaperStates, NEW m \in Modes
    PROVE  Has(OpenEntity(u, m), m, <<"&">>, u.raw, u.parsed, u.blocks, u.out)
<1> DEFINE v == [u EXCEPT !.mode = m]
           w == [v EXCEPT !.entity = <<"&">>]
<1>1. Has(v, m, u.entity, u.raw, u.parsed, u.blocks, u.out)
  BY WithMode
<1>2. OpenEntity(u, m) = w
  BY DEF OpenEntity
<1> HIDE DEF v
<1>3. Has(w, m, <<"&">>, u.raw, u.parsed, u.blocks, u.out)
  BY <1>1, SymbolTexts, WithEntity DEF Has
<1> HIDE DEF w
<1> QED BY <1>2, <1>3

\* A tag grows by what was read and what it stands for.
LEMMA GrowTagHas ==
    ASSUME NEW u \in UnescaperStates, NEW t \in Seq(Symbols), NEW z \in Seq(Symbols)
    PROVE  Has(GrowTag(u, t, z), "tag", <<>>, u.raw \o t, u.parsed \o z, u.blocks, u.out)
<1>1. "tag" \in Modes /\ <<>> \in Seq(Symbols) /\ u.raw \o t \in Seq(Symbols) /\ u.parsed \o z \in Seq(Symbols)
  BY Fields DEF Modes
<1> DEFINE v == [u EXCEPT !.mode = "tag"]
           w == [v EXCEPT !.entity = <<>>]
           x == [w EXCEPT !.raw = w.raw \o t]
           y == [x EXCEPT !.parsed = x.parsed \o z]
<1>2. Has(v, "tag", u.entity, u.raw, u.parsed, u.blocks, u.out)
  BY <1>1, WithMode
<1>3. GrowTag(u, t, z) = y
  BY DEF GrowTag
<1> HIDE DEF v
<1>4. Has(w, "tag", <<>>, u.raw, u.parsed, u.blocks, u.out)
  BY <1>1, <1>2, WithEntity DEF Has
<1>5. w.raw = u.raw /\ w \in UnescaperStates
  BY <1>4 DEF Has
<1> HIDE DEF w
<1>6. Has(x, "tag", <<>>, u.raw \o t, u.parsed, u.blocks, u.out)
  <2>1. w.raw \o t \in Seq(Symbols)
    BY <1>1, <1>5
  <2>2. Has(x, w.mode, w.entity, w.raw \o t, w.parsed, w.blocks, w.out)
    BY <1>5, <2>1, WithRaw
  <2> HIDE DEF x
  <2> QED BY <1>4, <1>5, <2>2 DEF Has
<1>7. x.parsed = u.parsed /\ x \in UnescaperStates
  BY <1>6 DEF Has
<1> HIDE DEF x
<1>8. Has(y, "tag", <<>>, u.raw \o t, u.parsed \o z, u.blocks, u.out)
  <2>1. x.parsed \o z \in Seq(Symbols)
    BY <1>1, <1>7
  <2>2. Has(y, x.mode, x.entity, x.raw, x.parsed \o z, x.blocks, x.out)
    BY <1>7, <2>1, WithParsed
  <2> HIDE DEF y
  <2> QED BY <1>6, <1>7, <2>2 DEF Has
<1> HIDE DEF y
<1> QED BY <1>3, <1>8

\* Decoding a held entity gives a text.
LEMMA DecodedText == ASSUME NEW e \in Seq(Symbols) PROVE Decoded(e) \in Seq(Symbols)
<1>1. CASE Len(e) > 2 /\ e[2] \in DOMAIN Named
  <2>1. <<Named[e[2]]>> \in Seq(Symbols)
    BY <1>1, SymbolTexts
  <2>2. SubSeq(e, 3, Len(e)) \in Seq(Symbols)
    <3>1. Len(e) \in Nat /\ \A i \in 3..Len(e) : e[i] \in Symbols
      OBVIOUS
    <3> QED BY <3>1, SubSeqProperties
  <2>3. <<>> \in Seq(Symbols)
    BY SymbolTexts
  <2>4. (IF Len(e) = 3 THEN <<>> ELSE SubSeq(e, 3, Len(e))) \in Seq(Symbols)
    BY <2>2, <2>3
  <2>5. Decoded(e) = <<Named[e[2]]>> \o (IF Len(e) = 3 THEN <<>> ELSE SubSeq(e, 3, Len(e)))
    BY <1>1 DEF Decoded
  <2> QED BY <2>1, <2>4, <2>5
<1>2. CASE ~(Len(e) > 2 /\ e[2] \in DOMAIN Named)
  BY <1>2 DEF Decoded
<1> QED BY <1>1, <1>2

\* Two states that differ in what has been written before.
Prefixed(u, text) == [u EXCEPT !.out = text \o @]

\* Only the output differs.
LEMMA PrefixedHas ==
    ASSUME NEW u \in UnescaperStates, NEW t \in Seq(Symbols)
    PROVE  Has(Prefixed(u, t), u.mode, u.entity, u.raw, u.parsed, u.blocks, t \o u.out)
<1>1. t \o u.out \in Seq(Symbols)
  BY Fields
<1>2. Prefixed(u, t) = [u EXCEPT !.out = t \o u.out]
  BY DEF Prefixed
<1> QED BY <1>1, <1>2, WithOut

\* f and g are the same step, taken with and without the prefix t.
Later(f, g, t) ==
    /\ g \in UnescaperStates
    /\ f = Prefixed(g, t)

\* States that agree but for the prefix of the output are related.
LEMMA LaterHas ==
    ASSUME NEW f, NEW g, NEW t \in Seq(Symbols),
           NEW m, NEW e, NEW r, NEW p, NEW b, NEW o,
           Has(g, m, e, r, p, b, o), Has(f, m, e, r, p, b, t \o o)
    PROVE  Later(f, g, t)
<1>1. g \in UnescaperStates
  BY DEF Has
<1>2. Has(Prefixed(g, t), g.mode, g.entity, g.raw, g.parsed, g.blocks, t \o g.out)
  BY <1>1, PrefixedHas
<1>3. Has(Prefixed(g, t), m, e, r, p, b, t \o o)
  BY <1>2 DEF Has
<1>4. f = Prefixed(g, t)
  BY <1>3, SameState
<1> QED BY <1>1, <1>4 DEF Later

\* A prefix and an addition to the output do not meet.
LEMMA Associates ==
    ASSUME NEW u \in UnescaperStates, NEW t \in Seq(Symbols), NEW x \in Seq(Symbols)
    PROVE  (t \o u.out) \o x = t \o (u.out \o x)
<1>1. \A a, b, c \in Seq(Symbols) : (a \o b) \o c = a \o (b \o c)
  BY ConcatAssociative, SMTT(30)
<1>2. u.out \in Seq(Symbols)
  BY Fields
<1> QED BY <1>1, <1>2

\* Each helper takes related states to related states.
LEMMA LaterWrite ==
    ASSUME NEW u \in UnescaperStates, NEW t \in Seq(Symbols), NEW x \in Seq(Symbols)
    PROVE  Later(Write(Prefixed(u, t), x), Write(u, x), t)
<1> DEFINE v == Prefixed(u, t)
<1>1. Has(v, u.mode, u.entity, u.raw, u.parsed, u.blocks, t \o u.out)
  BY PrefixedHas
<1>2. v \in UnescaperStates
  BY <1>1 DEF Has
<1>3. Has(Write(u, x), u.mode, u.entity, u.raw, u.parsed, u.blocks, u.out \o x)
  BY WriteHas
<1> HIDE DEF v
<1>4. Has(Write(v, x), v.mode, v.entity, v.raw, v.parsed, v.blocks, v.out \o x)
  BY <1>2, WriteHas
<1>5. Has(Write(v, x), u.mode, u.entity, u.raw, u.parsed, u.blocks, t \o (u.out \o x))
  BY <1>1, <1>4, Associates DEF Has
<1>6. Later(Write(v, x), Write(u, x), t)
  BY <1>3, <1>5, LaterHas
<1> QED BY <1>6 DEF v

\* Going back to plain text.
LEMMA LaterNormal ==
    ASSUME NEW u \in UnescaperStates, NEW t \in Seq(Symbols)
    PROVE  Later(Normal(Prefixed(u, t)), Normal(u), t)
<1> DEFINE v == Prefixed(u, t)
<1>1. Has(v, u.mode, u.entity, u.raw, u.parsed, u.blocks, t \o u.out)
  BY PrefixedHas
<1>2. v \in UnescaperStates
  BY <1>1 DEF Has
<1>3. Has(Normal(u), "normal", <<>>, <<>>, <<>>, u.blocks, u.out)
  BY NormalHas
<1> HIDE DEF v
<1>4. Has(Normal(v), "normal", <<>>, <<>>, <<>>, v.blocks, v.out)
  BY <1>2, NormalHas
<1>5. Has(Normal(v), "normal", <<>>, <<>>, <<>>, u.blocks, t \o u.out)
  BY <1>1, <1>4 DEF Has
<1>6. Later(Normal(v), Normal(u), t)
  BY <1>3, <1>5, LaterHas
<1> QED BY <1>6 DEF v

\* Opening a tag.
LEMMA LaterOpenTag ==
    ASSUME NEW u \in UnescaperStates, NEW t \in Seq(Symbols), NEW x \in Seq(Symbols)
    PROVE  Later(OpenTag(Prefixed(u, t), x), OpenTag(u, x), t)
<1> DEFINE v == Prefixed(u, t)
<1>1. Has(v, u.mode, u.entity, u.raw, u.parsed, u.blocks, t \o u.out)
  BY PrefixedHas
<1>2. v \in UnescaperStates
  BY <1>1 DEF Has
<1>3. Has(OpenTag(u, x), "tag", <<>>, x, <<"<">>, u.blocks, u.out)
  BY OpenTagHas
<1> HIDE DEF v
<1>4. Has(OpenTag(v, x), "tag", <<>>, x, <<"<">>, v.blocks, v.out)
  BY <1>2, OpenTagHas
<1>5. Has(OpenTag(v, x), "tag", <<>>, x, <<"<">>, u.blocks, t \o u.out)
  BY <1>1, <1>4 DEF Has
<1>6. Later(OpenTag(v, x), OpenTag(u, x), t)
  BY <1>3, <1>5, LaterHas
<1> QED BY <1>6 DEF v

\* Opening an entity.
LEMMA LaterOpenEntity ==
    ASSUME NEW u \in UnescaperStates, NEW t \in Seq(Symbols), NEW m \in Modes
    PROVE  Later(OpenEntity(Prefixed(u, t), m), OpenEntity(u, m), t)
<1> DEFINE v == Prefixed(u, t)
<1>1. Has(v, u.mode, u.entity, u.raw, u.parsed, u.blocks, t \o u.out)
  BY PrefixedHas
<1>2. v \in UnescaperStates
  BY <1>1 DEF Has
<1>3. Has(OpenEntity(u, m), m, <<"&">>, u.raw, u.parsed, u.blocks, u.out)
  BY OpenEntityHas
<1> HIDE DEF v
<1>4. Has(OpenEntity(v, m), m, <<"&">>, v.raw, v.parsed, v.blocks, v.out)
  BY <1>2, OpenEntityHas
<1>5. Has(OpenEntity(v, m), m, <<"&">>, u.raw, u.parsed, u.blocks, t \o u.out)
  BY <1>1, <1>4 DEF Has
<1>6. Later(OpenEntity(v, m), OpenEntity(u, m), t)
  BY <1>3, <1>5, LaterHas
<1> QED BY <1>6 DEF v

\* Growing a tag.
LEMMA LaterGrowTag ==
    ASSUME NEW u \in UnescaperStates, NEW t \in Seq(Symbols), NEW x \in Seq(Symbols), NEW z \in Seq(Symbols)
    PROVE  Later(GrowTag(Prefixed(u, t), x, z), GrowTag(u, x, z), t)
<1> DEFINE v == Prefixed(u, t)
<1>1. Has(v, u.mode, u.entity, u.raw, u.parsed, u.blocks, t \o u.out)
  BY PrefixedHas
<1>2. v \in UnescaperStates
  BY <1>1 DEF Has
<1>3. Has(GrowTag(u, x, z), "tag", <<>>, u.raw \o x, u.parsed \o z, u.blocks, u.out)
  BY GrowTagHas
<1> HIDE DEF v
<1>4. Has(GrowTag(v, x, z), "tag", <<>>, v.raw \o x, v.parsed \o z, v.blocks, v.out)
  BY <1>2, GrowTagHas
<1>5. Has(GrowTag(v, x, z), "tag", <<>>, u.raw \o x, u.parsed \o z, u.blocks, t \o u.out)
  BY <1>1, <1>4 DEF Has
<1>6. Later(GrowTag(v, x, z), GrowTag(u, x, z), t)
  BY <1>3, <1>5, LaterHas
<1> QED BY <1>6 DEF v

\* Replacing the entity.
LEMMA LaterEntity ==
    ASSUME NEW u \in UnescaperStates, NEW t \in Seq(Symbols), NEW x \in Seq(Symbols)
    PROVE  Later([Prefixed(u, t) EXCEPT !.entity = x], [u EXCEPT !.entity = x], t)
<1> DEFINE v == Prefixed(u, t)
<1>1. Has(v, u.mode, u.entity, u.raw, u.parsed, u.blocks, t \o u.out)
  BY PrefixedHas
<1>2. v \in UnescaperStates
  BY <1>1 DEF Has
<1>3. Has([u EXCEPT !.entity = x], u.mode, x, u.raw, u.parsed, u.blocks, u.out)
  BY WithEntity
<1> HIDE DEF v
<1>4. Has([v EXCEPT !.entity = x], v.mode, x, v.raw, v.parsed, v.blocks, v.out)
  BY <1>2, WithEntity
<1>5. Has([v EXCEPT !.entity = x], u.mode, x, u.raw, u.parsed, u.blocks, t \o u.out)
  BY <1>1, <1>4 DEF Has
<1>6. Later([v EXCEPT !.entity = x], [u EXCEPT !.entity = x], t)
  BY <1>3, <1>5, LaterHas
<1> QED BY <1>6 DEF v

\* Changing the open blocks.
LEMMA LaterBlocks ==
    ASSUME NEW u \in UnescaperStates, NEW t \in Seq(Symbols), NEW x \in Nat
    PROVE  Later([Prefixed(u, t) EXCEPT !.blocks = x], [u EXCEPT !.blocks = x], t)
<1> DEFINE v == Prefixed(u, t)
<1>1. Has(v, u.mode, u.entity, u.raw, u.parsed, u.blocks, t \o u.out)
  BY PrefixedHas
<1>2. v \in UnescaperStates
  BY <1>1 DEF Has
<1>3. Has([u EXCEPT !.blocks = x], u.mode, u.entity, u.raw, u.parsed, x, u.out)
  BY WithBlocks
<1> HIDE DEF v
<1>4. Has([v EXCEPT !.blocks = x], v.mode, v.entity, v.raw, v.parsed, x, v.out)
  BY <1>2, WithBlocks
<1>5. Has([v EXCEPT !.blocks = x], u.mode, u.entity, u.raw, u.parsed, x, t \o u.out)
  BY <1>1, <1>4 DEF Has
<1>6. Later([v EXCEPT !.blocks = x], [u EXCEPT !.blocks = x], t)
  BY <1>3, <1>5, LaterHas
<1> QED BY <1>6 DEF v

\* Steps of the unescaper, one after the other.
LEMMA LaterThen ==
    ASSUME NEW f, NEW g, NEW t \in Seq(Symbols), Later(f, g, t)
    PROVE  /\ g \in UnescaperStates /\ f = Prefixed(g, t)
           /\ f \in UnescaperStates
           /\ f.mode = g.mode /\ f.entity = g.entity /\ f.raw = g.raw /\ f.parsed = g.parsed
           /\ f.blocks = g.blocks /\ f.out = t \o g.out
<1>1. g \in UnescaperStates /\ f = Prefixed(g, t)
  BY DEF Later
<1>2. Has(Prefixed(g, t), g.mode, g.entity, g.raw, g.parsed, g.blocks, t \o g.out)
  BY <1>1, PrefixedHas
<1> QED BY <1>1, <1>2 DEF Has

\* And so does each branch of processRune.
LEMMA LaterResolve ==
    ASSUME NEW u \in UnescaperStates, NEW t \in Seq(Symbols)
    PROVE  Later(ResolveTag(Prefixed(u, t)), ResolveTag(u), t)
<1> DEFINE v == Prefixed(u, t)
           n == Normal(u)
           nv == Normal(v)
<1>1. /\ v.parsed = u.parsed /\ v.raw = u.raw
      /\ u.parsed \in Seq(Symbols) /\ u.raw \in Seq(Symbols)
  BY PrefixedHas, Fields DEF Has
<1>2. Later(nv, n, t)
  BY LaterNormal
<1>3. n \in UnescaperStates /\ nv = Prefixed(n, t)
  BY <1>2 DEF Later
<1> HIDE DEF v, n, nv
<1>4. CASE ~IsClineTag(u.parsed)
  <2>1. ResolveTag(u) = Write(n, u.raw) /\ ResolveTag(v) = Write(nv, u.raw)
    BY <1>1, <1>4 DEF ResolveTag, n, nv
  <2>2. Later(Write(nv, u.raw), Write(n, u.raw), t)
    BY <1>1, <1>3, LaterWrite
  <2> QED BY <2>1, <2>2 DEF v
<1>5. CASE IsClineTag(u.parsed)
  <2> DEFINE w == Write(n, u.parsed)
             wv == Write(nv, u.parsed)
             b == BlocksAfter(w.blocks, u.parsed)
             bv == BlocksAfter(wv.blocks, u.parsed)
  <2>1. /\ ResolveTag(u) = [w EXCEPT !.blocks = b]
        /\ ResolveTag(v) = [wv EXCEPT !.blocks = bv]
    BY <1>1, <1>5 DEF ResolveTag, n, nv
  <2>2. Later(wv, w, t)
    BY <1>1, <1>3, LaterWrite
  <2> HIDE DEF w, wv
  <2>3. /\ w \in UnescaperStates /\ wv = Prefixed(w, t) /\ wv.blocks = w.blocks
        /\ w.blocks \in Nat
    BY <2>2, LaterThen, Fields
  <2>4. b \in Nat /\ bv = b
    BY <2>3 DEF BlocksAfter
  <2> HIDE DEF b, bv
  <2>5. Later([wv EXCEPT !.blocks = b], [w EXCEPT !.blocks = b], t)
    BY <2>3, <2>4, LaterBlocks
  <2> QED BY <2>1, <2>4, <2>5 DEF v
<1> QED BY <1>4, <1>5

\* Writing what was held, and then in plain text.
LEMMA LaterWriteNormal ==
    ASSUME NEW u \in UnescaperStates, NEW t \in Seq(Symbols), NEW x \in Seq(Symbols)
    PROVE  Later(Write(Normal(Prefixed(u, t)), x), Write(Normal(u), x), t)
<1>1. Later(Normal(Prefixed(u, t)), Normal(u), t)
  BY LaterNormal
<1>2. Normal(u) \in UnescaperStates /\ Normal(Prefixed(u, t)) = Prefixed(Normal(u), t)
  BY <1>1 DEF Later
<1> QED BY <1>2, LaterWrite

\* A symbol in plain text.
LEMMA LaterInNormal ==
    ASSUME NEW u \in UnescaperStates, NEW t \in Seq(Symbols), NEW r \in Symbols
    PROVE  Later(InNormal(Prefixed(u, t), r), InNormal(u, r), t)
<1>1. <<r>> \in Seq(Symbols) /\ <<"<">> \in Seq(Symbols) /\ "entity" \in Modes
  BY SymbolTexts DEF Modes
<1>2. CASE r = "&"
  <2>1. Later(OpenEntity(Prefixed(u, t), "entity"), OpenEntity(u, "entity"), t)
    BY <1>1, LaterOpenEntity
  <2> QED BY <1>2, <2>1 DEF InNormal
<1>3. CASE r = "<"
  <2>1. Later(OpenTag(Prefixed(u, t), <<"<">>), OpenTag(u, <<"<">>), t)
    BY <1>1, LaterOpenTag
  <2> QED BY <1>3, <2>1 DEF InNormal
<1>4. CASE r # "&" /\ r # "<"
  <2>1. Later(Write(Prefixed(u, t), <<r>>), Write(u, <<r>>), t)
    BY <1>1, LaterWrite
  <2> QED BY <1>4, <2>1 DEF InNormal
<1> QED BY <1>2, <1>3, <1>4

\* The end of an entity.
LEMMA LaterCloseEntity ==
    ASSUME NEW u \in UnescaperStates, NEW t \in Seq(Symbols), NEW e \in Seq(Symbols)
    PROVE  Later(CloseEntity(Prefixed(u, t), e), CloseEntity(u, e), t)
<1> DEFINE v == Prefixed(u, t)
           read == Decoded(e)
           x == IF u.blocks > 0 THEN read ELSE e
<1>1. v.blocks = u.blocks
  BY PrefixedHas DEF Has
<1>2. read \in Seq(Symbols) /\ x \in Seq(Symbols)
  BY DecodedText
<1>3. CASE read = <<"<">>
  <2>1. Later(OpenTag(v, e), OpenTag(u, e), t)
    BY LaterOpenTag
  <2> QED BY <1>3, <2>1 DEF CloseEntity
<1>4. CASE read # <<"<">> /\ read = <<">">>
  <2>1. Later(Write(Normal(v), e), Write(Normal(u), e), t)
    BY LaterWriteNormal
  <2> QED BY <1>4, <2>1 DEF CloseEntity
<1>5. CASE read # <<"<">> /\ read # <<">">>
  <2>1. Later(Write(Normal(v), x), Write(Normal(u), x), t)
    BY <1>2, LaterWriteNormal
  <2>2. CloseEntity(v, e) = Write(Normal(v), x) /\ CloseEntity(u, e) = Write(Normal(u), x)
    BY <1>1, <1>5 DEF CloseEntity
  <2> QED BY <2>1, <2>2
<1> QED BY <1>3, <1>4, <1>5

\* The cases of the four states do not overlap.
LEMMA Punctuation ==
    ASSUME NEW r \in {"&", ";", ">", "<"}
    PROVE  ~IsEntityChar(r) /\ ~IsTagChar(r)
  BY DEF IsEntityChar, IsTagChar, Words, Named, ClineTags, ToolBlockTags

\* A symbol in an entity.
LEMMA LaterInEntity ==
    ASSUME NEW u \in UnescaperStates, NEW t \in Seq(Symbols), NEW r \in Symbols
    PROVE  Later(InEntity(Prefixed(u, t), r), InEntity(u, r), t)
<1> DEFINE v == Prefixed(u, t)
           e == Append(u.entity, r)
<1>1. v.entity = u.entity
  BY PrefixedHas DEF Has
<1>2. u.entity \in Seq(Symbols) /\ e \in Seq(Symbols) /\ "entity" \in Modes
  BY Fields DEF Modes
<1>3. CASE r = "&"
  <2>1. Later(Write(v, u.entity), Write(u, u.entity), t)
    BY <1>2, LaterWrite
  <2>2. Write(u, u.entity) \in UnescaperStates /\ Write(v, u.entity) = Prefixed(Write(u, u.entity), t)
    BY <2>1 DEF Later
  <2>3. Later(OpenEntity(Write(v, u.entity), "entity"), OpenEntity(Write(u, u.entity), "entity"), t)
    BY <1>2, <2>2, LaterOpenEntity
  <2>4. /\ InEntity(v, r) = OpenEntity(Write(v, u.entity), "entity")
        /\ InEntity(u, r) = OpenEntity(Write(u, u.entity), "entity")
    BY <1>1, <1>3, Punctuation DEF InEntity
  <2> QED BY <2>3, <2>4
<1>4. CASE r # "&" /\ r = ";"
  <2>1. Later(CloseEntity(v, e), CloseEntity(u, e), t)
    BY <1>2, LaterCloseEntity
  <2>2. InEntity(v, r) = CloseEntity(v, e) /\ InEntity(u, r) = CloseEntity(u, e)
    BY <1>1, <1>4, Punctuation DEF InEntity
  <2> QED BY <2>1, <2>2
<1>5. CASE r # "&" /\ r # ";" /\ IsEntityChar(r) /\ Len(u.entity) < MaxEntity
  <2>1. Later([v EXCEPT !.entity = e], [u EXCEPT !.entity = e], t)
    BY <1>2, LaterEntity
  <2>2. InEntity(v, r) = [v EXCEPT !.entity = e] /\ InEntity(u, r) = [u EXCEPT !.entity = e]
    BY <1>1, <1>5 DEF InEntity
  <2> QED BY <2>1, <2>2
<1>6. CASE r # "&" /\ r # ";" /\ ~(IsEntityChar(r) /\ Len(u.entity) < MaxEntity)
  <2>1. Later(Write(Normal(v), e), Write(Normal(u), e), t)
    BY <1>2, LaterWriteNormal
  <2>2. InEntity(v, r) = Write(Normal(v), e) /\ InEntity(u, r) = Write(Normal(u), e)
    BY <1>1, <1>6 DEF InEntity
  <2> QED BY <2>1, <2>2
<1> QED BY <1>3, <1>4, <1>5, <1>6

\* A tag that is complete.
LEMMA LaterGrowResolve ==
    ASSUME NEW u \in UnescaperStates, NEW t \in Seq(Symbols),
           NEW x \in Seq(Symbols), NEW z \in Seq(Symbols)
    PROVE  Later(ResolveTag(GrowTag(Prefixed(u, t), x, z)), ResolveTag(GrowTag(u, x, z)), t)
<1>1. Later(GrowTag(Prefixed(u, t), x, z), GrowTag(u, x, z), t)
  BY LaterGrowTag
<1>2. GrowTag(u, x, z) \in UnescaperStates /\ GrowTag(Prefixed(u, t), x, z) = Prefixed(GrowTag(u, x, z), t)
  BY <1>1 DEF Later
<1> QED BY <1>2, LaterResolve

\* A symbol in a tag.
LEMMA LaterInTag ==
    ASSUME NEW u \in UnescaperStates, NEW t \in Seq(Symbols), NEW r \in Symbols
    PROVE  Later(InTag(Prefixed(u, t), r), InTag(u, r), t)
<1> DEFINE v == Prefixed(u, t)
           x == Append(u.raw, r)
<1>1. v.raw = u.raw
  BY PrefixedHas DEF Has
<1>2. <<r>> \in Seq(Symbols) /\ x \in Seq(Symbols) /\ "tagEntity" \in Modes
  BY Fields DEF Modes
<1>3. CASE r = ">"
  <2>1. Later(ResolveTag(GrowTag(v, <<r>>, <<r>>)), ResolveTag(GrowTag(u, <<r>>, <<r>>)), t)
    BY <1>2, LaterGrowResolve
  <2>2. /\ InTag(v, r) = ResolveTag(GrowTag(v, <<r>>, <<r>>))
        /\ InTag(u, r) = ResolveTag(GrowTag(u, <<r>>, <<r>>))
    BY <1>3, Punctuation DEF InTag
  <2> QED BY <2>1, <2>2
<1>4. CASE r # ">" /\ r = "&"
  <2>1. Later(OpenEntity(v, "tagEntity"), OpenEntity(u, "tagEntity"), t)
    BY <1>2, LaterOpenEntity
  <2>2. InTag(v, r) = OpenEntity(v, "tagEntity") /\ InTag(u, r) = OpenEntity(u, "tagEntity")
    BY <1>4, Punctuation DEF InTag
  <2> QED BY <2>1, <2>2
<1>5. CASE r # ">" /\ r # "&" /\ IsTagChar(r) /\ Len(u.raw) < MaxTag
  <2>1. Later(GrowTag(v, <<r>>, <<r>>), GrowTag(u, <<r>>, <<r>>), t)
    BY <1>2, LaterGrowTag
  <2> QED BY <1>1, <1>5, <2>1 DEF InTag
<1>6. CASE r # ">" /\ r # "&" /\ ~(IsTagChar(r) /\ Len(u.raw) < MaxTag)
  <2>1. Later(Write(Normal(v), x), Write(Normal(u), x), t)
    BY <1>2, LaterWriteNormal
  <2>2. InTag(v, r) = Write(Normal(v), x) /\ InTag(u, r) = Write(Normal(u), x)
    BY <1>1, <1>6 DEF InTag
  <2> QED BY <2>1, <2>2
<1> QED BY <1>3, <1>4, <1>5, <1>6

\* A symbol in an entity of a tag.
LEMMA LaterInTagEntity ==
    ASSUME NEW u \in UnescaperStates, NEW t \in Seq(Symbols), NEW r \in Symbols
    PROVE  Later(InTagEntity(Prefixed(u, t), r), InTagEntity(u, r), t)
<1> DEFINE v == Prefixed(u, t)
           e == Append(u.entity, r)
<1>1. v.entity = u.entity
  BY PrefixedHas DEF Has
<1>2. /\ u.entity \in Seq(Symbols) /\ e \in Seq(Symbols) /\ <<">">> \in Seq(Symbols)
      /\ "tagEntity" \in Modes
  BY Fields, SymbolTexts DEF Modes
<1>3. CASE r = "&"
  <2>1. Later(GrowTag(v, u.entity, u.entity), GrowTag(u, u.entity, u.entity), t)
    BY <1>2, LaterGrowTag
  <2>2. /\ GrowTag(u, u.entity, u.entity) \in UnescaperStates
        /\ GrowTag(v, u.entity, u.entity) = Prefixed(GrowTag(u, u.entity, u.entity), t)
    BY <2>1 DEF Later
  <2>3. Later(OpenEntity(GrowTag(v, u.entity, u.entity), "tagEntity"),
              OpenEntity(GrowTag(u, u.entity, u.entity), "tagEntity"), t)
    BY <1>2, <2>2, LaterOpenEntity
  <2>4. /\ InTagEntity(v, r) = OpenEntity(GrowTag(v, u.entity, u.entity), "tagEntity")
        /\ InTagEntity(u, r) = OpenEntity(GrowTag(u, u.entity, u.entity), "tagEntity")
    BY <1>1, <1>3, Punctuation DEF InTagEntity
  <2> QED BY <2>3, <2>4
<1>4. CASE r # "&" /\ r = ";" /\ Decoded(e) = <<">">>
  <2>1. Later(ResolveTag(GrowTag(v, e, <<">">>)), ResolveTag(GrowTag(u, e, <<">">>)), t)
    BY <1>2, LaterGrowResolve
  <2>2. /\ InTagEntity(v, r) = ResolveTag(GrowTag(v, e, <<">">>))
        /\ InTagEntity(u, r) = ResolveTag(GrowTag(u, e, <<">">>))
    BY <1>1, <1>4 DEF InTagEntity
  <2> QED BY <2>1, <2>2
<1>5. CASE r # "&" /\ r # ";" /\ IsEntityChar(r) /\ Len(u.entity) < MaxEntity
  <2>1. Later([v EXCEPT !.entity = e], [u EXCEPT !.entity = e], t)
    BY <1>2, LaterEntity
  <2>2. InTagEntity(v, r) = [v EXCEPT !.entity = e] /\ InTagEntity(u, r) = [u EXCEPT !.entity = e]
    BY <1>1, <1>5 DEF InTagEntity
  <2> QED BY <2>1, <2>2
<1>6. CASE /\ r # "&" /\ ~(r = ";" /\ Decoded(e) = <<">">>)
           /\ ~(r # ";" /\ IsEntityChar(r) /\ Len(u.entity) < MaxEntity)
  <2>1. Later(GrowTag(v, e, e), GrowTag(u, e, e), t)
    BY <1>2, LaterGrowTag
  <2>2. InTagEntity(v, r) = GrowTag(v, e, e) /\ InTagEntity(u, r) = GrowTag(u, e, e)
    BY <1>1, <1>6 DEF InTagEntity
  <2> QED BY <2>1, <2>2
<1> QED BY <1>3, <1>4, <1>5, <1>6

\* One symbol read in a state and in the same state with an earlier output.
LEMMA LaterRune ==
    ASSUME NEW u \in UnescaperStates, NEW t \in Seq(Symbols), NEW r \in Symbols
    PROVE  Later(ProcessRune(Prefixed(u, t), r), ProcessRune(u, r), t)
<1> DEFINE v == Prefixed(u, t)
<1>1. v.mode = u.mode /\ u.mode \in {"normal", "entity", "tag", "tagEntity"}
  BY PrefixedHas, Fields DEF Has, Modes
<1>2. /\ Later(InNormal(v, r), InNormal(u, r), t)
      /\ Later(InEntity(v, r), InEntity(u, r), t)
      /\ Later(InTag(v, r), InTag(u, r), t)
      /\ Later(InTagEntity(v, r), InTagEntity(u, r), t)
  BY LaterInNormal, LaterInEntity, LaterInTag, LaterInTagEntity
<1> HIDE DEF v
<1>3. Later(ProcessRune(v, r), ProcessRune(u, r), t)
  BY <1>1, <1>2 DEF ProcessRune
<1> QED BY <1>3 DEF v

-------------------------------------------------------------------------------
(* Read in pieces or at once, a text gives the same output. *)

\* A text read from a typed state leaves a typed state.
LEMMA ReadTypes ==
    ASSUME NEW u \in UnescaperStates, NEW text \in Seq(Symbols)
    PROVE  Runes!Folded(u, text) \in UnescaperStates
<1>1. ASSUME NEW v \in UnescaperStates, NEW r \in Symbols
      PROVE  ProcessRune(v, r) \in UnescaperStates
  <2>1. <<>> \in Seq(Symbols)
    BY SymbolTexts
  <2> QED BY <2>1, LaterRune DEF Later
<1> QED BY <1>1, Runes!FoldKeeps

\* What has been written before stays in front, whatever is read.
LEMMA LaterRead ==
    ASSUME NEW u \in UnescaperStates, NEW t \in Seq(Symbols), NEW text \in Seq(Symbols)
    PROVE  Later(Runes!Folded(Prefixed(u, t), text), Runes!Folded(u, text), t)
<1> DEFINE v == Prefixed(u, t)
           S == {n \in Nat : \A s \in Seq(Symbols) :
                    Len(s) = n => Later(Runes!Folded(v, s), Runes!Folded(u, s), t)}
<1>1. 0 \in S
  <2>1. \A s \in Seq(Symbols) : Len(s) = 0 => s = <<>>
    OBVIOUS
  <2>2. Later(Runes!Folded(v, <<>>), Runes!Folded(u, <<>>), t)
    <3>1. Runes!Folded(v, <<>>) = v /\ Runes!Folded(u, <<>>) = u
      BY Runes!FoldEmpty
    <3> QED BY <3>1 DEF Later
  <2> QED BY <2>1, <2>2
<1>2. ASSUME NEW n \in Nat, n \in S PROVE n + 1 \in S
  <2> SUFFICES ASSUME NEW s \in Seq(Symbols), Len(s) = n + 1
               PROVE  Later(Runes!Folded(v, s), Runes!Folded(u, s), t)
    OBVIOUS
  <2>1. PICK front \in Seq(Symbols), r \in Symbols : s = Append(front, r)
    <3>1. s # <<>>
      OBVIOUS
    <3> QED BY <3>1, SequenceEmptyOrAppend
  <2>2. Len(front) = n
    BY <2>1
  <2>3. Later(Runes!Folded(v, front), Runes!Folded(u, front), t)
    BY <1>2, <2>2
  <2>4. /\ Runes!Folded(v, s) = ProcessRune(Runes!Folded(v, front), r)
        /\ Runes!Folded(u, s) = ProcessRune(Runes!Folded(u, front), r)
    BY <2>1, Runes!FoldAppend
  <2> HIDE DEF v
  <2>5. /\ Runes!Folded(u, front) \in UnescaperStates
        /\ Runes!Folded(v, front) = Prefixed(Runes!Folded(u, front), t)
    BY <2>3 DEF Later
  <2> QED BY <2>4, <2>5, LaterRune
<1>3. Len(text) \in S
  <2> HIDE DEF S
  <2>1. Len(text) \in Nat
    OBVIOUS
  <2> QED BY <1>1, <1>2, <2>1, Runes!SetInduction
<1> QED BY <1>3

\* One call of Process is the fold, without what was written before.
LEMMA Reading ==
    ASSUME NEW u \in UnescaperStates, NEW text \in Seq(Symbols)
    PROVE  /\ Process(u, text) = Runes!Folded([u EXCEPT !.out = <<>>], text)
           /\ Process(u, text) \in UnescaperStates
           /\ [Process(u, text) EXCEPT !.out = <<>>] \in UnescaperStates
<1> DEFINE v == [u EXCEPT !.out = <<>>]
<1>1. \A w \in UnescaperStates : [w EXCEPT !.out = <<>>] \in UnescaperStates
  BY SymbolTexts, WithOut DEF Has
<1>2. v \in UnescaperStates
  BY <1>1
<1>3. Process(u, text) = FoldLeft(ProcessRune, v, text)
  BY DEF Process
<1> HIDE DEF v
<1>4. FoldLeft(ProcessRune, v, text) = Runes!Folded(v, text)
  BY DEF Runes!Folded, FoldLeft, MapThenFoldSet, Runes!FoldLeft, Runes!MapThenFoldSet, Max, Runes!Max
<1>5. Process(u, text) \in UnescaperStates
  BY <1>2, <1>3, <1>4, ReadTypes
<1> QED BY <1>1, <1>3, <1>4, <1>5 DEF v

\* What is left when the output has been taken.
Taken(u) == [u EXCEPT !.out = <<>>]

\* A text read in two pieces, with the output of each collected, is the text
\* read at once.
LEMMA ProcessConcat ==
    ASSUME NEW u \in UnescaperStates, u.out = <<>>,
           NEW old \in Seq(Symbols), NEW text \in Seq(Symbols)
    PROVE  /\ Process(u, old \o text).out
                 = Process(u, old).out \o Process(Taken(Process(u, old)), text).out
           /\ Taken(Process(u, old \o text)) = Taken(Process(Taken(Process(u, old)), text))
<1>0. <<>> \in Seq(Symbols)
  BY SymbolTexts
<1>1. ASSUME NEW v \in UnescaperStates, v.out = <<>>, NEW s \in Seq(Symbols)
      PROVE  Process(v, s) = Runes!Folded(v, s)
  <2>1. [v EXCEPT !.out = <<>>] = v
    <3>1. Has([v EXCEPT !.out = <<>>], v.mode, v.entity, v.raw, v.parsed, v.blocks, <<>>)
      BY <1>0, WithOut
    <3> QED BY <1>1, <3>1, Fields, SameState
  <2> QED BY <2>1, Reading
<1> DEFINE read == Process(u, old)
           rest == [read EXCEPT !.out = <<>>]
           more == Process(rest, text)
           whole == Process(u, old \o text)
<1>2. read = Runes!Folded(u, old) /\ read \in UnescaperStates
  BY <1>1, ReadTypes
<1> HIDE DEF read
<1>3. Has(rest, read.mode, read.entity, read.raw, read.parsed, read.blocks, <<>>)
  BY <1>0, <1>2, WithOut
<1>4. rest \in UnescaperStates /\ rest.out = <<>>
  BY <1>3 DEF Has
<1>5. read.out \in Seq(Symbols)
  BY <1>2, Fields
<1> HIDE DEF rest
<1>6. read = Prefixed(rest, read.out)
  <2>1. Has(Prefixed(rest, read.out), rest.mode, rest.entity, rest.raw, rest.parsed, rest.blocks,
            read.out \o rest.out)
    BY <1>4, <1>5, PrefixedHas
  <2>2. read.out \o rest.out = read.out
    BY <1>4, <1>5, ConcatEmptySeq
  <2>3. Has(Prefixed(rest, read.out), read.mode, read.entity, read.raw, read.parsed, read.blocks,
            read.out)
    BY <1>3, <2>1, <2>2 DEF Has
  <2>4. Has(read, read.mode, read.entity, read.raw, read.parsed, read.blocks, read.out)
    BY <1>2, Fields
  <2> QED BY <2>3, <2>4, SameState
<1>7. more = Runes!Folded(rest, text) /\ more \in UnescaperStates
  BY <1>1, <1>4, ReadTypes
<1> HIDE DEF more
<1>8. whole = Runes!Folded(read, text)
  <2>1. Runes!Folded(u, old \o text) = Runes!Folded(Runes!Folded(u, old), text)
    BY Runes!FoldConcat
  <2>2. old \o text \in Seq(Symbols)
    OBVIOUS
  <2> QED BY <1>1, <1>2, <2>1, <2>2
<1> HIDE DEF whole
<1>9. Later(whole, more, read.out)
  BY <1>4, <1>5, <1>6, <1>7, <1>8, LaterRead
<1>10. /\ whole \in UnescaperStates /\ whole.out = read.out \o more.out
       /\ whole.mode = more.mode /\ whole.entity = more.entity /\ whole.raw = more.raw
       /\ whole.parsed = more.parsed /\ whole.blocks = more.blocks
  BY <1>5, <1>9, LaterThen
<1>11. [whole EXCEPT !.out = <<>>] = [more EXCEPT !.out = <<>>]
  <2>1. Has([whole EXCEPT !.out = <<>>], more.mode, more.entity, more.raw, more.parsed, more.blocks, <<>>)
    BY <1>0, <1>10, WithOut DEF Has
  <2>2. Has([more EXCEPT !.out = <<>>], more.mode, more.entity, more.raw, more.parsed, more.blocks, <<>>)
    BY <1>0, <1>7, WithOut
  <2> QED BY <2>1, <2>2, SameState
<1>12. rest = Taken(read) /\ more = Process(rest, text)
  BY DEF rest, more, Taken
<1>13. whole.out = read.out \o more.out /\ Taken(whole) = Taken(more)
  BY <1>10, <1>11 DEF Taken
<1> QED BY <1>12, <1>13 DEF read, whole

-------------------------------------------------------------------------------
(* The steps of the request, sorted by what they do to the wire. *)

\* The calls as records, whichever the model has made.
CallRecords == [round : 0..MaxRetrievals, index : Nat, name : CallNames, whole : BOOLEAN]

\* The loop goes from one phase of an attempt to another, or stays.
GoesOn ==
    \/ UNCHANGED <<pc, retrievals, iterErr, outcome>>
    \/ /\ pc \in {"head", "waiting"}
       /\ \/ pc' = "waiting" /\ UNCHANGED outcome
          \/ pc' = "done" /\ outcome' # "success"
       /\ UNCHANGED <<retrievals, iterErr>>
    \/ /\ pc = "streaming"
       /\ \/ pc' = "deciding" /\ (inflight = <<>> \/ iterErr' # "nil")
          \/ pc' = "done" /\ outcome' # "success"
       /\ UNCHANGED retrievals
    \/ /\ pc = "deciding" /\ pc' = "done"
       /\ outcome' = "success" => iterErr = "nil"
       /\ UNCHANGED <<retrievals, iterErr>>
    \/ /\ pc = "deciding" /\ pc' = "head"
       /\ \/ retrievals' = retrievals + 1 /\ iterErr = "nil"
          \/ retrievals' = retrievals /\ ~gotChunk

\* A step that writes nothing and makes nothing.
Quiet ==
    /\ UNCHANGED <<route, inflight, window, emitter, record, gotChunk, loopFired>>
    /\ GoesOn

\* A new attempt, as far as the invariants look at the loop.
Opens ==
    /\ pc \in {"head", "waiting"} /\ pc' = "streaming"
    /\ gotChunk' = FALSE /\ loopFired' = FALSE
    /\ UNCHANGED <<retrievals, outcome>>
    /\ OpenDecoder

\* A call handed from the decoder's assembly to the loop.
HandOver ==
    \E i \in DOMAIN inflight :
        /\ YieldCall(inflight[i])
        /\ inflight' = Without(inflight, i)
        /\ UNCHANGED <<route, phase, reason, window, finish, record>>

\* The attempt is streaming and goes on.
Streams == pc = "streaming" /\ UNCHANGED <<pc, retrievals, iterErr, outcome>>

\* Which steps of the loop are quiet.
LEMMA QuietLoop ==
    ASSUME UNCHANGED <<route, inflight, window, emitter, record>>
    PROVE  /\ Loop!StartBackoff \/ Loop!BackoffCanceled \/ Loop!GiveUp => Quiet
           /\ Loop!ResolveRetrieval \/ Loop!ScheduleRetry => Quiet
           /\ Loop!AbortAfterOutput \/ Loop!AbortNonRetryable \/ Loop!Complete => Quiet
           /\ Loop!StreamFails \/ Loop!ClientWriteFails => Quiet
           /\ Loop!StreamEnds /\ inflight = <<>> => Quiet
           /\ Loop!ClientDisconnects \/ Loop!ContextCanceled => Quiet
           /\ UNCHANGED loop => Quiet
<1> USE DEF Quiet, GoesOn, Loop!loopVars, Loop!attemptVars, Loop!envVars, Loop!history
<1>1. Loop!StartBackoff \/ Loop!BackoffCanceled \/ Loop!GiveUp => Quiet
  BY DEF Loop!StartBackoff, Loop!BackoffCanceled, Loop!GiveUp, Loop!Return
<1>2. Loop!ResolveRetrieval => Quiet
  BY DEF Loop!ResolveRetrieval, Loop!MustResolve
<1>3. Loop!ScheduleRetry => Quiet
  BY DEF Loop!ScheduleRetry, Loop!OutputShown
<1>4. Loop!AbortAfterOutput \/ Loop!AbortNonRetryable => Quiet
  BY DEF Loop!AbortAfterOutput, Loop!AbortNonRetryable, Loop!Return
<1>5. Loop!Complete => Quiet
  BY DEF Loop!Complete, Loop!EndedWell, Loop!Return
<1>6. Loop!StreamFails \/ Loop!ClientWriteFails => Quiet
  BY DEF Loop!StreamFails, Loop!ClientWriteFails, Loop!Return, Loop!ErrKinds
<1>7. Loop!StreamEnds /\ inflight = <<>> => Quiet
  BY DEF Loop!StreamEnds
<1>8. Loop!ClientDisconnects \/ Loop!ContextCanceled => Quiet
  BY DEF Loop!ClientDisconnects, Loop!ContextCanceled
<1>9. UNCHANGED loop => Quiet
  BY DEF loop
<1> QED BY <1>1, <1>2, <1>3, <1>4, <1>5, <1>6, <1>7, <1>8, <1>9

\* Every step is one of nine kinds.
LEMMA Steps ==
    ASSUME [Next]_vars
    PROVE  \/ Quiet \/ Opens \/ UpstreamText
           \/ UpstreamCall \/ UpstreamCallStart \/ UpstreamCallArgs
           \/ HandOver \/ CloseWithError \/ CloseWell
<1>1. CASE OpenAttempt
  BY <1>1 DEF OpenAttempt, Opens, Loop!FirstAttempt, Loop!BackoffElapsed, Loop!OpenStream,
              Loop!loopVars
<1>2. CASE BetweenAttempts
  BY <1>2, QuietLoop DEF BetweenAttempts, decoder
<1>3. CASE Complete
  BY <1>3, QuietLoop DEF Complete, decoder
<1>4. CASE FlushCall
  BY <1>4 DEF FlushCall, HandOver
<1>5. CASE EndOfStream
  BY <1>5, QuietLoop DEF EndOfStream, decoder
<1>6. CASE UpstreamCallStop
  BY <1>6 DEF UpstreamCallStop, HandOver
<1>7. CASE UpstreamReason \/ UpstreamCloses \/ Finished \/ UNCHANGED vars
  BY <1>7, QuietLoop DEF UpstreamReason, UpstreamCloses, Finished, vars, decoder
<1>11. CASE AbandonAnswer
  BY <1>11, QuietLoop DEF AbandonAnswer
<1>8. CASE UpstreamFails
  BY <1>8, QuietLoop DEF UpstreamFails, decoder
<1>9. CASE WriteFails
  BY <1>9, QuietLoop DEF WriteFails, decoder
<1>10. CASE Environment
  BY <1>10, QuietLoop DEF Environment, decoder
<1> QED
  BY <1>1, <1>2, <1>3, <1>4, <1>5, <1>6, <1>7, <1>8, <1>9, <1>10, <1>11
     DEF Next, Gateway, Publisher, StreamOver

\* What the loop does while the publisher's stream is read.
LEMMA StreamSteps ==
    /\ UpstreamText => Streams /\ gotChunk' = TRUE
    /\ UpstreamCall \/ HandOver => Streams /\ UNCHANGED loopFired
    /\ \A call : YieldCall(call) =>
          /\ Streams
          /\ call.name = RetrieveName => UNCHANGED <<gotChunk, emitter>>
          /\ call.name # RetrieveName => gotChunk' = TRUE /\ EmitCall(call)
    /\ UpstreamCallStart \/ UpstreamCallArgs => Streams /\ UNCHANGED <<gotChunk, loopFired>>
    /\ CloseWithError \/ CloseWell =>
          UNCHANGED <<pc, retrievals, iterErr, outcome, gotChunk, loopFired>> /\ pc = "done"
<1> USE DEF Streams, Loop!loopVars, Loop!attemptVars, Loop!envVars, Loop!history
<1>1. UpstreamText => Streams /\ gotChunk' = TRUE
  BY DEF UpstreamText, Loop!DeliverText, Loop!Emit
<1>2. ASSUME NEW call, YieldCall(call)
      PROVE  /\ Streams /\ UNCHANGED loopFired
             /\ call.name = RetrieveName => UNCHANGED <<gotChunk, emitter>>
             /\ call.name # RetrieveName => gotChunk' = TRUE /\ EmitCall(call)
  BY <1>2 DEF YieldCall, Loop!WithholdRetrieval, Loop!DeliverToolCall, Loop!Emit
<1>3. UpstreamCall \/ HandOver => Streams /\ UNCHANGED loopFired
  BY <1>2 DEF UpstreamCall, HandOver
<1>4. UpstreamCallStart \/ UpstreamCallArgs => Streams /\ UNCHANGED <<gotChunk, loopFired>>
  BY DEF UpstreamCallStart, UpstreamCallArgs, MayBegin, MayRead, loop
<1>5. CloseWithError \/ CloseWell =>
          UNCHANGED <<pc, retrievals, iterErr, outcome, gotChunk, loopFired>> /\ pc = "done"
  BY DEF CloseWithError, CloseWell, loop
<1> QED BY <1>1, <1>2, <1>3, <1>4, <1>5

-------------------------------------------------------------------------------
(* The events, and what a client has received of them. *)

\* The lemmas about folds, for the calls of a stream.
Found == INSTANCE FoldLemmas WITH Op <- AddCalls

\* The events as records, by kind.
TextEvents == [type : {"text"}, text : Seq(Symbols)]
CallEvents == [type : {"call"}, index : Nat, call : CallRecords]
FinalEvents == [type : {"final"}, reason : {"stop", "length", "tool_calls"}, calls : Seq(CallRecords)]
PlainEvents == [type : {"role", "error", "done"}]
AllEvents == PlainEvents \union TextEvents \union CallEvents \union FinalEvents

\* The type of an event says its kind.
LEMMA EventKinds ==
    ASSUME NEW e \in AllEvents
    PROVE  /\ e.type \in {"role", "error", "done", "text", "call", "final"}
           /\ e.type = "text" <=> e \in TextEvents
           /\ e.type = "call" <=> e \in CallEvents
           /\ e.type = "final" <=> e \in FinalEvents
           /\ e.type \in {"role", "error", "done"} <=> e \in PlainEvents
<1>1. CASE e \in PlainEvents
  BY <1>1 DEF PlainEvents, TextEvents, CallEvents, FinalEvents
<1>2. CASE e \in TextEvents
  BY <1>2 DEF PlainEvents, TextEvents, CallEvents, FinalEvents
<1>3. CASE e \in CallEvents
  BY <1>3 DEF PlainEvents, TextEvents, CallEvents, FinalEvents
<1>4. CASE e \in FinalEvents
  BY <1>4 DEF PlainEvents, TextEvents, CallEvents, FinalEvents
<1> QED BY <1>1, <1>2, <1>3, <1>4 DEF AllEvents

\* What the emitters write are events.
LEMMA MadeEvents ==
    /\ \A type \in {"role", "error", "done"} : [type |-> type] \in AllEvents
    /\ \A text \in Seq(Symbols) : [type |-> "text", text |-> text] \in TextEvents
    /\ TextEvents \subseteq AllEvents
    /\ \A index \in Nat, call \in CallRecords :
          [type |-> "call", index |-> index, call |-> call] \in AllEvents
    /\ \A why \in {"stop", "length", "tool_calls"}, found \in Seq(CallRecords) :
          [type |-> "final", reason |-> why, calls |-> found] \in AllEvents
<1>1. \A type \in {"role", "error", "done"} : [type |-> type] \in PlainEvents
  BY DEF PlainEvents
<1>2. \A text \in Seq(Symbols) : [type |-> "text", text |-> text] \in TextEvents
  BY DEF TextEvents
<1>3. \A index \in Nat, call \in CallRecords :
          [type |-> "call", index |-> index, call |-> call] \in CallEvents
  BY DEF CallEvents
<1>4. \A why \in {"stop", "length", "tool_calls"}, found \in Seq(CallRecords) :
          [type |-> "final", reason |-> why, calls |-> found] \in FinalEvents
  BY DEF FinalEvents
<1> QED BY <1>1, <1>2, <1>3, <1>4 DEF AllEvents

\* What one more event adds to what the client has.
LEMMA Received ==
    /\ TextsOf(<<>>) = <<>> /\ CallsOf(<<>>) = <<>>
    /\ \A events \in Seq(AllEvents) :
          TextsOf(events) \in Seq(Symbols) /\ CallsOf(events) \in Seq(CallRecords)
    /\ \A events \in Seq(AllEvents), e \in AllEvents :
          /\ TextsOf(Append(events, e)) = AddText(TextsOf(events), e)
          /\ CallsOf(Append(events, e)) = AddCalls(CallsOf(events), e)
<1>1. ASSUME NEW events
      PROVE  TextsOf(events) = Texts!Folded(<<>>, events) /\ CallsOf(events) = Found!Folded(<<>>, events)
  <2>1. TextsOf(events) = Texts!Folded(<<>>, events)
    BY DEF TextsOf, Texts!Folded, FoldLeft, MapThenFoldSet, Texts!FoldLeft, Texts!MapThenFoldSet, Max, Texts!Max
  <2>2. CallsOf(events) = Found!Folded(<<>>, events)
    BY DEF CallsOf, Found!Folded, FoldLeft, MapThenFoldSet, Found!FoldLeft, Found!MapThenFoldSet, Max, Found!Max
  <2> QED BY <2>1, <2>2
<1>2. TextsOf(<<>>) = <<>> /\ CallsOf(<<>>) = <<>>
  BY <1>1, Texts!FoldEmpty, Found!FoldEmpty
<1>3. ASSUME NEW events \in Seq(AllEvents) PROVE TextsOf(events) \in Seq(Symbols)
  <2>1. ASSUME NEW a \in Seq(Symbols), NEW e \in AllEvents PROVE AddText(a, e) \in Seq(Symbols)
    <3>1. e.type = "text" => e.text \in Seq(Symbols)
      BY EventKinds DEF TextEvents
    <3> QED BY <3>1 DEF AddText
  <2>2. <<>> \in Seq(Symbols)
    BY SymbolTexts
  <2>3. Texts!Folded(<<>>, events) \in Seq(Symbols)
    BY <2>1, <2>2, Texts!FoldKeeps
  <2> QED BY <1>1, <2>3
<1>4. ASSUME NEW events \in Seq(AllEvents) PROVE CallsOf(events) \in Seq(CallRecords)
  <2>1. ASSUME NEW a \in Seq(CallRecords), NEW e \in AllEvents PROVE AddCalls(a, e) \in Seq(CallRecords)
    <3>1. e.type = "call" => e.call \in CallRecords
      BY EventKinds DEF CallEvents
    <3>2. e.type = "final" => e.calls \in Seq(CallRecords)
      BY EventKinds DEF FinalEvents
    <3> QED BY <3>1, <3>2 DEF AddCalls
  <2>2. <<>> \in Seq(CallRecords)
    OBVIOUS
  <2>3. Found!Folded(<<>>, events) \in Seq(CallRecords)
    BY <2>1, <2>2, Found!FoldKeeps
  <2> QED BY <1>1, <2>3
<1>5. ASSUME NEW events \in Seq(AllEvents), NEW e \in AllEvents
      PROVE  /\ TextsOf(Append(events, e)) = AddText(TextsOf(events), e)
             /\ CallsOf(Append(events, e)) = AddCalls(CallsOf(events), e)
  <2>1. Texts!Folded(<<>>, Append(events, e)) = AddText(Texts!Folded(<<>>, events), e)
    BY Texts!FoldAppend
  <2>2. Found!Folded(<<>>, Append(events, e)) = AddCalls(Found!Folded(<<>>, events), e)
    BY Found!FoldAppend
  <2> QED BY <1>1, <2>1, <2>2
<1> QED BY <1>2, <1>3, <1>4, <1>5

\* A text joins the last event, if that is one of text, or is an event of its
\* own.  Nothing else changes.
LEMMA JoinedText ==
    ASSUME NEW events \in Seq(AllEvents), NEW text \in Seq(Symbols)
    PROVE  LET joined == AppendText(events, text)
           IN /\ joined \in Seq(AllEvents)
              /\ Len(joined) = Len(events) \/ Len(joined) = Len(events) + 1
              /\ Len(joined) > 0
              /\ \A i \in 1..Len(events) :
                    /\ joined[i].type = events[i].type
                    /\ events[i].type # "text" => joined[i] = events[i]
              /\ joined[Len(joined)].type = "text"
              /\ TextsOf(joined) = TextsOf(events) \o text
              /\ CallsOf(joined) = CallsOf(events)
<1> DEFINE joined == AppendText(events, text)
           e == [type |-> "text", text |-> text]
<1>0. e \in TextEvents /\ e \in AllEvents
  BY MadeEvents
<1>1. TextsOf(events) \in Seq(Symbols) /\ CallsOf(events) \in Seq(CallRecords)
  BY Received
<1>2. CASE ~(events # <<>> /\ Last(events).type = "text")
  <2>1. joined = Append(events, e)
    BY <1>2 DEF AppendText
  <2>2. AddText(TextsOf(events), e) = TextsOf(events) \o text
    BY DEF AddText
  <2>3. AddCalls(CallsOf(events), e) = CallsOf(events)
    BY DEF AddCalls
  <2>4. /\ TextsOf(joined) = TextsOf(events) \o text
        /\ CallsOf(joined) = CallsOf(events)
    BY <1>0, <2>1, <2>2, <2>3, Received
  <2>5. e.type = "text"
    OBVIOUS
  <2>6. /\ joined \in Seq(AllEvents) /\ Len(joined) = Len(events) + 1
        /\ \A i \in 1..Len(events) : joined[i] = events[i]
        /\ joined[Len(joined)] = e
    <3> HIDE DEF e
    <3> QED BY <1>0, <2>1, AppendProperties
  <2> QED BY <2>4, <2>5, <2>6
<1>3. CASE events # <<>> /\ Last(events).type = "text"
  <2>1. PICK front \in Seq(AllEvents), old \in AllEvents : events = Append(front, old)
    BY <1>3, SequenceEmptyOrAppend
  <2>2. Len(events) = Len(front) + 1 /\ events[Len(events)] = old /\ Last(events) = old
    BY <2>1 DEF Last
  <2>3. old.type = "text" /\ old \in TextEvents /\ old.text \in Seq(Symbols)
    BY <1>3, <2>2, EventKinds DEF TextEvents
  <2> DEFINE new == [old EXCEPT !.text = old.text \o text]
  <2>4. new \in TextEvents /\ new.type = "text" /\ new.text = old.text \o text /\ new \in AllEvents
    <3>1. old.text \o text \in Seq(Symbols)
      BY <2>3
    <3>2. new \in TextEvents
      BY <2>3, <3>1 DEF TextEvents
    <3>3. new.type = "text" /\ new.text = old.text \o text
      BY <2>3 DEF TextEvents
    <3> QED BY <3>2, <3>3, MadeEvents
  <2>5. joined = [events EXCEPT ![Len(events)] = new]
    <3>1. joined = [events EXCEPT ![Len(events)].text = @ \o text]
      BY <1>3 DEF AppendText
    <3> QED BY <2>2, <3>1
  <2> HIDE DEF new, joined
  <2>50. /\ joined \in Seq(AllEvents) /\ Len(joined) = Len(events)
         /\ \A i \in 1..Len(events) : joined[i] = IF i = Len(events) THEN new ELSE events[i]
    <3>1. Len(events) \in 1..Len(events)
      BY <2>2
    <3>2. joined \in Seq(AllEvents) /\ Len(joined) = Len(events)
      BY <2>4, <2>5, <3>1, ExceptSeq
    <3>3. \A i \in 1..Len(events) : joined[i] = IF i = Len(events) THEN new ELSE events[i]
      BY <2>5
    <3> QED BY <3>2, <3>3
  <2>6. joined = Append(front, new)
    <3>1. /\ joined \in Seq(AllEvents) /\ Len(joined) = Len(events)
          /\ \A i \in 1..Len(events) : joined[i] = IF i = Len(events) THEN new ELSE events[i]
      BY <2>50
    <3>2. /\ Append(front, new) \in Seq(AllEvents) /\ Len(Append(front, new)) = Len(front) + 1
          /\ \A i \in 1..Len(front) : Append(front, new)[i] = front[i]
          /\ Append(front, new)[Len(front) + 1] = new
      BY <2>4, AppendProperties
    <3>3. \A i \in 1..Len(front) : events[i] = front[i]
      BY <2>1
    <3>4. \A i \in 1..Len(joined) : joined[i] = Append(front, new)[i]
      BY <2>2, <3>1, <3>2, <3>3
    <3> QED BY <2>2, <3>1, <3>2, <3>4, SeqEqual
  <2>7. /\ TextsOf(joined) = TextsOf(events) \o text
        /\ CallsOf(joined) = CallsOf(events)
    <3>1. /\ TextsOf(joined) = TextsOf(front) \o (old.text \o text)
          /\ CallsOf(joined) = CallsOf(front)
      BY <2>4, <2>6, Received DEF AddText, AddCalls
    <3>2. /\ TextsOf(events) = TextsOf(front) \o old.text
          /\ CallsOf(events) = CallsOf(front)
      BY <2>1, <2>3, Received DEF AddText, AddCalls
    <3>3. TextsOf(front) \in Seq(Symbols)
      BY Received
    <3>4. \A a, b, c \in Seq(Symbols) : (a \o b) \o c = a \o (b \o c)
      BY ConcatAssociative, SMTT(30)
    <3>5. (TextsOf(front) \o old.text) \o text = TextsOf(front) \o (old.text \o text)
      BY <2>3, <3>3, <3>4
    <3> QED BY <3>1, <3>2, <3>5
  <2>8. /\ joined \in Seq(AllEvents) /\ Len(joined) = Len(events)
        /\ \A i \in 1..Len(events) : joined[i] = IF i = Len(events) THEN new ELSE events[i]
    BY <2>50
  <2>9. \A i \in 1..Len(events) :
                    /\ joined[i].type = events[i].type
                    /\ events[i].type # "text" => joined[i] = events[i]
    BY <2>2, <2>3, <2>4, <2>8
  <2>10. joined[Len(joined)].type = "text" /\ Len(joined) > 0 /\ Len(joined) = Len(events)
    BY <2>2, <2>4, <2>8
  <2> QED BY <2>7, <2>8, <2>9, <2>10 DEF joined
<1> QED BY <1>2, <1>3

-------------------------------------------------------------------------------
(* The types of the wire state.  Events and calls are typed as records         *)
(* first; that the calls are those the model made follows at the end.          *)

\* The domains of the wire's variables.  That what is shown or assembled is
\* among the calls made is for a later part.
SmallTypes ==
    /\ route \in Routes
    /\ phase \in {"reading", "flushing", "abandoned"}
    /\ reason \in Reasons
    /\ finish \in Reasons

\* Types, with the calls as records.
WireTypes ==
    /\ SmallTypes
    /\ made \in SUBSET CallRecords
    /\ IsFiniteSet(made)
    /\ \A i \in DOMAIN inflight : inflight[i] \in made /\ inflight[i].index = i
    /\ unescaper \in UnescaperStates
    /\ collected \in Seq(CallRecords)
    /\ sent \in Seq(AllEvents)
    /\ written \in Seq(Symbols)
    /\ start \in 0..Len(written)

\* The parts of the route and its bounds have their types.
LEMMA RouteParts ==
    ASSUME route \in Routes
    PROVE  /\ dialect \in Dialects /\ surface \in Surfaces
           /\ \A text \in Fragments[dialect] : text \in Seq(Symbols)
           /\ MaxCalls[dialect] \in Nat
<1>1. route \in Dialects \X Surfaces
  BY StreamDeliveryAssumption
<1>2. dialect \in Dialects /\ surface \in Surfaces
  BY <1>1 DEF dialect, surface
<1>3. Fragments[dialect] \in SUBSET Seq(Symbols)
  <2>1. Fragments \in [Dialects -> SUBSET Seq(Symbols)]
    BY StreamDeliveryAssumption
  <2> QED BY <1>2, <2>1
<1>4. MaxCalls[dialect] \in Nat
  <2>1. MaxCalls \in [Dialects -> Nat]
    BY StreamDeliveryAssumption
  <2> QED BY <1>2, <2>1
<1> QED BY <1>2, <1>3, <1>4

\* The request keeps its route.
LEMMA SameRoute == [Next]_vars => UNCHANGED <<route, dialect, surface>>
<1> SUFFICES ASSUME [Next]_vars PROVE route' = route
  BY DEF dialect, surface
<1>1. CASE Quiet
  BY <1>1 DEF Quiet
<1>2. CASE Opens
  BY <1>2 DEF Opens, OpenDecoder
<1>3. CASE UpstreamText \/ UpstreamCall \/ UpstreamCallStart \/ UpstreamCallArgs
  BY <1>3 DEF UpstreamText, UpstreamCall, UpstreamCallStart, UpstreamCallArgs
<1>4. CASE HandOver \/ CloseWithError \/ CloseWell
  BY <1>4 DEF HandOver, CloseWithError, CloseWell
<1> QED BY <1>1, <1>2, <1>3, <1>4, Steps

\* The fields of fixed sets keep their types.
LEMMA StepSmallTypes == SmallTypes /\ [Next]_vars => SmallTypes'
<1> SUFFICES ASSUME SmallTypes, [Next]_vars PROVE SmallTypes'
  OBVIOUS
<1>0. route' = route
  BY SameRoute
<1> USE DEF SmallTypes, Reasons
<1>1. CASE OpenAttempt
  BY <1>0, <1>1 DEF OpenAttempt, OpenDecoder
<1>2. CASE BetweenAttempts \/ Complete
  BY <1>0, <1>2 DEF BetweenAttempts, Complete, decoder
<1>3. CASE FlushCall
  BY <1>0, <1>3 DEF FlushCall
<1>4. CASE EndOfStream
  BY <1>0, <1>4 DEF EndOfStream, FinalReason, decoder
<1>5. CASE CloseWithError \/ CloseWell \/ AbandonAnswer
  BY <1>0, <1>5 DEF CloseWithError, CloseWell, AbandonAnswer, decoder
<1>6. CASE UpstreamText \/ UpstreamCall \/ UpstreamCallStart
  BY <1>0, <1>6 DEF UpstreamText, UpstreamCall, UpstreamCallStart, decoder
<1>7. CASE UpstreamCallArgs \/ UpstreamCallStop
  BY <1>0, <1>7 DEF UpstreamCallArgs, UpstreamCallStop
<1>8. CASE UpstreamReason
  <2>1. PICK r \in {"stop", "length", "tool"} :
           reason' = r /\ finish' = IF dialect = "google" THEN r ELSE finish
    BY <1>8 DEF UpstreamReason
  <2> QED BY <1>0, <1>8, <2>1 DEF UpstreamReason
<1>9. CASE StreamOver \/ Environment \/ Finished \/ UNCHANGED vars
  BY <1>0, <1>9 DEF StreamOver, UpstreamCloses, UpstreamFails, WriteFails, Environment,
                    Finished, vars, decoder
<1> QED
  BY <1>1, <1>2, <1>3, <1>4, <1>5, <1>6, <1>7, <1>8, <1>9 DEF Next, Gateway, Publisher

\* The role that opens a chat stream is no text and no call.
LEMMA Opened ==
    ASSUME sent \in Seq(AllEvents)
    PROVE  LET opened == sent \o FirstDelta
           IN /\ opened \in Seq(AllEvents)
              /\ opened = IF surface = "chat" /\ sent = <<>> THEN <<[type |-> "role"]>> ELSE sent
              /\ TextsOf(opened) = TextsOf(sent)
              /\ CallsOf(opened) = CallsOf(sent)
<1> DEFINE opened == sent \o FirstDelta
           e == [type |-> "role"]
<1>1. CASE surface = "chat" /\ sent = <<>>
  <2>1. e \in AllEvents /\ e.type = "role" /\ <<>> \in Seq(AllEvents)
    BY MadeEvents
  <2>2. opened = <<e>> /\ <<e>> = Append(<<>>, e)
    <3>1. FirstDelta = <<e>>
      BY <1>1 DEF FirstDelta, EmittedAny
    <3>2. <<>> \o <<e>> = <<e>>
      <4>1. <<e>> \in Seq(AllEvents)
        BY <2>1
      <4> QED BY <4>1, ConcatEmptySeq
    <3> QED BY <1>1, <3>1, <3>2
  <2> HIDE DEF e, opened
  <2>3. AddText(<<>>, e) = <<>> /\ AddCalls(<<>>, e) = <<>>
    BY <2>1 DEF AddText, AddCalls
  <2>4. TextsOf(opened) = <<>> /\ CallsOf(opened) = <<>> /\ TextsOf(sent) = <<>> /\ CallsOf(sent) = <<>>
    BY <1>1, <2>1, <2>2, <2>3, Received
  <2>5. opened \in Seq(AllEvents)
    BY <2>1, <2>2
  <2>6. opened = IF surface = "chat" /\ sent = <<>> THEN <<e>> ELSE sent
    BY <1>1, <2>2
  <2>7. TextsOf(opened) = TextsOf(sent) /\ CallsOf(opened) = CallsOf(sent)
    BY <2>4
  <2> QED BY <2>5, <2>6, <2>7 DEF opened, e
<1>2. CASE ~(surface = "chat" /\ sent = <<>>)
  <2>1. FirstDelta = <<>>
    BY <1>2 DEF FirstDelta, EmittedAny
  <2> QED BY <1>2, <2>1, ConcatEmptySeq
<1> QED BY <1>1, <1>2

\* A text reaches the client as it is.
LEMMA EmittedText ==
    ASSUME sent \in Seq(AllEvents), NEW text \in Seq(Symbols)
    PROVE  /\ TextDelta(text) \in Seq(AllEvents)
           /\ TextsOf(TextDelta(text)) = TextsOf(sent) \o text
           /\ CallsOf(TextDelta(text)) = CallsOf(sent)
<1>0. TextsOf(sent) \in Seq(Symbols)
  BY Received
<1>1. CASE text = <<>>
  BY <1>0, <1>1, ConcatEmptySeq DEF TextDelta
<1>2. CASE text # <<>>
  <2> DEFINE opened == sent \o FirstDelta
  <2>1. TextDelta(text) = AppendText(opened, text)
    BY <1>2 DEF TextDelta
  <2>2. /\ opened \in Seq(AllEvents)
        /\ TextsOf(opened) = TextsOf(sent) /\ CallsOf(opened) = CallsOf(sent)
    BY Opened
  <2> HIDE DEF opened
  <2>3. /\ AppendText(opened, text) \in Seq(AllEvents)
        /\ TextsOf(AppendText(opened, text)) = TextsOf(opened) \o text
        /\ CallsOf(AppendText(opened, text)) = CallsOf(opened)
    BY <2>2, JoinedText
  <2> QED BY <2>1, <2>2, <2>3
<1> QED BY <1>1, <1>2

\* The number of call deltas is a number.
LEMMA CallCount ==
    ASSUME sent \in Seq(AllEvents)
    PROVE  ToolCallIndex \in Nat /\ IsFiniteSet({i \in DOMAIN sent : sent[i].type = "call"})
<1>1. DOMAIN sent = 1..Len(sent) /\ Len(sent) \in Nat
  OBVIOUS
<1>2. IsFiniteSet(DOMAIN sent)
  BY <1>1, FS_Interval
<1>3. IsFiniteSet({i \in DOMAIN sent : sent[i].type = "call"})
  <2>1. {i \in DOMAIN sent : sent[i].type = "call"} \subseteq DOMAIN sent
    OBVIOUS
  <2> QED BY <1>2, <2>1, FS_Subset
<1> QED BY <1>3, FS_CardinalityType DEF ToolCallIndex

\* A call is an event of its own, or waits for the last message.
LEMMA EmittedCall ==
    ASSUME sent \in Seq(AllEvents), collected \in Seq(CallRecords),
           NEW call \in CallRecords, EmitCall(call)
    PROVE  /\ sent' \in Seq(AllEvents) /\ collected' \in Seq(CallRecords)
           /\ unescaper' = unescaper
           /\ TextsOf(sent') = TextsOf(sent)
           /\ CallsOf(sent') = IF surface = "chat" THEN Append(CallsOf(sent), call) ELSE CallsOf(sent)
           /\ collected' = IF surface = "ollama" THEN Append(collected, call) ELSE collected
<1> DEFINE opened == sent \o FirstDelta
           e == CallDelta(call)
<1>1. e \in AllEvents /\ e.type = "call" /\ e.call = call
  <2>1. ToolCallIndex \in Nat
    BY CallCount
  <2> QED BY <2>1, MadeEvents DEF CallDelta
<1>2. /\ opened \in Seq(AllEvents)
      /\ TextsOf(opened) = TextsOf(sent) /\ CallsOf(opened) = CallsOf(sent)
  BY Opened
<1>3. /\ unescaper' = unescaper
      /\ collected' = IF surface = "ollama" THEN Append(collected, call) ELSE collected
      /\ sent' = IF surface = "chat" THEN opened \o <<e>> ELSE sent
  BY DEF EmitCall
<1> HIDE DEF opened, e
<1>4. /\ Append(opened, e) \in Seq(AllEvents)
      /\ TextsOf(Append(opened, e)) = TextsOf(sent)
      /\ CallsOf(Append(opened, e)) = Append(CallsOf(sent), call)
  <2>1. /\ AddText(TextsOf(opened), e) = TextsOf(opened)
        /\ AddCalls(CallsOf(opened), e) = Append(CallsOf(opened), call)
    BY <1>1 DEF AddText, AddCalls
  <2> QED BY <1>1, <1>2, <2>1, Received
<1>5. opened \o <<e>> = Append(opened, e)
  BY <1>1, <1>2, AppendIsConcat
<1>6. collected' \in Seq(CallRecords)
  BY <1>3
<1> QED BY <1>3, <1>4, <1>5, <1>6

-------------------------------------------------------------------------------
(* What the steps do to the wire. *)

\* A call that begins takes the number of its round as its index.
LEMMA NewCall ==
    ASSUME Loop!TypeOK, made \in SUBSET CallRecords, IsFiniteSet(made),
           NEW name \in CallNames, NEW whole \in BOOLEAN
    PROVE  LET call == CallOf(name, whole)
           IN /\ call \in CallRecords
              /\ call.round = retrievals /\ call.name = name /\ call.whole = whole
              /\ call.index = Cardinality({c \in made : c.round = retrievals})
<1> DEFINE ofRound == {c \in made : c.round = retrievals}
<1>1. Cardinality(ofRound) \in Nat
  <2>1. ofRound \subseteq made
    OBVIOUS
  <2> QED BY <2>1, FS_Subset, FS_CardinalityType
<1>2. retrievals \in 0..MaxRetrievals
  BY DEF Loop!TypeOK
<1> HIDE DEF ofRound
<1>3. CallOf(name, whole)
        = [round |-> retrievals, index |-> Cardinality(ofRound), name |-> name, whole |-> whole]
  BY DEF CallOf, ofRound
<1> QED BY <1>1, <1>2, <1>3 DEF CallRecords, ofRound

\* What an action of the decoder makes of a call.
LEMMA StartedCall ==
    ASSUME WireTypes, UpstreamCallStart
    PROVE  \E name \in CallNames, whole \in BOOLEAN :
              LET call == CallOf(name, whole)
              IN /\ made' = made \union {call}
                 /\ inflight' = [i \in DOMAIN inflight \union {call.index} |->
                                    IF i = call.index THEN call ELSE inflight[i]]
  BY DEF UpstreamCallStart

\* The arguments of a begun call arrive: it is whole now, and otherwise as before.
LEMMA FinishedCall ==
    ASSUME WireTypes, UpstreamCallArgs
    PROVE  \E i \in DOMAIN inflight :
              LET old == inflight[i]
                  call == [old EXCEPT !.whole = TRUE]
              IN /\ old \in made /\ ~old.whole
                 /\ call \in CallRecords /\ call # old /\ call.whole
                 /\ call.round = old.round /\ call.index = old.index /\ call.name = old.name
                 /\ inflight' = [inflight EXCEPT ![i] = call]
                 /\ made' = (made \ {old}) \union {call}
<1>1. PICK i \in DOMAIN inflight :
         /\ ~inflight[i].whole
         /\ inflight' = [inflight EXCEPT ![i] = [inflight[i] EXCEPT !.whole = TRUE]]
         /\ made' = (made \ {inflight[i]}) \union {[inflight[i] EXCEPT !.whole = TRUE]}
  BY DEF UpstreamCallArgs
<1> DEFINE old == inflight[i]
           call == [old EXCEPT !.whole = TRUE]
<1>2. old \in made /\ old \in CallRecords
  BY DEF WireTypes
<1> HIDE DEF old
<1>3. call \in CallRecords
  BY <1>2 DEF CallRecords
<1>4. call.whole /\ call.round = old.round /\ call.index = old.index /\ call.name = old.name
  BY <1>2 DEF CallRecords
<1>5. ~old.whole /\ call # old
  BY <1>1, <1>4 DEF old
<1> QED BY <1>1, <1>2, <1>3, <1>4, <1>5 DEF old

\* What a text does to the emitter.
LEMMA TextStep ==
    ASSUME WireTypes, UpstreamText
    PROVE  \E text \in Seq(Symbols) :
              /\ written' = written \o text
              /\ window' = Observe(window, text)
              /\ loopFired' = (loopFired \/ LoopDetected(window'))
              /\ UNCHANGED <<inflight, start, made, collected>>
              /\ sent' \in Seq(AllEvents) /\ unescaper' \in UnescaperStates
              /\ CallsOf(sent') = CallsOf(sent)
              /\ \E out \in Seq(Symbols) :
                    /\ sent' = TextDelta(out)
                    /\ TextsOf(sent') = TextsOf(sent) \o out
                    /\ IF dialect = "google"
                       THEN LET u == Process(unescaper, text)
                            IN out = u.out /\ unescaper' = [u EXCEPT !.out = <<>>]
                       ELSE out = text /\ unescaper' = unescaper
<1>1. PICK text \in Fragments[dialect] :
         /\ written' = written \o text
         /\ EmitText(text)
         /\ window' = Observe(window, text)
         /\ loopFired' = (loopFired \/ LoopDetected(window'))
  BY DEF UpstreamText
<1>2. text \in Seq(Symbols) /\ sent \in Seq(AllEvents) /\ unescaper \in UnescaperStates
  BY RouteParts DEF WireTypes, SmallTypes
<1>3. UNCHANGED <<inflight, start, made, collected>>
  BY <1>1 DEF UpstreamText, EmitText
<1>4. CASE dialect = "google"
  <2> DEFINE u == Process(unescaper, text)
  <2>1. u \in UnescaperStates /\ [u EXCEPT !.out = <<>>] \in UnescaperStates
    BY <1>2, Reading
  <2>2. unescaper' = [u EXCEPT !.out = <<>>] /\ sent' = TextDelta(u.out)
    BY <1>1, <1>4 DEF EmitText
  <2> HIDE DEF u
  <2>3. u.out \in Seq(Symbols)
    BY <2>1, Fields
  <2>4. /\ TextDelta(u.out) \in Seq(AllEvents)
        /\ TextsOf(TextDelta(u.out)) = TextsOf(sent) \o u.out
        /\ CallsOf(TextDelta(u.out)) = CallsOf(sent)
    BY <1>2, <2>3, EmittedText
  <2> QED BY <1>1, <1>2, <1>3, <1>4, <2>1, <2>2, <2>3, <2>4 DEF u
<1>5. CASE dialect # "google"
  <2>1. unescaper' = unescaper /\ sent' = TextDelta(text)
    BY <1>1, <1>5 DEF EmitText
  <2>2. /\ TextDelta(text) \in Seq(AllEvents)
        /\ TextsOf(TextDelta(text)) = TextsOf(sent) \o text
        /\ CallsOf(TextDelta(text)) = CallsOf(sent)
    BY <1>2, EmittedText
  <2> QED BY <1>1, <1>2, <1>3, <1>5, <2>1, <2>2
<1> QED BY <1>4, <1>5

\* What Flush gives out.
LEMMA FlushedText ==
    ASSUME NEW u \in UnescaperStates
    PROVE  /\ Flush(u).out = Held(u) /\ Held(u) \in Seq(Symbols)
           /\ [Flush(u) EXCEPT !.out = <<>>] \in UnescaperStates
<1>0. <<>> \in Seq(Symbols) /\ u.raw \in Seq(Symbols) /\ u.entity \in Seq(Symbols)
  BY SymbolTexts, Fields
<1>1. Held(u) \in Seq(Symbols)
  BY <1>0 DEF Held
<1> DEFINE n == Normal(u)
           m == [n EXCEPT !.out = <<>>]
<1>2. n \in UnescaperStates
  BY NormalHas DEF Has
<1>3. Flush(u) = Write(m, Held(u))
  BY DEF Flush
<1> HIDE DEF n
<1>4. m \in UnescaperStates /\ m.out = <<>>
  BY <1>0, <1>2, WithOut DEF Has
<1> HIDE DEF m
<1>5. Flush(u) \in UnescaperStates /\ Flush(u).out = <<>> \o Held(u)
  <2> DEFINE w == Write(m, Held(u))
  <2>1. Has(w, m.mode, m.entity, m.raw, m.parsed, m.blocks, m.out \o Held(u))
    BY <1>1, <1>4, WriteHas
  <2> HIDE DEF w
  <2>2. w \in UnescaperStates /\ w.out = m.out \o Held(u)
    BY <2>1 DEF Has
  <2> QED BY <1>3, <1>4, <2>2 DEF w
<1>6. Flush(u).out = Held(u)
  BY <1>1, <1>5, ConcatEmptySeq
<1>7. [Flush(u) EXCEPT !.out = <<>>] \in UnescaperStates
  BY <1>0, <1>5, WithOut DEF Has
<1> QED BY <1>1, <1>6, <1>7

\* The events a terminator adds.
LEMMA Terminated ==
    ASSUME NEW events \in Seq(AllEvents), NEW last \in AllEvents
    PROVE  LET ended == events \o <<last>> \o Terminator
               begun == Append(events, last)
           IN /\ ended \in Seq(AllEvents)
              /\ begun \in Seq(AllEvents)
              /\ ended = IF surface = "chat" THEN Append(begun, [type |-> "done"]) ELSE begun
              /\ TextsOf(ended) = TextsOf(begun)
              /\ CallsOf(ended) = CallsOf(begun)
<1> DEFINE begun == Append(events, last)
           e == [type |-> "done"]
           ended == events \o <<last>> \o Terminator
<1>1. begun \in Seq(AllEvents) /\ events \o <<last>> = begun
  BY AppendIsConcat
<1>2. e \in AllEvents /\ e.type = "done"
  BY MadeEvents
<1> HIDE DEF begun
<1>3. CASE surface = "chat"
  <2>1. ended = begun \o <<e>>
    BY <1>1, <1>3 DEF Terminator
  <2> HIDE DEF e, ended
  <2>2. ended = Append(begun, e)
    BY <1>1, <1>2, <2>1, AppendIsConcat
  <2>3. /\ AddText(TextsOf(begun), e) = TextsOf(begun)
        /\ AddCalls(CallsOf(begun), e) = CallsOf(begun)
    BY <1>2 DEF AddText, AddCalls
  <2>4. TextsOf(ended) = TextsOf(begun) /\ CallsOf(ended) = CallsOf(begun)
    BY <1>1, <1>2, <2>2, <2>3, Received
  <2>5. ended \in Seq(AllEvents)
    BY <1>1, <1>2, <2>2
  <2> QED BY <1>1, <1>3, <2>2, <2>4, <2>5 DEF begun, e, ended
<1>4. CASE surface # "chat"
  <2>1. ended = begun
    BY <1>1, <1>4, ConcatEmptySeq DEF Terminator
  <2> HIDE DEF ended
  <2> QED BY <1>1, <1>4, <2>1 DEF begun, ended
<1> QED BY <1>3, <1>4

\* The last messages.
ErrorEvent == [type |-> "error"]
FinalEvent == [type |-> "final", reason |-> WireReason, calls |-> collected]
LastText == TextDelta(Flush(unescaper).out)
OpenedLast == IF LastText = <<>> THEN FirstDelta ELSE LastText

\* An error ends the stream and changes neither text nor calls.
LEMMA ErrorStep ==
    ASSUME WireTypes, CloseWithError
    PROVE  /\ sent' = sent \o <<ErrorEvent>> \o Terminator
           /\ ErrorEvent \in AllEvents /\ ErrorEvent.type = "error"
           /\ sent' \in Seq(AllEvents)
           /\ TextsOf(sent') = TextsOf(sent) /\ CallsOf(sent') = CallsOf(sent)
<1>1. sent' = sent \o <<ErrorEvent>> \o Terminator
  BY DEF CloseWithError, ErrorEvent
<1>2. ErrorEvent \in AllEvents /\ ErrorEvent.type = "error" /\ sent \in Seq(AllEvents)
  BY MadeEvents DEF ErrorEvent, WireTypes
<1>3. /\ AddText(TextsOf(sent), ErrorEvent) = TextsOf(sent)
      /\ AddCalls(CallsOf(sent), ErrorEvent) = CallsOf(sent)
  BY <1>2 DEF AddText, AddCalls
<1>4. TextsOf(Append(sent, ErrorEvent)) = TextsOf(sent) /\ CallsOf(Append(sent, ErrorEvent)) = CallsOf(sent)
  BY <1>2, <1>3, Received
<1>5. /\ sent' \in Seq(AllEvents)
      /\ TextsOf(sent') = TextsOf(Append(sent, ErrorEvent))
      /\ CallsOf(sent') = CallsOf(Append(sent, ErrorEvent))
  BY <1>1, <1>2, Terminated
<1> QED BY <1>1, <1>2, <1>4, <1>5

\* A last message brings what the unescaper held and the collected calls.
LEMMA FinalStep ==
    ASSUME WireTypes, CloseWell
    PROVE  /\ sent' = OpenedLast \o <<FinalEvent>> \o Terminator
           /\ FinalEvent \in AllEvents /\ FinalEvent.type = "final"
           /\ FinalEvent.reason = WireReason /\ FinalEvent.calls = collected
           /\ OpenedLast \in Seq(AllEvents)
           /\ sent' \in Seq(AllEvents) /\ unescaper' \in UnescaperStates
           /\ TextsOf(sent') = TextsOf(sent) \o Held(unescaper)
           /\ CallsOf(sent') = CallsOf(sent) \o collected
<1>0. sent \in Seq(AllEvents) /\ collected \in Seq(CallRecords) /\ unescaper \in UnescaperStates
  BY DEF WireTypes
<1>1. /\ sent' = OpenedLast \o <<FinalEvent>> \o Terminator
      /\ unescaper' = [Flush(unescaper) EXCEPT !.out = <<>>]
  BY DEF CloseWell, OpenedLast, LastText, FinalEvent
<1>2. /\ Flush(unescaper).out = Held(unescaper) /\ Held(unescaper) \in Seq(Symbols)
      /\ unescaper' \in UnescaperStates
  BY <1>0, <1>1, FlushedText
<1>3. WireReason \in {"stop", "length", "tool_calls"}
  BY DEF WireReason
<1>4. /\ FinalEvent \in AllEvents /\ FinalEvent.type = "final"
      /\ FinalEvent.reason = WireReason /\ FinalEvent.calls = collected
  BY <1>0, <1>3, MadeEvents DEF FinalEvent
<1>5. /\ LastText \in Seq(AllEvents)
      /\ TextsOf(LastText) = TextsOf(sent) \o Held(unescaper)
      /\ CallsOf(LastText) = CallsOf(sent)
  BY <1>0, <1>2, EmittedText DEF LastText
<1>6. /\ OpenedLast \in Seq(AllEvents)
      /\ TextsOf(OpenedLast) = TextsOf(LastText)
      /\ CallsOf(OpenedLast) = CallsOf(LastText)
  <2>1. CASE LastText # <<>>
    BY <1>5, <2>1 DEF OpenedLast
  <2>2. CASE LastText = <<>>
    <3>1. OpenedLast = FirstDelta
      BY <2>2 DEF OpenedLast
    <3>2. CASE FirstDelta = <<>>
      BY <2>2, <3>1, <3>2, Received
    <3>3. CASE FirstDelta # <<>>
      <4>1. FirstDelta = sent \o FirstDelta /\ sent = <<>>
        <5>1. sent = <<>> /\ FirstDelta = <<[type |-> "role"]>>
          BY <3>3 DEF FirstDelta, EmittedAny
        <5>2. FirstDelta \in Seq(AllEvents)
          BY <5>1, MadeEvents
        <5> QED BY <5>1, <5>2, ConcatEmptySeq
      <4>2. /\ FirstDelta \in Seq(AllEvents)
            /\ TextsOf(FirstDelta) = TextsOf(sent) /\ CallsOf(FirstDelta) = CallsOf(sent)
        BY <1>0, <4>1, Opened
      <4> QED BY <2>2, <3>1, <4>1, <4>2
    <3> QED BY <3>2, <3>3
  <2> QED BY <2>1, <2>2
<1>7. /\ TextsOf(Append(OpenedLast, FinalEvent)) = TextsOf(OpenedLast)
      /\ CallsOf(Append(OpenedLast, FinalEvent)) = CallsOf(OpenedLast) \o collected
  <2>1. /\ AddText(TextsOf(OpenedLast), FinalEvent) = TextsOf(OpenedLast)
        /\ AddCalls(CallsOf(OpenedLast), FinalEvent) = CallsOf(OpenedLast) \o collected
    BY <1>4 DEF AddText, AddCalls
  <2> QED BY <1>4, <1>6, <2>1, Received
<1>8. /\ sent' \in Seq(AllEvents)
      /\ TextsOf(sent') = TextsOf(Append(OpenedLast, FinalEvent))
      /\ CallsOf(sent') = CallsOf(Append(OpenedLast, FinalEvent))
  BY <1>1, <1>4, <1>6, Terminated
<1> QED BY <1>1, <1>2, <1>4, <1>5, <1>6, <1>7, <1>8

\* A call handed over was made and leaves the assembly.
LEMMA HandedOver ==
    ASSUME WireTypes, HandOver
    PROVE  \E i \in DOMAIN inflight :
              LET call == inflight[i]
              IN /\ call \in made /\ call \in CallRecords
                 /\ YieldCall(call)
                 /\ inflight' = [j \in DOMAIN inflight \ {i} |-> inflight[j]]
                 /\ UNCHANGED <<written, start, made, window>>
<1>1. PICK i \in DOMAIN inflight :
         /\ YieldCall(inflight[i])
         /\ inflight' = Without(inflight, i)
         /\ UNCHANGED <<route, phase, reason, window, finish, record>>
  BY DEF HandOver
<1> QED BY <1>1 DEF WireTypes, Without, record

\* A call in one piece is new and goes to the loop.
LEMMA CalledAtOnce ==
    ASSUME Loop!TypeOK, WireTypes, UpstreamCall
    PROVE  \E name \in CallNames :
              LET call == CallOf(name, TRUE)
              IN /\ call \in CallRecords
                 /\ made' = made \union {call} /\ YieldCall(call)
                 /\ UNCHANGED <<inflight, written, start, window>>
<1>1. PICK name \in CallNames :
         LET call == CallOf(name, TRUE)
         IN made' = made \union {call} /\ YieldCall(call)
  BY DEF UpstreamCall
<1>2. CallOf(name, TRUE) \in CallRecords
  BY NewCall DEF WireTypes
<1>3. UNCHANGED <<inflight, written, start, window>>
  BY DEF UpstreamCall, decoder
<1> QED BY <1>1, <1>2, <1>3

\* What a call handed to the loop does to the emitter.
LEMMA Yielded ==
    ASSUME WireTypes, NEW call \in CallRecords, YieldCall(call)
    PROVE  /\ unescaper' = unescaper
           /\ sent' \in Seq(AllEvents) /\ collected' \in Seq(CallRecords)
           /\ TextsOf(sent') = TextsOf(sent)
           /\ call.name = RetrieveName => UNCHANGED <<sent, collected>>
           /\ call.name # RetrieveName =>
                 /\ EmitCall(call)
                 /\ CallsOf(sent') = IF surface = "chat" THEN Append(CallsOf(sent), call) ELSE CallsOf(sent)
                 /\ collected' = IF surface = "ollama" THEN Append(collected, call) ELSE collected
<1>1. CASE call.name = RetrieveName
  <2>1. UNCHANGED <<unescaper, sent, collected>>
    BY <1>1, StreamSteps DEF emitter
  <2> QED BY <1>1, <2>1 DEF WireTypes
<1>2. CASE call.name # RetrieveName
  <2>1. EmitCall(call)
    BY <1>2, StreamSteps
  <2> QED BY <1>2, <2>1, EmittedCall DEF WireTypes
<1> QED BY <1>1, <1>2

\* Nothing is assembled at first.
LEMMA NoneInflight == DOMAIN <<>> = {} /\ <<>> \in Seq(Symbols) /\ Len(<<>>) = 0
  OBVIOUS

\* The types hold at first.
LEMMA InitWire == Init => WireTypes
<1> SUFFICES ASSUME Init PROVE WireTypes
  OBVIOUS
<1>1. SmallTypes
  BY DEF Init, SmallTypes, Reasons
<1>2. made = {} /\ made \in SUBSET CallRecords /\ IsFiniteSet(made)
  BY FS_EmptySet DEF Init
<1>3. \A i \in DOMAIN inflight : inflight[i] \in made /\ inflight[i].index = i
  BY NoneInflight DEF Init
<1>4. unescaper \in UnescaperStates
  BY SymbolTexts DEF Init, NewEntityUnescaper, UnescaperStates, Modes
<1>5. /\ collected \in Seq(CallRecords) /\ sent \in Seq(AllEvents) /\ written \in Seq(Symbols)
      /\ start \in 0..Len(written)
  <2>1. collected = <<>> /\ sent = <<>> /\ written = <<>> /\ start = 0
    BY DEF Init
  <2>2. start \in 0..Len(written)
    BY <2>1, NoneInflight
  <2> QED BY <2>1, <2>2
<1> QED BY <1>1, <1>2, <1>3, <1>4, <1>5 DEF WireTypes

\* Every step keeps the types.
LEMMA StepWire == Loop!TypeOK /\ WireTypes /\ [Next]_vars => WireTypes'
<1> SUFFICES ASSUME Loop!TypeOK, WireTypes, [Next]_vars PROVE WireTypes'
  OBVIOUS
<1>0. SmallTypes'
  BY StepSmallTypes DEF WireTypes
<1> DEFINE Made == /\ made \in SUBSET CallRecords /\ IsFiniteSet(made)
                   /\ \A i \in DOMAIN inflight : inflight[i] \in made /\ inflight[i].index = i
           Emitted == /\ unescaper \in UnescaperStates /\ collected \in Seq(CallRecords)
                      /\ sent \in Seq(AllEvents)
           Written == written \in Seq(Symbols) /\ start \in 0..Len(written)
<1>a. Made /\ Emitted /\ Written
  BY DEF WireTypes
<1>b. SmallTypes' /\ Made' /\ Emitted' /\ Written' => WireTypes'
  BY DEF WireTypes
<1>c. UNCHANGED <<made, inflight>> => Made'
  BY <1>a
<1>d. UNCHANGED emitter => Emitted'
  BY <1>a DEF emitter
<1>e. UNCHANGED <<written, start>> => Written'
  BY <1>a
<1> HIDE DEF Made, Emitted, Written
<1>1. CASE Quiet
  <2>1. UNCHANGED <<made, inflight>> /\ UNCHANGED emitter /\ UNCHANGED <<written, start>>
    BY <1>1 DEF Quiet, record
  <2> QED BY <1>0, <1>b, <1>c, <1>d, <1>e, <2>1
<1>2. CASE Opens
  <2>1. Made'
    <3>1. made' \subseteq made /\ inflight' = <<>>
      BY <1>2 DEF Opens, OpenDecoder
    <3>2. IsFiniteSet(made')
      BY <1>a, <3>1, FS_Subset DEF Made
    <3> QED BY <1>a, <3>1, <3>2, NoneInflight DEF Made
  <2>2. Emitted'
    BY <1>2, <1>d DEF Opens, OpenDecoder
  <2>3. Written'
    <3>1. start' = Len(written) /\ written' = written
      BY <1>2 DEF Opens, OpenDecoder
    <3>2. written \in Seq(Symbols) /\ Len(written) \in Nat
      BY <1>a DEF Written
    <3> QED BY <3>1, <3>2 DEF Written
  <2> QED BY <1>0, <1>b, <2>1, <2>2, <2>3
<1>3. CASE UpstreamText
  <2>1. PICK text \in Seq(Symbols) :
              /\ written' = written \o text
              /\ UNCHANGED <<inflight, start, made, collected>>
              /\ sent' \in Seq(AllEvents) /\ unescaper' \in UnescaperStates
    BY <1>3, TextStep
  <2>2. Written'
    BY <1>a, <2>1 DEF Written
  <2> QED BY <1>0, <1>a, <1>b, <1>c, <2>1, <2>2 DEF Emitted
<1>4. CASE UpstreamCall
  <2>1. PICK name \in CallNames :
              LET call == CallOf(name, TRUE)
              IN /\ call \in CallRecords
                 /\ made' = made \union {call} /\ YieldCall(call)
                 /\ UNCHANGED <<inflight, written, start, window>>
    BY <1>4, CalledAtOnce
  <2> DEFINE call == CallOf(name, TRUE)
  <2> HIDE DEF call
  <2>2. call \in CallRecords /\ made' = made \union {call} /\ YieldCall(call)
    BY <2>1 DEF call
  <2>3. Made'
    <3>1. IsFiniteSet(made')
      BY <1>a, <2>2, FS_AddElement DEF Made
    <3> QED BY <1>a, <2>1, <2>2, <3>1 DEF Made
  <2>4. Emitted'
    BY <1>a, <2>2, Yielded DEF Emitted
  <2> QED BY <1>0, <1>b, <1>e, <2>1, <2>3, <2>4
<1>5. CASE UpstreamCallStart
  <2>1. PICK name \in CallNames, whole \in BOOLEAN :
              LET call == CallOf(name, whole)
              IN /\ made' = made \union {call}
                 /\ inflight' = [i \in DOMAIN inflight \union {call.index} |->
                                    IF i = call.index THEN call ELSE inflight[i]]
    BY <1>5, StartedCall
  <2> DEFINE call == CallOf(name, whole)
  <2>2. call \in CallRecords
    BY NewCall DEF WireTypes
  <2> HIDE DEF call
  <2>3. /\ made' = made \union {call}
        /\ inflight' = [i \in DOMAIN inflight \union {call.index} |->
                                    IF i = call.index THEN call ELSE inflight[i]]
    BY <2>1 DEF call
  <2>4. Made'
    <3>1. IsFiniteSet(made')
      BY <1>a, <2>3, FS_AddElement DEF Made
    <3> QED BY <1>a, <2>2, <2>3, <3>1 DEF Made
  <2>5. UNCHANGED emitter /\ UNCHANGED <<written, start>>
    BY <1>5 DEF UpstreamCallStart
  <2> QED BY <1>0, <1>b, <1>d, <1>e, <2>4, <2>5
<1>6. CASE UpstreamCallArgs
  <2>0. WireTypes
    OBVIOUS
  <2>1. PICK i \in DOMAIN inflight :
              LET old == inflight[i]
                  call == [old EXCEPT !.whole = TRUE]
              IN /\ old \in made /\ ~old.whole
                 /\ call \in CallRecords /\ call # old /\ call.whole
                 /\ call.round = old.round /\ call.index = old.index /\ call.name = old.name
                 /\ inflight' = [inflight EXCEPT ![i] = call]
                 /\ made' = (made \ {old}) \union {call}
    BY <1>6, FinishedCall
  <2>2. UNCHANGED emitter /\ UNCHANGED <<written, start>>
    BY <1>6 DEF UpstreamCallArgs
  <2> DEFINE old == inflight[i]
             call == [old EXCEPT !.whole = TRUE]
  <2>3. /\ call \in CallRecords /\ inflight' = [inflight EXCEPT ![i] = call]
        /\ made' = (made \ {old}) \union {call} /\ call.index = i
    BY <1>a, <2>1 DEF Made
  <2> HIDE DEF call
  <2>4. ASSUME NEW j \in DOMAIN inflight, j # i PROVE inflight[j] # old
    BY <1>a, <2>4 DEF Made
  <2>5. Made'
    <3>1. IsFiniteSet(made \ {old})
      BY <1>a, FS_RemoveElement DEF Made
    <3>2. IsFiniteSet(made')
      BY <2>3, <3>1, FS_AddElement
    <3> QED BY <1>a, <2>3, <2>4, <3>2 DEF Made
  <2> QED BY <1>0, <1>b, <1>d, <1>e, <2>2, <2>5
<1>7. CASE HandOver
  <2>1. PICK i \in DOMAIN inflight :
              LET call == inflight[i]
              IN /\ call \in made /\ call \in CallRecords
                 /\ YieldCall(call)
                 /\ inflight' = [j \in DOMAIN inflight \ {i} |-> inflight[j]]
                 /\ UNCHANGED <<written, start, made, window>>
    BY <1>7, HandedOver
  <2> DEFINE call == inflight[i]
  <2>2. call \in CallRecords /\ YieldCall(call)
    BY <2>1
  <2> HIDE DEF call
  <2>3. Emitted'
    BY <1>a, <2>2, Yielded DEF Emitted
  <2>4. Made'
    BY <1>a, <2>1 DEF Made
  <2> QED BY <1>0, <1>b, <1>e, <2>1, <2>3, <2>4
<1>8. CASE CloseWithError \/ CloseWell
  <2>1. UNCHANGED <<made, inflight, written, start, collected>>
    BY <1>8 DEF CloseWithError, CloseWell, decoder, record
  <2>2. sent' \in Seq(AllEvents)
    BY <1>8, ErrorStep, FinalStep
  <2>3. unescaper' \in UnescaperStates
    BY <1>8, <1>a, FinalStep DEF CloseWithError, Emitted
  <2>4. Emitted'
    BY <1>a, <2>1, <2>2, <2>3 DEF Emitted
  <2> QED BY <1>0, <1>b, <1>c, <1>e, <2>1, <2>4
<1> QED BY <1>1, <1>2, <1>3, <1>4, <1>5, <1>6, <1>7, <1>8, Steps

-------------------------------------------------------------------------------
(* RepetitionCaught. *)

\* What this attempt has written.
ThisAttempt == SubSeq(written, start + 1, Len(written))

\* The buffer is the end of the attempt's text, and nothing in it has been
\* missed.
DetectorInv ==
    /\ window \in Seq(Symbols) /\ Len(window) <= LoopWindow
    /\ pc = "streaming" =>
          /\ window = LastOf(ThisAttempt, LoopWindow)
          /\ ~loopFired => ~LoopDetected(window)

\* An attempt that streams appends to its own text.
LEMMA AttemptText ==
    ASSUME WireTypes
    PROVE  /\ ThisAttempt \in Seq(Symbols)
           /\ \A text \in Seq(Symbols) :
                 SubSeq(written \o text, start + 1, Len(written \o text)) = ThisAttempt \o text
           /\ SubSeq(written, Len(written) + 1, Len(written)) = <<>>
<1>1. /\ written \in Seq(Symbols) /\ start \in Nat /\ start <= Len(written) /\ Len(written) \in Nat
      /\ start + 1 \in Nat \ {0}
  BY DEF WireTypes
<1>2. ASSUME NEW s \in Seq(Symbols), start <= Len(s)
      PROVE  /\ SubSeq(s, start + 1, Len(s)) \in Seq(Symbols)
             /\ Len(SubSeq(s, start + 1, Len(s))) = Len(s) - start
             /\ \A i \in 1..(Len(s) - start) : SubSeq(s, start + 1, Len(s))[i] = s[start + i]
  <2>1. start + 1 \in Int /\ Len(s) \in Int /\ \A i \in (start + 1)..Len(s) : s[i] \in Symbols
    BY <1>1
  <2>2. PICK a \in Int : a = start + 1
    BY <2>1
  <2>3. /\ SubSeq(s, a, Len(s)) \in Seq(Symbols)
        /\ Len(SubSeq(s, a, Len(s))) = IF a <= Len(s) THEN Len(s) - a + 1 ELSE 0
        /\ \A i \in 1..(Len(s) - a + 1) : SubSeq(s, a, Len(s))[i] = s[a + i - 1]
    <3>1. \A i \in a..Len(s) : s[i] \in Symbols
      BY <2>1, <2>2
    <3> QED BY <2>1, <3>1, SubSeqProperties
  <2>4. Len(s) - a + 1 = Len(s) - start /\ \A i \in 1..(Len(s) - start) : a + i - 1 = start + i
    BY <1>1, <2>2
  <2>5. Len(SubSeq(s, a, Len(s))) = Len(s) - start
    BY <1>1, <1>2, <2>2, <2>3
  <2>6. \A i \in 1..(Len(s) - start) : SubSeq(s, a, Len(s))[i] = s[start + i]
    BY <2>3, <2>4
  <2> QED BY <2>2, <2>3, <2>5, <2>6
<1>3. /\ ThisAttempt \in Seq(Symbols) /\ Len(ThisAttempt) = Len(written) - start
      /\ \A i \in 1..(Len(written) - start) : ThisAttempt[i] = written[start + i]
  BY <1>1, <1>2 DEF ThisAttempt
<1>4. ASSUME NEW text \in Seq(Symbols)
      PROVE  SubSeq(written \o text, start + 1, Len(written \o text)) = ThisAttempt \o text
  <2> DEFINE all == written \o text
             new == SubSeq(all, start + 1, Len(all))
             other == ThisAttempt \o text
  <2>1. /\ all \in Seq(Symbols) /\ Len(all) = Len(written) + Len(text)
        /\ \A i \in 1..(Len(written) + Len(text)) :
              all[i] = IF i <= Len(written) THEN written[i] ELSE text[i - Len(written)]
    BY <1>1, ConcatProperties
  <2> HIDE DEF all
  <2>2. start <= Len(all)
    BY <1>1, <2>1
  <2>3. /\ new \in Seq(Symbols) /\ Len(new) = Len(all) - start
        /\ \A i \in 1..(Len(all) - start) : new[i] = all[start + i]
    BY <1>2, <2>1, <2>2
  <2>4. /\ other \in Seq(Symbols) /\ Len(other) = Len(ThisAttempt) + Len(text)
        /\ \A i \in 1..(Len(ThisAttempt) + Len(text)) :
              other[i] = IF i <= Len(ThisAttempt) THEN ThisAttempt[i] ELSE text[i - Len(ThisAttempt)]
    BY <1>3, ConcatProperties
  <2> HIDE DEF new, other
  <2>5. Len(new) = Len(other) /\ Len(text) \in Nat /\ Len(new) = Len(written) + Len(text) - start
    BY <1>1, <1>3, <2>1, <2>3, <2>4
  <2>6. ASSUME NEW i \in 1..Len(new) PROVE new[i] = other[i]
    <3>1. i \in 1..(Len(ThisAttempt) + Len(text)) /\ i \in 1..(Len(all) - start)
          /\ start + i \in 1..(Len(written) + Len(text))
      BY <1>1, <1>3, <2>1, <2>3, <2>4, <2>5
    <3>2. CASE i <= Len(written) - start
      <4>1. i \in 1..(Len(written) - start) /\ start + i <= Len(written) /\ i <= Len(ThisAttempt)
        BY <1>1, <1>3, <3>1, <3>2
      <4>2. new[i] = all[start + i] /\ all[start + i] = written[start + i]
        BY <2>1, <2>3, <3>1, <4>1
      <4>3. other[i] = ThisAttempt[i] /\ ThisAttempt[i] = written[start + i]
        BY <1>3, <2>4, <3>1, <4>1
      <4> QED BY <4>2, <4>3
    <3>3. CASE ~(i <= Len(written) - start)
      <4>1. ~(start + i <= Len(written)) /\ ~(i <= Len(ThisAttempt))
            /\ (start + i) - Len(written) = i - Len(ThisAttempt)
        BY <1>1, <1>3, <3>1, <3>3
      <4>2. new[i] = all[start + i] /\ all[start + i] = text[(start + i) - Len(written)]
        BY <2>1, <2>3, <3>1, <4>1
      <4>3. other[i] = text[i - Len(ThisAttempt)]
        BY <2>4, <3>1, <4>1
      <4> QED BY <4>1, <4>2, <4>3
    <3> QED BY <3>2, <3>3
  <2>7. new = other
    BY <2>3, <2>4, <2>5, <2>6, SeqEqual
  <2> QED BY <2>7 DEF new, other, all
<1>5. SubSeq(written, Len(written) + 1, Len(written)) = <<>>
  BY <1>1, SubSeqEmpty
<1> QED BY <1>3, <1>4, <1>5

\* The empty window is the suffix of no text, and no loop.
LEMMA EmptyWindow == /\ ~LoopDetected(<<>>) /\ <<>> = LastOf(<<>>, LoopWindow)
                     /\ <<>> \in Seq(Symbols) /\ Len(<<>>) <= LoopWindow
<1>1. Len(<<>>) = 0 /\ <<>> \in Seq(Symbols) /\ 0 <= LoopWindow /\ ~(0 >= LoopChunk * LoopThreshold)
  BY DetectorConstants
<1> QED BY <1>1 DEF LoopDetected, LastOf

\* The window is the end of this attempt's text at first.
LEMMA InitDetector == Init => DetectorInv
<1> SUFFICES ASSUME Init PROVE DetectorInv
  OBVIOUS
<1>1. window = <<>> /\ pc = "head"
  BY DEF Init, Loop!Init
<1> QED BY <1>1, EmptyWindow DEF DetectorInv

\* Every step keeps the window the end of the text.
LEMMA StepDetector == WireTypes /\ DetectorInv /\ [Next]_vars => DetectorInv'
<1> SUFFICES ASSUME WireTypes, DetectorInv, [Next]_vars PROVE DetectorInv'
  OBVIOUS
<1>a. UNCHANGED <<window, written, start, loopFired>> /\ (pc' = "streaming" => pc = "streaming")
        => DetectorInv'
  BY DEF DetectorInv, ThisAttempt
<1>1. CASE Quiet
  BY <1>1, <1>a DEF Quiet, GoesOn, record
<1>2. CASE Opens
  <2>1. /\ window' = <<>> /\ written' = written /\ start' = Len(written)
    BY <1>2 DEF Opens, OpenDecoder
  <2>2. ThisAttempt' = <<>>
    BY <2>1, AttemptText DEF ThisAttempt
  <2> QED BY <2>1, <2>2, EmptyWindow DEF DetectorInv
<1>3. CASE UpstreamText
  <2>1. PICK text \in Seq(Symbols) :
              /\ written' = written \o text
              /\ window' = Observe(window, text)
              /\ loopFired' = (loopFired \/ LoopDetected(window'))
              /\ UNCHANGED start
    BY <1>3, TextStep
  <2>2. pc = "streaming" /\ window = LastOf(ThisAttempt, LoopWindow)
    BY <1>3, StreamSteps DEF Streams, DetectorInv
  <2>3. ThisAttempt \in Seq(Symbols) /\ ThisAttempt' = ThisAttempt \o text
    BY <2>1, AttemptText DEF ThisAttempt
  <2>4. window' = LastOf(ThisAttempt', LoopWindow)
    <3>1. LoopWindow \in Nat
      BY DetectorConstants
    <3>2. LastOf(LastOf(ThisAttempt, LoopWindow) \o text, LoopWindow) = LastOf(ThisAttempt \o text, LoopWindow)
      BY <2>3, <3>1, ObserveText
    <3> QED BY <2>1, <2>2, <2>3, <3>2 DEF Observe
  <2>5. window' \in Seq(Symbols) /\ Len(window') <= LoopWindow
    <3>1. LoopWindow \in Nat
      BY DetectorConstants
    <3>2. ThisAttempt \o text \in Seq(Symbols)
      BY <2>3
    <3>3. /\ LastOf(ThisAttempt \o text, LoopWindow) \in Seq(Symbols)
          /\ Len(LastOf(ThisAttempt \o text, LoopWindow))
                = IF Len(ThisAttempt \o text) <= LoopWindow THEN Len(ThisAttempt \o text) ELSE LoopWindow
      BY <3>1, <3>2, LastOfIsSuffix
    <3> QED BY <2>3, <2>4, <3>1, <3>3
  <2>6. ~loopFired' => ~LoopDetected(window')
    BY <2>1
  <2> QED BY <2>4, <2>5, <2>6 DEF DetectorInv
<1>4. CASE UpstreamCall \/ HandOver
  <2>1. UNCHANGED <<window, written, start>>
    BY <1>4 DEF UpstreamCall, HandOver, decoder, record
  <2> QED BY <1>4, <1>a, <2>1, StreamSteps DEF Streams
<1>5. CASE UpstreamCallStart \/ UpstreamCallArgs
  <2>1. UNCHANGED <<window, written, start>>
    BY <1>5 DEF UpstreamCallStart, UpstreamCallArgs
  <2> QED BY <1>5, <1>a, <2>1, StreamSteps DEF Streams
<1>6. CASE CloseWithError \/ CloseWell
  <2>1. UNCHANGED <<window, written, start>>
    BY <1>6 DEF CloseWithError, CloseWell, decoder, record
  <2> QED BY <1>6, <1>a, <2>1, StreamSteps
<1> QED BY <1>1, <1>2, <1>3, <1>4, <1>5, <1>6, Steps

\* A window that is the end of the text misses no repetition it can hold.
LEMMA NothingMissed == WireTypes /\ DetectorInv => RepetitionCaught
<1> SUFFICES ASSUME WireTypes, DetectorInv, pc = "streaming", ~loopFired,
                    NEW p \in 1..LoopWindow, Tolerated(p) <= LoopWindow,
                    EndsInRepetition(ThisAttempt, p, Tolerated(p))
             PROVE  FALSE
  BY DEF RepetitionCaught, ThisAttempt
<1>0. LoopWindow \in Nat /\ p \in Nat \ {0} /\ p \in Nat
  BY DetectorConstants
<1>1. Tolerated(p) \in Nat
  <2>1. LoopThreshold * p \in Nat /\ LoopChunk * LoopThreshold \in Nat /\ LoopChunk \in Nat
    BY <1>0, DetectorConstants, Multiples
  <2>2. LoopThreshold * p + LoopChunk \in Nat
    BY <2>1
  <2>3. \A a, b \in Nat : (IF a > b THEN a ELSE b) \in Nat
    OBVIOUS
  <2> QED BY <2>1, <2>2, <2>3 DEF Tolerated
<1>2. ThisAttempt \in Seq(Symbols)
  BY AttemptText
<1>3. EndsInRepetition(LastOf(ThisAttempt, LoopWindow), p, Tolerated(p))
  BY <1>0, <1>1, <1>2, RepetitionKept
<1>4. window \in Seq(Symbols) /\ window = LastOf(ThisAttempt, LoopWindow) /\ ~LoopDetected(window)
  BY DEF DetectorInv
<1>5. LoopDetected(window)
  BY <1>0, <1>3, <1>4, RepetitionDetected
<1> QED BY <1>4, <1>5

-------------------------------------------------------------------------------
(* WellFormedStream: the shape of the events of the chat surface. *)

\* The places of the events of a type.
At(events, type) == {i \in DOMAIN events : events[i].type = type}

\* The calls are numbered from 0, in order.
Numbered(events) ==
    /\ \A i \in At(events, "call") : events[i].index < Cardinality(At(events, "call"))
    /\ \A n \in Nat : n < Cardinality(At(events, "call")) =>
          \E i \in At(events, "call") : events[i].index = n
    /\ \A i, j \in At(events, "call") : i < j => events[i].index < events[j].index

\* A chat stream that goes on: the role, then texts and calls.
OpenChat(events) ==
    /\ \A i \in DOMAIN events : events[i].type \in {"role", "text", "call"}
    /\ \A i \in DOMAIN events : events[i].type = "role" <=> i = 1
    /\ Numbered(events)

\* WellFormedStream, of any events.
WellFormed(events) ==
    LET indexes == {events[i].index : i \in At(events, "call")}
        ends == At(events, "final") \union At(events, "error")
    IN /\ At(events, "role") \subseteq {1}
       /\ At(events, "text") \union At(events, "call") \union At(events, "final") # {}
             => At(events, "role") = {1}
       /\ indexes = {n \in 0..Len(events) : n < Cardinality(At(events, "call"))}
       /\ \A i, j \in At(events, "call") : i < j => events[i].index < events[j].index
       /\ Cardinality(ends) = Cardinality(At(events, "done"))
       /\ \A i \in ends : i = Len(events) - 1 /\ i + 1 \in At(events, "done")
       /\ \A i \in At(events, "final") : At(events, "call") # {} => events[i].reason = "tool_calls"

\* The calls of a longer stream.
LEMMA CallPlaces ==
    ASSUME NEW events \in Seq(AllEvents), NEW type
    PROVE  /\ At(events, type) \subseteq 1..Len(events)
           /\ IsFiniteSet(At(events, type))
           /\ Cardinality(At(events, type)) \in Nat
           /\ Cardinality(At(events, type)) <= Len(events)
           /\ \A i \in At(events, "call") : events[i].index \in Nat
<1>1. DOMAIN events = 1..Len(events) /\ Len(events) \in Nat
  OBVIOUS
<1>2. At(events, type) \subseteq 1..Len(events)
  BY <1>1 DEF At
<1>3. IsFiniteSet(1..Len(events)) /\ Cardinality(1..Len(events)) = Len(events)
  BY <1>1, FS_Interval
<1>4. /\ IsFiniteSet(At(events, type))
      /\ Cardinality(At(events, type)) <= Cardinality(1..Len(events))
  BY <1>2, <1>3, FS_Subset
<1>5. \A i \in At(events, "call") : events[i].index \in Nat
  <2>1. \A e \in AllEvents : e.type = "call" => e.index \in Nat
    BY EventKinds DEF CallEvents
  <2>2. \A i \in DOMAIN events : events[i] \in AllEvents
    OBVIOUS
  <2> QED BY <2>1, <2>2 DEF At
<1> QED BY <1>2, <1>3, <1>4, <1>5, FS_CardinalityType

\* Numbers from 0 to one less than their count.
LEMMA Indexes ==
    ASSUME NEW events \in Seq(AllEvents), Numbered(events), NEW n \in Nat, Len(events) <= n
    PROVE  {events[i].index : i \in At(events, "call")}
              = {k \in 0..n : k < Cardinality(At(events, "call"))}
<1> DEFINE c == Cardinality(At(events, "call"))
<1>1. c \in Nat /\ c <= Len(events) /\ \A i \in At(events, "call") : events[i].index \in Nat
  BY CallPlaces
<1>2. /\ \A i \in At(events, "call") : events[i].index < c
      /\ \A k \in Nat : k < c => \E i \in At(events, "call") : events[i].index = k
  BY DEF Numbered
<1> HIDE DEF c
<1>3. \A i \in At(events, "call") : events[i].index \in 0..n
  BY <1>1, <1>2
<1>4. \A k \in 0..n : k \in Nat
  OBVIOUS
<1>5. {events[i].index : i \in At(events, "call")} = {k \in 0..n : k < c}
  BY <1>2, <1>3, <1>4
<1> QED BY <1>5 DEF c

\* A stream that goes on is well formed.
LEMMA OpenIsWell ==
    ASSUME NEW events \in Seq(AllEvents), OpenChat(events)
    PROVE  WellFormed(events)
<1>0. DOMAIN events = 1..Len(events) /\ Len(events) \in Nat
  OBVIOUS
<1>1. At(events, "final") = {} /\ At(events, "error") = {} /\ At(events, "done") = {}
  BY DEF OpenChat, At
<1>2. At(events, "role") \subseteq {1} /\ (DOMAIN events # {} => At(events, "role") = {1})
  BY <1>0 DEF OpenChat, At
<1>3. At(events, "text") \union At(events, "call") \union At(events, "final") # {} => DOMAIN events # {}
  BY DEF At
<1>4. {events[i].index : i \in At(events, "call")}
              = {k \in 0..Len(events) : k < Cardinality(At(events, "call"))}
  BY <1>0, Indexes DEF OpenChat
<1>5. \A i, j \in At(events, "call") : i < j => events[i].index < events[j].index
  BY DEF OpenChat, Numbered
<1>6. At(events, "final") \union At(events, "error") = At(events, "done")
  BY <1>1
<1> QED BY <1>1, <1>2, <1>3, <1>4, <1>5, <1>6 DEF WellFormed

\* The ways an open stream grows.
LEMMA OpenEmpty == OpenChat(<<>>) /\ At(<<>>, "call") = {} /\ <<>> \in Seq(AllEvents)
<1>1. DOMAIN <<>> = {} /\ <<>> \in Seq(AllEvents)
  OBVIOUS
<1>2. At(<<>>, "call") = {}
  BY <1>1 DEF At
<1>3. Cardinality(At(<<>>, "call")) = 0
  BY <1>2, FS_EmptySet
<1>4. Numbered(<<>>)
  BY <1>2, <1>3 DEF Numbered
<1> QED BY <1>1, <1>2, <1>4 DEF OpenChat

\* The role opens the stream.
LEMMA OpenRole ==
    LET opened == <<[type |-> "role"]>>
    IN OpenChat(opened) /\ At(opened, "call") = {} /\ opened # <<>>
<1> DEFINE e == [type |-> "role"]
           opened == <<e>>
<1>0. e.type = "role"
  OBVIOUS
<1> HIDE DEF e
<1>1. DOMAIN opened = {1} /\ opened[1] = e /\ opened # <<>>
  <2>1. DOMAIN opened = 1..1
    OBVIOUS
  <2>2. 1..1 = {1}
    OBVIOUS
  <2> QED BY <2>1, <2>2
<1> HIDE DEF opened
<1>2. At(opened, "call") = {}
  BY <1>0, <1>1 DEF At
<1>3. Cardinality(At(opened, "call")) = 0
  BY <1>2, FS_EmptySet
<1>4. Numbered(opened)
  BY <1>2, <1>3 DEF Numbered
<1>5. OpenChat(opened)
  BY <1>0, <1>1, <1>4 DEF OpenChat
<1> QED BY <1>1, <1>2, <1>5 DEF opened, e

\* One element more, at the end, or none: no place goes.
LEMMA NoPlaceLess ==
    ASSUME NEW m \in Nat, NEW n \in Nat, m = n \/ m = n + 1
    PROVE  1..n \subseteq 1..m
  OBVIOUS

\* And a place that is new is the last, and not the first.
LEMMA LastPlaceNew ==
    ASSUME NEW m \in Nat, NEW n \in Nat, n # 0, m = n \/ m = n + 1, NEW i \in 1..m
    PROVE  i \in 1..n \/ (i = m /\ i # 1)
<1>1. i \in Nat /\ 1 <= i /\ i <= m
  OBVIOUS
<1>2. CASE i <= n
  BY <1>1, <1>2
<1>3. CASE n < i
  <2>1. m = n + 1
    BY <1>1, <1>3
  <2>2. i = n + 1
    BY <1>1, <1>3, <2>1
  <2> QED BY <2>1, <2>2
<1> QED BY <1>2, <1>3

\* What a text changes in a stream: its last event, or one more.
LEMMA JoinedPlaces ==
    ASSUME NEW events \in Seq(AllEvents), events # <<>>, NEW text \in Seq(Symbols)
    PROVE  LET joined == AppendText(events, text)
           IN /\ \A i \in DOMAIN joined : i \in DOMAIN events \/ (i # 1 /\ joined[i].type = "text")
              /\ \A i \in DOMAIN events :
                    /\ i \in DOMAIN joined /\ joined[i].type = events[i].type
                    /\ events[i].type # "text" => joined[i] = events[i]
<1> DEFINE joined == AppendText(events, text)
<1>1. joined \in Seq(AllEvents) /\ (Len(joined) = Len(events) \/ Len(joined) = Len(events) + 1)
  BY JoinedText
<1>2. joined[Len(joined)].type = "text"
  BY JoinedText
<1>3. ASSUME NEW i \in 1..Len(events)
      PROVE  joined[i].type = events[i].type /\ (events[i].type # "text" => joined[i] = events[i])
  BY JoinedText
<1> HIDE DEF joined
<1>4. DOMAIN joined = 1..Len(joined) /\ DOMAIN events = 1..Len(events)
  BY <1>1
<1>5. Len(events) \in Nat /\ Len(events) # 0 /\ Len(joined) \in Nat
  BY <1>1
<1>6. /\ 1..Len(events) \subseteq 1..Len(joined)
      /\ \A i \in 1..Len(joined) : i \in 1..Len(events) \/ (i = Len(joined) /\ i # 1)
  <2>1. 1..Len(events) \subseteq 1..Len(joined)
    BY <1>1, <1>5, NoPlaceLess
  <2>2. ASSUME NEW i \in 1..Len(joined)
        PROVE  i \in 1..Len(events) \/ (i = Len(joined) /\ i # 1)
    BY <1>1, <1>5, LastPlaceNew
  <2> QED BY <2>1, <2>2
<1> QED BY <1>2, <1>3, <1>4, <1>6 DEF joined

\* A text keeps it open.
LEMMA OpenText ==
    ASSUME NEW events \in Seq(AllEvents), OpenChat(events), events # <<>>, NEW text \in Seq(Symbols)
    PROVE  /\ OpenChat(AppendText(events, text))
           /\ At(AppendText(events, text), "call") = At(events, "call")
<1> DEFINE joined == AppendText(events, text)
<1>3. \A i \in DOMAIN joined : i \in DOMAIN events \/ (i # 1 /\ joined[i].type = "text")
  BY JoinedPlaces
<1>4. \A i \in DOMAIN events :
         /\ i \in DOMAIN joined /\ joined[i].type = events[i].type
         /\ events[i].type # "text" => joined[i] = events[i]
  BY JoinedPlaces
<1> HIDE DEF joined
<1>5. OpenChat(events)
  OBVIOUS
<1>6. At(joined, "call") = At(events, "call")
  BY <1>3, <1>4 DEF At
<1>7. \A i \in At(events, "call") : joined[i] = events[i]
  BY <1>4 DEF At
<1>8. Numbered(joined)
  <2>1. Numbered(events)
    BY <1>5 DEF OpenChat
  <2> QED BY <1>6, <1>7, <2>1 DEF Numbered
<1>9. OpenChat(joined)
  <2>1. \A i \in DOMAIN joined : joined[i].type \in {"role", "text", "call"}
    BY <1>3, <1>4, <1>5 DEF OpenChat
  <2>2. \A i \in DOMAIN joined : joined[i].type = "role" <=> i = 1
    BY <1>3, <1>4, <1>5 DEF OpenChat
  <2> QED BY <1>8, <2>1, <2>2 DEF OpenChat
<1> QED BY <1>6, <1>9 DEF joined

\* A call numbered with the count of those before keeps it open.
LEMMA OpenCall ==
    ASSUME NEW events \in Seq(AllEvents), OpenChat(events), events # <<>>,
           NEW e \in AllEvents, e.type = "call", e.index = Cardinality(At(events, "call"))
    PROVE  OpenChat(Append(events, e))
<1> DEFINE longer == Append(events, e)
           n == Len(events)
           before == At(events, "call")
           c == Cardinality(before)
<1>1. /\ longer \in Seq(AllEvents) /\ Len(longer) = n + 1
      /\ \A i \in 1..n : longer[i] = events[i]
      /\ longer[n + 1] = e
  BY AppendProperties
<1> HIDE DEF longer
<1>2. DOMAIN events = 1..n /\ DOMAIN longer = 1..(n + 1) /\ n \in Nat /\ n # 0
  BY <1>1
<1>3. /\ before \subseteq 1..n /\ IsFiniteSet(before) /\ c \in Nat
      /\ \A i \in before : events[i].index \in Nat
  BY CallPlaces
<1>4. At(longer, "call") = before \union {n + 1}
  BY <1>1, <1>2 DEF At
<1>5. n + 1 \notin before
  BY <1>2, <1>3
<1>6. Cardinality(At(longer, "call")) = c + 1
  BY <1>3, <1>4, <1>5, FS_AddElement
<1>7. /\ \A i \in before : longer[i] = events[i]
      /\ longer[n + 1].index = c
  BY <1>1, <1>3
<1>8. /\ \A i \in before : events[i].index < c
      /\ \A k \in Nat : k < c => \E i \in before : events[i].index = k
      /\ \A i, j \in before : i < j => events[i].index < events[j].index
  BY DEF OpenChat, Numbered
<1> HIDE DEF c, before
<1>9. Numbered(longer)
  <2>1. ASSUME NEW i \in At(longer, "call") PROVE longer[i].index < c + 1
    <3>1. CASE i \in before
      <4>1. longer[i].index \in Nat /\ longer[i].index < c
        BY <1>3, <1>7, <1>8, <3>1
      <4> QED BY <1>3, <4>1
    <3>2. CASE i = n + 1
      BY <1>3, <1>7, <3>2
    <3> QED BY <1>4, <3>1, <3>2
  <2>2. ASSUME NEW k \in Nat, k < c + 1 PROVE \E i \in At(longer, "call") : longer[i].index = k
    <3>1. CASE k = c
      BY <1>4, <1>7, <3>1
    <3>2. CASE k # c
      <4>1. k < c
        BY <1>3, <2>2, <3>2
      <4> QED BY <1>4, <1>7, <1>8, <4>1
    <3> QED BY <3>1, <3>2
  <2>3. ASSUME NEW i \in At(longer, "call"), NEW j \in At(longer, "call"), i < j
        PROVE  longer[i].index < longer[j].index
    <3>1. i # n + 1
      <4>1. j \in 1..n \/ j = n + 1
        BY <1>3, <1>4
      <4>2. j \in Nat /\ j <= n + 1
        BY <1>2, <4>1
      <4> QED BY <1>2, <2>3, <4>2
    <3>2. i \in before
      BY <1>4, <3>1
    <3>3. CASE j \in before
      BY <1>7, <1>8, <2>3, <3>2, <3>3
    <3>4. CASE j = n + 1
      BY <1>7, <1>8, <3>2, <3>4
    <3> QED BY <1>4, <3>3, <3>4
  <2> QED BY <1>6, <2>1, <2>2, <2>3 DEF Numbered
<1>10. \A i \in DOMAIN longer : longer[i].type \in {"role", "text", "call"}
  BY <1>1, <1>2 DEF OpenChat
<1>11. \A i \in DOMAIN longer : longer[i].type = "role" <=> i = 1
  BY <1>1, <1>2 DEF OpenChat
<1>12. OpenChat(longer)
  BY <1>9, <1>10, <1>11 DEF OpenChat
<1> QED BY <1>12 DEF longer

\* The last message and [DONE] complete it.
LEMMA ClosedIsWell ==
    ASSUME NEW events \in Seq(AllEvents), OpenChat(events), NEW last \in AllEvents,
           last.type \in {"error", "final"},
           last.type = "final" => events # <<>>,
           last.type = "final" /\ At(events, "call") # {} => last.reason = "tool_calls"
    PROVE  WellFormed(Append(Append(events, last), [type |-> "done"]))
<1> DEFINE e == [type |-> "done"]
           begun == Append(events, last)
           ended == Append(begun, e)
           n == Len(events)
<1>1. e \in AllEvents /\ e.type = "done"
  BY MadeEvents
<1> HIDE DEF e
<1>2. /\ begun \in Seq(AllEvents) /\ Len(begun) = n + 1
      /\ \A i \in 1..n : begun[i] = events[i]
      /\ begun[n + 1] = last
  BY AppendProperties
<1> HIDE DEF begun
<1>3. /\ ended \in Seq(AllEvents) /\ Len(ended) = (n + 1) + 1
      /\ \A i \in 1..(n + 1) : ended[i] = begun[i]
      /\ ended[(n + 1) + 1] = e
  BY <1>1, <1>2, AppendProperties
<1> HIDE DEF ended
<1>4. DOMAIN events = 1..n /\ DOMAIN ended = 1..(n + 2) /\ n \in Nat /\ Len(ended) = n + 2
  BY <1>3
<1>5. /\ \A i \in 1..n : ended[i] = events[i]
      /\ ended[n + 1] = last /\ ended[n + 2] = e
  BY <1>2, <1>3, <1>4
<1>6. \A i \in DOMAIN ended : i \in 1..n \/ i = n + 1 \/ i = n + 2
  BY <1>4
<1>7. \A i \in 1..n : events[i].type \in {"role", "text", "call"}
  BY <1>4 DEF OpenChat
<1>8. \A type \in {"role", "text", "call"} : At(ended, type) = At(events, type)
  BY <1>1, <1>4, <1>5, <1>6 DEF At
<1>9. At(ended, "done") = {n + 2}
  BY <1>1, <1>4, <1>5, <1>6, <1>7 DEF At
<1>10. At(ended, "final") \union At(ended, "error") = {n + 1}
  BY <1>1, <1>4, <1>5, <1>6, <1>7 DEF At
<1>11. At(ended, "final") # {} => last.type = "final" /\ At(ended, "final") \subseteq {n + 1}
  BY <1>1, <1>4, <1>5, <1>6, <1>7, <1>10 DEF At
<1>12. At(ended, "role") \subseteq {1} /\ (events # <<>> => At(ended, "role") = {1})
  <2>1. At(events, "role") \subseteq {1} /\ (events # <<>> => At(events, "role") = {1})
    BY <1>4 DEF OpenChat, At
  <2> QED BY <1>8, <2>1
<1>13. At(ended, "text") \union At(ended, "call") \union At(ended, "final") # {} => At(ended, "role") = {1}
  <2>1. At(events, "text") \union At(events, "call") # {} => events # <<>>
    BY <1>4 DEF At
  <2> QED BY <1>8, <1>11, <1>12, <2>1
<1>14. \A i \in At(events, "call") : ended[i] = events[i]
  BY <1>4, <1>5 DEF At
<1>15. {ended[i].index : i \in At(ended, "call")}
              = {k \in 0..Len(ended) : k < Cardinality(At(ended, "call"))}
  <2>1. n + 2 \in Nat /\ Len(events) <= n + 2
    BY <1>4
  <2>2. {events[i].index : i \in At(events, "call")}
              = {k \in 0..(n + 2) : k < Cardinality(At(events, "call"))}
    BY <2>1, Indexes DEF OpenChat
  <2>3. {ended[i].index : i \in At(ended, "call")} = {events[i].index : i \in At(events, "call")}
    BY <1>8, <1>14
  <2> QED BY <1>4, <1>8, <2>2, <2>3
<1>16. \A i, j \in At(ended, "call") : i < j => ended[i].index < ended[j].index
  BY <1>8, <1>14 DEF OpenChat, Numbered
<1>17. Cardinality(At(ended, "final") \union At(ended, "error")) = Cardinality(At(ended, "done"))
  <2>1. Cardinality({n + 1}) = 1 /\ Cardinality({n + 2}) = 1
    BY FS_Singleton
  <2> QED BY <1>9, <1>10, <2>1
<1>18. \A i \in At(ended, "final") \union At(ended, "error") :
          i = Len(ended) - 1 /\ i + 1 \in At(ended, "done")
  BY <1>4, <1>9, <1>10
<1>19. \A i \in At(ended, "final") : At(ended, "call") # {} => ended[i].reason = "tool_calls"
  BY <1>5, <1>8, <1>11
<1>20. WellFormed(ended)
  BY <1>12, <1>13, <1>15, <1>16, <1>17, <1>18, <1>19 DEF WellFormed
<1> QED BY <1>20 DEF ended, begun, e

\* The stream while it goes on, whatever the surface.
OpenStream == IF surface = "chat" THEN OpenChat(sent)
              ELSE \A i \in DOMAIN sent : sent[i].type = "text"

\* What is closed is done; what is not goes on; and it is well formed.
ShapeInv ==
    /\ Closed => pc = "done"
    /\ ~Closed => OpenStream
    /\ WellFormedStream

\* The property of the runs, in terms of the events alone.
LEMMA WellFormedIs == WellFormedStream <=> (surface = "chat" => WellFormed(sent))
  BY DEF WellFormedStream, WellFormed, At

\* What goes on has no terminator.
LEMMA OpenNotClosed == WireTypes /\ OpenStream => ~Closed
<1> SUFFICES ASSUME WireTypes, OpenStream, Closed PROVE FALSE
  OBVIOUS
<1>1. sent \in Seq(AllEvents) /\ sent # <<>>
  BY DEF WireTypes, Closed
<1>2. Len(sent) \in DOMAIN sent
  BY <1>1
<1>3. Last(sent) = sent[Len(sent)]
  BY DEF Last
<1>4. CASE surface = "chat"
  BY <1>2, <1>3, <1>4 DEF OpenStream, OpenChat, Closed
<1>5. CASE surface # "chat"
  BY <1>2, <1>3, <1>5 DEF OpenStream, Closed
<1> QED BY <1>4, <1>5

\* An open stream is well formed.
LEMMA OpenGoesOn == WireTypes /\ OpenStream => WellFormedStream
<1> SUFFICES ASSUME WireTypes, OpenStream, surface = "chat" PROVE WellFormed(sent)
  BY WellFormedIs
<1>1. sent \in Seq(AllEvents) /\ OpenChat(sent)
  BY DEF WireTypes, OpenStream
<1> QED BY <1>1, OpenIsWell

\* The first delta has the role before it.
LEMMA OpenedChat ==
    ASSUME sent \in Seq(AllEvents), surface = "chat", OpenChat(sent)
    PROVE  LET opened == sent \o FirstDelta
           IN /\ opened \in Seq(AllEvents) /\ opened # <<>> /\ OpenChat(opened)
              /\ At(opened, "call") = At(sent, "call")
<1> DEFINE opened == sent \o FirstDelta
<1>1. /\ opened \in Seq(AllEvents)
      /\ opened = IF sent = <<>> THEN <<[type |-> "role"]>> ELSE sent
  BY Opened
<1> HIDE DEF opened
<1>2. CASE sent = <<>>
  BY <1>1, <1>2, OpenRole, OpenEmpty DEF opened
<1>3. CASE sent # <<>>
  BY <1>1, <1>3 DEF opened
<1> QED BY <1>2, <1>3

\* A text keeps the stream open.
LEMMA TextOpen ==
    ASSUME sent \in Seq(AllEvents), OpenStream, NEW text \in Seq(Symbols)
    PROVE  LET events == TextDelta(text)
           IN IF surface = "chat" THEN OpenChat(events) /\ At(events, "call") = At(sent, "call")
              ELSE \A i \in DOMAIN events : events[i].type = "text"
<1>1. CASE text = <<>>
  BY <1>1 DEF TextDelta, OpenStream
<1>2. CASE text # <<>> /\ surface = "chat"
  <2> DEFINE opened == sent \o FirstDelta
  <2>1. TextDelta(text) = AppendText(opened, text)
    BY <1>2 DEF TextDelta
  <2>2. /\ opened \in Seq(AllEvents) /\ opened # <<>> /\ OpenChat(opened)
        /\ At(opened, "call") = At(sent, "call")
    BY <1>2, OpenedChat DEF OpenStream
  <2> HIDE DEF opened
  <2>3. /\ OpenChat(AppendText(opened, text))
        /\ At(AppendText(opened, text), "call") = At(opened, "call")
    BY <2>2, OpenText
  <2> QED BY <1>2, <2>1, <2>2, <2>3
<1>3. CASE text # <<>> /\ surface # "chat"
  <2>1. TextDelta(text) = AppendText(sent, text)
    <3>1. sent \o FirstDelta = sent
      BY <1>3, Opened
    <3> QED BY <1>3, <3>1 DEF TextDelta
  <2> DEFINE joined == AppendText(sent, text)
  <2>2. /\ joined \in Seq(AllEvents)
        /\ Len(joined) = Len(sent) \/ Len(joined) = Len(sent) + 1
        /\ \A i \in 1..Len(sent) : joined[i].type = sent[i].type
        /\ joined[Len(joined)].type = "text"
    BY JoinedText
  <2> HIDE DEF joined
  <2>3. ASSUME NEW i \in DOMAIN joined PROVE joined[i].type = "text"
    <3>1. DOMAIN joined = 1..Len(joined) /\ DOMAIN sent = 1..Len(sent) /\ Len(sent) \in Nat
      BY <2>2
    <3>2. i \in 1..Len(sent) \/ i = Len(joined)
      <4>1. CASE Len(joined) = Len(sent)
        BY <3>1, <4>1
      <4>2. CASE Len(joined) = Len(sent) + 1
        BY <3>1, <4>2
      <4> QED BY <2>2, <4>1, <4>2
    <3>3. \A j \in 1..Len(sent) : sent[j].type = "text"
      BY <1>3, <3>1 DEF OpenStream
    <3> QED BY <2>2, <3>2, <3>3
  <2> QED BY <1>3, <2>1, <2>3 DEF joined
<1> QED BY <1>1, <1>2, <1>3

\* A call keeps the stream open.
LEMMA CallOpen ==
    ASSUME sent \in Seq(AllEvents), OpenStream, NEW call \in CallRecords, EmitCall(call),
           UNCHANGED surface
    PROVE  OpenStream'
<1>1. CASE surface = "chat"
  <2> DEFINE opened == sent \o FirstDelta
             e == CallDelta(call)
  <2>1. /\ opened \in Seq(AllEvents) /\ opened # <<>> /\ OpenChat(opened)
        /\ At(opened, "call") = At(sent, "call")
    BY <1>1, OpenedChat DEF OpenStream
  <2>2. e \in AllEvents /\ e.type = "call" /\ e.index = ToolCallIndex
    <3>1. ToolCallIndex \in Nat
      BY CallCount
    <3> QED BY <3>1, MadeEvents DEF CallDelta
  <2>3. ToolCallIndex = Cardinality(At(sent, "call"))
    BY DEF ToolCallIndex, At
  <2>4. sent' = opened \o <<e>>
    BY <1>1 DEF EmitCall
  <2> HIDE DEF opened, e
  <2>5. sent' = Append(opened, e)
    BY <2>1, <2>2, <2>4, AppendIsConcat
  <2>6. OpenChat(Append(opened, e))
    BY <2>1, <2>2, <2>3, OpenCall
  <2>7. OpenChat(sent')
    BY <2>5, <2>6
  <2> QED BY <1>1, <2>7 DEF OpenStream, OpenChat, Numbered, At
<1>2. CASE surface # "chat"
  BY <1>2 DEF EmitCall, OpenStream
<1> QED BY <1>1, <1>2

\* A last message and the terminator close it.
LEMMA EndIsClosed ==
    ASSUME NEW events \in Seq(AllEvents), NEW last \in AllEvents,
           last.type \in {"error", "final"}, UNCHANGED surface,
           sent' = events \o <<last>> \o Terminator
    PROVE  /\ Closed'
           /\ surface = "chat" => sent' = Append(Append(events, last), [type |-> "done"])
<1> DEFINE e == [type |-> "done"]
           begun == Append(events, last)
<1>1. begun \in Seq(AllEvents) /\ begun # <<>> /\ Last(begun) = last
  <2>1. begun \in Seq(AllEvents) /\ begun # <<>> /\ Len(begun) = Len(events) + 1
        /\ begun[Len(events) + 1] = last
    BY AppendProperties
  <2> QED BY <2>1 DEF Last
<1>2. sent' = IF surface = "chat" THEN Append(begun, e) ELSE begun
  BY Terminated
<1>3. e \in AllEvents /\ e.type = "done"
  BY MadeEvents
<1> HIDE DEF e, begun
<1>4. CASE surface = "chat"
  <2>1. sent' = Append(begun, e) /\ sent' # <<>> /\ Last(sent') = e
    <3>1. Append(begun, e) # <<>> /\ Len(Append(begun, e)) = Len(begun) + 1
          /\ Append(begun, e)[Len(begun) + 1] = e
      BY <1>1, <1>3, AppendProperties
    <3> QED BY <1>2, <1>4, <3>1 DEF Last
  <2>2. Closed'
    BY <1>3, <1>4, <2>1 DEF Closed
  <2> QED BY <1>4, <2>1, <2>2 DEF begun, e
<1>5. CASE surface # "chat"
  <2>1. sent' = begun
    BY <1>2, <1>5
  <2> QED BY <1>1, <1>5, <2>1 DEF Closed
<1> QED BY <1>4, <1>5

\* And the stream is well formed.
LEMMA EndIsWell ==
    ASSUME NEW events \in Seq(AllEvents), NEW last \in AllEvents,
           last.type \in {"error", "final"}, UNCHANGED surface,
           sent' = events \o <<last>> \o Terminator,
           surface = "chat" =>
              /\ OpenChat(events)
              /\ last.type = "final" => events # <<>>
              /\ last.type = "final" /\ At(events, "call") # {} => last.reason = "tool_calls"
    PROVE  WellFormedStream'
<1>1. CASE surface = "chat"
  <2>1. WellFormed(Append(Append(events, last), [type |-> "done"]))
    BY <1>1, ClosedIsWell
  <2>2. WellFormed(sent')
    BY <1>1, <2>1, EndIsClosed
  <2> QED BY <2>2 DEF WellFormedStream, WellFormed, At
<1>2. CASE surface # "chat"
  <2>1. surface' # "chat"
    BY <1>2
  <2> QED BY <2>1, SMTT(30) DEF WellFormedStream
<1> QED BY <1>1, <1>2

\* The stream is well formed at first.
LEMMA InitShape == Init /\ WireTypes => ShapeInv
<1> SUFFICES ASSUME Init, WireTypes PROVE ShapeInv
  OBVIOUS
<1>1. sent = <<>>
  BY DEF Init
<1>2. OpenStream
  BY <1>1, OpenEmpty, NoneInflight DEF OpenStream
<1>3. ~Closed /\ WellFormedStream
  BY <1>2, OpenNotClosed, OpenGoesOn
<1> QED BY <1>2, <1>3 DEF ShapeInv

\* Every step keeps the stream well formed.
LEMMA StepShape == Loop!TypeOK /\ WireTypes /\ WireTypes' /\ ShapeInv /\ [Next]_vars => ShapeInv'
<1> SUFFICES ASSUME Loop!TypeOK, WireTypes, WireTypes', ShapeInv, [Next]_vars PROVE ShapeInv'
  OBVIOUS
<1>0. UNCHANGED <<surface, route>> /\ sent \in Seq(AllEvents)
  BY SameRoute DEF WireTypes
<1>a. OpenStream' => ShapeInv'
  <2>1. WireTypes' /\ OpenStream' => ~Closed'
    BY OpenNotClosed, PTL
  <2>2. WireTypes' /\ OpenStream' => WellFormedStream'
    BY OpenGoesOn, PTL
  <2> QED BY <2>1, <2>2 DEF ShapeInv
<1>b. pc # "done" => OpenStream
  BY DEF ShapeInv
<1>c. UNCHANGED sent => (OpenStream => OpenStream')
  BY <1>0 DEF OpenStream
<1>d. UNCHANGED sent /\ (pc = "done" => pc' = "done") => ShapeInv'
  <2> SUFFICES ASSUME UNCHANGED sent, pc = "done" => pc' = "done" PROVE ShapeInv'
    OBVIOUS
  <2>1. CASE OpenStream
    BY <2>1, <1>a, <1>c
  <2>2. CASE ~OpenStream
    <3>1. Closed /\ Closed' /\ pc' = "done"
      BY <1>0, <2>2 DEF ShapeInv, Closed
    <3>2. WellFormedStream'
      <4>1. surface = "chat" => WellFormed(sent)
        BY WellFormedIs DEF ShapeInv
      <4>2. surface' = "chat" => WellFormed(sent')
        BY <1>0, <4>1
      <4> QED BY <4>2 DEF WellFormedStream, WellFormed, At
    <3> QED BY <3>1, <3>2 DEF ShapeInv
  <2> QED BY <2>1, <2>2
<1>1. CASE Quiet
  <2>1. UNCHANGED sent /\ (pc = "done" => pc' = "done")
    BY <1>1 DEF Quiet, GoesOn, emitter
  <2> QED BY <1>d, <2>1
<1>2. CASE Opens
  <2>1. UNCHANGED sent /\ (pc = "done" => pc' = "done")
    BY <1>2 DEF Opens, OpenDecoder, emitter
  <2> QED BY <1>d, <2>1
<1>3. CASE UpstreamText
  <2>1. PICK out \in Seq(Symbols) : sent' = TextDelta(out)
    BY <1>3, TextStep
  <2>2. OpenStream
    BY <1>3, <1>b, StreamSteps DEF Streams
  <2>3. IF surface = "chat" THEN OpenChat(sent')
              ELSE \A i \in DOMAIN sent' : sent'[i].type = "text"
    BY <1>0, <2>1, <2>2, TextOpen
  <2>4. OpenStream'
    BY <1>0, <2>3 DEF OpenStream, OpenChat, Numbered, At
  <2> QED BY <1>a, <2>4
<1>4. ASSUME NEW call \in CallRecords, YieldCall(call) PROVE ShapeInv'
  <2>1. OpenStream
    BY <1>4, <1>b, StreamSteps DEF Streams
  <2>2. CASE call.name = RetrieveName
    BY <1>4, <1>a, <1>c, <2>1, <2>2, Yielded
  <2>3. CASE call.name # RetrieveName
    BY <1>0, <1>4, <1>a, <2>1, <2>3, Yielded, CallOpen
  <2> QED BY <2>2, <2>3
<1>5. CASE UpstreamCall \/ HandOver
  <2>1. PICK call \in CallRecords : YieldCall(call)
    <3>1. CASE UpstreamCall
      BY <3>1, CalledAtOnce
    <3>2. CASE HandOver
      BY <3>2, HandedOver
    <3> QED BY <1>5, <3>1, <3>2
  <2> QED BY <1>4, <2>1
<1>6. CASE UpstreamCallStart \/ UpstreamCallArgs
  <2>1. UNCHANGED sent /\ pc' = pc
    BY <1>6, StreamSteps DEF Streams, UpstreamCallStart, UpstreamCallArgs, emitter
  <2> QED BY <1>d, <2>1
<1>7. CASE CloseWithError
  <2>1. ~Closed /\ OpenStream /\ pc' = "done"
    BY <1>7, StreamSteps DEF CloseWithError, ShapeInv
  <2>2. /\ sent' = sent \o <<ErrorEvent>> \o Terminator
        /\ ErrorEvent \in AllEvents /\ ErrorEvent.type = "error"
    BY <1>7, ErrorStep
  <2>3. surface = "chat" => OpenChat(sent)
    BY <2>1 DEF OpenStream
  <2>4. Closed' /\ WellFormedStream'
    BY <1>0, <2>2, <2>3, EndIsClosed, EndIsWell
  <2> QED BY <2>1, <2>4 DEF ShapeInv
<1>8. CASE CloseWell
  <2>1. ~Closed /\ OpenStream /\ pc' = "done"
    BY <1>8, StreamSteps DEF CloseWell, ShapeInv
  <2>2. /\ sent' = OpenedLast \o <<FinalEvent>> \o Terminator
        /\ FinalEvent \in AllEvents /\ FinalEvent.type = "final" /\ FinalEvent.reason = WireReason
        /\ OpenedLast \in Seq(AllEvents)
    BY <1>8, FinalStep
  <2>3. ASSUME surface = "chat"
        PROVE  /\ OpenChat(OpenedLast) /\ OpenedLast # <<>>
               /\ At(OpenedLast, "call") = At(sent, "call")
    <3>1. OpenChat(LastText) /\ At(LastText, "call") = At(sent, "call")
      <4>1. Flush(unescaper).out \in Seq(Symbols)
        <5>1. unescaper \in UnescaperStates
          BY DEF WireTypes
        <5> QED BY <5>1, FlushedText
      <4> QED BY <1>0, <2>1, <2>3, <4>1, TextOpen DEF LastText
    <3>2. CASE LastText # <<>>
      BY <3>1, <3>2 DEF OpenedLast
    <3>3. CASE LastText = <<>>
      <4>1. sent = <<>>
        <5> DEFINE out == Flush(unescaper).out
                   opened == sent \o FirstDelta
        <5>1. CASE out = <<>>
          BY <3>3, <5>1 DEF LastText, TextDelta
        <5>2. CASE out # <<>>
          <6>1. LastText = AppendText(opened, out)
            BY <5>2 DEF LastText, TextDelta
          <6>2. opened \in Seq(AllEvents) /\ out \in Seq(Symbols)
            <7>1. unescaper \in UnescaperStates
              BY DEF WireTypes
            <7> QED BY <1>0, <7>1, Opened, FlushedText
          <6> HIDE DEF opened, out
          <6>3. Len(AppendText(opened, out)) > 0
            BY <6>2, JoinedText
          <6> QED BY <3>3, <6>1, <6>3
        <5> QED BY <5>1, <5>2
      <4>2. OpenedLast = <<[type |-> "role"]>>
        BY <2>3, <3>3, <4>1 DEF OpenedLast, FirstDelta, EmittedAny
      <4> QED BY <4>1, <4>2, OpenRole, OpenEmpty
    <3> QED BY <3>2, <3>3
  <2>4. surface = "chat" /\ At(OpenedLast, "call") # {} => FinalEvent.reason = "tool_calls"
    <3> SUFFICES ASSUME surface = "chat", At(OpenedLast, "call") # {} PROVE WireReason = "tool_calls"
      BY <2>2
    <3>1. At(sent, "call") # {} /\ IsFiniteSet(At(sent, "call"))
      BY <1>0, <2>3, CallPlaces
    <3>2. ToolCallIndex = Cardinality(At(sent, "call")) /\ ToolCallIndex \in Nat /\ ToolCallIndex # 0
      BY <1>0, <3>1, CallCount, FS_EmptySet DEF ToolCallIndex, At
    <3> QED BY <3>2 DEF WireReason
  <2>5. Closed' /\ WellFormedStream'
    BY <1>0, <2>2, <2>3, <2>4, EndIsClosed, EndIsWell
  <2> QED BY <2>1, <2>5 DEF ShapeInv
<1> QED BY <1>1, <1>2, <1>3, <1>5, <1>6, <1>7, <1>8, Steps

-------------------------------------------------------------------------------
(* WholeAnswer: until it is closed, the client has what the unescaper has      *)
(* written of the whole text, and the unescaper holds what it would hold.      *)

\* The whole text read by one unescaper.
ReadAtOnce == Process(NewEntityUnescaper, written)

\* The client has what reading at once has written, and the unescaper holds
\* what reading at once would hold.
TextSoFar ==
    IF dialect = "google"
    THEN unescaper = [ReadAtOnce EXCEPT !.out = <<>>] /\ TextsOf(sent) = ReadAtOnce.out
    ELSE unescaper = NewEntityUnescaper /\ TextsOf(sent) = written

TextInv == (~Closed => TextSoFar) /\ WholeAnswer

\* A new unescaper holds nothing and has written nothing.
LEMMA NewUnescaper ==
    /\ NewEntityUnescaper \in UnescaperStates /\ NewEntityUnescaper.out = <<>>
    /\ Held(NewEntityUnescaper) = <<>>
    /\ [Process(NewEntityUnescaper, <<>>) EXCEPT !.out = <<>>] = NewEntityUnescaper
    /\ Process(NewEntityUnescaper, <<>>).out = <<>>
<1>1. NewEntityUnescaper \in UnescaperStates /\ NewEntityUnescaper.out = <<>>
  BY SymbolTexts DEF NewEntityUnescaper, UnescaperStates, Modes
<1>2. Held(NewEntityUnescaper) = <<>>
  <2>1. NewEntityUnescaper.raw = <<>> /\ NewEntityUnescaper.entity = <<>>
    BY DEF NewEntityUnescaper
  <2>2. <<>> \o <<>> = <<>>
    BY SymbolTexts, ConcatEmptySeq
  <2> QED BY <2>1, <2>2 DEF Held
<1>3. [NewEntityUnescaper EXCEPT !.out = <<>>] = NewEntityUnescaper
  BY DEF NewEntityUnescaper
<1>4. Process(NewEntityUnescaper, <<>>) = NewEntityUnescaper
  <2>1. Process(NewEntityUnescaper, <<>>) = Runes!Folded(NewEntityUnescaper, <<>>)
    BY <1>1, <1>3, SymbolTexts, Reading
  <2> QED BY <2>1, Runes!FoldEmpty
<1> QED BY <1>1, <1>2, <1>3, <1>4

\* Nothing is lost at first.
LEMMA InitText == Init /\ WireTypes => TextInv
<1> SUFFICES ASSUME Init, WireTypes PROVE TextInv
  OBVIOUS
<1>1. sent = <<>> /\ written = <<>> /\ unescaper = NewEntityUnescaper
  BY DEF Init
<1>2. ReadAtOnce = Process(NewEntityUnescaper, <<>>)
  BY <1>1 DEF ReadAtOnce
<1>3. TextsOf(sent) = <<>>
  BY <1>1, Received
<1>4. TextSoFar
  BY <1>1, <1>2, <1>3, NewUnescaper DEF TextSoFar
<1>5. ~Closed
  BY <1>1 DEF Closed
<1> QED BY <1>4, <1>5 DEF TextInv, WholeAnswer, AnsweredWell

\* Every step keeps the text whole.
LEMMA StepText ==
    /\ Loop!TypeOK /\ WireTypes /\ WireTypes' /\ ShapeInv /\ ShapeInv' /\ TextInv /\ [Next]_vars
    => TextInv'
<1> SUFFICES ASSUME Loop!TypeOK, WireTypes, WireTypes', ShapeInv, ShapeInv', TextInv, [Next]_vars
             PROVE  TextInv'
  OBVIOUS
<1>0. /\ UNCHANGED <<dialect, surface>>
      /\ sent \in Seq(AllEvents) /\ unescaper \in UnescaperStates /\ written \in Seq(Symbols)
  BY SameRoute DEF WireTypes
<1>a. pc # "done" => TextSoFar
  BY DEF ShapeInv, TextInv
<1>b. pc' # "done" /\ TextSoFar' => TextInv'
  BY DEF ShapeInv, TextInv, WholeAnswer, AnsweredWell
<1>c. UNCHANGED <<written, unescaper>> /\ TextsOf(sent') = TextsOf(sent) => (TextSoFar => TextSoFar')
  BY <1>0 DEF TextSoFar, ReadAtOnce
<1>1. CASE Quiet
  <2>1. UNCHANGED <<written, unescaper, sent>>
    BY <1>1 DEF Quiet, emitter, record
  <2>2. CASE ~Closed
    <3>1. ~Closed' /\ TextSoFar'
      BY <1>0, <1>c, <2>1, <2>2 DEF Closed, TextInv
    <3> QED BY <3>1 DEF TextInv, WholeAnswer, AnsweredWell
  <2>3. CASE Closed
    <3>1. Closed' /\ UNCHANGED outcome
      BY <1>0, <1>1, <2>1, <2>3 DEF Closed, ShapeInv, Quiet, GoesOn
    <3>2. WholeText' = WholeText /\ TextsOf(sent') = TextsOf(sent)
      BY <1>0, <2>1 DEF WholeText
    <3> QED BY <2>3, <3>1, <3>2 DEF TextInv, WholeAnswer, AnsweredWell
  <2> QED BY <2>2, <2>3
<1>2. CASE Opens
  <2>1. UNCHANGED <<written, unescaper, sent>> /\ pc # "done" /\ pc' # "done"
    BY <1>2 DEF Opens, OpenDecoder, emitter
  <2> QED BY <1>a, <1>b, <1>c, <2>1
<1>3. CASE UpstreamText
  <2>1. pc # "done" /\ pc' # "done"
    BY <1>3, StreamSteps DEF Streams
  <2>2. PICK text \in Seq(Symbols) :
              /\ written' = written \o text
              /\ \E out \in Seq(Symbols) :
                    /\ TextsOf(sent') = TextsOf(sent) \o out
                    /\ IF dialect = "google"
                       THEN LET u == Process(unescaper, text)
                            IN out = u.out /\ unescaper' = [u EXCEPT !.out = <<>>]
                       ELSE out = text /\ unescaper' = unescaper
    BY <1>3, TextStep
  <2>3. CASE dialect = "google"
    <3> DEFINE more == Process(unescaper, text)
               whole == Process(NewEntityUnescaper, written \o text)
    <3>1. TextsOf(sent') = TextsOf(sent) \o more.out /\ unescaper' = [more EXCEPT !.out = <<>>]
      BY <2>2, <2>3
    <3>2. unescaper = [ReadAtOnce EXCEPT !.out = <<>>] /\ TextsOf(sent) = ReadAtOnce.out
      BY <1>a, <2>1, <2>3 DEF TextSoFar
    <3>3. whole.out = ReadAtOnce.out \o more.out /\ [whole EXCEPT !.out = <<>>] = [more EXCEPT !.out = <<>>]
      <4>1. Process(Taken(ReadAtOnce), text) = more
        BY <3>2 DEF Taken
      <4> HIDE DEF more
      <4>2. whole.out = ReadAtOnce.out \o more.out /\ Taken(whole) = Taken(more)
        BY <1>0, <4>1, NewUnescaper, ProcessConcat DEF ReadAtOnce
      <4> HIDE DEF whole
      <4> QED BY <4>2 DEF Taken
    <3>4. ReadAtOnce' = whole
      BY <2>2 DEF ReadAtOnce
    <3> HIDE DEF more, whole
    <3>5. TextSoFar'
      BY <1>0, <2>3, <3>1, <3>2, <3>3, <3>4 DEF TextSoFar
    <3> QED BY <1>b, <2>1, <3>5
  <2>4. CASE dialect # "google"
    <3>1. TextsOf(sent') = TextsOf(sent) \o text /\ unescaper' = unescaper
      BY <2>2, <2>4
    <3>2. TextSoFar'
      BY <1>0, <1>a, <2>1, <2>2, <2>4, <3>1 DEF TextSoFar
    <3> QED BY <1>b, <2>1, <3>2
  <2> QED BY <2>3, <2>4
<1>4. CASE UpstreamCall \/ HandOver
  <2>1. PICK call \in CallRecords : YieldCall(call) /\ UNCHANGED written
    <3>1. CASE UpstreamCall
      BY <3>1, CalledAtOnce
    <3>2. CASE HandOver
      BY <3>2, HandedOver
    <3> QED BY <1>4, <3>1, <3>2
  <2>2. unescaper' = unescaper /\ TextsOf(sent') = TextsOf(sent)
    BY <2>1, Yielded
  <2>3. pc # "done" /\ pc' # "done"
    BY <2>1, StreamSteps DEF Streams
  <2> QED BY <1>a, <1>b, <1>c, <2>1, <2>2, <2>3
<1>5. CASE UpstreamCallStart \/ UpstreamCallArgs
  <2>1. UNCHANGED <<written, unescaper, sent>>
    BY <1>5 DEF UpstreamCallStart, UpstreamCallArgs, emitter
  <2>2. pc # "done" /\ pc' # "done"
    BY <1>5, StreamSteps DEF Streams
  <2> QED BY <1>a, <1>b, <1>c, <2>1, <2>2
<1>6. CASE CloseWithError
  <2>1. UNCHANGED <<written, unescaper>> /\ TextsOf(sent') = TextsOf(sent)
    BY <1>6, ErrorStep DEF CloseWithError, record
  <2>2. TextSoFar'
    BY <1>6, <1>c, <2>1 DEF CloseWithError, TextInv
  <2>3. outcome' # "success"
    BY <1>6, StreamSteps DEF CloseWithError
  <2> QED BY <2>2, <2>3 DEF TextInv, WholeAnswer, AnsweredWell
<1>7. CASE CloseWell
  <2>1. TextSoFar /\ UNCHANGED written /\ TextsOf(sent') = TextsOf(sent) \o Held(unescaper)
    BY <1>7, FinalStep DEF CloseWell, TextInv, record
  <2>0. Closed'
    <3>1. /\ sent' = OpenedLast \o <<FinalEvent>> \o Terminator
          /\ FinalEvent \in AllEvents /\ FinalEvent.type \in {"error", "final"}
          /\ OpenedLast \in Seq(AllEvents)
      BY <1>7, FinalStep
    <3> QED BY <1>0, <3>1, EndIsClosed
  <2>a. TextsOf(sent') = WholeText' => TextInv'
    BY <2>0 DEF TextInv, WholeAnswer
  <2>2. CASE dialect = "google"
    <3>1. ReadAtOnce \in UnescaperStates
      BY <1>0, NewUnescaper, Reading DEF ReadAtOnce
    <3>2. unescaper = [ReadAtOnce EXCEPT !.out = <<>>] /\ TextsOf(sent) = ReadAtOnce.out
      BY <2>1, <2>2 DEF TextSoFar
    <3>3. Held(unescaper) = Held(ReadAtOnce)
      BY <3>1, <3>2, SymbolTexts, WithOut DEF Held, Has
    <3>4. WholeText' = ReadAtOnce.out \o Held(ReadAtOnce)
      BY <1>0, <2>1, <2>2 DEF WholeText, ReadAtOnce
    <3> QED BY <1>0, <2>1, <3>2, <3>3, <3>4, <2>a
  <2>3. CASE dialect # "google"
    <3>1. TextsOf(sent') = written
      BY <1>0, <2>1, <2>3, NewUnescaper, ConcatEmptySeq DEF TextSoFar
    <3>2. WholeText' = written
      BY <1>0, <2>1, <2>3 DEF WholeText
    <3> QED BY <3>1, <3>2, <2>a
  <2> QED BY <2>2, <2>3
<1> QED BY <1>1, <1>2, <1>3, <1>4, <1>5, <1>6, <1>7, Steps

-------------------------------------------------------------------------------
(* CallsAsMade: first, how the calls are counted. *)

\* The calls of a round.
OfRound(found, n) == {c \in found : c.round = n}

\* The calls of a round are told apart by their indexes, which are below the
\* number of calls of the round.
Counted(found) ==
    /\ \A c \in found : c.index < Cardinality(OfRound(found, c.round))
    /\ \A c, d \in found : c.round = d.round /\ c.index = d.index => c = d

\* A round has no more calls than the request.
LEMMA RoundSize ==
    ASSUME NEW found \in SUBSET CallRecords, IsFiniteSet(found), NEW n
    PROVE  /\ IsFiniteSet(OfRound(found, n))
           /\ Cardinality(OfRound(found, n)) \in Nat /\ Cardinality(found) \in Nat
           /\ Cardinality(OfRound(found, n)) <= Cardinality(found)
<1>1. OfRound(found, n) \subseteq found
  BY DEF OfRound
<1> QED BY <1>1, FS_Subset, FS_CardinalityType

\* A new call takes the next index of its round.
LEMMA CountedNext ==
    ASSUME NEW found \in SUBSET CallRecords, IsFiniteSet(found), Counted(found),
           NEW call \in CallRecords, call.index = Cardinality(OfRound(found, call.round))
    PROVE  /\ call \notin found
           /\ Counted(found \union {call})
           /\ Cardinality(found \union {call}) = Cardinality(found) + 1
<1> DEFINE more == found \union {call}
           before(n) == Cardinality(OfRound(found, n))
           after(n) == Cardinality(OfRound(more, n))
<1>1. \A c \in found : c.index < before(c.round)
  BY DEF Counted
<1>2. call.index \in Nat
  BY DEF CallRecords
<1>3. call \notin found
  BY <1>1, <1>2
<1>4. \A n : before(n) \in Nat
  BY RoundSize
<1>5. after(call.round) = before(call.round) + 1
  <2>1. OfRound(more, call.round) = OfRound(found, call.round) \union {call}
    BY DEF OfRound
  <2>2. call \notin OfRound(found, call.round)
    BY <1>3 DEF OfRound
  <2> QED BY <2>1, <2>2, RoundSize, FS_AddElement
<1>6. \A n : n # call.round => after(n) = before(n)
  <2>1. \A n : n # call.round => OfRound(more, n) = OfRound(found, n)
    BY DEF OfRound
  <2> QED BY <2>1
<1>7. \A c \in more : c.index < after(c.round)
  <2> HIDE DEF before, after
  <2> TAKE c \in more
  <2>1. CASE c = call
    BY <1>2, <1>5, <2>1 DEF before
  <2>2. CASE c \in found /\ c.round = call.round
    <3>1. c.index \in Nat
      BY <2>2 DEF CallRecords
    <3> QED BY <1>1, <1>4, <1>5, <2>2, <3>1
  <2>3. CASE c \in found /\ c.round # call.round
    BY <1>1, <1>6, <2>3
  <2> QED BY <2>1, <2>2, <2>3
<1>8. \A c \in found : c.round = call.round => c.index # call.index
  <2> TAKE c \in found
  <2>1. c.index < before(c.round) /\ c.index \in Nat
    BY <1>1 DEF CallRecords
  <2> QED BY <1>2, <2>1
<1>9. \A c, d \in more : c.round = d.round /\ c.index = d.index => c = d
  BY <1>8 DEF Counted
<1>10. Counted(more)
  BY <1>7, <1>9 DEF Counted
<1> QED BY <1>3, <1>10, FS_AddElement

\* A round is forgotten whole.
LEMMA CountedWithout ==
    ASSUME NEW found \in SUBSET CallRecords, IsFiniteSet(found), Counted(found), NEW n
    PROVE  LET rest == {c \in found : c.round # n}
           IN Counted(rest) /\ Cardinality(rest) <= Cardinality(found) /\ Cardinality(rest) \in Nat
<1> DEFINE rest == {c \in found : c.round # n}
<1>1. \A c \in rest : OfRound(rest, c.round) = OfRound(found, c.round)
  BY DEF OfRound
<1>2. rest \subseteq found
  OBVIOUS
<1>3. Counted(rest)
  BY <1>1, <1>2 DEF Counted
<1> QED BY <1>2, <1>3, FS_Subset, FS_CardinalityType

\* A call whose arguments arrive keeps its place.
LEMMA CountedSwap ==
    ASSUME NEW found \in SUBSET CallRecords, IsFiniteSet(found), Counted(found),
           NEW old \in found, NEW call \in CallRecords, call # old,
           call.round = old.round, call.index = old.index
    PROVE  LET new == (found \ {old}) \union {call}
           IN /\ call \notin found
              /\ Counted(new) /\ Cardinality(new) = Cardinality(found)
<1> DEFINE new == (found \ {old}) \union {call}
<1>1. call \notin found
  BY DEF Counted
<1>2. ASSUME NEW s, IsFiniteSet(s), old \in s, call \notin s
      PROVE  Cardinality((s \ {old}) \union {call}) = Cardinality(s)
  <2>1. IsFiniteSet(s \ {old}) /\ Cardinality(s \ {old}) = Cardinality(s) - 1
    BY <1>2, FS_RemoveElement
  <2>2. Cardinality((s \ {old}) \union {call}) = Cardinality(s \ {old}) + 1
    BY <1>2, <2>1, FS_AddElement
  <2>3. Cardinality(s) \in Nat
    BY <1>2, FS_CardinalityType
  <2> QED BY <2>1, <2>2, <2>3
<1>3. Cardinality(new) = Cardinality(found)
  BY <1>1, <1>2
<1>4. \A n : Cardinality(OfRound(new, n)) = Cardinality(OfRound(found, n))
  <2> TAKE n
  <2>1. CASE n = old.round
    <3>1. OfRound(new, n) = (OfRound(found, n) \ {old}) \union {call}
      BY <2>1 DEF OfRound
    <3>2. IsFiniteSet(OfRound(found, n)) /\ old \in OfRound(found, n) /\ call \notin OfRound(found, n)
      BY <1>1, <2>1, RoundSize DEF OfRound
    <3> HIDE DEF new
    <3> QED BY <1>2, <3>1, <3>2
  <2>2. CASE n # old.round
    <3>1. OfRound(new, n) = OfRound(found, n)
      BY <2>2 DEF OfRound
    <3> QED BY <3>1
  <2> QED BY <2>1, <2>2
<1>5. Counted(new)
  <2>1. \A c \in found : c.index < Cardinality(OfRound(found, c.round))
    BY DEF Counted
  <2>2. \A c \in new : \E d \in found : c.index = d.index /\ c.round = d.round
    OBVIOUS
  <2>3. \A c \in new : c.index < Cardinality(OfRound(new, c.round))
    BY <1>4, <2>1, <2>2
  <2>4. \A c, d \in new : c.round = d.round /\ c.index = d.index => c = d
    BY DEF Counted
  <2> QED BY <2>3, <2>4 DEF Counted
<1> QED BY <1>1, <1>3, <1>5

\* The calls are of rounds begun, numbered, bounded, and assembled in their round.
MadeInv ==
    /\ \A c \in made : c.round <= retrievals
    /\ Counted(made)
    /\ Cardinality(made) <= MaxCalls[dialect]
    /\ pc = "streaming" => \A i \in DOMAIN inflight : inflight[i].round = retrievals

\* The bound and the count are numbers.
LEMMA MaxCallsNat == WireTypes => MaxCalls[dialect] \in Nat /\ Cardinality(made) \in Nat
<1> SUFFICES ASSUME WireTypes PROVE MaxCalls[dialect] \in Nat /\ Cardinality(made) \in Nat
  OBVIOUS
<1>1. dialect \in Dialects /\ MaxCalls \in [Dialects -> Nat]
  BY RouteParts, StreamDeliveryAssumption DEF WireTypes, SmallTypes
<1> QED BY <1>1, FS_CardinalityType DEF WireTypes

\* A call that begins is new.
LEMMA BegunCall ==
    ASSUME Loop!TypeOK, WireTypes, MadeInv, MayBegin, NEW name \in CallNames, NEW whole \in BOOLEAN
    PROVE  LET call == CallOf(name, whole)
               more == made \union {call}
           IN /\ call \in CallRecords /\ call \notin made
              /\ call.round = retrievals /\ call.name = name
              /\ Counted(more) /\ Cardinality(more) <= MaxCalls[dialect]
              /\ \A c \in more : c.round <= retrievals
<1> DEFINE call == CallOf(name, whole)
           more == made \union {call}
<1>1. made \in SUBSET CallRecords /\ IsFiniteSet(made)
  BY DEF WireTypes
<1>2. /\ call \in CallRecords /\ call.round = retrievals /\ call.name = name
      /\ call.index = Cardinality(OfRound(made, call.round))
  BY <1>1, NewCall DEF OfRound
<1> HIDE DEF call
<1>3. call \notin made /\ Counted(more) /\ Cardinality(more) = Cardinality(made) + 1
  BY <1>1, <1>2, CountedNext DEF MadeInv
<1>4. Cardinality(made) < MaxCalls[dialect]
  BY DEF MayBegin
<1>5. Cardinality(more) <= MaxCalls[dialect]
  BY <1>3, <1>4, MaxCallsNat
<1>6. \A c \in more : c.round <= retrievals
  BY <1>2 DEF MadeInv, Loop!TypeOK
<1> QED BY <1>2, <1>3, <1>5, <1>6 DEF call

\* The calls are numbered at first.
LEMMA InitMade == Init /\ WireTypes => MadeInv
<1> SUFFICES ASSUME Init, WireTypes PROVE MadeInv
  OBVIOUS
<1>1. made = {} /\ pc = "head"
  BY DEF Init, Loop!Init
<1>2. Counted(made) /\ Cardinality(made) = 0
  BY <1>1, FS_EmptySet DEF Counted
<1>3. Cardinality(made) <= MaxCalls[dialect]
  BY <1>2, MaxCallsNat
<1> QED BY <1>1, <1>2, <1>3 DEF MadeInv

\* Every step keeps the calls numbered.
LEMMA StepMade == Loop!TypeOK /\ Loop!TypeOK' /\ WireTypes /\ MadeInv /\ [Next]_vars => MadeInv'
<1> SUFFICES ASSUME Loop!TypeOK, Loop!TypeOK', WireTypes, MadeInv, [Next]_vars PROVE MadeInv'
  OBVIOUS
<1>0. UNCHANGED dialect
  BY SameRoute
<1>a. /\ retrievals \in Nat /\ retrievals' \in Nat
      /\ made \in SUBSET CallRecords /\ IsFiniteSet(made)
      /\ \A c \in CallRecords : c.round \in Nat
  BY DEF Loop!TypeOK, WireTypes, CallRecords
<1>b. ASSUME UNCHANGED made, retrievals' \in {retrievals, retrievals + 1},
             pc' = "streaming" => \A i \in DOMAIN inflight' : inflight'[i].round = retrievals'
      PROVE  MadeInv'
  <2>1. \A c \in made : c.round <= retrievals'
    BY <1>a, <1>b DEF MadeInv
  <2> QED BY <1>0, <1>b, <2>1 DEF MadeInv
<1>1. CASE Quiet
  <2>1. UNCHANGED <<made, inflight>>
    BY <1>1 DEF Quiet, record
  <2>2. retrievals' \in {retrievals, retrievals + 1}
    BY <1>1 DEF Quiet, GoesOn
  <2>3. pc' = "streaming" => pc = "streaming" /\ UNCHANGED retrievals
    BY <1>1 DEF Quiet, GoesOn
  <2> QED BY <1>b, <2>1, <2>2, <2>3 DEF MadeInv
<1>2. CASE Opens
  <2>1. /\ made' = {c \in made : c.round # retrievals} /\ UNCHANGED retrievals
        /\ inflight' = <<>>
    BY <1>2 DEF Opens, OpenDecoder
  <2>2. Counted(made') /\ Cardinality(made') <= Cardinality(made) /\ Cardinality(made') \in Nat
    BY <1>a, <2>1, CountedWithout DEF MadeInv
  <2>3. Cardinality(made') <= MaxCalls[dialect]
    BY <2>2, MaxCallsNat DEF MadeInv
  <2>4. \A i \in DOMAIN inflight' : FALSE
    BY <2>1, NoneInflight
  <2> QED BY <1>0, <2>1, <2>2, <2>3, <2>4 DEF MadeInv
<1>3. CASE UpstreamText
  <2>1. UNCHANGED <<made, inflight>>
    BY <1>3 DEF UpstreamText
  <2>2. pc = "streaming" /\ UNCHANGED retrievals
    BY <1>3, StreamSteps DEF Streams
  <2> QED BY <1>b, <2>1, <2>2 DEF MadeInv
<1>4. CASE UpstreamCall
  <2>1. PICK name \in CallNames : made' = made \union {CallOf(name, TRUE)}
    BY <1>4 DEF UpstreamCall
  <2>2. MayBegin /\ pc = "streaming" /\ UNCHANGED <<retrievals, inflight>>
    BY <1>4, StreamSteps DEF Streams, UpstreamCall, decoder
  <2>3. /\ Counted(made') /\ Cardinality(made') <= MaxCalls[dialect]
        /\ \A c \in made' : c.round <= retrievals
    BY <2>1, <2>2, BegunCall
  <2> QED BY <1>0, <2>2, <2>3 DEF MadeInv
<1>5. CASE UpstreamCallStart
  <2>1. PICK name \in CallNames, whole \in BOOLEAN :
              LET call == CallOf(name, whole)
              IN /\ made' = made \union {call}
                 /\ inflight' = [i \in DOMAIN inflight \union {call.index} |->
                                    IF i = call.index THEN call ELSE inflight[i]]
    BY <1>5, StartedCall
  <2>2. MayBegin /\ pc = "streaming" /\ UNCHANGED retrievals
    BY <1>5, StreamSteps DEF Streams, UpstreamCallStart
  <2> DEFINE call == CallOf(name, whole)
  <2>3. /\ call.round = retrievals
        /\ Counted(made') /\ Cardinality(made') <= MaxCalls[dialect]
        /\ \A c \in made' : c.round <= retrievals
    BY <2>1, <2>2, BegunCall
  <2>4. inflight' = [i \in DOMAIN inflight \union {call.index} |->
                        IF i = call.index THEN call ELSE inflight[i]]
    BY <2>1
  <2> HIDE DEF call
  <2>5. \A i \in DOMAIN inflight' : inflight'[i].round = retrievals'
    BY <2>2, <2>3, <2>4 DEF MadeInv
  <2> QED BY <1>0, <2>2, <2>3, <2>5 DEF MadeInv
<1>6. CASE UpstreamCallArgs
  <2>0. WireTypes
    OBVIOUS
  <2>1. PICK i \in DOMAIN inflight :
              LET old == inflight[i]
                  call == [old EXCEPT !.whole = TRUE]
              IN /\ old \in made /\ ~old.whole
                 /\ call \in CallRecords /\ call # old /\ call.whole
                 /\ call.round = old.round /\ call.index = old.index /\ call.name = old.name
                 /\ inflight' = [inflight EXCEPT ![i] = call]
                 /\ made' = (made \ {old}) \union {call}
    BY <1>6, FinishedCall
  <2>2. pc = "streaming" /\ UNCHANGED retrievals
    BY <1>6, StreamSteps DEF Streams
  <2> DEFINE old == inflight[i]
             call == [old EXCEPT !.whole = TRUE]
  <2>3. /\ old \in made /\ call \in CallRecords /\ call # old
        /\ call.round = old.round /\ call.index = old.index
        /\ inflight' = [inflight EXCEPT ![i] = call]
        /\ made' = (made \ {old}) \union {call}
    BY <2>1
  <2>4. old.round = retrievals
    BY <2>1, <2>2 DEF MadeInv
  <2> HIDE DEF call, old
  <2>5. Counted(made') /\ Cardinality(made') = Cardinality(made)
    BY <1>a, <2>3, CountedSwap DEF MadeInv
  <2>6. \A c \in made' : c.round <= retrievals
    BY <2>3 DEF MadeInv
  <2>7. \A j \in DOMAIN inflight' : inflight'[j].round = retrievals
    BY <2>2, <2>3, <2>4 DEF MadeInv
  <2> QED BY <1>0, <2>2, <2>5, <2>6, <2>7 DEF MadeInv
<1>7. CASE HandOver
  <2>1. PICK i \in DOMAIN inflight :
           inflight' = [j \in DOMAIN inflight \ {i} |-> inflight[j]] /\ UNCHANGED made
    BY <1>7, HandedOver
  <2>2. pc = "streaming" /\ UNCHANGED retrievals
    BY <1>7, StreamSteps DEF Streams
  <2> QED BY <1>b, <2>1, <2>2 DEF MadeInv
<1>8. CASE CloseWithError \/ CloseWell
  <2>1. UNCHANGED <<made, pc, retrievals>> /\ pc = "done"
    BY <1>8, StreamSteps DEF CloseWithError, CloseWell, record
  <2> QED BY <1>b, <2>1
<1> QED BY <1>1, <1>2, <1>3, <1>4, <1>5, <1>6, <1>7, <1>8, Steps

\* No element twice.
Once(seq) == \A i, j \in DOMAIN seq : seq[i] = seq[j] => i = j

\* The elements of a sequence made longer.
LEMMA ElementsOf ==
    /\ ToSet(<<>>) = {} /\ Once(<<>>)
    /\ \A seq \in Seq(CallRecords), e \in CallRecords :
          /\ ToSet(Append(seq, e)) = ToSet(seq) \union {e}
          /\ Once(seq) /\ e \notin ToSet(seq) => Once(Append(seq, e))
    /\ \A seq, more \in Seq(CallRecords) : ToSet(seq \o more) = ToSet(seq) \union ToSet(more)
<1>1. ToSet(<<>>) = {} /\ Once(<<>>)
  BY NoneInflight DEF ToSet, Once
<1>2. ASSUME NEW seq \in Seq(CallRecords), NEW e \in CallRecords
      PROVE  /\ ToSet(Append(seq, e)) = ToSet(seq) \union {e}
             /\ Once(seq) /\ e \notin ToSet(seq) => Once(Append(seq, e))
  <2> DEFINE more == Append(seq, e)
  <2>1. /\ DOMAIN more = DOMAIN seq \union {Len(seq) + 1} /\ Len(seq) + 1 \notin DOMAIN seq
        /\ \A i \in DOMAIN seq : more[i] = seq[i]
        /\ more[Len(seq) + 1] = e
    OBVIOUS
  <2> HIDE DEF more
  <2>2. ToSet(more) = ToSet(seq) \union {e}
    BY <2>1 DEF ToSet
  <2>3. Once(seq) /\ e \notin ToSet(seq) => Once(more)
    BY <2>1 DEF ToSet, Once
  <2> QED BY <2>2, <2>3 DEF more
<1>3. ASSUME NEW seq \in Seq(CallRecords), NEW more \in Seq(CallRecords)
      PROVE  ToSet(seq \o more) = ToSet(seq) \union ToSet(more)
  <2> DEFINE both == seq \o more
  <2>1. /\ Len(seq) \in Nat /\ Len(more) \in Nat
        /\ DOMAIN seq = 1..Len(seq) /\ DOMAIN more = 1..Len(more)
        /\ DOMAIN both = 1..(Len(seq) + Len(more))
        /\ \A i \in DOMAIN both : both[i] = IF i <= Len(seq) THEN seq[i] ELSE more[i - Len(seq)]
    BY ConcatProperties
  <2> HIDE DEF both
  <2>2. \A i \in DOMAIN both : both[i] \in ToSet(seq) \union ToSet(more)
    BY <2>1 DEF ToSet
  <2>3. \A i \in DOMAIN seq : seq[i] \in ToSet(both)
    <3> TAKE i \in DOMAIN seq
    <3>1. i \in DOMAIN both /\ both[i] = seq[i]
      BY <2>1
    <3> QED BY <3>1 DEF ToSet
  <2>4. \A i \in DOMAIN more : more[i] \in ToSet(both)
    <3> TAKE i \in DOMAIN more
    <3>1. PICK j \in Int : j = i + Len(seq)
      BY <2>1
    <3>2. j \in DOMAIN both /\ both[j] = more[i]
      BY <2>1, <3>1
    <3> QED BY <3>2 DEF ToSet
  <2>5. ToSet(both) = ToSet(seq) \union ToSet(more)
    BY <2>2, <2>3, <2>4 DEF ToSet
  <2> QED BY <2>5 DEF both
<1> QED BY <1>1, <1>2, <1>3

\* Without repetition the length is the number of elements.
LEMMA OnceIsCounted ==
    ASSUME NEW seq \in Seq(CallRecords), Once(seq)
    PROVE  Len(seq) = Cardinality(ToSet(seq))
<1>1. seq \in [1..Len(seq) -> ToSet(seq)] /\ Len(seq) \in Nat /\ DOMAIN seq = 1..Len(seq)
  BY DEF ToSet
<1>2. \A e \in ToSet(seq) : \E i \in 1..Len(seq) : seq[i] = e
  BY DEF ToSet
<1>3. seq \in Bijection(1..Len(seq), ToSet(seq))
  BY <1>1, <1>2 DEF Once, Bijection, Injection, Surjection, IsInjective
<1>4. ExistsBijection(1..Len(seq), ToSet(seq))
  BY <1>3 DEF ExistsBijection
<1> QED BY <1>1, <1>4, FS_CountingElements

\* What the client has been shown of the calls, or will be with the last message.
Shown == CallsOf(sent) \o collected
ShownSet == ToSet(Shown)
\* The calls a client is to see, and those still being assembled.
Visible == {c \in made : c.name # RetrieveName}
OpenCalls == {inflight[i] : i \in DOMAIN inflight}

\* While the stream goes on: no call twice, none of a failed attempt, and all
\* but those being assembled.
ShownSoFar ==
    /\ surface = "ollama" => CallsOf(sent) = <<>>
    /\ Once(Shown)
    /\ ShownSet \subseteq Visible
    /\ (pc \in {"head", "waiting"} \/ (pc \in {"streaming", "deciding"} /\ ~gotChunk)) =>
          \A c \in ShownSet : c.round < retrievals
    /\ surface # "generate" =>
          /\ \A c \in Visible : c.round < retrievals => c \in ShownSet
          /\ pc = "streaming" => ShownSet = Visible \ OpenCalls
          /\ (pc = "deciding" /\ iterErr = "nil") \/ (pc = "done" /\ outcome = "success") =>
                ShownSet = Visible

ShownInv ==
    /\ ShownSet \subseteq made
    /\ surface = "chat" => collected = <<>>
    /\ surface = "generate" => Shown = <<>>
    /\ ~Closed => ShownSoFar
    /\ CallsAsMade

\* What is shown are calls.
LEMMA ShownType ==
    WireTypes => /\ Shown \in Seq(CallRecords)
                 /\ CallsOf(sent) \in Seq(CallRecords) /\ collected \in Seq(CallRecords)
  BY Received DEF WireTypes, Shown

\* A call given out is shown next, where the surface shows calls.
LEMMA ShowsCall ==
    ASSUME WireTypes, NEW call \in CallRecords, YieldCall(call), UNCHANGED <<dialect, surface>>
    PROVE  /\ call.name = RetrieveName => UNCHANGED <<sent, collected, gotChunk>> /\ Shown' = Shown
           /\ call.name # RetrieveName =>
                 /\ gotChunk' = TRUE
                 /\ surface = "generate" => Shown' = Shown /\ collected' = collected
                 /\ surface # "generate" /\ (surface = "chat" => collected = <<>>) =>
                       Shown' = Append(Shown, call)
                 /\ surface = "chat" => collected' = collected
                 /\ surface = "ollama" => CallsOf(sent') = CallsOf(sent)
<1>1. surface \in Surfaces
  BY RouteParts DEF WireTypes, SmallTypes
<1>2. CallsOf(sent) \in Seq(CallRecords) /\ collected \in Seq(CallRecords)
  BY ShownType
<1>3. CASE call.name = RetrieveName
  <2>1. UNCHANGED <<sent, collected, gotChunk>>
    BY <1>3, Yielded, StreamSteps
  <2> QED BY <1>3, <2>1 DEF Shown
<1>4. CASE call.name # RetrieveName
  <2>1. /\ gotChunk' = TRUE
        /\ CallsOf(sent') = IF surface = "chat" THEN Append(CallsOf(sent), call) ELSE CallsOf(sent)
        /\ collected' = IF surface = "ollama" THEN Append(collected, call) ELSE collected
    BY <1>4, Yielded, StreamSteps
  <2>2. Shown' = CallsOf(sent') \o collected'
    BY DEF Shown
  <2>3. CASE surface = "chat"
    <3>1. collected = <<>> => Shown = CallsOf(sent) /\ Shown' = Append(CallsOf(sent), call)
      <4> SUFFICES ASSUME collected = <<>> PROVE Shown = CallsOf(sent) /\ Shown' = Append(CallsOf(sent), call)
        OBVIOUS
      <4>1. Append(CallsOf(sent), call) \in Seq(CallRecords)
        BY <1>2
      <4> QED BY <1>2, <2>1, <2>2, <2>3, <4>1, ConcatEmptySeq DEF Shown
    <3> QED BY <1>4, <2>1, <2>3, <3>1
  <2>4. CASE surface = "ollama"
    <3>1. Shown' = CallsOf(sent) \o Append(collected, call)
      BY <2>1, <2>2, <2>4
    <3>2. CallsOf(sent) \o Append(collected, call) = Append(CallsOf(sent) \o collected, call)
      BY <1>2
    <3> QED BY <1>4, <2>1, <2>4, <3>1, <3>2 DEF Shown
  <2>5. CASE surface = "generate"
    BY <1>4, <2>1, <2>5 DEF Shown
  <2> QED BY <1>1, <2>3, <2>4, <2>5 DEF Surfaces
<1> QED BY <1>3, <1>4

\* While an attempt streams nothing is closed.
LEMMA StillOpen == ShapeInv /\ pc # "done" => ~Closed
  BY DEF ShapeInv

\* The invariant of a stream that goes on.
LEMMA ShownOpen ==
    ASSUME ~Closed', ShownSet' \subseteq made', ShownSoFar',
           (surface = "chat" => collected = <<>>)', (surface = "generate" => Shown = <<>>)'
    PROVE  ShownInv'
  BY DEF ShownInv, CallsAsMade, AnsweredWell

\* Nothing is shown at first.
LEMMA InitShown == Init /\ WireTypes => ShownInv
<1> SUFFICES ASSUME Init, WireTypes PROVE ShownInv
  OBVIOUS
<1>1. sent = <<>> /\ collected = <<>> /\ made = {} /\ pc = "head"
  BY DEF Init, Loop!Init
<1>2. CallsOf(sent) = <<>>
  BY <1>1, Received
<1>3. Shown = <<>>
  BY <1>1, <1>2, ShownType, ConcatEmptySeq DEF Shown
<1>4. ShownSet = {} /\ Once(Shown)
  BY <1>3, ElementsOf DEF ShownSet
<1>5. ~Closed
  BY <1>1 DEF Closed
<1>6. ShownSoFar
  BY <1>1, <1>2, <1>4 DEF ShownSoFar, Visible
<1> QED BY <1>1, <1>3, <1>4, <1>5, <1>6 DEF ShownInv, CallsAsMade, AnsweredWell

\* A call of this round is given to the loop, which shows it or keeps it.
LEMMA GivenOut ==
    ASSUME WireTypes, ShownInv, ~Closed, ~Closed', UNCHANGED <<dialect, surface>>,
           NEW call \in CallRecords, YieldCall(call), call \in made', call.round = retrievals,
           retrievals \in Nat, made \subseteq made',
           surface # "generate" => call \notin ShownSet,
           \A c \in Visible' : c \in Visible \/ c = call,
           Visible' \ OpenCalls' =
              IF call.name = RetrieveName THEN Visible \ OpenCalls
              ELSE (Visible \ OpenCalls) \union {call}
    PROVE  ShownInv'
<1>0. /\ ShownSoFar /\ ShownSet \subseteq made
      /\ surface = "chat" => collected = <<>>
      /\ surface = "generate" => Shown = <<>>
  BY DEF ShownInv
<1>1. pc = "streaming" /\ UNCHANGED <<pc, retrievals, iterErr, outcome>>
  BY StreamSteps DEF Streams
<1>2. Visible \subseteq Visible'
  BY DEF Visible
<1>3. Shown \in Seq(CallRecords)
  BY ShownType
<1>4. ASSUME Shown' = Shown, UNCHANGED surface,
             collected' = collected \/ surface = "ollama",
             surface = "ollama" => CallsOf(sent') = CallsOf(sent),
             gotChunk' \/ gotChunk' = gotChunk,
             surface # "generate" => ShownSet = Visible' \ OpenCalls'
      PROVE  ShownInv'
  <2>1. ShownSet' = ShownSet
    BY <1>4 DEF ShownSet
  <2>2. ShownSoFar'
    <3>1. \A c \in Visible' : c.round < retrievals => c \in Visible
      BY <1>1
    <3> QED BY <1>0, <1>1, <1>2, <1>4, <2>1, <3>1 DEF ShownSoFar
  <2> QED BY <1>0, <1>4, <2>1, <2>2, ShownOpen
<1>5. CASE call.name = RetrieveName
  <2>1. UNCHANGED <<sent, collected, gotChunk>> /\ Shown' = Shown
    BY <1>5, ShowsCall
  <2>2. surface # "generate" => ShownSet = Visible' \ OpenCalls'
    BY <1>0, <1>1, <1>5 DEF ShownSoFar
  <2> QED BY <1>4, <2>1, <2>2
<1>6. CASE call.name # RetrieveName /\ surface = "generate"
  BY <1>4, <1>6, ShowsCall
<1>7. CASE call.name # RetrieveName /\ surface # "generate"
  <2>1. /\ gotChunk' = TRUE /\ Shown' = Append(Shown, call)
        /\ surface = "chat" => collected' = collected
        /\ surface = "ollama" => CallsOf(sent') = CallsOf(sent)
    BY <1>0, <1>7, ShowsCall
  <2>2. ShownSet' = ShownSet \union {call} /\ Once(Shown')
    BY <1>0, <1>3, <1>7, <2>1, ElementsOf DEF ShownSet, ShownSoFar
  <2>3. call \in Visible'
    BY <1>7 DEF Visible
  <2>4. ShownSoFar'
    <3>1. \A c \in Visible' : c.round < retrievals => c \in Visible
      BY <1>1
    <3>2. ShownSet = Visible \ OpenCalls
      BY <1>0, <1>1, <1>7 DEF ShownSoFar
    <3> QED BY <1>0, <1>1, <1>2, <1>7, <2>1, <2>2, <2>3, <3>1, <3>2 DEF ShownSoFar
  <2> QED BY <1>0, <1>7, <2>1, <2>2, <2>4, ShownOpen
<1> QED BY <1>5, <1>6, <1>7

\* A step that shows nothing.
LEMMA NothingShown ==
    UNCHANGED <<surface, sent, collected>> => Shown' = Shown /\ ShownSet' = ShownSet
  BY DEF Shown, ShownSet

\* The steps of the loop between streams keep what was shown.
LEMMA QuietShown ==
    ASSUME WireTypes, MadeInv, Loop!TypeOK, ShapeInv, ShownInv, UNCHANGED surface, Quiet
    PROVE  ShownInv'
<1>1. UNCHANGED <<sent, collected, made, inflight, gotChunk>>
  BY DEF Quiet, emitter, record
<1>2. /\ Shown' = Shown /\ ShownSet' = ShownSet /\ Visible' = Visible /\ OpenCalls' = OpenCalls
      /\ CallsOf(sent') = CallsOf(sent)
  BY <1>1, NothingShown DEF Visible, OpenCalls
<1>3. Closed' = Closed
  BY <1>1 DEF Closed
<1>4. CASE Closed
  <2>1. UNCHANGED outcome
    BY <1>4 DEF ShapeInv, Quiet, GoesOn
  <2> QED BY <1>1, <1>2, <1>3, <1>4, <2>1 DEF ShownInv, CallsAsMade, AnsweredWell
<1>5. CASE ~Closed
  <2>0. ShownSoFar /\ ShownSet \subseteq Visible
    BY <1>5 DEF ShownInv, ShownSoFar
  <2>a. /\ retrievals \in Nat /\ \A c \in made : c.round \in Nat /\ c.round <= retrievals
        /\ \A c \in Visible : c \in made
    BY DEF Loop!TypeOK, MadeInv, WireTypes, CallRecords, Visible
  <2>1. ShownSoFar'
    <3>1. CASE UNCHANGED <<pc, retrievals, iterErr, outcome>>
      BY <1>1, <1>2, <2>0, <3>1 DEF ShownSoFar
    <3>2. CASE /\ pc \in {"head", "waiting"}
               /\ \/ pc' = "waiting" /\ UNCHANGED outcome
                  \/ pc' = "done" /\ outcome' # "success"
               /\ UNCHANGED <<retrievals, iterErr>>
      BY <1>1, <1>2, <2>0, <3>2 DEF ShownSoFar
    <3>3. CASE /\ pc = "streaming"
               /\ \/ pc' = "deciding" /\ (inflight = <<>> \/ iterErr' # "nil")
                  \/ pc' = "done" /\ outcome' # "success"
               /\ UNCHANGED retrievals
      <4>1. inflight = <<>> => OpenCalls = {}
        BY NoneInflight DEF OpenCalls
      <4> QED BY <1>1, <1>2, <2>0, <3>3, <4>1 DEF ShownSoFar
    <3>4. CASE /\ pc = "deciding" /\ pc' = "done"
               /\ outcome' = "success" => iterErr = "nil"
               /\ UNCHANGED <<retrievals, iterErr>>
      BY <1>1, <1>2, <2>0, <3>4 DEF ShownSoFar
    <3>5. CASE /\ pc = "deciding" /\ pc' = "head"
               /\ \/ retrievals' = retrievals + 1 /\ iterErr = "nil"
                  \/ retrievals' = retrievals /\ ~gotChunk
      <4>1. CASE retrievals' = retrievals + 1 /\ iterErr = "nil"
        <5>1. \A c \in ShownSet : c.round < retrievals'
          BY <2>0, <2>a, <4>1
        <5> QED BY <1>1, <1>2, <2>0, <3>5, <4>1, <5>1 DEF ShownSoFar
      <4>2. CASE retrievals' = retrievals /\ ~gotChunk
        BY <1>1, <1>2, <2>0, <3>5, <4>2 DEF ShownSoFar
      <4> QED BY <3>5, <4>1, <4>2
    <3> QED BY <3>1, <3>2, <3>3, <3>4, <3>5 DEF Quiet, GoesOn
  <2> QED BY <1>1, <1>2, <1>3, <1>5, <2>1, ShownOpen DEF ShownInv
<1> QED BY <1>4, <1>5

\* A new attempt forgets calls that were not shown.
LEMMA OpensShown ==
    ASSUME WireTypes, MadeInv, Loop!TypeOK, ShapeInv, ShapeInv', ShownInv, UNCHANGED surface, Opens
    PROVE  ShownInv'
<1>1. /\ pc \in {"head", "waiting"} /\ pc' = "streaming" /\ gotChunk' = FALSE
      /\ made' = {c \in made : c.round # retrievals} /\ inflight' = <<>>
      /\ UNCHANGED <<retrievals, sent, collected>>
  BY DEF Opens, OpenDecoder, emitter
<1>2. ~Closed /\ ~Closed'
  BY <1>1 DEF ShapeInv
<1>3. ShownSoFar /\ ShownSet \subseteq Visible
  BY <1>2 DEF ShownInv, ShownSoFar
<1>4. Shown' = Shown /\ ShownSet' = ShownSet /\ CallsOf(sent') = CallsOf(sent)
  BY <1>1, NothingShown
<1>5. OpenCalls' = {}
  BY <1>1, NoneInflight DEF OpenCalls
<1>6. \A c \in ShownSet : c.round < retrievals
  BY <1>1, <1>3 DEF ShownSoFar
<1>7. retrievals \in Nat /\ \A c \in made : c.round \in Nat /\ c.round <= retrievals
  BY DEF Loop!TypeOK, MadeInv, WireTypes, CallRecords
<1>8. ShownSet \subseteq Visible'
  BY <1>1, <1>3, <1>6, <1>7 DEF Visible
<1>9. \A c \in Visible' : c \in Visible /\ c.round < retrievals
  BY <1>1, <1>7 DEF Visible
<1>10. ShownSoFar'
  BY <1>1, <1>3, <1>4, <1>5, <1>6, <1>8, <1>9 DEF ShownSoFar
<1>11. ShownSet' \subseteq made'
  BY <1>4, <1>8 DEF Visible
<1> QED BY <1>1, <1>2, <1>4, <1>10, <1>11, ShownOpen DEF ShownInv

\* A text shows no call.
LEMMA TextShown ==
    ASSUME WireTypes, ShapeInv, ShapeInv', ShownInv, UNCHANGED surface, UpstreamText
    PROVE  ShownInv'
<1>1. Streams /\ gotChunk' = TRUE
  BY StreamSteps
<1>2. UNCHANGED <<inflight, made, collected>> /\ CallsOf(sent') = CallsOf(sent)
  BY TextStep
<1>3. ~Closed /\ ~Closed'
  BY <1>1 DEF ShapeInv, Streams
<1>4. /\ Shown' = Shown /\ ShownSet' = ShownSet
      /\ Visible' = Visible /\ OpenCalls' = OpenCalls
  BY <1>2 DEF Shown, ShownSet, Visible, OpenCalls
<1>5. ShownSoFar'
  BY <1>1, <1>2, <1>3, <1>4 DEF ShownInv, ShownSoFar, Streams
<1> QED BY <1>2, <1>3, <1>4, <1>5, ShownOpen DEF ShownInv

\* The calls being assembled or made change, and nothing is shown.
LEMMA AssemblyShown ==
    ASSUME ShownInv, ~Closed, ~Closed', UNCHANGED <<surface, sent, collected, gotChunk>>, Streams,
           surface # "generate" => ShownSet \subseteq made',
           Visible' \ OpenCalls' = Visible \ OpenCalls,
           \A c \in Visible' : c.round < retrievals => c \in Visible
    PROVE  ShownInv'
<1>1. /\ Shown' = Shown /\ ShownSet' = ShownSet /\ CallsOf(sent') = CallsOf(sent)
  BY NothingShown
<1>2. /\ ShownSoFar
      /\ UNCHANGED <<pc, retrievals, iterErr, outcome>> /\ pc = "streaming"
  BY DEF ShownInv, Streams
<1>3. ShownSet = {} \/ (surface # "generate" /\ ShownSet = Visible \ OpenCalls)
  <2>1. CASE surface = "generate"
    BY <2>1, ElementsOf DEF ShownInv, ShownSet
  <2>2. CASE surface # "generate"
    BY <1>2, <2>2 DEF ShownSoFar
  <2> QED BY <2>1, <2>2
<1>4. ShownSet' \subseteq made' /\ ShownSet' \subseteq Visible'
  BY <1>1, <1>3 DEF Visible
<1>5. ShownSoFar'
  BY <1>1, <1>2, <1>4 DEF ShownSoFar
<1> QED BY <1>1, <1>4, <1>5, ShownOpen DEF ShownInv

\* A call that begins is not shown yet.
LEMMA StartShown ==
    ASSUME Loop!TypeOK, WireTypes, MadeInv, ShownInv, ~Closed, ~Closed', UNCHANGED surface,
           UpstreamCallStart
    PROVE  ShownInv'
<1>1. PICK name \in CallNames, whole \in BOOLEAN :
         LET call == CallOf(name, whole)
         IN /\ made' = made \union {call}
            /\ inflight' = [i \in DOMAIN inflight \union {call.index} |->
                               IF i = call.index THEN call ELSE inflight[i]]
  BY StartedCall
<1> DEFINE call == CallOf(name, whole)
<1>2. MayBegin /\ Streams /\ UNCHANGED <<sent, collected, gotChunk>>
  BY StreamSteps DEF UpstreamCallStart, emitter
<1>3. call \in CallRecords /\ call \notin made /\ call.round = retrievals
  BY <1>2, BegunCall
<1>4. call.index = Cardinality(OfRound(made, retrievals))
  <2>1. made \in SUBSET CallRecords /\ IsFiniteSet(made)
    BY DEF WireTypes
  <2> QED BY <2>1, NewCall DEF OfRound
<1>5. /\ made' = made \union {call}
      /\ inflight' = [i \in DOMAIN inflight \union {call.index} |->
                               IF i = call.index THEN call ELSE inflight[i]]
  BY <1>1
<1> HIDE DEF call
<1>6. call.index \notin DOMAIN inflight
  <2> SUFFICES ASSUME call.index \in DOMAIN inflight PROVE FALSE
    OBVIOUS
  <2> DEFINE other == inflight[call.index]
  <2>1. other \in made /\ other.index = call.index
    BY DEF WireTypes
  <2>2. other.round = retrievals
    BY <1>2 DEF MadeInv, Streams
  <2>3. other.index < Cardinality(OfRound(made, other.round))
    BY <2>1 DEF MadeInv, Counted
  <2>4. call.index \in Nat
    BY <1>3 DEF CallRecords
  <2> QED BY <1>4, <2>1, <2>2, <2>3, <2>4
<1>7. OpenCalls' = OpenCalls \union {call}
  <2>1. \A i \in DOMAIN inflight : i # call.index /\ inflight'[i] = inflight[i] /\ i \in DOMAIN inflight'
    BY <1>5, <1>6
  <2>2. inflight'[call.index] = call /\ call.index \in DOMAIN inflight'
    BY <1>5
  <2>3. DOMAIN inflight' = DOMAIN inflight \union {call.index}
    BY <1>5
  <2>4. OpenCalls' = {inflight'[i] : i \in DOMAIN inflight'}
    BY DEF OpenCalls
  <2> QED BY <2>1, <2>2, <2>3, <2>4 DEF OpenCalls
<1>8. Visible' \ OpenCalls' = Visible \ OpenCalls
  BY <1>3, <1>5, <1>7 DEF Visible
<1>9. \A c \in Visible' : c.round < retrievals => c \in Visible
  <2>1. retrievals \in Nat
    BY DEF Loop!TypeOK
  <2> QED BY <1>3, <1>5, <2>1 DEF Visible
<1>10. ShownSet \subseteq made'
  BY <1>5 DEF ShownInv
<1> QED BY <1>2, <1>8, <1>9, <1>10, AssemblyShown

\* A call whose arguments arrive is still not shown.
LEMMA ArgsShown ==
    ASSUME Loop!TypeOK, WireTypes, MadeInv, ShownInv, ~Closed, ~Closed', UNCHANGED surface,
           UpstreamCallArgs
    PROVE  ShownInv'
<1>1. PICK i \in DOMAIN inflight :
         LET old == inflight[i]
             call == [old EXCEPT !.whole = TRUE]
         IN /\ old \in made /\ ~old.whole
            /\ call \in CallRecords /\ call # old /\ call.whole
            /\ call.round = old.round /\ call.index = old.index /\ call.name = old.name
            /\ inflight' = [inflight EXCEPT ![i] = call]
            /\ made' = (made \ {old}) \union {call}
  BY FinishedCall
<1>2. Streams /\ UNCHANGED <<sent, collected, gotChunk>>
  BY StreamSteps DEF UpstreamCallArgs, emitter
<1> DEFINE old == inflight[i]
           call == [old EXCEPT !.whole = TRUE]
<1>3. /\ old \in made /\ old \in OpenCalls
      /\ call \in CallRecords /\ call # old
      /\ call.round = old.round /\ call.index = old.index /\ call.name = old.name
      /\ inflight' = [inflight EXCEPT ![i] = call]
      /\ made' = (made \ {old}) \union {call}
  BY <1>1 DEF OpenCalls
<1>4. old.round = retrievals
  BY <1>1, <1>2 DEF MadeInv, Streams
<1>5. \A j \in DOMAIN inflight : inflight[j] \in made /\ (j # i => inflight[j] # old)
  BY DEF WireTypes
<1>o. old = inflight[i]
  OBVIOUS
<1> HIDE DEF call, old
<1>6. call \notin made
  <2>1. made \in SUBSET CallRecords /\ IsFiniteSet(made) /\ Counted(made)
    BY DEF WireTypes, MadeInv
  <2> QED BY <1>3, <2>1, CountedSwap
<1>7. OpenCalls' = (OpenCalls \ {old}) \union {call}
  <2>1. \A j \in DOMAIN inflight : inflight'[j] = IF j = i THEN call ELSE inflight[j]
    BY <1>3
  <2>2. DOMAIN inflight' = DOMAIN inflight
    BY <1>3
  <2>3. OpenCalls' = {inflight'[j] : j \in DOMAIN inflight'}
    BY DEF OpenCalls
  <2>4. OpenCalls' \subseteq (OpenCalls \ {old}) \union {call}
    <3> SUFFICES ASSUME NEW j \in DOMAIN inflight
                 PROVE  inflight'[j] \in (OpenCalls \ {old}) \union {call}
      BY <2>2, <2>3
    <3> QED BY <1>5, <2>1 DEF OpenCalls
  <2>5. call \in OpenCalls'
    <3>1. i \in DOMAIN inflight' /\ inflight'[i] = call
      BY <1>1, <2>1, <2>2
    <3> QED BY <2>3, <3>1
  <2>6. ASSUME NEW j \in DOMAIN inflight, inflight[j] # old PROVE inflight[j] \in OpenCalls'
    <3>1. j \in DOMAIN inflight' /\ inflight'[j] = inflight[j]
      BY <1>o, <2>1, <2>2, <2>6
    <3> QED BY <2>3, <3>1
  <2> QED BY <2>4, <2>5, <2>6 DEF OpenCalls
<1>8. Visible' \ OpenCalls' = Visible \ OpenCalls
  BY <1>3, <1>6, <1>7 DEF Visible
<1>9. \A c \in Visible' : c.round < retrievals => c \in Visible
  <2>1. retrievals \in Nat
    BY DEF Loop!TypeOK
  <2> QED BY <1>3, <1>4, <2>1 DEF Visible
<1>10. surface # "generate" => ShownSet \subseteq made'
  <2> SUFFICES ASSUME surface # "generate" PROVE ShownSet \subseteq made'
    OBVIOUS
  <2>1. ShownSet = Visible \ OpenCalls
    BY <1>2 DEF ShownInv, ShownSoFar, Streams
  <2> QED BY <1>3, <2>1 DEF Visible
<1> QED BY <1>2, <1>8, <1>9, <1>10, AssemblyShown

\* A call that arrives in one piece is shown now.
LEMMA CallShown ==
    ASSUME Loop!TypeOK, WireTypes, MadeInv, ShownInv, ~Closed, ~Closed',
           UNCHANGED <<dialect, surface>>, UpstreamCall
    PROVE  ShownInv'
<1>1. PICK name \in CallNames :
         LET call == CallOf(name, TRUE)
         IN /\ call \in CallRecords
            /\ made' = made \union {call} /\ YieldCall(call)
            /\ UNCHANGED <<inflight, written, start, window>>
  BY CalledAtOnce
<1> DEFINE call == CallOf(name, TRUE)
<1>2. MayBegin
  BY DEF UpstreamCall
<1>3. /\ call \in CallRecords /\ call \notin made /\ call.round = retrievals
  BY <1>2, BegunCall
<1>4. made' = made \union {call} /\ YieldCall(call) /\ UNCHANGED inflight
  BY <1>1
<1> HIDE DEF call
<1>5. OpenCalls' = OpenCalls /\ OpenCalls \subseteq made
  BY <1>4 DEF OpenCalls, WireTypes
<1>6. call \notin ShownSet
  BY <1>3 DEF ShownInv
<1>7. \A c \in Visible' : c \in Visible \/ c = call
  BY <1>4 DEF Visible
<1>8. Visible' \ OpenCalls' = IF call.name = RetrieveName THEN Visible \ OpenCalls
                              ELSE (Visible \ OpenCalls) \union {call}
  BY <1>3, <1>4, <1>5 DEF Visible
<1>9. retrievals \in Nat
  BY DEF Loop!TypeOK
<1> QED BY <1>3, <1>4, <1>6, <1>7, <1>8, <1>9, GivenOut

\* A call out of the assembly is shown now.
LEMMA HandOverShown ==
    ASSUME Loop!TypeOK, WireTypes, MadeInv, ShownInv, ~Closed, ~Closed',
           UNCHANGED <<dialect, surface>>, HandOver
    PROVE  ShownInv'
<1>1. PICK i \in DOMAIN inflight :
         LET call == inflight[i]
         IN /\ call \in made /\ call \in CallRecords
            /\ YieldCall(call)
            /\ inflight' = [j \in DOMAIN inflight \ {i} |-> inflight[j]]
            /\ UNCHANGED <<written, start, made, window>>
  BY HandedOver
<1> DEFINE call == inflight[i]
<1>2. /\ call \in made /\ call \in CallRecords /\ YieldCall(call) /\ call \in OpenCalls
      /\ inflight' = [j \in DOMAIN inflight \ {i} |-> inflight[j]] /\ made' = made
  BY <1>1 DEF OpenCalls
<1>3. pc = "streaming"
  BY <1>2, StreamSteps DEF Streams
<1>4. call.round = retrievals
  BY <1>1, <1>3 DEF MadeInv
<1>5. \A j \in DOMAIN inflight : j # i => inflight[j] # call
  BY DEF WireTypes
<1>6. OpenCalls' = OpenCalls \ {call}
  <2>1. OpenCalls' = {inflight'[j] : j \in DOMAIN inflight'}
    BY DEF OpenCalls
  <2>2. DOMAIN inflight' = DOMAIN inflight \ {i} /\ \A j \in DOMAIN inflight' : inflight'[j] = inflight[j]
    BY <1>2
  <2> QED BY <1>5, <2>1, <2>2 DEF OpenCalls
<1> HIDE DEF call
<1>7. Visible' = Visible
  BY <1>2 DEF Visible
<1>8. Visible' \ OpenCalls' = IF call.name = RetrieveName THEN Visible \ OpenCalls
                              ELSE (Visible \ OpenCalls) \union {call}
  BY <1>2, <1>6 DEF Visible
<1>9. surface # "generate" => call \notin ShownSet
  BY <1>2, <1>3 DEF ShownInv, ShownSoFar
<1>10. retrievals \in Nat
  BY DEF Loop!TypeOK
<1> QED BY <1>2, <1>4, <1>7, <1>8, <1>9, <1>10, GivenOut

\* An error leaves the calls as they are.
LEMMA ErrorShown ==
    ASSUME WireTypes, ShownInv, UNCHANGED surface, CloseWithError
    PROVE  ShownInv'
<1>1. CallsOf(sent') = CallsOf(sent) /\ UNCHANGED <<collected, made, outcome>>
  BY ErrorStep, StreamSteps DEF CloseWithError, record
<1>2. Shown' = Shown /\ ShownSet' = ShownSet
  BY <1>1 DEF Shown, ShownSet
<1>3. outcome' # "success"
  BY <1>1 DEF CloseWithError
<1>4. Closed'
  <2>1. sent \in Seq(AllEvents)
    BY DEF WireTypes
  <2>2. sent' = sent \o <<ErrorEvent>> \o Terminator /\ ErrorEvent \in AllEvents
        /\ ErrorEvent.type \in {"error", "final"}
    BY ErrorStep
  <2> QED BY <2>1, <2>2, EndIsClosed
<1> QED BY <1>1, <1>2, <1>3, <1>4 DEF ShownInv, CallsAsMade, AnsweredWell

\* The last message brings the collected calls, and then all are there.
LEMMA FinalShown ==
    ASSUME WireTypes, ShownInv, UNCHANGED surface, CloseWell
    PROVE  ShownInv'
<1>1. CallsOf(sent') = Shown /\ UNCHANGED <<collected, made, outcome, pc>> /\ pc = "done"
  BY FinalStep, StreamSteps DEF CloseWell, record, Shown
<1>2. Shown \in Seq(CallRecords) /\ collected \in Seq(CallRecords) /\ CallsOf(sent) \in Seq(CallRecords)
  BY ShownType
<1>3. ToSet(collected) \subseteq ShownSet
  BY <1>2, ElementsOf DEF ShownSet, Shown
<1>4. ShownSet' = ShownSet
  <2>1. ShownSet' = ToSet(Shown \o collected)
    BY <1>1 DEF ShownSet, Shown
  <2>2. ToSet(Shown \o collected) = ToSet(Shown) \union ToSet(collected)
    BY <1>2, ElementsOf
  <2> QED BY <1>3, <2>1, <2>2 DEF ShownSet
<1>5. surface = "generate" => Shown' = <<>>
  <2> SUFFICES ASSUME surface = "generate" PROVE Shown' = <<>>
    OBVIOUS
  <2>1. Shown = <<>>
    BY DEF ShownInv
  <2>2. collected = <<>>
    BY <1>2, <2>1, ConcatEqualIffEmpty DEF Shown
  <2>3. Shown' = Shown \o collected
    BY <1>1 DEF Shown
  <2> QED BY <1>2, <2>1, <2>2, <2>3, ConcatEmptySeq
<1>6. ~Closed /\ Closed'
  <2>1. /\ sent' = OpenedLast \o <<FinalEvent>> \o Terminator
        /\ FinalEvent \in AllEvents /\ FinalEvent.type \in {"error", "final"}
        /\ OpenedLast \in Seq(AllEvents)
    BY FinalStep
  <2> QED BY <2>1, EndIsClosed DEF CloseWell
<1>7. CallsAsMade'
  <2> SUFFICES ASSUME outcome' = "success", surface # "generate"
               PROVE  /\ ToSet(CallsOf(sent')) = Visible'
                      /\ Len(CallsOf(sent')) = Cardinality(ToSet(CallsOf(sent')))
    BY DEF CallsAsMade, AnsweredWell, Visible
  <2>1. ShownSet = Visible /\ Once(Shown)
    BY <1>1, <1>6 DEF ShownInv, ShownSoFar
  <2>2. Visible' = Visible
    BY <1>1 DEF Visible
  <2> QED BY <1>1, <1>2, <2>1, <2>2, OnceIsCounted DEF ShownSet
<1> QED BY <1>1, <1>4, <1>5, <1>6, <1>7 DEF ShownInv

\* Every step keeps it.
LEMMA StepShown ==
    /\ Loop!TypeOK /\ WireTypes /\ MadeInv /\ ShapeInv /\ ShapeInv' /\ ShownInv /\ [Next]_vars
    => ShownInv'
<1> SUFFICES ASSUME Loop!TypeOK, WireTypes, MadeInv, ShapeInv, ShapeInv', ShownInv, [Next]_vars
             PROVE  ShownInv'
  OBVIOUS
<1>0. UNCHANGED <<dialect, surface>>
  BY SameRoute
<1>a. ASSUME Streams PROVE ~Closed /\ ~Closed'
  BY <1>a DEF Streams, ShapeInv
<1>1. CASE Quiet
  BY <1>0, <1>1, QuietShown
<1>2. CASE Opens
  BY <1>0, <1>2, OpensShown
<1>3. CASE UpstreamText
  BY <1>0, <1>3, TextShown
<1>4. CASE UpstreamCall
  BY <1>0, <1>a, <1>4, CallShown, StreamSteps
<1>5. CASE UpstreamCallStart
  BY <1>0, <1>a, <1>5, StartShown, StreamSteps
<1>6. CASE UpstreamCallArgs
  BY <1>0, <1>a, <1>6, ArgsShown, StreamSteps
<1>7. CASE HandOver
  BY <1>0, <1>a, <1>7, HandOverShown, StreamSteps
<1>8. CASE CloseWithError
  BY <1>0, <1>8, ErrorShown
<1>9. CASE CloseWell
  BY <1>0, <1>9, FinalShown
<1> QED BY <1>1, <1>2, <1>3, <1>4, <1>5, <1>6, <1>7, <1>8, <1>9, Steps

\* The calls in what was sent are those the client has.
LEMMA SentCalls ==
    ASSUME NEW events \in Seq(AllEvents), NEW i \in DOMAIN events
    PROVE  /\ events[i].type = "call" => events[i].call \in ToSet(CallsOf(events))
           /\ events[i].type = "final" => ToSet(events[i].calls) \subseteq ToSet(CallsOf(events))
<1> DEFINE Holds(seq, j) ==
               /\ seq[j].type = "call" => seq[j].call \in ToSet(CallsOf(seq))
               /\ seq[j].type = "final" => ToSet(seq[j].calls) \subseteq ToSet(CallsOf(seq))
           Lengths == {n \in Nat : \A seq \in Seq(AllEvents) : Len(seq) = n =>
                                      \A j \in DOMAIN seq : Holds(seq, j)}
<1>1. 0 \in Lengths
  <2>1. \A seq \in Seq(AllEvents) : Len(seq) = 0 => DOMAIN seq = {}
    OBVIOUS
  <2> HIDE DEF Holds
  <2> QED BY <2>1
<1>2. ASSUME NEW n \in Nat, n \in Lengths PROVE n + 1 \in Lengths
  <2> SUFFICES ASSUME NEW seq \in Seq(AllEvents), Len(seq) = n + 1, NEW j \in DOMAIN seq
               PROVE  Holds(seq, j)
    BY <1>2
  <2>1. PICK front \in Seq(AllEvents), last \in AllEvents : seq = Append(front, last)
    <3>1. seq # <<>>
      BY <1>2
    <3> QED BY <3>1, SequenceEmptyOrAppend
  <2>2. /\ Len(front) = n /\ Len(seq) = Len(front) + 1
        /\ DOMAIN seq = DOMAIN front \union {n + 1}
        /\ \A k \in DOMAIN front : seq[k] = front[k]
        /\ seq[n + 1] = last
    BY <2>1
  <2>3. CallsOf(front) \in Seq(CallRecords) /\ CallsOf(seq) = AddCalls(CallsOf(front), last)
    BY <2>1, Received
  <2>4. ToSet(CallsOf(seq)) = ToSet(CallsOf(front)) \union
            (IF last.type = "call" THEN {last.call}
             ELSE IF last.type = "final" THEN ToSet(last.calls) ELSE {})
    <3>1. CASE last.type = "call"
      <4>1. last.call \in CallRecords
        BY <3>1, EventKinds DEF CallEvents
      <4> QED BY <2>3, <3>1, <4>1, ElementsOf DEF AddCalls
    <3>2. CASE last.type = "final"
      <4>1. last.calls \in Seq(CallRecords)
        BY <3>2, EventKinds DEF FinalEvents
      <4> QED BY <2>3, <3>2, <4>1, ElementsOf DEF AddCalls
    <3>3. CASE last.type \notin {"call", "final"}
      BY <2>3, <3>3 DEF AddCalls
    <3> QED BY <3>1, <3>2, <3>3
  <2>5. CASE j \in DOMAIN front
    <3>1. Holds(front, j)
      BY <1>2, <2>2, <2>5
    <3> QED BY <2>2, <2>4, <2>5, <3>1
  <2>6. CASE j = n + 1
    BY <2>2, <2>4, <2>6
  <2> QED BY <2>2, <2>5, <2>6
<1>3. Len(events) \in Lengths
  <2>1. Nat \subseteq Lengths
    <3> HIDE DEF Lengths
    <3> QED BY <1>1, <1>2, Found!SetInduction
  <2> QED BY <2>1
<1> QED BY <1>3

\* The strengthened types and the calls give the type invariant of the runs.
LEMMA Typed == Loop!TypeOK /\ WireTypes /\ DetectorInv /\ MadeInv /\ ShownInv => TypeOK
<1> SUFFICES ASSUME Loop!TypeOK, WireTypes, DetectorInv, MadeInv, ShownInv PROVE TypeOK
  OBVIOUS
<1>1. /\ route \in Routes /\ phase \in {"reading", "flushing", "abandoned"}
      /\ reason \in Reasons /\ finish \in Reasons
      /\ \A i \in DOMAIN inflight : inflight[i] \in made /\ inflight[i].index = i
      /\ start \in 0..Len(written)
  BY DEF WireTypes, SmallTypes
<1>2. DOMAIN inflight \subseteq 0..(MaxCalls[dialect] - 1)
  <2> SUFFICES ASSUME NEW i \in DOMAIN inflight PROVE i \in 0..(MaxCalls[dialect] - 1)
    OBVIOUS
  <2> DEFINE call == inflight[i]
  <2>1. call \in made /\ call.index = i /\ call \in CallRecords /\ made \in SUBSET CallRecords /\ IsFiniteSet(made)
    BY <1>1 DEF WireTypes
  <2>2. i \in Nat
    BY <2>1 DEF CallRecords
  <2>3. i < Cardinality(OfRound(made, call.round))
    BY <2>1 DEF MadeInv, Counted
  <2>4. Cardinality(OfRound(made, call.round)) \in Nat
        /\ Cardinality(OfRound(made, call.round)) <= Cardinality(made)
    BY <2>1, RoundSize
  <2>5. Cardinality(made) <= MaxCalls[dialect] /\ Cardinality(made) \in Nat /\ MaxCalls[dialect] \in Nat
    BY MaxCallsNat DEF MadeInv
  <2> HIDE DEF call
  <2> QED BY <2>2, <2>3, <2>4, <2>5
<1>3. Len(window) <= LoopWindow
  BY DEF DetectorInv
<1>4. unescaper.mode \in {"normal", "entity", "tag", "tagEntity"}
  BY DEF WireTypes, UnescaperStates, Modes
<1>5. /\ CallsOf(sent) \in Seq(CallRecords) /\ collected \in Seq(CallRecords)
      /\ ToSet(CallsOf(sent)) \subseteq made /\ ToSet(collected) \subseteq made
  BY ShownType, ElementsOf DEF ShownInv, ShownSet, Shown
<1>6. \A found \in Seq(CallRecords) : ToSet(found) \subseteq made => found \in Seq(made)
  <2> TAKE found \in Seq(CallRecords)
  <2> SUFFICES ASSUME ToSet(found) \subseteq made PROVE found \in Seq(made)
    OBVIOUS
  <2>1. \A i \in 1..Len(found) : found[i] \in made
    BY DEF ToSet
  <2>2. found \in [1..Len(found) -> made] /\ Len(found) \in Nat
    BY <2>1
  <2> QED BY <2>2
<1>7. \A i \in DOMAIN sent : sent[i] \in Events
  <2> TAKE i \in DOMAIN sent
  <2> DEFINE e == sent[i]
  <2>0. sent \in Seq(AllEvents) /\ e \in AllEvents
    BY DEF WireTypes
  <2>a. /\ e.type = "call" => e.call \in ToSet(CallsOf(sent))
        /\ e.type = "final" => ToSet(e.calls) \subseteq ToSet(CallsOf(sent))
    BY <2>0, SentCalls
  <2> HIDE DEF e
  <2>1. CASE e \in PlainEvents
    BY <2>1 DEF e, Events, PlainEvents
  <2>2. CASE e \in TextEvents
    BY <2>2 DEF e, Events, TextEvents
  <2>3. CASE e \in CallEvents
    <3>1. e.call \in made
      BY <1>5, <2>3, <2>a DEF CallEvents
    <3>2. e \in [type : {"call"}, index : Nat, call : made]
      BY <2>3, <3>1 DEF CallEvents
    <3> QED BY <3>2 DEF e, Events
  <2>4. CASE e \in FinalEvents
    <3>1. e.calls \in Seq(made)
      BY <1>5, <1>6, <2>4, <2>a DEF FinalEvents
    <3>2. e \in [type : {"final"}, reason : {"stop", "length", "tool_calls"}, calls : Seq(made)]
      BY <2>4, <3>1 DEF FinalEvents
    <3> QED BY <3>2 DEF e, Events
  <2> QED BY <2>0, <2>1, <2>2, <2>3, <2>4 DEF AllEvents
<1>8. collected \in Seq(made)
  BY <1>5, <1>6
<1> QED BY <1>1, <1>2, <1>3, <1>4, <1>7, <1>8 DEF TypeOK

-------------------------------------------------------------------------------
(* The theorems. *)

\* The inductive invariant: the loop's types, the types of the wire, the window,
\* the shape of the events, the text, how the calls are numbered, and which of
\* them the client has been shown.
DeliveryInv ==
    /\ Loop!TypeOK /\ WireTypes /\ DetectorInv
    /\ ShapeInv /\ TextInv /\ MadeInv /\ ShownInv

\* The loop's variables keep their types in every delivered stream.
LEMMA LoopTyped == Spec => []Loop!TypeOK
<1> USE StreamDeliveryAssumption
<1>1. Proofs!Spec => []Proofs!TypeOK
  BY Proofs!TypeCorrect
<1>2. Proofs!TypeOK => Loop!TypeOK
  BY DEF Proofs!TypeOK, Loop!TypeOK, Proofs!ErrKinds, Loop!ErrKinds, Proofs!Outcomes, Loop!Outcomes
<1> QED BY <1>1, <1>2, DeliveryIsProved, PTL

\* What every state of a streamed request satisfies: the types, the window,
\* the shape, the text and the calls of it.
THEOREM DeliveryInvariant == Spec => []DeliveryInv
<1>1. Init /\ Loop!TypeOK => DeliveryInv
  BY InitWire, InitDetector, InitShape, InitText, InitMade, InitShown DEF DeliveryInv
<1>2. Loop!TypeOK /\ Loop!TypeOK' /\ DeliveryInv /\ [Next]_vars => DeliveryInv'
  <2> SUFFICES ASSUME Loop!TypeOK, Loop!TypeOK', DeliveryInv, [Next]_vars PROVE DeliveryInv'
    OBVIOUS
  <2>1. WireTypes /\ DetectorInv /\ ShapeInv /\ TextInv /\ MadeInv /\ ShownInv
    BY DEF DeliveryInv
  <2>2. WireTypes'
    BY <2>1, StepWire
  <2>3. DetectorInv'
    BY <2>1, StepDetector
  <2>4. ShapeInv'
    BY <2>1, <2>2, StepShape
  <2>5. TextInv'
    BY <2>1, <2>2, <2>4, StepText
  <2>6. MadeInv'
    BY <2>1, StepMade
  <2>7. ShownInv'
    BY <2>1, <2>4, StepShown
  <2> QED BY <2>2, <2>3, <2>4, <2>5, <2>6, <2>7 DEF DeliveryInv
<1> QED BY <1>1, <1>2, LoopTyped, PTL DEF Spec

\* Every field of the request has its type: what is sent names calls the model
\* made, the calls in assembly are filed under their index, the detector's
\* buffer is never longer than its window.
THEOREM TypeCorrect == Spec => []TypeOK
<1>1. DeliveryInv => TypeOK
  BY Typed DEF DeliveryInv
<1> QED BY <1>1, DeliveryInvariant, PTL

\* A repetition the window can hold is stopped as soon as it is long enough
\* (LoopDetector.Feed), in whatever fragments it arrives.
THEOREM NoRepetitionMissed == Spec => []RepetitionCaught
<1>1. DeliveryInv => RepetitionCaught
  BY NothingMissed DEF DeliveryInv
<1> QED BY <1>1, DeliveryInvariant, PTL

\* The chat stream has its role first and once, its calls numbered from 0, one
\* last message or error and [DONE] after it (openaiChatStream).
THEOREM StreamsWellFormed == Spec => []WellFormedStream
<1>1. DeliveryInv => WellFormedStream
  BY DEF DeliveryInv, ShapeInv
<1> QED BY <1>1, DeliveryInvariant, PTL

\* An answer that ends well has the whole text, in order and once: cutting it
\* into fragments, holding back half an entity and going on in another
\* retrieval round change nothing (EntityUnescaper, openaiChatStream).
THEOREM AnswersWhole == Spec => []WholeAnswer
<1>1. DeliveryInv => WholeAnswer
  BY DEF DeliveryInv, TextInv
<1> QED BY <1>1, DeliveryInvariant, PTL

\* An answer that ends well shows each call of its rounds once and nothing of
\* an attempt that was retried, on the surfaces that show calls.
THEOREM CallsShownOnce == Spec => []CallsAsMade
<1>1. DeliveryInv => CallsAsMade
  BY DEF DeliveryInv, ShownInv
<1> QED BY <1>1, DeliveryInvariant, PTL
===============================================================================
