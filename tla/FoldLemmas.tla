------------------------------- MODULE FoldLemmas -------------------------------
(***************************************************************************)
(* What FoldLeft computes, for an operator Op: the empty sequence leaves   *)
(* the base, an appended element is one more application, a concatenation  *)
(* is two folds.  A module that folds instantiates this one with its       *)
(* operator.  The library defines the fold by recursion over the subsets   *)
(* of the domain, largest index last; the function it chooses exists, and  *)
(* on the initial segments it is the fold.                                 *)
(***************************************************************************)
EXTENDS Naturals, Sequences, SequencesExt, TLAPS, SequenceTheorems, WellFoundedInduction

CONSTANT Op(_, _)

Folded(base, seq) == FoldLeft(Op, base, seq)

\* Induction over the natural numbers, as a fact about sets.
LEMMA SetInduction ==
    ASSUME NEW S, 0 \in S, \A n \in Nat : n \in S => n + 1 \in S
    PROVE  Nat \subseteq S
<1> DEFINE T == Nat \ S
<1> SUFFICES ASSUME T # {} PROVE FALSE
  OBVIOUS
<1>1. \E x \in T : \A y \in T : ~(<<y, x>> \in OpToRel(<, Nat))
  <2> HIDE DEF T
  <2>1. T \subseteq Nat
    BY DEF T
  <2> QED BY <2>1, NatLessThanWellFounded, WFMin
<1>2. PICK x \in T : \A y \in T : ~(<<y, x>> \in OpToRel(<, Nat))
  BY <1>1
<1>3. x # 0 /\ x \in Nat
  OBVIOUS
<1>4. x - 1 \in Nat /\ x - 1 < x
  BY <1>3
<1>5. <<x - 1, x>> \in OpToRel(<, Nat)
  BY <1>3, <1>4 DEF OpToRel
<1>6. x - 1 \in S
  BY <1>2, <1>4, <1>5
<1> QED BY <1>3, <1>4, <1>6

\* A nonempty set of indexes has a largest one.
LEMMA MaxOfIndexes ==
    ASSUME NEW n \in Nat, NEW s \in SUBSET (1..n), s # {}
    PROVE  Max(s) \in s /\ \A y \in s : Max(s) >= y
<1> DEFINE S == {m \in Nat : \A t \in SUBSET (1..m) : t # {} => \E x \in t : \A y \in t : x >= y}
<1>1. 0 \in S
  <2>1. \A t \in SUBSET (1..0) : t = {}
    OBVIOUS
  <2> QED BY <2>1
<1>2. ASSUME NEW m \in Nat, m \in S PROVE m + 1 \in S
  <2> SUFFICES ASSUME NEW t \in SUBSET (1..(m + 1)), t # {}
               PROVE  \E x \in t : \A y \in t : x >= y
    OBVIOUS
  <2>1. CASE m + 1 \in t
    BY <2>1
  <2>2. CASE m + 1 \notin t
    <3>1. t \in SUBSET (1..m)
      BY <2>2
    <3> QED BY <3>1, <1>2
  <2> QED BY <2>1, <2>2
<1>3. n \in S
  <2> HIDE DEF S
  <2> QED BY <1>1, <1>2, SetInduction
<1>4. \E x \in s : \A y \in s : x >= y
  BY <1>3
<1> QED BY <1>4 DEF Max

\* The function the library chooses for the first n elements of seq.
IsFold(g, base, seq, n) ==
    g = [s \in SUBSET (1..n) |->
            IF s = {} THEN base ELSE Op(g[s \ {Max(s)}], seq[Max(s)])]

FoldOf(base, seq, n) == CHOOSE g : IsFold(g, base, seq, n)

\* Below a new largest index nothing changes.
LEMMA MaxOfNext ==
    ASSUME NEW n \in Nat, NEW s \in SUBSET (1..(n + 1))
    PROVE  /\ n + 1 \in s => Max(s) = n + 1 /\ s \ {n + 1} \in SUBSET (1..n)
           /\ n + 1 \notin s => s \in SUBSET (1..n)
<1>1. ASSUME n + 1 \in s PROVE Max(s) = n + 1
  <2>1. Max(s) \in s /\ \A y \in s : Max(s) >= y
    <3>1. n + 1 \in Nat /\ s # {}
      BY <1>1
    <3> QED BY <3>1, MaxOfIndexes
  <2>2. Max(s) \in 1..(n + 1) /\ Max(s) >= n + 1
    BY <1>1, <2>1
  <2> QED BY <2>2
<1> QED BY <1>1

\* Such a function exists: it is built up index by index.
LEMMA FoldExists ==
    ASSUME NEW base, NEW seq, NEW n \in Nat
    PROVE  IsFold(FoldOf(base, seq, n), base, seq, n)
<1> DEFINE S == {m \in Nat : \E g : IsFold(g, base, seq, m)}
<1>1. 0 \in S
  <2>1. \A s \in SUBSET (1..0) : s = {}
    OBVIOUS
  <2>2. IsFold([s \in SUBSET (1..0) |-> base], base, seq, 0)
    BY <2>1 DEF IsFold
  <2> QED BY <2>2
<1>2. ASSUME NEW m \in Nat, m \in S PROVE m + 1 \in S
  <2>1. PICK g : IsFold(g, base, seq, m)
    BY <1>2
  <2> DEFINE h == [s \in SUBSET (1..(m + 1)) |->
                      IF m + 1 \in s THEN Op(g[s \ {m + 1}], seq[m + 1]) ELSE g[s]]
             step(f, s) == IF s = {} THEN base ELSE Op(f[s \ {Max(s)}], seq[Max(s)])
  <2>2. ASSUME NEW s \in SUBSET (1..(m + 1)) PROVE h[s] = step(h, s)
    <3>1. CASE m + 1 \in s
      <4>1. Max(s) = m + 1 /\ s \ {m + 1} \in SUBSET (1..m)
        BY <3>1, MaxOfNext
      <4>2. h[s \ {m + 1}] = g[s \ {m + 1}]
        BY <4>1
      <4> QED BY <3>1, <4>1, <4>2
    <3>2. CASE m + 1 \notin s
      <4>1. s \in SUBSET (1..m)
        BY <3>2, MaxOfNext
      <4>2. h[s] = g[s] /\ g[s] = step(g, s)
        BY <3>2, <4>1, <2>1 DEF IsFold
      <4>3. s \ {Max(s)} \in SUBSET (1..(m + 1)) /\ m + 1 \notin s \ {Max(s)}
        BY <3>2
      <4>4. h[s \ {Max(s)}] = g[s \ {Max(s)}]
        BY <4>3
      <4> QED BY <4>2, <4>4
    <3> QED BY <3>1, <3>2
  <2>3. h = [s \in SUBSET (1..(m + 1)) |-> step(h, s)]
    <3>1. h = [s \in SUBSET (1..(m + 1)) |-> h[s]]
      OBVIOUS
    <3> HIDE DEF h, step
    <3> QED BY <3>1, <2>2
  <2>4. IsFold(h, base, seq, m + 1)
    <3> HIDE DEF h
    <3> QED BY <2>3 DEF IsFold
  <2> QED BY <2>4
<1>3. n \in S
  <2> HIDE DEF S
  <2> QED BY <1>1, <1>2, SetInduction
<1> QED BY <1>3 DEF FoldOf

\* What the library computes is its value on all indexes.
LEMMA FoldedIs ==
    ASSUME NEW base, NEW B, NEW seq \in Seq(B)
    PROVE  Folded(base, seq) = FoldOf(base, seq, Len(seq))[1..Len(seq)]
<1>1. DOMAIN seq = 1..Len(seq)
  OBVIOUS
<1>2. Folded(base, seq)
        = (CHOOSE g : g = [s \in SUBSET (DOMAIN seq) |->
              IF s = {} THEN base ELSE Op(g[s \ {Max(s)}], seq[Max(s)])])[DOMAIN seq]
  BY DEF Folded, FoldLeft, MapThenFoldSet
<1> QED BY <1>1, <1>2 DEF FoldOf, IsFold

\* Two of them agree where the sequences do.
LEMMA FoldAgrees ==
    ASSUME NEW base, NEW s1, NEW s2, NEW n1 \in Nat, NEW n \in Nat,
           n <= n1, \A i \in 1..n : s1[i] = s2[i]
    PROVE  \A t \in SUBSET (1..n) : FoldOf(base, s1, n1)[t] = FoldOf(base, s2, n)[t]
<1> DEFINE f == FoldOf(base, s1, n1)
           g == FoldOf(base, s2, n)
           S == {m \in Nat : m <= n => \A t \in SUBSET (1..m) : f[t] = g[t]}
<1>1. ASSUME NEW t \in SUBSET (1..n)
      PROVE  /\ f[t] = IF t = {} THEN base ELSE Op(f[t \ {Max(t)}], s1[Max(t)])
             /\ g[t] = IF t = {} THEN base ELSE Op(g[t \ {Max(t)}], s2[Max(t)])
  <2>1. t \in SUBSET (1..n1)
    OBVIOUS
  <2>2. IsFold(f, base, s1, n1) /\ IsFold(g, base, s2, n)
    BY FoldExists
  <2> HIDE DEF f, g
  <2> QED BY <2>1, <2>2 DEF IsFold
<1> HIDE DEF f, g
<1>2. 0 \in S
  <2>1. \A t \in SUBSET (1..0) : t = {} /\ t \in SUBSET (1..n)
    OBVIOUS
  <2> QED BY <1>1, <2>1
<1>3. ASSUME NEW m \in Nat, m \in S PROVE m + 1 \in S
  <2>0. m + 1 \in Nat
    OBVIOUS
  <2> SUFFICES ASSUME m + 1 <= n PROVE \A t \in SUBSET (1..(m + 1)) : f[t] = g[t]
    BY <2>0
  <2> TAKE t \in SUBSET (1..(m + 1))
  <2>1. t \in SUBSET (1..n) /\ \A r \in SUBSET (1..m) : f[r] = g[r]
    BY <1>3
  <2>2. CASE m + 1 \in t
    <3>1. Max(t) = m + 1 /\ t \ {m + 1} \in SUBSET (1..m)
      BY <2>2, MaxOfNext
    <3>2. f[t \ {Max(t)}] = g[t \ {Max(t)}] /\ s1[Max(t)] = s2[Max(t)]
      BY <2>1, <3>1
    <3> QED BY <1>1, <2>1, <3>2
  <2>3. CASE m + 1 \notin t
    BY <2>1, <2>3, MaxOfNext
  <2> QED BY <2>2, <2>3
<1>4. n \in S
  <2> HIDE DEF S
  <2> QED BY <1>2, <1>3, SetInduction
<1>5. \A t \in SUBSET (1..n) : f[t] = g[t]
  BY <1>4
<1> QED BY <1>5 DEF f, g

-------------------------------------------------------------------------------
(* The facts to cite. *)

\* Nothing is folded into the base.
LEMMA FoldEmpty == ASSUME NEW base PROVE Folded(base, <<>>) = base
<1>1. <<>> \in Seq({}) /\ Len(<<>>) = 0
  OBVIOUS
<1>2. Folded(base, <<>>) = FoldOf(base, <<>>, 0)[1..0]
  BY <1>1, FoldedIs
<1>3. 1..0 = {} /\ {} \in SUBSET (1..0)
  OBVIOUS
<1>4. IsFold(FoldOf(base, <<>>, 0), base, <<>>, 0)
  BY FoldExists
<1> HIDE DEF FoldOf
<1>5. FoldOf(base, <<>>, 0)[{}] = base
  BY <1>3, <1>4 DEF IsFold
<1> QED BY <1>2, <1>3, <1>5

\* The last element is applied last.
LEMMA FoldAppend ==
    ASSUME NEW base, NEW B, NEW seq \in Seq(B), NEW e \in B
    PROVE  Folded(base, Append(seq, e)) = Op(Folded(base, seq), e)
<1> DEFINE n == Len(seq)
           longer == Append(seq, e)
<1>1. /\ n \in Nat /\ longer \in Seq(B) /\ Len(longer) = n + 1
      /\ longer[n + 1] = e /\ \A i \in 1..n : longer[i] = seq[i]
  OBVIOUS
<1> HIDE DEF n, longer
<1>2. Folded(base, seq) = FoldOf(base, seq, n)[1..n]
  BY FoldedIs DEF n
<1>3. Folded(base, longer) = FoldOf(base, longer, n + 1)[1..(n + 1)]
  BY <1>1, FoldedIs
<1>4. Max(1..(n + 1)) = n + 1 /\ (1..(n + 1)) \ {n + 1} = 1..n /\ 1..(n + 1) # {}
  <2>1. n + 1 \in 1..(n + 1) /\ 1..(n + 1) \in SUBSET (1..(n + 1))
    BY <1>1
  <2> QED BY <1>1, <2>1, MaxOfNext
<1>5. FoldOf(base, longer, n + 1)[1..(n + 1)]
        = Op(FoldOf(base, longer, n + 1)[1..n], longer[n + 1])
  <2>1. IsFold(FoldOf(base, longer, n + 1), base, longer, n + 1)
    BY <1>1, FoldExists
  <2> QED BY <1>4, <2>1 DEF IsFold
<1>6. FoldOf(base, longer, n + 1)[1..n] = FoldOf(base, seq, n)[1..n]
  <2>1. n + 1 \in Nat /\ n <= n + 1 /\ 1..n \in SUBSET (1..n)
    BY <1>1
  <2>2. \A t \in SUBSET (1..n) : FoldOf(base, longer, n + 1)[t] = FoldOf(base, seq, n)[t]
    BY <1>1, <2>1, FoldAgrees
  <2> QED BY <2>1, <2>2
<1> QED BY <1>1, <1>2, <1>3, <1>5, <1>6 DEF longer

\* A property of the base that each application keeps holds of the result.
LEMMA FoldKeeps ==
    ASSUME NEW A, NEW B, NEW base \in A, NEW seq \in Seq(B),
           \A a \in A, b \in B : Op(a, b) \in A
    PROVE  Folded(base, seq) \in A
<1> DEFINE S == {n \in Nat : \A s \in Seq(B) : Len(s) = n => Folded(base, s) \in A}
<1>1. 0 \in S
  <2>1. \A s \in Seq(B) : Len(s) = 0 => s = <<>>
    OBVIOUS
  <2> QED BY <2>1, FoldEmpty
<1>2. ASSUME NEW n \in Nat, n \in S PROVE n + 1 \in S
  <2> SUFFICES ASSUME NEW s \in Seq(B), Len(s) = n + 1 PROVE Folded(base, s) \in A
    OBVIOUS
  <2>0. s # <<>>
    OBVIOUS
  <2>1. PICK front \in Seq(B), e \in B : s = Append(front, e)
    BY <2>0, SequenceEmptyOrAppend
  <2>2. Len(front) = n
    BY <2>1
  <2> QED BY <1>2, <2>1, <2>2, FoldAppend
<1>3. Len(seq) \in S
  <2> HIDE DEF S
  <2> QED BY <1>1, <1>2, SetInduction
<1> QED BY <1>3

\* A text is folded piece by piece as it is as a whole.
LEMMA FoldConcat ==
    ASSUME NEW base, NEW B, NEW seq1 \in Seq(B), NEW seq2 \in Seq(B)
    PROVE  Folded(base, seq1 \o seq2) = Folded(Folded(base, seq1), seq2)
<1> DEFINE S == {n \in Nat : \A s \in Seq(B) :
                    Len(s) = n => Folded(base, seq1 \o s) = Folded(Folded(base, seq1), s)}
<1>1. 0 \in S
  <2>1. \A s \in Seq(B) : Len(s) = 0 => s = <<>> /\ seq1 \o s = seq1
    OBVIOUS
  <2> QED BY <2>1, FoldEmpty
<1>2. ASSUME NEW n \in Nat, n \in S PROVE n + 1 \in S
  <2> SUFFICES ASSUME NEW s \in Seq(B), Len(s) = n + 1
               PROVE  Folded(base, seq1 \o s) = Folded(Folded(base, seq1), s)
    OBVIOUS
  <2>0. s # <<>>
    OBVIOUS
  <2>1. PICK front \in Seq(B), e \in B : s = Append(front, e)
    BY <2>0, SequenceEmptyOrAppend
  <2>2. Len(front) = n /\ seq1 \o s = Append(seq1 \o front, e) /\ seq1 \o front \in Seq(B)
    BY <2>1
  <2>3. Folded(base, seq1 \o s) = Op(Folded(base, seq1 \o front), e)
    <3>0. seq1 \o front \in Seq(B) /\ e \in B
      BY <2>2
    <3>1. Folded(base, Append(seq1 \o front, e)) = Op(Folded(base, seq1 \o front), e)
      <4> HIDE DEF S
      <4> DEFINE t == seq1 \o front
      <4>1. t \in Seq(B)
        BY <3>0
      <4> HIDE DEF t
      <4>2. Folded(base, Append(t, e)) = Op(Folded(base, t), e)
        BY <4>1, FoldAppend
      <4> QED BY <4>2 DEF t
    <3> QED BY <2>2, <3>1
  <2>4. Folded(Folded(base, seq1), s) = Op(Folded(Folded(base, seq1), front), e)
    BY <2>1, FoldAppend
  <2>5. Folded(base, seq1 \o front) = Folded(Folded(base, seq1), front)
    BY <1>2, <2>2
  <2> QED BY <2>3, <2>4, <2>5
<1>3. Len(seq2) \in S
  <2> HIDE DEF S
  <2> QED BY <1>1, <1>2, SetInduction
<1> QED BY <1>3
================================================================================
