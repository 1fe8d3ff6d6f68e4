-------------------------- MODULE PromptPipelineProofs --------------------------
(***************************************************************************)
(* Proofs about PromptPipeline for every setting, every client and every   *)
(* model, whatever stages are on: what is sent is still a conversation,    *)
(* each call in it is answered once, by its own answer, and the retrieval  *)
(* tool is on offer, once, when a marker is in the prompt; a retry sends   *)
(* the same; and what the prompt points at, what was just said and the     *)
(* newest content of each file is there to read.                           *)
(*                                                                         *)
(* Two relations carry the argument through the stages.  Talk: turns of    *)
(* alternating roles up to one of the user.  AllPaired: each turn of the   *)
(* model and the turn after it tell of the same calls, those the client    *)
(* answered.  A stage that changes parts in place (Follows) keeps both; so *)
(* do dropping scoldings, pruning and cutting, each for its own reason;    *)
(* the alignment makes of the second that each call has one answer.        *)
(*                                                                         *)
(* What can be read is followed part by part: a stage leaves a part as it  *)
(* was said (Stays), removes it for a reason that spares what a property   *)
(* is about (Picked, PrunedWhere), or puts in its place a pointer to where *)
(* it stands (RefersIn); the alignment moves the answers of a turn and     *)
(* loses none that fits a call (Hands).                                    *)
(***************************************************************************)
EXTENDS PromptPipeline, TLAPS, SequenceTheorems, FiniteSetTheorems

\* A sequence written as a function is one.
LEMMA Tabulated ==
    ASSUME NEW n \in Nat, NEW f, f = [i \in 1..n |-> f[i]]
    PROVE  /\ f \in Seq({f[i] : i \in 1..n}) /\ Len(f) = n /\ DOMAIN f = 1..n
           /\ SubSeq(f, 1, n) = f
           /\ \A S : (\A i \in 1..n : f[i] \in S) => f \in Seq(S)
<1>1. f \in Seq({f[i] : i \in 1..n}) /\ Len(f) = n /\ DOMAIN f = 1..n /\ SubSeq(f, 1, n) = f
  OBVIOUS
<1>2. ASSUME NEW S, \A i \in 1..n : f[i] \in S PROVE f \in Seq(S)
  <2>1. f \in [1..n -> S]
    BY <1>2
  <2> QED BY <2>1
<1> QED BY <1>1, <1>2

\* Induction over the natural numbers.
Steps == INSTANCE FoldLemmas WITH Op <- Append

Below(places, k) == {h \in places : h <= k}

\* Later places have more places below them.
LEMMA BelowGrows ==
    ASSUME NEW n \in Nat, NEW places \in SUBSET (1..n)
    PROVE  /\ IsFiniteSet(places) /\ Cardinality(places) \in 0..n
           /\ \A k \in places : Cardinality(Below(places, k)) \in 1..Cardinality(places)
           /\ \A k, h \in places :
                 k < h => Cardinality(Below(places, k)) < Cardinality(Below(places, h))
<1>1. IsFiniteSet(1..n) /\ Cardinality(1..n) = n
  BY FS_Interval
<1>2. IsFiniteSet(places) /\ Cardinality(places) <= n
  BY <1>1, FS_Subset
<1>3. Cardinality(places) \in Nat
  BY <1>2, FS_CardinalityType
<1>4. \A k : IsFiniteSet(Below(places, k)) /\ Cardinality(Below(places, k)) \in Nat
             /\ Cardinality(Below(places, k)) <= Cardinality(places)
  <2> TAKE k
  <2>1. Below(places, k) \subseteq places
    BY DEF Below
  <2> QED BY <1>2, <2>1, FS_Subset, FS_CardinalityType
<1>5. ASSUME NEW k \in places PROVE Cardinality(Below(places, k)) # 0
  <2>1. k \in Below(places, k)
    BY DEF Below
  <2> QED BY <1>4, <2>1, FS_EmptySet
<1>6. ASSUME NEW k \in places, NEW h \in places, k < h
      PROVE  Cardinality(Below(places, k)) < Cardinality(Below(places, h))
  <2>1. Below(places, k) \subseteq Below(places, h)
    <3>1. \A x \in places : x <= k => x <= h
      BY <1>6
    <3> QED BY <3>1 DEF Below
  <2>2. h \in Below(places, h) /\ h \notin Below(places, k)
    BY <1>6 DEF Below
  <2>3. Cardinality(Below(places, k)) <= Cardinality(Below(places, h))
    BY <1>4, <2>1, FS_Subset
  <2>4. Cardinality(Below(places, k)) # Cardinality(Below(places, h))
    BY <1>4, <2>1, <2>2, FS_Subset
  <2> QED BY <1>4, <2>3, <2>4
<1>7. Cardinality(places) \in 0..n
  BY <1>2, <1>3
<1>8. ASSUME NEW k \in places PROVE Cardinality(Below(places, k)) \in 1..Cardinality(places)
  BY <1>3, <1>4, <1>5
<1> QED BY <1>2, <1>6, <1>7, <1>8

\* Every number up to theirs counts the places below one of them.
LEMMA PlaceExists ==
    ASSUME NEW n \in Nat, NEW places \in SUBSET (1..n), NEW m \in 1..Cardinality(places)
    PROVE  \E k \in places : Cardinality(Below(places, k)) = m
<1> DEFINE S == {l \in Nat : \A s \in SUBSET (1..l) : \A c \in 1..Cardinality(s) :
                              \E k \in s : Cardinality(Below(s, k)) = c}
<1>1. 0 \in S
  <2>1. \A s \in SUBSET (1..0) : s = {}
    OBVIOUS
  <2>2. Cardinality({}) = 0
    BY FS_EmptySet
  <2> QED BY <2>1, <2>2
<1>2. ASSUME NEW l \in Nat, l \in S PROVE l + 1 \in S
  <2> SUFFICES ASSUME NEW s \in SUBSET (1..(l + 1)), NEW c \in 1..Cardinality(s)
               PROVE  \E k \in s : Cardinality(Below(s, k)) = c
    OBVIOUS
  <2>1. CASE l + 1 \notin s
    <3>1. s \in SUBSET (1..l)
      BY <2>1
    <3> QED BY <1>2, <3>1
  <2>2. CASE l + 1 \in s
    <3> DEFINE t == s \ {l + 1}
    <3>1. t \in SUBSET (1..l) /\ s = t \union {l + 1} /\ l + 1 \notin t
      BY <2>2
    <3>2. IsFiniteSet(t) /\ Cardinality(t) \in Nat
      BY <3>1, BelowGrows
    <3>3. Cardinality(s) = Cardinality(t) + 1
      BY <3>1, <3>2, FS_AddElement
    <3>4. CASE c = Cardinality(s)
      <4>0. \A h \in s : h <= l + 1
        OBVIOUS
      <4>1. Below(s, l + 1) = s
        BY <4>0 DEF Below
      <4> QED BY <2>2, <3>4, <4>1
    <3>5. CASE c # Cardinality(s)
      <4>1. c \in 1..Cardinality(t)
        BY <3>2, <3>3, <3>5
      <4>2. PICK k \in t : Cardinality(Below(t, k)) = c
        BY <1>2, <3>1, <4>1
      <4>3. Below(s, k) = Below(t, k)
        <5>1. ~(l + 1 <= k)
          BY <3>1
        <5> QED BY <5>1 DEF Below
      <4> QED BY <4>2, <4>3
    <3> QED BY <3>4, <3>5
  <2> QED BY <2>1, <2>2
<1>3. n \in S
  <2> HIDE DEF S
  <2> QED BY <1>1, <1>2, Steps!SetInduction
<1> QED BY <1>3

\* The places of a set, one after the other.
LEMMA Places ==
    ASSUME NEW n \in Nat, NEW places \in SUBSET (1..n)
    PROVE  /\ Cardinality(places) \in 0..n
           /\ \A m \in 1..Cardinality(places) :
                 /\ NthPlace(places, m) \in places
                 /\ Cardinality(Below(places, NthPlace(places, m))) = m
           /\ \A k \in places : \E m \in 1..Cardinality(places) : NthPlace(places, m) = k
           /\ \A m, l \in 1..Cardinality(places) :
                 m < l => NthPlace(places, m) < NthPlace(places, l)
<1> DEFINE N == Cardinality(places)
<1>1. /\ N \in 0..n /\ N \in Nat
      /\ \A k \in places : Cardinality(Below(places, k)) \in 1..N
      /\ \A k, h \in places :
            k < h => Cardinality(Below(places, k)) < Cardinality(Below(places, h))
  <2>1. Cardinality(places) \in 0..n
    BY BelowGrows
  <2>2. Cardinality(places) \in Nat
    BY <2>1
  <2> QED BY <2>1, <2>2, BelowGrows
<1>2. ASSUME NEW m \in 1..N
      PROVE  NthPlace(places, m) \in places /\ Cardinality(Below(places, NthPlace(places, m))) = m
  <2>1. \E k \in places : Cardinality(Below(places, k)) = m
    BY PlaceExists
  <2> QED BY <2>1 DEF NthPlace, Below
<1> HIDE DEF N
<1>3. ASSUME NEW k \in places PROVE \E m \in 1..N : NthPlace(places, m) = k
  <2> DEFINE m == Cardinality(Below(places, k))
             h == NthPlace(places, m)
  <2>1. m \in 1..N
    BY <1>1
  <2>2. h \in places /\ Cardinality(Below(places, h)) = m
    BY <1>2, <2>1
  <2> HIDE DEF h
  <2>3. ~(h < k) /\ ~(k < h)
    BY <1>1, <2>1, <2>2
  <2>4. h \in Nat /\ k \in Nat
    BY <2>2
  <2>5. h = k
    BY <2>3, <2>4
  <2> QED BY <2>1, <2>5 DEF h
<1>4. ASSUME NEW m \in 1..N, NEW l \in 1..N, m < l
      PROVE  NthPlace(places, m) < NthPlace(places, l)
  <2> DEFINE k == NthPlace(places, m)
             h == NthPlace(places, l)
  <2>1. /\ k \in places /\ Cardinality(Below(places, k)) = m
        /\ h \in places /\ Cardinality(Below(places, h)) = l
    BY <1>2
  <2> HIDE DEF k, h
  <2>2. ~(h < k) /\ h # k
    BY <1>1, <1>4, <2>1
  <2>3. h \in Nat /\ k \in Nat
    BY <2>1
  <2> QED BY <2>2, <2>3 DEF k, h
<1> QED BY <1>1, <1>2, <1>3, <1>4 DEF N

\* Choosing by place keeps the elements there, in order.
LEMMA ElementsChosen ==
    ASSUME NEW n \in Nat, NEW places \in SUBSET (1..n), NEW seq
    PROVE  LET chosen == ElementsAt(seq, places)
           IN /\ chosen \in Seq({seq[k] : k \in places})
              /\ Len(chosen) = Cardinality(places) /\ DOMAIN chosen = 1..Cardinality(places)
              /\ \A m \in 1..Cardinality(places) : chosen[m] = seq[NthPlace(places, m)]
<1> DEFINE N == Cardinality(places)
           f == [m \in 1..N |-> seq[NthPlace(places, m)]]
<1>1. N \in Nat
  <2>1. N \in 0..n
    BY Places
  <2> QED BY <2>1
<1>2. \A m \in 1..N : f[m] = seq[NthPlace(places, m)] /\ NthPlace(places, m) \in places
  BY Places
<1>3. /\ Len(f) = N /\ DOMAIN f = 1..N /\ SubSeq(f, 1, N) = f
      /\ \A S : (\A i \in 1..N : f[i] \in S) => f \in Seq(S)
  BY <1>1, Tabulated
<1>4. \A i \in 1..N : f[i] \in {seq[k] : k \in places}
  BY <1>2
<1>5. ElementsAt(seq, places) = f
  BY <1>3 DEF ElementsAt, Tabulate
<1> HIDE DEF f
<1>6. f \in Seq({seq[k] : k \in places})
  BY <1>3, <1>4
<1> QED BY <1>2, <1>3, <1>5, <1>6

-------------------------------------------------------------------------------
(* Parts and turns. *)

\* The words of a conversation; the provers do not know of a literal that it
\* is a string.
Words == STRING \union {"answer", "ask", "tool", Retrieve}
ArgParts == Arguments \union {Flat("hash")}
Forms == {"elided", "masked", "crushed", "summary", "deep"}
Keys == Nat \X Nat

TextParts ==
    [kind : {"text"}, says : Words, block : Blocks \union {NoBlock}, at : Nat,
     env : {"none", "snapshot", "collapsed"}, nudged : BOOLEAN, shown : Seq(Forms)]
CallParts == [kind : {"call"}, name : Words, arg : ArgParts, key : Keys, shown : Seq(Forms)]
ResponseParts ==
    [kind : {"response"}, name : Words, arg : ArgParts, key : Keys, shown : Seq(Forms)]
DummyParts == [kind : {"dummy"}, name : Words, key : Keys]
PrunedParts == [kind : {"pruned"}, of : {"call", "output"}, name : Words]
PointerParts == [kind : {"pointer"}, to : Nat, text : TextParts]
AllParts ==
    TextParts \union CallParts \union ResponseParts
    \union DummyParts \union PrunedParts \union PointerParts
Turns == [role : Roles, parts : Seq(AllParts)]

\* The kind of a part says what it is.
LEMMA PartKinds ==
    ASSUME NEW p \in AllParts
    PROVE  /\ p.kind = "text" <=> p \in TextParts
           /\ p.kind = "call" <=> p \in CallParts
           /\ p.kind = "response" <=> p \in ResponseParts
           /\ p.kind = "dummy" <=> p \in DummyParts
           /\ p.kind = "pruned" <=> p \in PrunedParts
           /\ p.kind = "pointer" <=> p \in PointerParts
  BY DEF AllParts, TextParts, CallParts, ResponseParts, DummyParts, PrunedParts, PointerParts

\* q stands where p stood: a call or a response of the same name and key, or
\* something that is neither.
Exchanged == {"call", "response", "dummy", "pruned"}
Follows(q, p) ==
    /\ q \in AllParts
    /\ p.kind \in Exchanged => q.kind = p.kind
    /\ p.kind \notin Exchanged => q.kind \notin Exchanged
    /\ p.kind \in {"call", "response"} => q.name = p.name /\ q.key = p.key

FollowsTurn(t, s) ==
    /\ t \in Turns /\ t.role = s.role /\ DOMAIN t.parts = DOMAIN s.parts
    /\ Len(t.parts) = Len(s.parts)
    /\ \A j \in DOMAIN s.parts : Follows(t.parts[j], s.parts[j])

FollowsAll(d, c) ==
    /\ d \in Seq(Turns) /\ Len(d) = Len(c) /\ DOMAIN d = DOMAIN c
    /\ \A i \in DOMAIN c : FollowsTurn(d[i], c[i])

\* A part stands where it stood.
LEMMA FollowsSelf ==
    ASSUME NEW p \in AllParts
    PROVE Follows(p, p)
  BY DEF Follows

\* A turn whose parts stand where the parts of another stood.
LEMMA TurnFollows ==
    ASSUME NEW s \in Turns, NEW f,
           f = [j \in 1..Len(s.parts) |-> f[j]],
           \A j \in 1..Len(s.parts) : Follows(f[j], s.parts[j])
    PROVE  FollowsTurn(Turn(s.role, SubSeq(f, 1, Len(s.parts))), s)
<1> DEFINE n == Len(s.parts)
<1>1. s.role \in Roles /\ s.parts \in Seq(AllParts) /\ n \in Nat /\ DOMAIN s.parts = 1..n
  BY DEF Turns
<1>2. \A j \in 1..n : f[j] \in AllParts
  BY DEF Follows
<1>3. SubSeq(f, 1, n) = f /\ Len(f) = n /\ DOMAIN f = 1..n /\ f \in Seq(AllParts)
  BY <1>1, <1>2, Tabulated
<1>4. Turn(s.role, f) \in Turns
  BY <1>1, <1>3 DEF Turn, Turns
<1>5. Turn(s.role, f).role = s.role /\ Turn(s.role, f).parts = f
  BY DEF Turn
<1> QED BY <1>1, <1>3, <1>4, <1>5 DEF FollowsTurn

\* A turn that is left alone, and a conversation that is.
LEMMA SelfFollows ==
    ASSUME NEW s \in Turns
    PROVE  FollowsTurn(s, s)
<1>1. s.parts \in Seq(AllParts)
  BY DEF Turns
<1>2. \A j \in DOMAIN s.parts : s.parts[j] \in AllParts
  BY <1>1
<1> QED BY <1>2, FollowsSelf DEF FollowsTurn

\* A conversation each turn of which follows its own.
LEMMA AllFollow ==
    ASSUME NEW c \in Seq(Turns), NEW g,
           g = [i \in 1..Len(c) |-> g[i]],
           \A i \in 1..Len(c) : FollowsTurn(g[i], c[i])
    PROVE  FollowsAll(SubSeq(g, 1, Len(c)), c)
<1>1. \A i \in 1..Len(c) : g[i] \in Turns
  BY DEF FollowsTurn
<1>2. Len(c) \in Nat /\ DOMAIN c = 1..Len(c)
  OBVIOUS
<1>3. SubSeq(g, 1, Len(c)) = g /\ Len(g) = Len(c) /\ DOMAIN g = 1..Len(c) /\ g \in Seq(Turns)
  BY <1>1, <1>2, Tabulated
<1> QED BY <1>2, <1>3 DEF FollowsAll

\* A text may become another text, or a pointer.
LEMMA TextFollows ==
    ASSUME NEW p \in TextParts, NEW q \in TextParts \union PointerParts
    PROVE  Follows(q, p)
<1>1. p.kind = "text"
  BY DEF TextParts
<1>2. q.kind = "text" \/ q.kind = "pointer"
  BY DEF TextParts, PointerParts
<1>3. q \in AllParts
  BY DEF AllParts
<1> QED BY <1>1, <1>2, <1>3 DEF Follows, Exchanged

\* An elided part is the same part in another form, or as it was.
LEMMA ElideFollows ==
    ASSUME NEW p \in AllParts, p.kind \in {"text", "call", "response"},
           NEW form \in Forms, NEW disk \in BOOLEAN
    PROVE  Follows(Elide(p, form, disk), p)
<1> DEFINE q == [p EXCEPT !.shown = Append(@, form)]
<1>1. CASE p.kind = "text"
  <2>1. p \in TextParts
    BY <1>1, PartKinds
  <2>2. q \in TextParts
    BY <2>1 DEF TextParts
  <2>3. Follows(q, p)
    BY <2>1, <2>2, TextFollows
  <2> QED BY <2>3, FollowsSelf DEF Elide
<1>2. CASE p.kind = "call"
  <2>1. p \in CallParts
    BY <1>2, PartKinds
  <2>2. q \in CallParts /\ q.kind = p.kind /\ q.name = p.name /\ q.key = p.key
    BY <2>1 DEF CallParts
  <2>3. Follows(q, p)
    BY <1>2, <2>2 DEF Follows, Exchanged, AllParts
  <2> QED BY <2>3, FollowsSelf DEF Elide
<1>3. CASE p.kind = "response"
  <2>1. p \in ResponseParts
    BY <1>3, PartKinds
  <2>2. q \in ResponseParts /\ q.kind = p.kind /\ q.name = p.name /\ q.key = p.key
    BY <2>1 DEF ResponseParts
  <2>3. Follows(q, p)
    BY <1>3, <2>2 DEF Follows, Exchanged, AllParts
  <2> QED BY <2>3, FollowsSelf DEF Elide
<1> QED BY <1>1, <1>2, <1>3

\* A set of places has a smallest one.
LEMMA MinOfPlaces ==
    ASSUME NEW n \in Nat, NEW places \in SUBSET (1..n), places # {}
    PROVE  Min(places) \in places /\ \A k \in places : Min(places) <= k
<1>1. Cardinality(places) \in 0..n
  BY Places
<1>2. IsFiniteSet(places)
  BY BelowGrows
<1>3. Cardinality(places) # 0
  BY <1>2, FS_EmptySet
<1>4. 1 \in 1..Cardinality(places)
  BY <1>1, <1>3
<1> DEFINE k == NthPlace(places, 1)
<1>5. k \in places
  BY <1>4, Places
<1>6. \A h \in places : \E m \in 1..Cardinality(places) : NthPlace(places, m) = h
  BY Places
<1>7. \A m, l \in 1..Cardinality(places) : m < l => NthPlace(places, m) < NthPlace(places, l)
  BY Places
<1>8. ASSUME NEW h \in places PROVE k <= h
  <2>1. PICK m \in 1..Cardinality(places) : NthPlace(places, m) = h
    BY <1>6
  <2>2. CASE m = 1
    BY <1>5, <2>1, <2>2
  <2>3. CASE m # 1
    <3>1. 1 < m
      BY <2>3
    <3>2. k < h
      BY <1>4, <1>7, <2>1, <3>1
    <3>3. k \in Nat /\ h \in Nat
      <4>1. \A x \in places : x \in Nat
        OBVIOUS
      <4> QED BY <1>5, <4>1
    <3> HIDE DEF k
    <3> QED BY <3>2, <3>3
  <2> QED BY <2>2, <2>3
<1> HIDE DEF k
<1>9. \E h \in places : \A l \in places : h <= l
  BY <1>5, <1>8
<1> QED BY <1>9 DEF Min

-------------------------------------------------------------------------------
(* The stages that change parts in place (environment.go, toolresult.go, dedup.go). *)

\* A snapshot that is collapsed is still a text.
LEMMA CollapseFollows ==
    ASSUME NEW c \in Seq(Turns), NEW knobs \in Knobs
    PROVE  FollowsAll(CollapseEnvBlocks(c, knobs), c)
<1> DEFINE Change(i, j) ==
              LET p == c[i].parts[j] IN
              IF p.kind = "text" /\ p.env = "snapshot" THEN [p EXCEPT !.env = "collapsed"] ELSE p
           Touched(i) == knobs.env /\ IsUser(c[i]) /\ i # LastUserTurn(c)
           Map(i) == [j \in 1..Len(c[i].parts) |-> Change(i, j)]
           g == [i \in 1..Len(c) |->
                   IF Touched(i) THEN Turn(c[i].role, SubSeq(Map(i), 1, Len(c[i].parts)))
                   ELSE c[i]]
<1>1. CollapseEnvBlocks(c, knobs) = SubSeq(g, 1, Len(c))
  BY DEF CollapseEnvBlocks, MapParts, Tabulate
<1>2. ASSUME NEW i \in 1..Len(c), NEW j \in 1..Len(c[i].parts)
      PROVE  Follows(Change(i, j), c[i].parts[j])
  <2> DEFINE p == c[i].parts[j]
  <2>c. c[i] \in Turns
    OBVIOUS
  <2>0. c[i].parts \in Seq(AllParts)
    BY <2>c DEF Turns
  <2>1. p \in AllParts
    BY <2>0
  <2> HIDE DEF p
  <2>2. CASE p.kind = "text"
    <3>1. p \in TextParts
      BY <2>1, <2>2, PartKinds
    <3>2. [p EXCEPT !.env = "collapsed"] \in TextParts
      BY <3>1 DEF TextParts
    <3>3. Follows([p EXCEPT !.env = "collapsed"], p)
      BY <3>1, <3>2, TextFollows
    <3> QED BY <2>1, <3>3, FollowsSelf DEF p
  <2> QED BY <2>1, <2>2, FollowsSelf DEF p

<1> HIDE DEF Change, Touched
<1>3. ASSUME NEW i \in 1..Len(c) PROVE FollowsTurn(g[i], c[i])
  <2> DEFINE f == Map(i)
  <2>1. \A j \in 1..Len(c[i].parts) : f[j] = Change(i, j)
    OBVIOUS
  <2>2. FollowsTurn(Turn(c[i].role, SubSeq(f, 1, Len(c[i].parts))), c[i])
    BY <1>2, <2>1, TurnFollows
  <2> QED BY <2>2, SelfFollows
<1>4. g = [i \in 1..Len(c) |-> g[i]]
  OBVIOUS
<1> HIDE DEF g
<1> QED BY <1>1, <1>3, <1>4, AllFollow

\* An oversized output or text is shortened.
LEMMA TruncateFollows ==
    ASSUME NEW c \in Seq(Turns), NEW knobs \in Knobs, NEW disk \in BOOLEAN
    PROVE  FollowsAll(TruncateToolResults(c, knobs, disk), c)
<1> DEFINE Change(i, j) ==
              LET p == c[i].parts[j] IN
              IF \/ p.kind = "response" /\ OutputSize(p) > knobs.resultMax
                 \/ p.kind = "text" /\ TextSize(p) > knobs.resultMax
              THEN Elide(p, ResultForm(p, knobs.retain > 0 /\ Len(c) - i >= knobs.retain + 2, knobs), disk)
              ELSE p
           Touched(i) == knobs.truncate /\ i # Len(c) /\ Len(c) - i >= knobs.retain
           Map(i) == [j \in 1..Len(c[i].parts) |-> Change(i, j)]
           g == [i \in 1..Len(c) |->
                   IF Touched(i) THEN Turn(c[i].role, SubSeq(Map(i), 1, Len(c[i].parts)))
                   ELSE c[i]]
<1>1. TruncateToolResults(c, knobs, disk) = SubSeq(g, 1, Len(c))
  BY DEF TruncateToolResults, MapParts, Tabulate
<1>2. ASSUME NEW i \in 1..Len(c), NEW j \in 1..Len(c[i].parts)
      PROVE  Follows(Change(i, j), c[i].parts[j])
  <2> DEFINE p == c[i].parts[j]
  <2>c. c[i] \in Turns
    OBVIOUS
  <2>0. c[i].parts \in Seq(AllParts)
    BY <2>c DEF Turns
  <2>1. p \in AllParts
    BY <2>0
  <2> HIDE DEF p
  <2>2. \A aggressive : ResultForm(p, aggressive, knobs) \in Forms
    BY DEF ResultForm, Forms
  <2>3. ASSUME p.kind = "response" \/ p.kind = "text", NEW form \in Forms
        PROVE  Follows(Elide(p, form, disk), p)
    BY <2>1, <2>3, ElideFollows
  <2> QED BY <2>1, <2>2, <2>3, FollowsSelf DEF p

<1> HIDE DEF Change, Touched
<1>3. ASSUME NEW i \in 1..Len(c) PROVE FollowsTurn(g[i], c[i])
  <2> DEFINE f == Map(i)
  <2>1. \A j \in 1..Len(c[i].parts) : f[j] = Change(i, j)
    OBVIOUS
  <2>2. FollowsTurn(Turn(c[i].role, SubSeq(f, 1, Len(c[i].parts))), c[i])
    BY <1>2, <2>1, TurnFollows
  <2> QED BY <2>2, SelfFollows
<1>4. g = [i \in 1..Len(c) |-> g[i]]
  OBVIOUS
<1> HIDE DEF g
<1> QED BY <1>1, <1>3, <1>4, AllFollow

\* A written file is elided from its call.
LEMMA WritesFollow ==
    ASSUME NEW c \in Seq(Turns), NEW knobs \in Knobs, NEW disk \in BOOLEAN
    PROVE  FollowsAll(ElideHistoricalWriteActions(c, knobs, disk), c)
<1> DEFINE Change(i, j) ==
              LET p == c[i].parts[j] IN
              IF p.kind = "call" /\ p.name = WriteFile /\ p.shown = <<>>
              THEN Elide(p, "elided", disk) ELSE p
           Touched(i) == /\ knobs.write
                         /\ knobs.writeRetain > 0
                         /\ Len(c) >= 3
                         /\ i # Len(c)
                         /\ Len(c) - i >= knobs.writeRetain
           Map(i) == [j \in 1..Len(c[i].parts) |-> Change(i, j)]
           g == [i \in 1..Len(c) |->
                   IF Touched(i) THEN Turn(c[i].role, SubSeq(Map(i), 1, Len(c[i].parts)))
                   ELSE c[i]]
<1>1. ElideHistoricalWriteActions(c, knobs, disk) = SubSeq(g, 1, Len(c))
  BY DEF ElideHistoricalWriteActions, MapParts, Tabulate
<1>2. ASSUME NEW i \in 1..Len(c), NEW j \in 1..Len(c[i].parts)
      PROVE  Follows(Change(i, j), c[i].parts[j])
  <2> DEFINE p == c[i].parts[j]
  <2>c. c[i] \in Turns
    OBVIOUS
  <2>0. c[i].parts \in Seq(AllParts)
    BY <2>c DEF Turns
  <2>1. p \in AllParts
    BY <2>0
  <2> HIDE DEF p
  <2>2. ASSUME p.kind = "call" PROVE Follows(Elide(p, "elided", disk), p)
    <3>1. "elided" \in Forms
      BY DEF Forms
    <3> QED BY <2>1, <2>2, <3>1, ElideFollows
  <2> QED BY <2>1, <2>2, FollowsSelf DEF p

<1> HIDE DEF Change, Touched
<1>3. ASSUME NEW i \in 1..Len(c) PROVE FollowsTurn(g[i], c[i])
  <2> DEFINE f == Map(i)
  <2>1. \A j \in 1..Len(c[i].parts) : f[j] = Change(i, j)
    OBVIOUS
  <2>2. FollowsTurn(Turn(c[i].role, SubSeq(f, 1, Len(c[i].parts))), c[i])
    BY <1>2, <2>1, TurnFollows
  <2> QED BY <2>2, SelfFollows
<1>4. g = [i \in 1..Len(c) |-> g[i]]
  OBVIOUS
<1> HIDE DEF g
<1> QED BY <1>1, <1>3, <1>4, AllFollow

\* A cold turn keeps its calls and their outputs, summarized.
LEMMA CompactFollows ==
    ASSUME NEW c \in Seq(Turns), NEW knobs \in Knobs, NEW disk \in BOOLEAN
    PROVE  FollowsAll(DeepCompactHistoricalTurns(c, knobs, disk), c)
<1> DEFINE Change(i, j) ==
              DeepCompact(c[i].parts[j], knobs, disk)
           Touched(i) == knobs.deep /\ i <= Len(c) - knobs.keep
           Map(i) == [j \in 1..Len(c[i].parts) |-> Change(i, j)]
           g == [i \in 1..Len(c) |->
                   IF Touched(i) THEN Turn(c[i].role, SubSeq(Map(i), 1, Len(c[i].parts)))
                   ELSE c[i]]
<1>1. DeepCompactHistoricalTurns(c, knobs, disk) = SubSeq(g, 1, Len(c))
  BY DEF DeepCompactHistoricalTurns, MapParts, Tabulate
<1>2. ASSUME NEW i \in 1..Len(c), NEW j \in 1..Len(c[i].parts)
      PROVE  Follows(Change(i, j), c[i].parts[j])
  <2> DEFINE p == c[i].parts[j]
  <2>c. c[i] \in Turns
    OBVIOUS
  <2>0. c[i].parts \in Seq(AllParts)
    BY <2>c DEF Turns
  <2>1. p \in AllParts
    BY <2>0
  <2> HIDE DEF p
  <2>2. ASSUME p.kind = "response" \/ p.kind = "text"
        PROVE  Follows(Elide(p, "summary", disk), p) /\ Follows(Elide(p, "deep", disk), p)
    <3>1. "summary" \in Forms /\ "deep" \in Forms
      BY DEF Forms
    <3> QED BY <2>1, <2>2, <3>1, ElideFollows
  <2>3. Follows(DeepCompact(p, knobs, disk), p)
    BY <2>1, <2>2, FollowsSelf DEF DeepCompact
  <2> QED BY <2>3 DEF p

<1> HIDE DEF Change, Touched
<1>3. ASSUME NEW i \in 1..Len(c) PROVE FollowsTurn(g[i], c[i])
  <2> DEFINE f == Map(i)
  <2>1. \A j \in 1..Len(c[i].parts) : f[j] = Change(i, j)
    OBVIOUS
  <2>2. FollowsTurn(Turn(c[i].role, SubSeq(f, 1, Len(c[i].parts))), c[i])
    BY <1>2, <2>1, TurnFollows
  <2> QED BY <2>2, SelfFollows
<1>4. g = [i \in 1..Len(c) |-> g[i]]
  OBVIOUS
<1> HIDE DEF g
<1> QED BY <1>1, <1>3, <1>4, AllFollow

\* A text that was said before becomes a pointer.
LEMMA ReplayedFollow ==
    ASSUME NEW c \in Seq(Turns), NEW knobs \in Knobs
    PROVE  FollowsAll(DedupReplayedBlocks(c, knobs), c)
<1> DEFINE Change(i, j) ==
              LET p == c[i].parts[j]
                  Twins == {k \in {h \in 1..i : c[h].role = c[i].role} :
                               \E m \in DOMAIN c[k].parts :
                                  /\ Before(<<k, m>>, <<i, j>>)
                                  /\ c[k].parts[m] = c[i].parts[j]}
              IN IF (p.kind = "text" /\ TextSize(p) >= knobs.dedupMin) /\ Twins # {}
                 THEN Pointer(Min(Twins), p) ELSE p
           Touched(i) == knobs.dedup /\ Len(c) >= 2
           Map(i) == [j \in 1..Len(c[i].parts) |-> Change(i, j)]
           g == [i \in 1..Len(c) |->
                   IF Touched(i) THEN Turn(c[i].role, SubSeq(Map(i), 1, Len(c[i].parts)))
                   ELSE c[i]]
<1>1. DedupReplayedBlocks(c, knobs) = SubSeq(g, 1, Len(c))
  BY DEF DedupReplayedBlocks, MapParts, Tabulate
<1>2. ASSUME NEW i \in 1..Len(c), NEW j \in 1..Len(c[i].parts)
      PROVE  Follows(Change(i, j), c[i].parts[j])
  <2> DEFINE p == c[i].parts[j]
  <2>c. c[i] \in Turns
    OBVIOUS
  <2>0. c[i].parts \in Seq(AllParts)
    BY <2>c DEF Turns
  <2>1. p \in AllParts
    BY <2>0
  <2> HIDE DEF p
  <2> DEFINE Twins == {k \in {h \in 1..i : c[h].role = c[i].role} :
                          \E m \in DOMAIN c[k].parts :
                             /\ Before(<<k, m>>, <<i, j>>)
                             /\ c[k].parts[m] = c[i].parts[j]}
  <2>2. Twins \subseteq 1..i /\ i \in Nat
    OBVIOUS
  <2> HIDE DEF Twins
  <2>3. ASSUME p.kind = "text", Twins # {} PROVE Follows(Pointer(Min(Twins), p), p)
    <3>1. p \in TextParts
      BY <2>1, <2>3, PartKinds
    <3>2. Min(Twins) \in 1..i
      BY <2>2, <2>3, MinOfPlaces
    <3>3. Min(Twins) \in Nat
      BY <2>2, <3>2
    <3>4. Pointer(Min(Twins), p) \in PointerParts
      BY <3>1, <3>3 DEF Pointer, PointerParts
    <3> QED BY <3>1, <3>4, TextFollows
  <2> QED BY <2>1, <2>3, FollowsSelf DEF p, Twins

<1> HIDE DEF Change, Touched
<1>3. ASSUME NEW i \in 1..Len(c) PROVE FollowsTurn(g[i], c[i])
  <2> DEFINE f == Map(i)
  <2>1. \A j \in 1..Len(c[i].parts) : f[j] = Change(i, j)
    OBVIOUS
  <2>2. FollowsTurn(Turn(c[i].role, SubSeq(f, 1, Len(c[i].parts))), c[i])
    BY <1>2, <2>1, TurnFollows
  <2> QED BY <2>2, SelfFollows
<1>4. g = [i \in 1..Len(c) |-> g[i]]
  OBVIOUS
<1> HIDE DEF g
<1> QED BY <1>1, <1>3, <1>4, AllFollow

\* A text that embeds a pasted block refers to its turn.
LEMMA SubstringsFollow ==
    ASSUME NEW c \in Seq(Turns), NEW knobs \in Knobs
    PROVE  FollowsAll(DedupSubstringBlocks(c, knobs), c)
<1> DEFINE Change(i, j) ==
              LET p == c[i].parts[j]
                  Sources == {k \in {h \in 1..i : c[h].role = c[i].role} :
                                 \E m \in DOMAIN c[k].parts :
                                    /\ Before(<<k, m>>, <<i, j>>)
                                    /\ (IsBareBlock(c[k].parts[m])
                                          /\ TextSize(c[k].parts[m]) >= knobs.dedupMin)
                                    /\ Embeds(c[i].parts[j], c[k].parts[m])}
              IN IF p.kind = "text" /\ p.block # NoBlock /\ Sources # {}
                 THEN [p EXCEPT !.at = Min(Sources)] ELSE p
           Touched(i) == knobs.substring /\ Len(c) >= 2
           Map(i) == [j \in 1..Len(c[i].parts) |-> Change(i, j)]
           g == [i \in 1..Len(c) |->
                   IF Touched(i) THEN Turn(c[i].role, SubSeq(Map(i), 1, Len(c[i].parts)))
                   ELSE c[i]]
<1>1. DedupSubstringBlocks(c, knobs) = SubSeq(g, 1, Len(c))
  BY DEF DedupSubstringBlocks, MapParts, Tabulate
<1>2. ASSUME NEW i \in 1..Len(c), NEW j \in 1..Len(c[i].parts)
      PROVE  Follows(Change(i, j), c[i].parts[j])
  <2> DEFINE p == c[i].parts[j]
  <2>c. c[i] \in Turns
    OBVIOUS
  <2>0. c[i].parts \in Seq(AllParts)
    BY <2>c DEF Turns
  <2>1. p \in AllParts
    BY <2>0
  <2> HIDE DEF p
  <2> DEFINE Sources == {k \in {h \in 1..i : c[h].role = c[i].role} :
                            \E m \in DOMAIN c[k].parts :
                               /\ Before(<<k, m>>, <<i, j>>)
                               /\ (IsBareBlock(c[k].parts[m])
                                     /\ TextSize(c[k].parts[m]) >= knobs.dedupMin)
                               /\ Embeds(c[i].parts[j], c[k].parts[m])}
  <2>2. Sources \subseteq 1..i /\ i \in Nat
    OBVIOUS
  <2> HIDE DEF Sources
  <2>3. ASSUME p.kind = "text", Sources # {} PROVE Follows([p EXCEPT !.at = Min(Sources)], p)
    <3>1. p \in TextParts
      BY <2>1, <2>3, PartKinds
    <3>2. Min(Sources) \in 1..i
      BY <2>2, <2>3, MinOfPlaces
    <3>3. Min(Sources) \in Nat
      BY <2>2, <3>2
    <3>4. [p EXCEPT !.at = Min(Sources)] \in TextParts
      BY <3>1, <3>3 DEF TextParts
    <3> QED BY <3>1, <3>4, TextFollows
  <2> QED BY <2>1, <2>3, FollowsSelf DEF p, Sources

<1> HIDE DEF Change, Touched
<1>3. ASSUME NEW i \in 1..Len(c) PROVE FollowsTurn(g[i], c[i])
  <2> DEFINE f == Map(i)
  <2>1. \A j \in 1..Len(c[i].parts) : f[j] = Change(i, j)
    OBVIOUS
  <2>2. FollowsTurn(Turn(c[i].role, SubSeq(f, 1, Len(c[i].parts))), c[i])
    BY <1>2, <2>1, TurnFollows
  <2> QED BY <2>2, SelfFollows
<1>4. g = [i \in 1..Len(c) |-> g[i]]
  OBVIOUS
<1> HIDE DEF g
<1> QED BY <1>1, <1>3, <1>4, AllFollow

\* Two places that follow each other have none between them.
LEMMA AdjacentPlaces ==
    ASSUME NEW n \in Nat, NEW places \in SUBSET (1..n),
           NEW m \in 1..(Cardinality(places) - 1)
    PROVE  LET p == NthPlace(places, m)
               q == NthPlace(places, m + 1)
           IN /\ p \in places /\ q \in places /\ p < q
              /\ \A x \in places : ~(p < x /\ x < q)
<1> DEFINE N == Cardinality(places)
           p == NthPlace(places, m)
           q == NthPlace(places, m + 1)
<1>1. N \in Nat
  <2>1. Cardinality(places) \in 0..n
    BY Places
  <2> QED BY <2>1
<1>2. m \in 1..N /\ m + 1 \in 1..N /\ m < m + 1
  BY <1>1
<1>3. p \in places /\ q \in places /\ p < q
  BY <1>2, Places
<1>4. ASSUME NEW x \in places, p < x, x < q PROVE FALSE
  <2>1. PICK l \in 1..N : NthPlace(places, l) = x
    BY Places
  <2>2. l \in Nat /\ m \in Nat /\ p \in Nat /\ q \in Nat /\ x \in Nat
    <3>1. \A y \in places : y \in Nat
      OBVIOUS
    <3> HIDE DEF p, q
    <3> QED BY <1>3, <3>1
  <2>3. CASE l < m
    <3>1. x < p
      BY <1>2, <2>1, <2>3, Places
    <3> HIDE DEF p, q
    <3> QED BY <1>4, <2>2, <3>1
  <2>4. CASE l = m
    BY <1>4, <2>1, <2>2, <2>4
  <2>5. CASE l = m + 1
    BY <1>4, <2>1, <2>2, <2>5
  <2>6. CASE m + 1 < l
    <3>1. q < x
      BY <1>2, <2>1, <2>6, Places
    <3> HIDE DEF p, q
    <3> QED BY <1>4, <2>2, <3>1
  <2>7. l < m \/ l = m \/ l = m + 1 \/ m + 1 < l
    BY <2>2
  <2> QED BY <2>3, <2>4, <2>5, <2>6, <2>7
<1> QED BY <1>3, <1>4

\* The largest number, if it is a place, is the last one.
LEMMA LastPlace ==
    ASSUME NEW n \in Nat, NEW places \in SUBSET (1..n), n \in places
    PROVE  /\ Cardinality(places) \in 1..n
           /\ NthPlace(places, Cardinality(places)) = n
<1> DEFINE N == Cardinality(places)
<1>1. N \in 0..n
  BY Places
<1>2. PICK l \in 1..N : NthPlace(places, l) = n
  BY Places
<1>3. N \in 1..N /\ N \in 1..n
  BY <1>1, <1>2
<1>4. NthPlace(places, N) \in places
  BY <1>3, Places
<1>5. CASE l = N
  BY <1>2, <1>3, <1>5
<1>6. CASE l # N
  <2>1. l < N
    BY <1>1, <1>6
  <2>2. n < NthPlace(places, N)
    BY <1>2, <1>3, <2>1, Places
  <2> DEFINE q == NthPlace(places, N)
  <2>3. q \in 1..n
    BY <1>4
  <2> HIDE DEF q, N
  <2>4. ~(n < q)
    BY <2>3
  <2> QED BY <2>2, <2>4 DEF q
<1> QED BY <1>3, <1>5, <1>6

-------------------------------------------------------------------------------
(* Conversations. *)

Calls(t) == OfKind(t, "call")
Responses(t) == OfKind(t, "response")

\* Turns whose roles alternate, up to one of the user.
Talk(d) ==
    /\ d \in Seq(Turns) /\ d # <<>>
    /\ \A i \in DOMAIN d : d[i].parts # <<>>
    /\ \A i \in 1..(Len(d) - 1) : d[i].role # d[i + 1].role
    /\ IsUser(d[Len(d)])

\* The keys of the calls that were answered.
Answered(c) ==
    {key \in Keys : \E i \in DOMAIN c : \E j \in Responses(c[i]) : c[i].parts[j].key = key}

\* What a turn m, with calls or not, and the next one say of each other.
Paired(m, n, keys) ==
    /\ OfKind(m, "dummy") = {} /\ OfKind(n, "dummy") = {}
    /\ \A j, l \in Calls(m) : m.parts[j].key = m.parts[l].key => j = l
    /\ \A j, l \in Responses(n) : n.parts[j].key = n.parts[l].key => j = l
    /\ \A j \in Calls(m) : m.parts[j].key \in keys =>
          \E l \in Responses(n) : n.parts[l].key = m.parts[j].key
    /\ \A l \in Responses(n) : n.parts[l].key \in keys
    /\ \A j \in Calls(m), l \in Responses(n) :
          m.parts[j].name = n.parts[l].name => m.parts[j].key = n.parts[l].key
    /\ Calls(m) \union OfKind(m, "pruned") = {} => Responses(n) = {}

AllPaired(d, keys) == \A i \in 1..(Len(d) - 1) : IsModel(d[i]) => Paired(d[i], d[i + 1], keys)

\* The conversation as client and gateway build it up.
Conversation(c) ==
    /\ c \in Seq(Turns)
    /\ \A i \in DOMAIN c : c[i].parts # <<>> /\ OfKind(c[i], "dummy") = {}
    /\ \A i \in 1..(Len(c) - 1) : c[i].role # c[i + 1].role
    /\ \A i \in DOMAIN c : \A j \in Calls(c[i]) : IsModel(c[i]) /\ c[i].parts[j].key = <<i, j>>
    /\ \A i \in DOMAIN c : \A j \in Responses(c[i]) :
          i > 1 /\ \E l \in Calls(c[i - 1]) : c[i].parts[j].key = <<i - 1, l>>
    /\ \A i \in DOMAIN c : \A j, l \in Responses(c[i]) :
          c[i].parts[j].key = c[i].parts[l].key => j = l
    /\ \A i \in 1..(Len(c) - 1) : Calls(c[i]) # {} => ~Scolds(c[i + 1], Scoldings)

\* With IDs, names tell calls and responses of different keys apart.
NamesApart(c) ==
    \A i \in 1..(Len(c) - 1) : \A j \in Calls(c[i]), l \in Responses(c[i + 1]) :
        c[i].parts[j].name = c[i + 1].parts[l].name
          => c[i].parts[j].key = c[i + 1].parts[l].key

\* Each turn of the model and the next one tell of the same calls.
LEMMA ConversationPairs ==
    ASSUME NEW c, Conversation(c), NamesApart(c)
    PROVE  \A i \in 1..(Len(c) - 1) : Paired(c[i], c[i + 1], Answered(c))
<1> SUFFICES ASSUME NEW i \in 1..(Len(c) - 1)
             PROVE  Paired(c[i], c[i + 1], Answered(c))
  OBVIOUS
<1> DEFINE R == Answered(c)
<1>1. Len(c) \in Nat /\ DOMAIN c = 1..Len(c)
  BY DEF Conversation
<1>2. i \in DOMAIN c /\ i + 1 \in DOMAIN c /\ i + 1 > 1 /\ (i + 1) - 1 = i /\ i \in Nat
  BY <1>1
<1>3. \A k \in DOMAIN c : \A j \in Calls(c[k]) : c[k].parts[j].key = <<k, j>>
  BY DEF Conversation
<1>4. \A k \in DOMAIN c : \A j \in Responses(c[k]) :
          k > 1 /\ \E l \in Calls(c[k - 1]) : c[k].parts[j].key = <<k - 1, l>>
  BY DEF Conversation
<1>5. \A k \in DOMAIN c : \A j \in Responses(c[k]) : c[k].parts[j].key \in R
  <2> SUFFICES ASSUME NEW k \in DOMAIN c, NEW j \in Responses(c[k])
               PROVE  c[k].parts[j].key \in Keys
    BY DEF Answered
  <2>1. c[k] \in Turns
    BY DEF Conversation
  <2>2. c[k].parts \in Seq(AllParts)
    BY <2>1 DEF Turns
  <2>3. c[k].parts[j] \in AllParts /\ c[k].parts[j].kind = "response"
    BY <2>2 DEF Responses, OfKind
  <2>4. c[k].parts[j] \in ResponseParts
    BY <2>3, PartKinds
  <2> QED BY <2>4 DEF ResponseParts
<1>6. OfKind(c[i], "dummy") = {} /\ OfKind(c[i + 1], "dummy") = {}
  BY <1>2 DEF Conversation
<1>7. \A j, l \in Calls(c[i]) : c[i].parts[j].key = c[i].parts[l].key => j = l
  BY <1>2, <1>3
<1>8. \A j, l \in Responses(c[i + 1]) : c[i + 1].parts[j].key = c[i + 1].parts[l].key => j = l
  BY <1>2 DEF Conversation
<1>9. ASSUME NEW j \in Calls(c[i]), c[i].parts[j].key \in R
      PROVE  \E l \in Responses(c[i + 1]) : c[i + 1].parts[l].key = c[i].parts[j].key
  <2>1. c[i].parts[j].key = <<i, j>>
    BY <1>2, <1>3
  <2>2. PICK k \in DOMAIN c : \E l \in Responses(c[k]) : c[k].parts[l].key = <<i, j>>
    BY <1>9, <2>1 DEF Answered
  <2>3. PICK l \in Responses(c[k]) : c[k].parts[l].key = <<i, j>>
    BY <2>2
  <2>4. PICK h \in Calls(c[k - 1]) : c[k].parts[l].key = <<k - 1, h>>
    BY <1>4
  <2>5. k - 1 = i
    BY <2>3, <2>4
  <2>6. k = i + 1
    BY <1>1, <1>2, <2>5
  <2> QED BY <2>1, <2>3, <2>6
<1>10. \A j \in Calls(c[i]), l \in Responses(c[i + 1]) :
          c[i].parts[j].name = c[i + 1].parts[l].name
            => c[i].parts[j].key = c[i + 1].parts[l].key
  BY DEF NamesApart
<1>11. Calls(c[i]) = {} => Responses(c[i + 1]) = {}
  BY <1>2, <1>4
<1> QED BY <1>2, <1>5, <1>6, <1>7, <1>8, <1>9, <1>10, <1>11 DEF Paired

-------------------------------------------------------------------------------
(* Dropping repeated scoldings (loopbreak.go). *)

\* A turn and the next one that is kept: nothing was dropped between them, or
\* an old scolding follows the turn and the last turn dropped made no call.
LEMMA KeptNext ==
    ASSUME NEW c \in Seq(Turns), Talk(c),
           NEW p \in DOMAIN c, NEW q \in DOMAIN c, p < q,
           IsKept(c, p), IsKept(c, q),
           \A x \in DOMAIN c : p < x /\ x < q => ~IsKept(c, x)
    PROVE  /\ c[p].role # c[q].role
           /\ q = p + 1 \/ (/\ IsModel(c[p]) /\ IsUser(c[q]) /\ q - 1 \in DOMAIN c
                            /\ p + 1 \in DOMAIN c /\ Scolds(c[p + 1], Scoldings)
                            /\ Calls(c[q - 1]) = {})
<1>1. Len(c) \in Nat /\ DOMAIN c = 1..Len(c) /\ p \in Nat /\ q \in Nat /\ p + 1 \in DOMAIN c
  OBVIOUS
<1>2. \A i \in DOMAIN c : IsUser(c[i]) \/ IsModel(c[i])
  <2>1. \A i \in DOMAIN c : c[i] \in Turns
    OBVIOUS
  <2> QED BY <2>1 DEF Turns, Roles, IsUser, IsModel
<1>3. \A i \in 1..(Len(c) - 1) : c[i].role # c[i + 1].role
  BY DEF Talk
<1>4. \A i \in DOMAIN c : IsDropped(c, i) => i > 1 /\ IsUser(c[i]) /\ Scolds(c[i], Scoldings) /\ i < Len(c)
  <2> SUFFICES ASSUME NEW i \in DOMAIN c, IsDropped(c, i)
               PROVE  i > 1 /\ IsUser(c[i]) /\ Scolds(c[i], Scoldings) /\ i < Len(c)
    OBVIOUS
  <2>1. i > 1 /\ (IsNoTool(c[i]) \/ IsTodo(c[i])) /\ \E k \in DOMAIN c : k > i
    BY DEF IsDropped, IsOldScolding
  <2>2. i < Len(c)
    BY <1>1, <2>1
  <2>3. Scolds(c[i], Scoldings)
    BY <2>1 DEF IsNoTool, IsTodo, Scolds, Scoldings
  <2> QED BY <2>1, <2>2, <2>3 DEF Scolds
<1>5. CASE q = p + 1
  <2>1. p \in 1..(Len(c) - 1)
    BY <1>1, <1>5
  <2> QED BY <1>3, <1>5, <2>1
<1>6. CASE q # p + 1
  <2>1. p + 1 < q /\ p + 1 > 1 /\ (p + 1) - 1 = p
    BY <1>1, <1>6
  <2>2. ~IsKept(c, p + 1)
    BY <1>1, <2>1
  <2>3. ~IsDropped(c, p)
    BY DEF IsKept
  <2>4. IsDropped(c, p + 1)
    BY <2>1, <2>2, <2>3 DEF IsKept
  <2>5. IsUser(c[p + 1]) /\ Scolds(c[p + 1], Scoldings)
    BY <1>1, <1>4, <2>4
  <2>6. IsModel(c[p])
    <3>1. p \in 1..(Len(c) - 1)
      BY <1>1, <2>1
    <3>2. c[p].role # c[p + 1].role
      BY <1>3, <3>1
    <3> QED BY <1>2, <2>5, <3>2 DEF IsUser, IsModel
  <2>7. q - 1 \in DOMAIN c /\ q - 1 > 1 /\ p < q - 1 /\ q - 1 < q /\ (q - 1) + 1 = q
    BY <1>1, <2>1
  <2>8. ~IsDropped(c, q - 1) /\ ~IsDropped(c, q)
    <3>1. q > 1
      BY <1>1
    <3> QED BY <3>1 DEF IsKept
  <2>9. ~IsKept(c, q - 1)
    BY <2>7
  <2>10. IsDropped(c, (q - 1) - 1)
    BY <2>7, <2>8, <2>9 DEF IsKept
  <2>11. (q - 1) - 1 \in DOMAIN c /\ ((q - 1) - 1) + 1 = q - 1 /\ (q - 1) - 1 < Len(c)
         /\ q - 1 \in 1..(Len(c) - 1) /\ (q - 1) - 1 \in 1..(Len(c) - 1)
    BY <1>1, <2>7
  <2>12. IsUser(c[(q - 1) - 1]) /\ Calls(c[q - 1]) = {}
    <3>1. Calls(c[((q - 1) - 1) + 1]) = {}
      BY <2>10, <2>11 DEF IsDropped, Calls
    <3> QED BY <1>4, <2>10, <2>11, <3>1
  <2>13. IsModel(c[q - 1])
    <3>1. c[(q - 1) - 1].role # c[q - 1].role
      BY <1>3, <2>11
    <3> QED BY <1>2, <2>7, <2>12, <3>1 DEF IsUser, IsModel
  <2>14. IsUser(c[q])
    <3>1. c[q - 1].role # c[q].role
      BY <1>3, <2>7, <2>11
    <3> QED BY <1>2, <2>13, <3>1 DEF IsUser, IsModel
  <2>15. c[p].role # c[q].role
    BY <2>6, <2>14 DEF IsUser, IsModel
  <2> QED BY <1>1, <2>5, <2>6, <2>7, <2>12, <2>14, <2>15
<1> QED BY <1>5, <1>6

\* Without the repeated scoldings it is still a conversation, in which calls
\* and responses belong together as before.
LEMMA DropPairs ==
    ASSUME NEW c, Talk(c)
    PROVE  LET d == DropRepeatedScoldings(c)
           IN /\ Talk(d)
              /\ Conversation(c) /\ NamesApart(c) => AllPaired(d, Answered(c))
<1> DEFINE n == Len(c)
           K == {i \in DOMAIN c : IsKept(c, i)}
           N == Cardinality(K)
           d == DropRepeatedScoldings(c)
<1>1. c \in Seq(Turns) /\ n \in Nat /\ DOMAIN c = 1..n /\ n \in DOMAIN c
  BY DEF Talk
<1>2. K \in SUBSET (1..n)
  BY <1>1
<1>3. /\ d \in Seq({c[k] : k \in K}) /\ Len(d) = N /\ DOMAIN d = 1..N
      /\ \A m \in 1..N : d[m] = c[NthPlace(K, m)]
  <2>1. d = ElementsAt(c, K)
    BY DEF DropRepeatedScoldings
  <2> HIDE DEF d, K
  <2>2. n \in Nat /\ K \in SUBSET (1..n)
    BY <1>1, <1>2
  <2> HIDE DEF n
  <2>3. LET chosen == ElementsAt(c, K)
        IN /\ chosen \in Seq({c[k] : k \in K})
           /\ Len(chosen) = N /\ DOMAIN chosen = 1..N
           /\ \A m \in 1..N : chosen[m] = c[NthPlace(K, m)]
    BY <2>2, ElementsChosen, Zenon
  <2> QED BY <2>1, <2>3
<1>4. n \in K
  <2>1. ~IsDropped(c, n)
    BY <1>1 DEF IsDropped, IsOldScolding
  <2>2. n > 1 => ~IsDropped(c, n - 1)
    <3> SUFFICES ASSUME n > 1, IsDropped(c, n - 1) PROVE FALSE
      OBVIOUS
    <3>1. IsUser(c[n - 1])
      BY DEF IsDropped, IsOldScolding, IsNoTool, IsTodo, Scolds
    <3>2. n - 1 \in 1..(Len(c) - 1) /\ (n - 1) + 1 = n
      BY <1>1
    <3>3. c[n - 1].role # c[n].role
      <4>1. \A i \in 1..(Len(c) - 1) : c[i].role # c[i + 1].role
        BY DEF Talk
      <4> QED BY <3>2, <4>1
    <3> QED BY <3>1, <3>3 DEF Talk, IsUser
  <2> QED BY <1>1, <2>1, <2>2 DEF IsKept
<1>5. N \in 1..n /\ NthPlace(K, N) = n /\ N \in Nat
  <2>1. N \in 1..n /\ NthPlace(K, N) = n
    <3> HIDE DEF K
    <3> QED BY <1>1, <1>2, <1>4, LastPlace
  <2> QED BY <2>1
<1>6. ASSUME NEW m \in 1..(N - 1)
      PROVE  LET p == NthPlace(K, m)
                 q == NthPlace(K, m + 1)
             IN /\ d[m] = c[p] /\ d[m + 1] = c[q] /\ p \in DOMAIN c /\ q \in DOMAIN c
                /\ c[p].role # c[q].role
                /\ q = p + 1 \/ (/\ IsModel(c[p]) /\ IsUser(c[q]) /\ q - 1 \in DOMAIN c
                                 /\ p + 1 \in DOMAIN c /\ Scolds(c[p + 1], Scoldings)
                                 /\ Calls(c[q - 1]) = {})
  <2> DEFINE p == NthPlace(K, m)
             q == NthPlace(K, m + 1)
  <2>1. p \in K /\ q \in K /\ p < q /\ \A x \in K : ~(p < x /\ x < q)
    <3> HIDE DEF K
    <3> QED BY <1>1, <1>2, AdjacentPlaces
  <2>2. m \in 1..N /\ m + 1 \in 1..N
    BY <1>5
  <2>3. d[m] = c[p] /\ d[m + 1] = c[q]
    BY <1>3, <2>2
  <2> HIDE DEF p, q
  <2>4. p \in DOMAIN c /\ q \in DOMAIN c /\ IsKept(c, p) /\ IsKept(c, q)
        /\ \A x \in DOMAIN c : p < x /\ x < q => ~IsKept(c, x)
    BY <2>1
  <2> QED BY <1>1, <2>1, <2>3, <2>4, KeptNext DEF p, q
<1> HIDE DEF d
<1>7. Talk(d)
  <2>1. d # <<>>
    BY <1>3, <1>5
  <2>2. \A i \in DOMAIN d : d[i] \in Turns /\ d[i].parts # <<>>
    <3> SUFFICES ASSUME NEW i \in DOMAIN d PROVE d[i] \in Turns /\ d[i].parts # <<>>
      OBVIOUS
    <3>1. d[i] \in {c[k] : k \in K}
      BY <1>3
    <3>2. PICK k \in DOMAIN c : d[i] = c[k]
      BY <3>1
    <3> QED BY <1>1, <3>2 DEF Talk
  <2>3. d \in Seq(Turns)
    <3>1. {c[k] : k \in K} \subseteq Turns
      BY <1>1
    <3> HIDE DEF K
    <3> QED BY <1>3, <3>1
  <2>4. \A i \in 1..(Len(d) - 1) : d[i].role # d[i + 1].role
    <3> HIDE DEF K
    <3> QED BY <1>3, <1>6
  <2>5. IsUser(d[Len(d)])
    <3>1. IsUser(c[n])
      BY DEF Talk
    <3> HIDE DEF n, K, N
    <3>2. d[Len(d)] = c[n]
      BY <1>3, <1>5
    <3> QED BY <3>1, <3>2
  <2> QED BY <2>1, <2>2, <2>3, <2>4, <2>5 DEF Talk
<1>8. ASSUME Conversation(c), NamesApart(c), NEW m \in 1..(Len(d) - 1), IsModel(d[m])
      PROVE  Paired(d[m], d[m + 1], Answered(c))
  <2> DEFINE p == NthPlace(K, m)
             q == NthPlace(K, m + 1)
  <2>1. m \in 1..(N - 1)
    BY <1>3, <1>8
  <2>2. /\ d[m] = c[p] /\ d[m + 1] = c[q] /\ p \in DOMAIN c /\ q \in DOMAIN c
        /\ q = p + 1 \/ (/\ IsModel(c[p]) /\ IsUser(c[q]) /\ q - 1 \in DOMAIN c
                         /\ p + 1 \in DOMAIN c /\ Scolds(c[p + 1], Scoldings)
                         /\ Calls(c[q - 1]) = {})
    <3> HIDE DEF K
    <3> QED BY <1>6, <2>1
  <2> HIDE DEF p, q
  <2>3. CASE q = p + 1
    <3>1. p \in 1..(Len(c) - 1)
      BY <1>1, <2>2, <2>3
    <3> QED BY <1>8, <2>2, <2>3, <3>1, ConversationPairs
  <2>4. CASE q # p + 1
    <3>1. Calls(c[p]) = {}
      <4>1. p \in 1..(Len(c) - 1)
        BY <1>1, <2>2, <2>4
      <4> QED BY <1>8, <2>2, <2>4, <4>1 DEF Conversation
    <3>2. Responses(c[q]) = {}
      <4>1. \A j \in Responses(c[q]) : \E l \in Calls(c[q - 1]) : c[q].parts[j].key = <<q - 1, l>>
        BY <1>8, <2>2 DEF Conversation
      <4> QED BY <2>2, <2>4, <4>1
    <3>3. OfKind(c[p], "dummy") = {} /\ OfKind(c[q], "dummy") = {}
      BY <1>8, <2>2 DEF Conversation
    <3> QED BY <2>2, <3>1, <3>2, <3>3 DEF Paired
  <2> QED BY <2>3, <2>4
<1>9. Conversation(c) /\ NamesApart(c) => AllPaired(d, Answered(c))
  BY <1>8 DEF AllPaired
<1> QED BY <1>7, <1>9 DEF d

-------------------------------------------------------------------------------
(* Cutting (budget.go). *)

\* What follows a turn makes the same calls and has the same responses.
LEMMA FollowsKinds ==
    ASSUME NEW s \in Turns, NEW t, FollowsTurn(t, s)
    PROVE  /\ \A kind \in Exchanged : OfKind(t, kind) = OfKind(s, kind)
           /\ \A j \in Calls(s) \union Responses(s) :
                 t.parts[j].name = s.parts[j].name /\ t.parts[j].key = s.parts[j].key
<1>1. /\ DOMAIN t.parts = DOMAIN s.parts
      /\ \A j \in DOMAIN s.parts : Follows(t.parts[j], s.parts[j])
  BY DEF FollowsTurn
<1>2. ASSUME NEW kind \in Exchanged PROVE OfKind(t, kind) = OfKind(s, kind)
  <2>1. \A j \in DOMAIN s.parts : t.parts[j].kind = kind <=> s.parts[j].kind = kind
    BY <1>1 DEF Follows
  <2> QED BY <1>1, <2>1 DEF OfKind
<1>3. ASSUME NEW j \in Calls(s) \union Responses(s)
      PROVE  t.parts[j].name = s.parts[j].name /\ t.parts[j].key = s.parts[j].key
  <2>1. j \in DOMAIN s.parts /\ s.parts[j].kind \in {"call", "response"}
    BY DEF Calls, Responses, OfKind
  <2> QED BY <1>1, <2>1 DEF Follows
<1> QED BY <1>2, <1>3

\* What stands where it stood tells of the same calls.
LEMMA FollowsPaired ==
    ASSUME NEW m \in Turns, NEW n \in Turns, NEW k, NEW h, NEW keys,
           FollowsTurn(k, m), FollowsTurn(h, n), Paired(m, n, keys)
    PROVE  Paired(k, h, keys)
<1>1. /\ OfKind(k, "dummy") = OfKind(m, "dummy") /\ OfKind(h, "dummy") = OfKind(n, "dummy")
      /\ Calls(k) = Calls(m) /\ Responses(h) = Responses(n)
      /\ OfKind(k, "pruned") = OfKind(m, "pruned")
  BY FollowsKinds DEF Exchanged, Calls, Responses
<1>2. /\ \A j \in Calls(m) : k.parts[j].name = m.parts[j].name /\ k.parts[j].key = m.parts[j].key
      /\ \A j \in Responses(n) : h.parts[j].name = n.parts[j].name /\ h.parts[j].key = n.parts[j].key
  BY FollowsKinds
<1>3. \A j, l \in Calls(m) : m.parts[j].key = m.parts[l].key => j = l
  BY DEF Paired
<1>4. \A j, l \in Responses(n) : n.parts[j].key = n.parts[l].key => j = l
  BY DEF Paired
<1>5. \A j \in Calls(m) : m.parts[j].key \in keys =>
          \E l \in Responses(n) : n.parts[l].key = m.parts[j].key
  BY DEF Paired
<1>6. \A l \in Responses(n) : n.parts[l].key \in keys
  BY DEF Paired
<1>7. \A j \in Calls(m), l \in Responses(n) :
          m.parts[j].name = n.parts[l].name => m.parts[j].key = n.parts[l].key
  BY DEF Paired
<1>8. OfKind(m, "dummy") = {} /\ OfKind(n, "dummy") = {}
      /\ (Calls(m) \union OfKind(m, "pruned") = {} => Responses(n) = {})
  BY DEF Paired
<1>9. \A j, l \in Calls(k) : k.parts[j].key = k.parts[l].key => j = l
  BY <1>1, <1>2, <1>3
<1>10. \A j, l \in Responses(h) : h.parts[j].key = h.parts[l].key => j = l
  BY <1>1, <1>2, <1>4
<1>11. \A j \in Calls(k) : k.parts[j].key \in keys =>
          \E l \in Responses(h) : h.parts[l].key = k.parts[j].key
  BY <1>1, <1>2, <1>5
<1>12. \A l \in Responses(h) : h.parts[l].key \in keys
  BY <1>1, <1>2, <1>6
<1>13. \A j \in Calls(k), l \in Responses(h) :
          k.parts[j].name = h.parts[l].name => k.parts[j].key = h.parts[l].key
  BY <1>1, <1>2, <1>7
<1> QED BY <1>1, <1>8, <1>9, <1>10, <1>11, <1>12, <1>13 DEF Paired

\* The stages that shorten what a turn says change nothing of this.
LEMMA FollowsTalk ==
    ASSUME NEW c, NEW d, Talk(c), FollowsAll(d, c)
    PROVE  Talk(d) /\ \A keys : AllPaired(c, keys) => AllPaired(d, keys)
<1>1. /\ c \in Seq(Turns) /\ d \in Seq(Turns) /\ Len(d) = Len(c) /\ DOMAIN d = DOMAIN c
      /\ DOMAIN c = 1..Len(c) /\ Len(c) \in Nat /\ c # <<>>
  BY DEF Talk, FollowsAll
<1>2. \A i \in DOMAIN c : FollowsTurn(d[i], c[i]) /\ c[i] \in Turns /\ d[i] \in Turns
  BY <1>1 DEF FollowsAll
<1>3. \A i \in DOMAIN c : d[i].role = c[i].role
  BY <1>2 DEF FollowsTurn
<1>4. \A i \in DOMAIN d : d[i].parts # <<>>
  <2> SUFFICES ASSUME NEW i \in DOMAIN c PROVE d[i].parts # <<>>
    BY <1>1
  <2>1. c[i].parts # <<>> /\ c[i].parts \in Seq(AllParts) /\ d[i].parts \in Seq(AllParts)
    BY <1>2 DEF Talk, Turns
  <2>2. Len(d[i].parts) = Len(c[i].parts)
    BY <1>2 DEF FollowsTurn
  <2> QED BY <2>1, <2>2
<1>5. \A i \in 1..(Len(d) - 1) : i \in DOMAIN c /\ i + 1 \in DOMAIN c
  BY <1>1
<1>6. \A i \in 1..(Len(d) - 1) : d[i].role # d[i + 1].role
  BY <1>1, <1>3, <1>5 DEF Talk
<1>7. d # <<>> /\ Len(d) \in DOMAIN c
  <2>1. Len(c) # 0
    BY <1>1
  <2> QED BY <1>1, <2>1
<1>8. IsUser(d[Len(d)])
  BY <1>1, <1>3, <1>7 DEF Talk, IsUser
<1>9. Talk(d)
  BY <1>1, <1>4, <1>6, <1>7, <1>8 DEF Talk
<1>10. ASSUME NEW keys, AllPaired(c, keys), NEW i \in 1..(Len(d) - 1), IsModel(d[i])
       PROVE  Paired(d[i], d[i + 1], keys)
  <2>1. i \in DOMAIN c /\ i + 1 \in DOMAIN c /\ IsModel(c[i]) /\ i \in 1..(Len(c) - 1)
    BY <1>1, <1>3, <1>5, <1>10 DEF IsModel
  <2>2. Paired(c[i], c[i + 1], keys)
    BY <1>10, <2>1 DEF AllPaired
  <2> QED BY <1>2, <2>1, <2>2, FollowsPaired
<1> QED BY <1>9, <1>10 DEF AllPaired

\* The longest suffix that fits is a conversation.
LEMMA SuffixTalk ==
    ASSUME NEW c, Talk(c), NEW from \in 1..Len(c)
    PROVE  LET d == SubSeq(c, from, Len(c))
           IN Talk(d) /\ \A keys : AllPaired(c, keys) => AllPaired(d, keys)
<1> DEFINE n == Len(c)
           d == SubSeq(c, from, n)
<1>1. c \in Seq(Turns) /\ n \in Nat /\ DOMAIN c = 1..n /\ from \in Nat
  BY DEF Talk
<1>2. /\ d \in Seq(Turns) /\ Len(d) = n - from + 1 /\ DOMAIN d = 1..(n - from + 1)
      /\ \A i \in 1..(n - from + 1) : d[i] = c[from + i - 1]
  BY <1>1
<1> HIDE DEF d
<1>3. \A i \in 1..(n - from + 1) : from + i - 1 \in 1..n
  BY <1>1
<1>4. \A i \in 1..(Len(d) - 1) :
          /\ i \in 1..(n - from + 1) /\ i + 1 \in 1..(n - from + 1)
          /\ from + i - 1 \in 1..(n - 1) /\ from + (i + 1) - 1 = (from + i - 1) + 1
  BY <1>1, <1>2
<1>5. Len(d) \in 1..(n - from + 1) /\ from + Len(d) - 1 = n
  BY <1>1, <1>2
<1>6. \A i \in 1..(Len(d) - 1) : d[i] = c[from + i - 1] /\ d[i + 1] = c[(from + i - 1) + 1]
  <2> SUFFICES ASSUME NEW i \in 1..(Len(d) - 1)
               PROVE  d[i] = c[from + i - 1] /\ d[i + 1] = c[(from + i - 1) + 1]
    OBVIOUS
  <2>1. d[i + 1] = c[from + (i + 1) - 1]
    BY <1>2, <1>4
  <2>2. from + (i + 1) - 1 = (from + i - 1) + 1
    BY <1>4
  <2> QED BY <1>2, <1>4, <2>1, <2>2
<1>7. Talk(d)
  <2>1. d # <<>>
    BY <1>2, <1>5
  <2>2. \A i \in DOMAIN d : d[i].parts # <<>>
    BY <1>1, <1>2, <1>3 DEF Talk
  <2>3. \A i \in 1..(Len(d) - 1) : d[i].role # d[i + 1].role
    BY <1>4, <1>6 DEF Talk
  <2>4. IsUser(d[Len(d)])
    BY <1>2, <1>5 DEF Talk
  <2> QED BY <1>2, <2>1, <2>2, <2>3, <2>4 DEF Talk
<1>8. ASSUME NEW keys, AllPaired(c, keys) PROVE AllPaired(d, keys)
  BY <1>4, <1>6, <1>8 DEF AllPaired
<1> QED BY <1>7, <1>8 DEF d

\* TrimContents (budget.go) keeps a suffix, which is a talk.
LEMMA TrimTalk ==
    ASSUME NEW c, Talk(c), NEW sysBytes, NEW knobs
    PROVE  LET d == TrimContents(c, sysBytes, knobs)
           IN Talk(d) /\ \A keys : AllPaired(c, keys) => AllPaired(d, keys)
<1> DEFINE n == Len(c)
           Bytes(from) == SumFunction([i \in from..n |-> ContentBytes(c[i])])
           fitting == {i \in 1..n : sysBytes + Bytes(i) <= knobs.budget}
           start == Min(fitting \union {n})
<1>1. c \in Seq(Turns) /\ c # <<>> /\ n \in Nat /\ n # 0
  BY DEF Talk
<1>2. n \in 1..n
  BY <1>1
<1>3. start \in 1..n
  <2>1. fitting \union {n} \in SUBSET (1..n) /\ fitting \union {n} # {}
    BY <1>2
  <2> HIDE DEF fitting
  <2> QED BY <1>1, <2>1, MinOfPlaces
<1>4. SubSeq(c, n, n) = <<c[n]>>
  <2> DEFINE last == SubSeq(c, n, n)
  <2>1. last \in Seq(Turns) /\ Len(last) = 1 /\ last[1] = c[n]
    BY <1>1, <1>2
  <2> HIDE DEF last
  <2>2. last = <<last[1]>>
    BY <2>1
  <2> QED BY <2>1, <2>2 DEF last
<1>5. TrimContents(c, sysBytes, knobs) = c
      \/ TrimContents(c, sysBytes, knobs) = SubSeq(c, n, n)
      \/ TrimContents(c, sysBytes, knobs) = SubSeq(c, start, n)
  BY <1>4 DEF TrimContents
<1> HIDE DEF start
<1> QED BY <1>2, <1>3, <1>5, SuffixTalk

-------------------------------------------------------------------------------
(* Pruning superseded exchanges (prune_tools.go). *)

\* What is left of part p of turn i of c where turn i of d has q: a response
\* goes only together with a call it is paired with.
PrunedTo(q, p, c, d, i, j, ids) ==
    \/ q = p
    \/ p.kind = "call" /\ q.kind = "pruned"
    \/ /\ p.kind = "response" /\ q.kind = "pruned" /\ i > 1
       /\ \E m \in Calls(c[i - 1]) : /\ d[i - 1].parts[m].kind = "pruned"
                                     /\ PairedResponse(c, i - 1, m, ids) = j
                                     /\ j # 0

\* PruneStaleTools (prune_tools.go) keeps the turns and puts prunings in place of parts.
LEMMA PruneShape ==
    ASSUME NEW c \in Seq(Turns), NEW knobs, knobs.prune \in BOOLEAN, NEW ids
    PROVE  LET d == PruneStaleTools(c, knobs, ids)
           IN /\ d \in Seq(Turns) /\ Len(d) = Len(c)
              /\ \A i \in 1..Len(c) :
                    /\ d[i].role = c[i].role /\ Len(d[i].parts) = Len(c[i].parts)
                    /\ \A j \in 1..Len(c[i].parts) :
                          PrunedTo(d[i].parts[j], c[i].parts[j], c, d, i, j, ids)
<1> DEFINE Change(i, j) ==
              LET p == c[i].parts[j]
                  outdated == Outdates(c, i, j, ids)
              IN IF p.kind = "call" /\ Superseded(c, i, j, ids)
                 THEN Pruned("call", p.name)
                 ELSE IF p.kind = "response" /\ outdated # {}
                 THEN Pruned("output", c[i - 1].parts[Min(outdated)].name)
                 ELSE p
           On == knobs.prune /\ Len(c) >= 3
           Map(i) == [j \in 1..Len(c[i].parts) |-> Change(i, j)]
           g == [i \in 1..Len(c) |->
                   IF On THEN Turn(c[i].role, SubSeq(Map(i), 1, Len(c[i].parts)))
                   ELSE c[i]]
<1>1. PruneStaleTools(c, knobs, ids) = SubSeq(g, 1, Len(c))
  BY DEF PruneStaleTools, MapParts, Tabulate
<1>2. \A i \in 1..Len(c) : /\ c[i] \in Turns /\ c[i].parts \in Seq(AllParts) /\ c[i].role \in Roles
                           /\ Len(c[i].parts) \in Nat
  <2>1. \A i \in 1..Len(c) : c[i] \in Turns
    OBVIOUS
  <2> QED BY <2>1 DEF Turns
<1>3. \A i \in 1..Len(c) : \A j \in 1..Len(c[i].parts) : c[i].parts[j] \in AllParts
  BY <1>2
<1>4. ASSUME NEW i \in 1..Len(c), NEW j, Outdates(c, i, j, ids) # {}
      PROVE  LET m == Min(Outdates(c, i, j, ids))
             IN /\ i > 1 /\ i - 1 \in 1..Len(c) /\ m \in 1..Len(c[i - 1].parts)
                /\ c[i - 1].parts[m].kind = "call" /\ Superseded(c, i - 1, m, ids)
                /\ PairedResponse(c, i - 1, m, ids) = j /\ j # 0
  <2> DEFINE out == Outdates(c, i, j, ids)
  <2>1. i # 1
    BY <1>4 DEF Outdates
  <2>2. i > 1 /\ i - 1 \in 1..Len(c)
    BY <2>1
  <2>3. \A m \in out : /\ m \in DOMAIN c[i - 1].parts /\ Superseded(c, i - 1, m, ids)
                       /\ PairedResponse(c, i - 1, m, ids) = j
    BY DEF Outdates
  <2>4. out \in SUBSET (1..Len(c[i - 1].parts))
    <3>1. DOMAIN c[i - 1].parts = 1..Len(c[i - 1].parts)
      BY <1>2, <2>2
    <3> HIDE DEF out
    <3> QED BY <2>3, <3>1
  <2>5. Min(out) \in out
    <3>1. Len(c[i - 1].parts) \in Nat
      BY <1>2, <2>2
    <3> HIDE DEF out
    <3>2. out # {}
      BY <1>4 DEF out
    <3> QED BY <2>4, <3>1, <3>2, MinOfPlaces
  <2>6. \A m \in out : c[i - 1].parts[m].kind = "call" /\ PairedResponse(c, i - 1, m, ids) # 0
    BY <2>3 DEF Superseded, IsRead
  <2> HIDE DEF out
  <2> QED BY <2>2, <2>3, <2>4, <2>5, <2>6 DEF out
<1>5. ASSUME NEW i \in 1..Len(c), NEW j \in 1..Len(c[i].parts)
      PROVE  Change(i, j) \in AllParts
  <2> DEFINE p == c[i].parts[j]
  <2>1. p \in AllParts
    BY <1>3
  <2>2. ASSUME NEW k \in 1..Len(c), NEW m \in 1..Len(c[k].parts), c[k].parts[m].kind = "call",
               NEW of \in {"call", "output"}
        PROVE  Pruned(of, c[k].parts[m].name) \in AllParts
    <3>1. c[k].parts[m] \in CallParts
      BY <1>3, <2>2, PartKinds
    <3>2. c[k].parts[m].name \in Words
      BY <3>1 DEF CallParts
    <3>3. Pruned(of, c[k].parts[m].name) \in PrunedParts
      BY <3>2 DEF Pruned, PrunedParts
    <3> QED BY <3>3 DEF AllParts
  <2>3. ASSUME p.kind = "call" PROVE Pruned("call", p.name) \in AllParts
    BY <2>2, <2>3
  <2>4. ASSUME Outdates(c, i, j, ids) # {}
        PROVE  Pruned("output", c[i - 1].parts[Min(Outdates(c, i, j, ids))].name) \in AllParts
    BY <1>4, <2>2, <2>4
  <2> QED BY <2>1, <2>3, <2>4
<1>6. ASSUME NEW i \in 1..Len(c)
      PROVE  /\ g[i] \in Turns /\ g[i].role = c[i].role /\ Len(g[i].parts) = Len(c[i].parts)
             /\ \A j \in 1..Len(c[i].parts) :
                   g[i].parts[j] = IF On THEN Change(i, j) ELSE c[i].parts[j]
  <2> DEFINE f == Map(i)
             n == Len(c[i].parts)
  <2>1. n \in Nat /\ c[i] \in Turns /\ c[i].role \in Roles
    BY <1>2
  <2>2. \A j \in 1..n : f[j] = Change(i, j)
    OBVIOUS
  <2>3. \A j \in 1..n : f[j] \in AllParts
    BY <1>5, <2>2
  <2>4. f = [j \in 1..n |-> f[j]]
    OBVIOUS
  <2>5. g[i] = IF On THEN Turn(c[i].role, SubSeq(f, 1, n)) ELSE c[i]
    OBVIOUS
  <2> HIDE DEF f, g, Change, On
  <2>6. SubSeq(f, 1, n) = f /\ Len(f) = n /\ f \in Seq(AllParts)
    BY <2>1, <2>3, <2>4, Tabulated
  <2>7. CASE On
    <3>1. g[i] = Turn(c[i].role, f)
      BY <2>5, <2>6, <2>7
    <3>2. g[i] \in Turns /\ g[i].role = c[i].role /\ g[i].parts = f
      BY <2>1, <2>6, <3>1 DEF Turn, Turns
    <3> QED BY <2>2, <2>6, <2>7, <3>2
  <2>8. CASE ~On
    BY <2>1, <2>5, <2>8
  <2> QED BY <2>7, <2>8
<1>7. /\ SubSeq(g, 1, Len(c)) = g /\ Len(g) = Len(c) /\ g \in Seq(Turns)
  <2>1. g = [i \in 1..Len(c) |-> g[i]] /\ Len(c) \in Nat
    OBVIOUS
  <2> HIDE DEF g
  <2>2. \A i \in 1..Len(c) : g[i] \in Turns
    BY <1>6
  <2> QED BY <2>1, <2>2, Tabulated
<1> HIDE DEF g
<1>8. ASSUME NEW i \in 1..Len(c), NEW j \in 1..Len(c[i].parts)
      PROVE  PrunedTo(g[i].parts[j], c[i].parts[j], c, g, i, j, ids)
  <2> DEFINE p == c[i].parts[j]
             q == g[i].parts[j]
             out == Outdates(c, i, j, ids)
  <2>1. q = IF On THEN Change(i, j) ELSE p
    BY <1>6
  <2>2. CASE ~On
    BY <2>1, <2>2 DEF PrunedTo
  <2>3. CASE On /\ p.kind = "call" /\ Superseded(c, i, j, ids)
    <3>1. q = Pruned("call", p.name)
      BY <2>1, <2>3
    <3> QED BY <2>3, <3>1 DEF PrunedTo, Pruned
  <2>4. CASE On /\ ~(p.kind = "call" /\ Superseded(c, i, j, ids)) /\ p.kind = "response" /\ out # {}
    <3> DEFINE m == Min(out)
    <3>1. /\ i > 1 /\ i - 1 \in 1..Len(c) /\ m \in 1..Len(c[i - 1].parts)
          /\ c[i - 1].parts[m].kind = "call" /\ Superseded(c, i - 1, m, ids)
          /\ PairedResponse(c, i - 1, m, ids) = j /\ j # 0
      BY <1>4, <2>4
    <3>2. q.kind = "pruned"
      BY <2>1, <2>4 DEF Pruned
    <3> HIDE DEF m
    <3>3. g[i - 1].parts[m].kind = "pruned"
      <4>1. g[i - 1].parts[m] = Change(i - 1, m)
        BY <1>6, <2>4, <3>1
      <4>2. Change(i - 1, m) = Pruned("call", c[i - 1].parts[m].name)
        BY <3>1
      <4> QED BY <4>1, <4>2 DEF Pruned
    <3>4. m \in Calls(c[i - 1])
      <4>1. DOMAIN c[i - 1].parts = 1..Len(c[i - 1].parts)
        BY <1>2, <3>1
      <4> QED BY <3>1, <4>1 DEF Calls, OfKind
    <3> QED BY <2>4, <3>1, <3>2, <3>3, <3>4 DEF PrunedTo
  <2>5. CASE On /\ ~(p.kind = "call" /\ Superseded(c, i, j, ids)) /\ ~(p.kind = "response" /\ out # {})
    <3>1. q = p
      BY <2>1, <2>5
    <3> QED BY <3>1 DEF PrunedTo
  <2> QED BY <2>2, <2>3, <2>4, <2>5
<1> HIDE DEF Change, On
<1> QED BY <1>1, <1>6, <1>7, <1>8

\* With IDs a call is paired with a response of its key.
LEMMA PairedByKey ==
    ASSUME NEW c \in Seq(Turns), NEW i \in 1..(Len(c) - 1), NEW j,
           PairedResponse(c, i, j, TRUE) # 0
    PROVE  LET l == PairedResponse(c, i, j, TRUE)
           IN l \in Responses(c[i + 1]) /\ c[i + 1].parts[l].key = c[i].parts[j].key
<1> DEFINE matching == {r \in OfKind(c[i + 1], "response") :
                           c[i + 1].parts[r].key = c[i].parts[j].key}
<1>1. matching # {} /\ PairedResponse(c, i, j, TRUE) = Min(matching)
  BY DEF PairedResponse
<1>2. i + 1 \in 1..Len(c)
  OBVIOUS
<1>3. c[i + 1] \in Turns
  BY <1>2
<1>4. c[i + 1].parts \in Seq(AllParts)
  BY <1>3 DEF Turns
<1>5. matching \in SUBSET (1..Len(c[i + 1].parts)) /\ Len(c[i + 1].parts) \in Nat
  BY <1>4 DEF OfKind
<1>6. \A r \in matching : r \in Responses(c[i + 1]) /\ c[i + 1].parts[r].key = c[i].parts[j].key
  BY DEF Responses
<1> HIDE DEF matching
<1>7. Min(matching) \in matching
  BY <1>1, <1>5, MinOfPlaces
<1> QED BY <1>1, <1>6, <1>7

\* A superseded exchange goes as a whole.
LEMMA PruneTalk ==
    ASSUME NEW c, Talk(c), NEW knobs \in Knobs, NEW ids
    PROVE  LET d == PruneStaleTools(c, knobs, ids)
           IN Talk(d) /\ \A keys : ids = TRUE /\ AllPaired(c, keys) => AllPaired(d, keys)
<1> DEFINE d == PruneStaleTools(c, knobs, ids)
           n == Len(c)
<1>1. c \in Seq(Turns) /\ n \in Nat /\ DOMAIN c = 1..n /\ n # 0 /\ n \in 1..n
  <2>1. c \in Seq(Turns) /\ c # <<>>
    BY DEF Talk
  <2> QED BY <2>1
<1>2. /\ d \in Seq(Turns) /\ Len(d) = n
      /\ \A i \in 1..n :
            /\ d[i].role = c[i].role /\ Len(d[i].parts) = Len(c[i].parts)
            /\ \A j \in 1..Len(c[i].parts) :
                  PrunedTo(d[i].parts[j], c[i].parts[j], c, d, i, j, ids)
  <2>1. knobs.prune \in BOOLEAN
    BY DEF Knobs
  <2> QED BY <1>1, <2>1, PruneShape
<1> HIDE DEF d
<1>3. DOMAIN d = 1..n
  BY <1>2
<1>4. \A i \in 1..n : /\ c[i].parts \in Seq(AllParts) /\ d[i].parts \in Seq(AllParts)
                      /\ DOMAIN c[i].parts = 1..Len(c[i].parts)
                      /\ DOMAIN d[i].parts = DOMAIN c[i].parts
  <2> SUFFICES ASSUME NEW i \in 1..n
               PROVE  /\ c[i].parts \in Seq(AllParts) /\ d[i].parts \in Seq(AllParts)
                      /\ DOMAIN c[i].parts = 1..Len(c[i].parts)
                      /\ DOMAIN d[i].parts = DOMAIN c[i].parts
    OBVIOUS
  <2>1. c[i] \in Turns /\ d[i] \in Turns
    BY <1>1, <1>2, <1>3
  <2>2. c[i].parts \in Seq(AllParts) /\ d[i].parts \in Seq(AllParts)
    BY <2>1 DEF Turns
  <2>3. Len(d[i].parts) = Len(c[i].parts)
    BY <1>2
  <2> QED BY <2>2, <2>3
<1>5. Talk(d)
  <2>1. d # <<>>
    BY <1>1, <1>2
  <2>2. \A i \in DOMAIN d : d[i].parts # <<>>
    <3> SUFFICES ASSUME NEW i \in 1..n PROVE d[i].parts # <<>>
      BY <1>3
    <3>1. c[i].parts # <<>> /\ Len(d[i].parts) = Len(c[i].parts)
      BY <1>1, <1>2 DEF Talk
    <3> QED BY <1>4, <3>1
  <2>3. \A i \in 1..(Len(d) - 1) : d[i].role # d[i + 1].role
    <3>1. \A i \in 1..(n - 1) : i \in 1..n /\ i + 1 \in 1..n /\ c[i].role # c[i + 1].role
      BY <1>1 DEF Talk
    <3> QED BY <1>2, <3>1
  <2>4. IsUser(d[Len(d)])
    BY <1>1, <1>2 DEF Talk, IsUser
  <2> QED BY <1>2, <2>1, <2>2, <2>3, <2>4 DEF Talk
<1>6. ASSUME NEW i \in 1..n
      PROVE  /\ Calls(d[i]) \subseteq Calls(c[i]) /\ Responses(d[i]) \subseteq Responses(c[i])
             /\ OfKind(d[i], "dummy") \subseteq OfKind(c[i], "dummy")
             /\ \A j \in Calls(d[i]) \union Responses(d[i]) : d[i].parts[j] = c[i].parts[j]
             /\ Calls(c[i]) \union OfKind(c[i], "pruned")
                  \subseteq Calls(d[i]) \union OfKind(d[i], "pruned")
  <2>1. \A j \in DOMAIN c[i].parts : PrunedTo(d[i].parts[j], c[i].parts[j], c, d, i, j, ids)
    BY <1>2, <1>4
  <2>2. DOMAIN d[i].parts = DOMAIN c[i].parts
    BY <1>4
  <2>3. \A j \in DOMAIN c[i].parts :
           /\ d[i].parts[j].kind # "pruned" => d[i].parts[j] = c[i].parts[j]
           /\ c[i].parts[j].kind = "call" =>
                 d[i].parts[j].kind = "pruned" \/ d[i].parts[j] = c[i].parts[j]
           /\ c[i].parts[j].kind = "pruned" => d[i].parts[j] = c[i].parts[j]
    BY <2>1 DEF PrunedTo
  <2> QED BY <2>2, <2>3 DEF Calls, Responses, OfKind
<1>7. ASSUME NEW keys, ids = TRUE, AllPaired(c, keys), NEW i \in 1..(Len(d) - 1), IsModel(d[i])
      PROVE  Paired(d[i], d[i + 1], keys)
  <2>1. i \in 1..(n - 1) /\ i \in 1..n /\ i + 1 \in 1..n /\ i + 1 > 1 /\ (i + 1) - 1 = i
    BY <1>1, <1>2
  <2>2. IsModel(c[i])
    BY <1>2, <1>7, <2>1 DEF IsModel
  <2>3. Paired(c[i], c[i + 1], keys)
    BY <1>7, <2>1, <2>2 DEF AllPaired
  <2>4. /\ Calls(d[i]) \subseteq Calls(c[i])
        /\ OfKind(d[i], "dummy") \subseteq OfKind(c[i], "dummy")
        /\ \A j \in Calls(d[i]) : d[i].parts[j] = c[i].parts[j]
        /\ Calls(c[i]) \union OfKind(c[i], "pruned")
             \subseteq Calls(d[i]) \union OfKind(d[i], "pruned")
    BY <1>6, <2>1
  <2>5. /\ Responses(d[i + 1]) \subseteq Responses(c[i + 1])
        /\ OfKind(d[i + 1], "dummy") \subseteq OfKind(c[i + 1], "dummy")
        /\ \A j \in Responses(d[i + 1]) : d[i + 1].parts[j] = c[i + 1].parts[j]
    BY <1>6, <2>1
  <2>6. OfKind(d[i], "dummy") = {} /\ OfKind(d[i + 1], "dummy") = {}
    BY <2>3, <2>4, <2>5 DEF Paired
  <2>7. \A j, l \in Calls(c[i]) : c[i].parts[j].key = c[i].parts[l].key => j = l
    BY <2>3 DEF Paired
  <2>8. \A j, l \in Calls(d[i]) : d[i].parts[j].key = d[i].parts[l].key => j = l
    BY <2>4, <2>7
  <2>9. \A j, l \in Responses(d[i + 1]) : d[i + 1].parts[j].key = d[i + 1].parts[l].key => j = l
    <3>1. \A j, l \in Responses(c[i + 1]) : c[i + 1].parts[j].key = c[i + 1].parts[l].key => j = l
      BY <2>3 DEF Paired
    <3> QED BY <2>5, <3>1
  <2>10. ASSUME NEW j \in Calls(d[i]), d[i].parts[j].key \in keys
         PROVE  \E l \in Responses(d[i + 1]) : d[i + 1].parts[l].key = d[i].parts[j].key
    <3>1. j \in Calls(c[i]) /\ d[i].parts[j] = c[i].parts[j]
      BY <2>4
    <3>2. PICK l \in Responses(c[i + 1]) : c[i + 1].parts[l].key = c[i].parts[j].key
      BY <2>3, <2>10, <3>1 DEF Paired
    <3>3. l \in DOMAIN c[i + 1].parts /\ c[i + 1].parts[l].kind = "response"
      BY DEF Responses, OfKind
    <3>4. PrunedTo(d[i + 1].parts[l], c[i + 1].parts[l], c, d, i + 1, l, ids)
      BY <1>2, <1>4, <2>1, <3>3
    <3>5. ASSUME d[i + 1].parts[l] # c[i + 1].parts[l] PROVE FALSE
      <4>1. PICK m \in Calls(c[i]) : /\ d[i].parts[m].kind = "pruned"
                                     /\ PairedResponse(c, i, m, TRUE) = l /\ l # 0
        BY <1>7, <2>1, <3>3, <3>4, <3>5 DEF PrunedTo
      <4>2. c[i + 1].parts[l].key = c[i].parts[m].key
        BY <1>1, <2>1, <4>1, PairedByKey
      <4>3. m = j
        BY <2>7, <3>1, <3>2, <4>2
      <4> QED BY <3>1, <4>1, <4>3 DEF Calls, OfKind
    <3>6. l \in Responses(d[i + 1])
      BY <1>4, <2>1, <3>3, <3>5 DEF Responses, OfKind
    <3> QED BY <3>1, <3>2, <3>5, <3>6
  <2>11. \A l \in Responses(d[i + 1]) : d[i + 1].parts[l].key \in keys
    BY <2>3, <2>5 DEF Paired
  <2>12. \A j \in Calls(d[i]), l \in Responses(d[i + 1]) :
            d[i].parts[j].name = d[i + 1].parts[l].name
              => d[i].parts[j].key = d[i + 1].parts[l].key
    <3>1. \A j \in Calls(c[i]), l \in Responses(c[i + 1]) :
             c[i].parts[j].name = c[i + 1].parts[l].name
               => c[i].parts[j].key = c[i + 1].parts[l].key
      BY <2>3 DEF Paired
    <3> TAKE j \in Calls(d[i]), l \in Responses(d[i + 1])
    <3>2. j \in Calls(c[i]) /\ d[i].parts[j] = c[i].parts[j]
      BY <2>4
    <3>3. l \in Responses(c[i + 1]) /\ d[i + 1].parts[l] = c[i + 1].parts[l]
      BY <2>5
    <3> QED BY <3>1, <3>2, <3>3
  <2>13. Calls(d[i]) \union OfKind(d[i], "pruned") = {} => Responses(d[i + 1]) = {}
    <3>1. Calls(c[i]) \union OfKind(c[i], "pruned") = {} => Responses(c[i + 1]) = {}
      BY <2>3 DEF Paired
    <3> QED BY <2>4, <2>5, <3>1
  <2> QED BY <2>6, <2>8, <2>9, <2>10, <2>11, <2>12, <2>13 DEF Paired
<1>8. \A keys : ids = TRUE /\ AllPaired(c, keys) => AllPaired(d, keys)
  BY <1>7 DEF AllPaired
<1> QED BY <1>5, <1>8 DEF d

-------------------------------------------------------------------------------
(* Alignment (align.go). *)

\* Alignment hands out responses part by part of the model turn.
GivenById(acc, p) == AlignPart(acc, p, TRUE)
GivenByName(acc, p) == AlignPart(acc, p, FALSE)
ById == INSTANCE FoldLemmas WITH Op <- GivenById
ByName == INSTANCE FoldLemmas WITH Op <- GivenByName

Given(base, parts, ids) ==
    FoldLeft(LAMBDA acc, p : AlignPart(acc, p, ids), base, parts)

\* Alignment is a fold over the turn's parts: one part after the other.
LEMMA GivenPartByPart ==
    ASSUME NEW ids \in BOOLEAN, NEW base, NEW B, NEW parts \in Seq(B), NEW p \in B
    PROVE  /\ Given(base, <<>>, ids) = base
           /\ Given(base, Append(parts, p), ids) = AlignPart(Given(base, parts, ids), p, ids)
<1>1. CASE ids = TRUE
  <2>1. \A seq : Given(base, seq, TRUE) = ById!Folded(base, seq)
    BY DEF Given, ById!Folded, FoldLeft, MapThenFoldSet, ById!FoldLeft, ById!MapThenFoldSet,
           Max, ById!Max, GivenById
  <2>2. ById!Folded(base, <<>>) = base
    BY ById!FoldEmpty
  <2>3. ById!Folded(base, Append(parts, p)) = GivenById(ById!Folded(base, parts), p)
    BY ById!FoldAppend
  <2>4. \A acc : GivenById(acc, p) = AlignPart(acc, p, TRUE)
    BY DEF GivenById
  <2> QED BY <1>1, <2>1, <2>2, <2>3, <2>4
<1>2. CASE ids = FALSE
  <2>1. \A seq : Given(base, seq, FALSE) = ByName!Folded(base, seq)
    BY DEF Given, ByName!Folded, FoldLeft, MapThenFoldSet, ByName!FoldLeft, ByName!MapThenFoldSet,
           Max, ByName!Max, GivenByName
  <2>2. ByName!Folded(base, <<>>) = base
    BY ByName!FoldEmpty
  <2>3. ByName!Folded(base, Append(parts, p)) = GivenByName(ByName!Folded(base, parts), p)
    BY ByName!FoldAppend
  <2>4. \A acc : GivenByName(acc, p) = AlignPart(acc, p, FALSE)
    BY DEF GivenByName
  <2> QED BY <1>2, <2>1, <2>2, <2>3, <2>4
<1> QED BY <1>1, <1>2

\* Taking one response out leaves the others.
LEMMA Removed ==
    ASSUME NEW S, NEW s \in Seq(S), NEW r \in 1..Len(s)
    PROVE  /\ RemoveAt(s, r) \in Seq(S) /\ Len(RemoveAt(s, r)) = Len(s) - 1
           /\ \A i \in 1..(Len(s) - 1) : RemoveAt(s, r)[i] = IF i < r THEN s[i] ELSE s[i + 1]
<1> DEFINE a == SubSeq(s, 1, r - 1)
           b == SubSeq(s, r + 1, Len(s))
<1>1. /\ a \in Seq(S) /\ Len(a) = r - 1 /\ \A i \in 1..(r - 1) : a[i] = s[i]
  OBVIOUS
<1>2. /\ b \in Seq(S) /\ Len(b) = Len(s) - r /\ \A i \in 1..(Len(s) - r) : b[i] = s[r + i]
  OBVIOUS
<1>3. RemoveAt(s, r) = a \o b
  BY DEF RemoveAt
<1> HIDE DEF a, b
<1>4. a \o b \in Seq(S) /\ Len(a \o b) = Len(s) - 1
  <2>1. a \in Seq(S) /\ b \in Seq(S)
    BY <1>1, <1>2
  <2>2. a \o b \in Seq(S) /\ Len(a \o b) = Len(a) + Len(b)
    BY <2>1
  <2> QED BY <1>1, <1>2, <2>2
<1>5. ASSUME NEW i \in 1..(Len(s) - 1) PROVE (a \o b)[i] = IF i < r THEN s[i] ELSE s[i + 1]
  <2>1. CASE i < r
    <3>1. i \in 1..(r - 1) /\ i \in 1..Len(a)
      BY <1>1, <2>1
    <3> QED BY <1>1, <1>2, <2>1, <3>1
  <2>2. CASE ~(i < r)
    <3>1. i - (r - 1) \in 1..(Len(s) - r) /\ r + (i - (r - 1)) = i + 1
          /\ i \in (Len(a) + 1)..(Len(a) + Len(b))
      BY <1>1, <1>2, <2>2
    <3>2. (a \o b)[i] = b[i - Len(a)]
      <4>1. i \in 1..(Len(a) + Len(b)) /\ ~(i <= Len(a))
        BY <1>1, <1>2, <3>1
      <4>2. \A k \in 1..(Len(a) + Len(b)) :
               (a \o b)[k] = IF k <= Len(a) THEN a[k] ELSE b[k - Len(a)]
        BY <1>1, <1>2, ConcatProperties
      <4> QED BY <4>1, <4>2
    <3> QED BY <1>1, <1>2, <2>2, <3>1, <3>2
  <2> QED BY <2>1, <2>2
<1> QED BY <1>3, <1>4, <1>5

Accs == [built : Seq(AllParts), responses : Seq(ResponseParts), pruned : Seq(PrunedParts)]

\* What one part of the model turn adds: a call a response that is left or a
\* dummy, a pruned call a placeholder, anything else nothing.
LEMMA AlignPartCases ==
    ASSUME NEW acc \in Accs, NEW p \in AllParts, NEW ids \in BOOLEAN
    PROVE  LET a == AlignPart(acc, p, ids)
               fits == Candidates(p, acc.responses, ids)
               r == Min(fits)
           IN /\ a \in Accs
              /\ p.kind = "call" /\ fits # {} =>
                    /\ r \in fits /\ r \in 1..Len(acc.responses)
                    /\ a.built = Append(acc.built, acc.responses[r])
                    /\ a.responses = RemoveAt(acc.responses, r)
              /\ p.kind = "call" /\ fits = {} =>
                    a.built = Append(acc.built, Dummy(p)) /\ a.responses = acc.responses
              /\ p.kind = "pruned" =>
                    /\ \E q \in PrunedParts : a.built = Append(acc.built, q)
                    /\ a.responses = acc.responses
              /\ p.kind \notin {"call", "pruned"} => a = acc
<1> DEFINE fits == Candidates(p, acc.responses, ids)
           r == Min(fits)
           a == AlignPart(acc, p, ids)
<1>1. /\ acc.built \in Seq(AllParts) /\ acc.responses \in Seq(ResponseParts)
      /\ acc.pruned \in Seq(PrunedParts)
      /\ acc = [built |-> acc.built, responses |-> acc.responses, pruned |-> acc.pruned]
  BY DEF Accs
<1>2. fits \in SUBSET (1..Len(acc.responses))
  <2>1. DOMAIN acc.responses = 1..Len(acc.responses)
    BY <1>1
  <2> QED BY <2>1 DEF Candidates
<1>3. ResponseParts \subseteq AllParts /\ PrunedParts \subseteq AllParts /\ DummyParts \subseteq AllParts
  BY DEF AllParts
<1>4. CASE p.kind = "call" /\ fits # {}
  <2>0. Len(acc.responses) \in Nat
    BY <1>1
  <2>1. r \in fits /\ r \in 1..Len(acc.responses)
    <3> HIDE DEF fits
    <3> QED BY <1>2, <1>4, <2>0, MinOfPlaces
  <2>2. a = [acc EXCEPT !.built = Append(@, acc.responses[r]),
                        !.responses = RemoveAt(@, r)]
    BY <1>4 DEF AlignPart
  <2> HIDE DEF r, a, fits
  <2>3. /\ a.built = Append(acc.built, acc.responses[r])
        /\ a.responses = RemoveAt(acc.responses, r) /\ a.pruned = acc.pruned
        /\ a = [built |-> a.built, responses |-> a.responses, pruned |-> a.pruned]
    BY <1>1, <2>2
  <2>4. acc.responses[r] \in AllParts
    BY <1>1, <1>3, <2>1
  <2>5. a.built \in Seq(AllParts) /\ a.responses \in Seq(ResponseParts)
    BY <1>1, <2>1, <2>3, <2>4, Removed
  <2>6. a \in Accs
    BY <1>1, <2>3, <2>5 DEF Accs
  <2> QED BY <1>4, <2>1, <2>3, <2>6 DEF r, a, fits
<1>5. CASE p.kind = "call" /\ fits = {}
  <2>1. a = [acc EXCEPT !.built = Append(@, Dummy(p))]
    BY <1>5 DEF AlignPart
  <2>2. p \in CallParts
    BY <1>5, PartKinds
  <2>3. Dummy(p) \in DummyParts
    BY <2>2 DEF Dummy, CallParts, DummyParts
  <2> HIDE DEF r, a, fits
  <2>4. /\ a.built = Append(acc.built, Dummy(p))
        /\ a.responses = acc.responses /\ a.pruned = acc.pruned
        /\ a = [built |-> a.built, responses |-> a.responses, pruned |-> a.pruned]
    BY <1>1, <2>1
  <2>5. a.built \in Seq(AllParts)
    BY <1>1, <1>3, <2>3, <2>4
  <2>6. a \in Accs
    BY <1>1, <2>4, <2>5 DEF Accs
  <2> QED BY <1>5, <2>4, <2>6 DEF r, a, fits
<1>6. CASE p.kind = "pruned"
  <2>1. p \in PrunedParts
    BY <1>6, PartKinds
  <2>2. CASE acc.pruned = <<>>
    <3> DEFINE q == Pruned("output", p.name)
    <3>1. a = [acc EXCEPT !.built = Append(@, q)]
      BY <1>6, <2>2 DEF AlignPart
    <3>2. q \in PrunedParts
      BY <2>1 DEF Pruned, PrunedParts
    <3> HIDE DEF q, a, fits
    <3>3. /\ a.built = Append(acc.built, q) /\ a.responses = acc.responses /\ a.pruned = acc.pruned
          /\ a = [built |-> a.built, responses |-> a.responses, pruned |-> a.pruned]
      BY <1>1, <3>1
    <3>4. a.built \in Seq(AllParts)
      BY <1>1, <1>3, <3>2, <3>3
    <3>5. a \in Accs
      BY <1>1, <3>3, <3>4 DEF Accs
    <3> QED BY <1>6, <3>2, <3>3, <3>5 DEF a, fits
  <2>3. CASE acc.pruned # <<>>
    <3> DEFINE q == Head(acc.pruned)
    <3>1. a = [acc EXCEPT !.built = Append(@, q), !.pruned = Tail(@)]
      BY <1>6, <2>3 DEF AlignPart
    <3>2. q \in PrunedParts /\ Tail(acc.pruned) \in Seq(PrunedParts)
      BY <1>1, <2>3
    <3> HIDE DEF q, a, fits
    <3>3. /\ a.built = Append(acc.built, q) /\ a.responses = acc.responses
          /\ a.pruned = Tail(acc.pruned)
          /\ a = [built |-> a.built, responses |-> a.responses, pruned |-> a.pruned]
      BY <1>1, <3>1
    <3>4. a.built \in Seq(AllParts)
      BY <1>1, <1>3, <3>2, <3>3
    <3>5. a \in Accs
      BY <1>1, <3>2, <3>3, <3>4 DEF Accs
    <3> QED BY <1>6, <3>2, <3>3, <3>5 DEF a, fits
  <2> QED BY <2>2, <2>3
<1>7. CASE p.kind # "call" /\ p.kind # "pruned"
  <2>1. a = acc
    BY <1>7 DEF AlignPart
  <2> QED BY <1>7, <2>1
<1> HIDE DEF a, fits
<1> QED BY <1>4, <1>5, <1>6, <1>7 DEF a, fits

\* The first parts of a turn.
LEMMA PartByPart ==
    ASSUME NEW B, NEW parts \in Seq(B)
    PROVE  /\ SubSeq(parts, 1, 0) = <<>> /\ SubSeq(parts, 1, Len(parts)) = parts
           /\ \A l \in Nat : l + 1 <= Len(parts) =>
                 /\ SubSeq(parts, 1, l) \in Seq(B) /\ parts[l + 1] \in B
                 /\ SubSeq(parts, 1, l + 1) = Append(SubSeq(parts, 1, l), parts[l + 1])
<1>1. SubSeq(parts, 1, 0) = <<>> /\ SubSeq(parts, 1, Len(parts)) = parts
  OBVIOUS
<1>2. ASSUME NEW l \in Nat, l + 1 <= Len(parts)
      PROVE  /\ SubSeq(parts, 1, l) \in Seq(B) /\ parts[l + 1] \in B
             /\ SubSeq(parts, 1, l + 1) = Append(SubSeq(parts, 1, l), parts[l + 1])
  <2> DEFINE short == SubSeq(parts, 1, l)
             long == SubSeq(parts, 1, l + 1)
  <2>1. /\ short \in Seq(B) /\ Len(short) = l /\ \A i \in 1..l : short[i] = parts[i]
    BY <1>2
  <2>2. /\ long \in Seq(B) /\ Len(long) = l + 1 /\ \A i \in 1..(l + 1) : long[i] = parts[i]
    BY <1>2
  <2>3. parts[l + 1] \in B
    BY <1>2
  <2> HIDE DEF short, long
  <2> DEFINE e == parts[l + 1]
  <2>4. Append(short, e) \in Seq(B) /\ Len(Append(short, e)) = l + 1
        /\ Append(short, e)[l + 1] = e /\ \A i \in 1..l : Append(short, e)[i] = short[i]
    <3> HIDE DEF e
    <3> QED BY <2>1, <2>3 DEF e
  <2>5. \A i \in 1..(l + 1) : long[i] = Append(short, e)[i]
    <3> SUFFICES ASSUME NEW i \in 1..(l + 1) PROVE long[i] = Append(short, e)[i]
      OBVIOUS
    <3>1. i \in 1..l \/ i = l + 1
      OBVIOUS
    <3> QED BY <2>1, <2>2, <2>4, <3>1
  <2>6. long = Append(short, e)
    <3> DEFINE other == Append(short, e)
    <3>1. other \in Seq(B) /\ Len(other) = Len(long)
      BY <2>2, <2>4
    <3> HIDE DEF other
    <3>2. \A i \in 1..Len(long) : long[i] = other[i]
      BY <2>2, <2>5 DEF other
    <3>3. long = other
      BY <2>2, <3>1, <3>2, SeqEqual
    <3> QED BY <3>3 DEF other
  <2> QED BY <2>1, <2>3, <2>6 DEF short, long, e
<1> QED BY <1>1, <1>2

Start(n) ==
    [built |-> Plain(n),
     responses |-> ElementsAt(n.parts, OfKind(n, "response")),
     pruned |-> ElementsAt(n.parts, OfKind(n, "pruned"))]

\* Before the first part nothing but the texts is there.
LEMMA StartOf ==
    ASSUME NEW n \in Turns
    PROVE  /\ Start(n) \in Accs
           /\ OfKind(n, "dummy") = {} =>
                \A j \in DOMAIN Start(n).built :
                   Start(n).built[j].kind # "response" /\ Start(n).built[j].kind # "dummy"
           /\ \A r \in DOMAIN Start(n).responses : \E l \in Responses(n) :
                 Start(n).responses[r] = n.parts[l]
           /\ \A l \in Responses(n) : \E r \in DOMAIN Start(n).responses :
                 Start(n).responses[r] = n.parts[l]
           /\ (\A j, l \in Responses(n) : n.parts[j].key = n.parts[l].key => j = l) =>
                \A r, s \in DOMAIN Start(n).responses :
                   Start(n).responses[r].key = Start(n).responses[s].key => r = s
<1> DEFINE len == Len(n.parts)
           texts == {j \in DOMAIN n.parts : n.parts[j].kind \notin {"response", "pruned"}}
           R == OfKind(n, "response")
           P == OfKind(n, "pruned")
           res == ElementsAt(n.parts, R)
           prs == ElementsAt(n.parts, P)
           txt == ElementsAt(n.parts, texts)
<1>1. n.parts \in Seq(AllParts) /\ len \in Nat /\ DOMAIN n.parts = 1..len
  BY DEF Turns
<1>2. texts \in SUBSET (1..len) /\ R \in SUBSET (1..len) /\ P \in SUBSET (1..len)
  BY <1>1 DEF OfKind
<1>3. \A k \in 1..len : n.parts[k] \in AllParts
  BY <1>1
<1>4. /\ \A k \in R : n.parts[k] \in ResponseParts
      /\ \A k \in P : n.parts[k] \in PrunedParts
  BY <1>1, <1>3, PartKinds DEF OfKind
<1>t. \A k \in texts : n.parts[k] \in AllParts /\ n.parts[k].kind # "response"
  BY <1>1, <1>3
<1>d. OfKind(n, "dummy") = {} => \A k \in texts : n.parts[k].kind # "dummy"
  BY DEF OfKind
<1>s. Start(n).built = txt /\ Start(n).responses = res /\ Start(n).pruned = prs
      /\ Start(n) = [built |-> txt, responses |-> res, pruned |-> prs]
  BY DEF Start, Plain
<1> HIDE DEF texts, R, P
<1>e. ASSUME NEW places \in SUBSET (1..len)
      PROVE  LET chosen == ElementsAt(n.parts, places)
             IN /\ chosen \in Seq({n.parts[k] : k \in places})
                /\ Len(chosen) = Cardinality(places) /\ DOMAIN chosen = 1..Cardinality(places)
                /\ \A m \in 1..Cardinality(places) : chosen[m] = n.parts[NthPlace(places, m)]
  <2>1. len \in Nat
    BY <1>1
  <2> HIDE DEF len
  <2> QED BY <2>1, ElementsChosen, Zenon
<1>5. /\ res \in Seq({n.parts[k] : k \in R}) /\ DOMAIN res = 1..Cardinality(R)
      /\ \A m \in 1..Cardinality(R) : res[m] = n.parts[NthPlace(R, m)]
  BY <1>2, <1>e, Zenon
<1>6. /\ txt \in Seq({n.parts[k] : k \in texts}) /\ DOMAIN txt = 1..Cardinality(texts)
      /\ \A m \in 1..Cardinality(texts) : txt[m] = n.parts[NthPlace(texts, m)]
  BY <1>2, <1>e, Zenon
<1>7. prs \in Seq({n.parts[k] : k \in P})
  BY <1>2, <1>e, Zenon
<1>8. /\ \A m \in 1..Cardinality(R) : NthPlace(R, m) \in R
      /\ \A k \in R : \E m \in 1..Cardinality(R) : NthPlace(R, m) = k
      /\ \A m, l \in 1..Cardinality(R) : m < l => NthPlace(R, m) < NthPlace(R, l)
      /\ Cardinality(R) \in 0..len
      /\ \A m \in 1..Cardinality(texts) : NthPlace(texts, m) \in texts
  BY <1>1, <1>2, Places
<1> HIDE DEF res, prs, txt
<1>9. txt \in Seq(AllParts) /\ res \in Seq(ResponseParts) /\ prs \in Seq(PrunedParts)
  <2>1. {n.parts[k] : k \in R} \subseteq ResponseParts
    BY <1>4
  <2>2. {n.parts[k] : k \in P} \subseteq PrunedParts
    BY <1>4
  <2>3. {n.parts[k] : k \in texts} \subseteq AllParts
    BY <1>t
  <2> QED BY <1>5, <1>6, <1>7, <2>1, <2>2, <2>3
<1>10. Start(n) \in Accs
  BY <1>s, <1>9 DEF Accs
<1>11. ASSUME OfKind(n, "dummy") = {}, NEW j \in DOMAIN txt
       PROVE  txt[j].kind # "response" /\ txt[j].kind # "dummy"
  <2>1. txt[j] = n.parts[NthPlace(texts, j)] /\ NthPlace(texts, j) \in texts
    BY <1>6, <1>8, <1>11
  <2> QED BY <1>t, <1>d, <1>11, <2>1
<1>12. R = Responses(n)
  BY DEF R, Responses
<1>13. \A r \in DOMAIN res : \E l \in R : res[r] = n.parts[l]
  BY <1>5, <1>8
<1>14. \A l \in R : \E r \in DOMAIN res : res[r] = n.parts[l]
  BY <1>5, <1>8
<1>15. ASSUME \A j, l \in R : n.parts[j].key = n.parts[l].key => j = l,
              NEW r \in DOMAIN res, NEW s \in DOMAIN res, res[r].key = res[s].key
       PROVE  r = s
  <2>1. /\ res[r] = n.parts[NthPlace(R, r)] /\ res[s] = n.parts[NthPlace(R, s)]
        /\ NthPlace(R, r) \in R /\ NthPlace(R, s) \in R
        /\ r \in 1..Cardinality(R) /\ s \in 1..Cardinality(R)
    BY <1>5, <1>8
  <2>2. NthPlace(R, r) = NthPlace(R, s)
    BY <1>15, <2>1
  <2> DEFINE x == NthPlace(R, r)
             y == NthPlace(R, s)
  <2>3. (r < s => x < y) /\ (s < r => y < x)
    BY <1>8, <2>1
  <2>4. x \in Nat /\ y \in Nat /\ r \in Nat /\ s \in Nat
    <3>1. x \in 1..len /\ y \in 1..len
      BY <1>2, <2>1
    <3> HIDE DEF x, y
    <3> QED BY <2>1, <3>1
  <2>5. x = y
    BY <2>2
  <2> HIDE DEF x, y
  <2> QED BY <2>3, <2>4, <2>5
<1> QED BY <1>s, <1>10, <1>11, <1>12, <1>13, <1>14, <1>15

\* However responses are found, calls and pruned calls are not left without a
\* part of the answer.
LEMMA GivenShape ==
    ASSUME NEW ids \in BOOLEAN, NEW base \in Accs, NEW parts \in Seq(AllParts)
    PROVE  /\ Given(base, parts, ids) \in Accs
           /\ (\E j \in DOMAIN parts : parts[j].kind \in {"call", "pruned"})
                => Given(base, parts, ids).built # <<>>
<1> DEFINE Acc(l) == Given(base, SubSeq(parts, 1, l), ids)
           Done(l) == /\ Acc(l) \in Accs
                      /\ (\E j \in 1..l : parts[j].kind \in {"call", "pruned"})
                           => Acc(l).built # <<>>
           S == {l \in Nat : l <= Len(parts) => Done(l)}
<1>1. 0 \in S
  <2>0. SubSeq(parts, 1, 0) = <<>>
    BY PartByPart
  <2>g. Given(base, <<>>, ids) = base
    <3>1. <<>> \in Seq(Nat) /\ 0 \in Nat
      OBVIOUS
    <3> QED BY <3>1, GivenPartByPart
  <2>1. Acc(0) = base
    BY <2>0, <2>g
  <2> HIDE DEF Acc
  <2> QED BY <2>1
<1>2. ASSUME NEW l \in Nat, l \in S PROVE l + 1 \in S
  <2> SUFFICES ASSUME l + 1 <= Len(parts) PROVE Done(l + 1)
    OBVIOUS
  <2> DEFINE p == parts[l + 1]
  <2>1. /\ SubSeq(parts, 1, l) \in Seq(AllParts) /\ p \in AllParts
        /\ SubSeq(parts, 1, l + 1) = Append(SubSeq(parts, 1, l), p)
    BY PartByPart
  <2>2. Acc(l + 1) = AlignPart(Acc(l), p, ids)
    <3> DEFINE front == SubSeq(parts, 1, l)
    <3>1. front \in Seq(AllParts) /\ Acc(l + 1) = Given(base, Append(front, p), ids)
          /\ Acc(l) = Given(base, front, ids)
      BY <2>1
    <3> HIDE DEF front, p, Acc
    <3>2. Given(base, Append(front, p), ids) = AlignPart(Given(base, front, ids), p, ids)
      BY <2>1, <3>1, GivenPartByPart
    <3> QED BY <3>1, <3>2
  <2>3. l <= Len(parts)
    OBVIOUS
  <2>4. Done(l)
    BY <1>2, <2>3
  <2> HIDE DEF p, Acc
  <2> DEFINE old == Acc(l)
             new == Acc(l + 1)
             fits == Candidates(p, old.responses, ids)
  <2>5. new = AlignPart(old, p, ids)
    BY <2>2
  <2>6. /\ old \in Accs
        /\ (\E j \in 1..l : parts[j].kind \in {"call", "pruned"}) => old.built # <<>>
    BY <2>4
  <2> HIDE DEF old, new
  <2>7. /\ new \in Accs
        /\ p.kind = "call" /\ fits # {} =>
              /\ Min(fits) \in 1..Len(old.responses)
              /\ new.built = Append(old.built, old.responses[Min(fits)])
        /\ p.kind = "call" /\ fits = {} => new.built = Append(old.built, Dummy(p))
        /\ p.kind = "pruned" => \E q \in PrunedParts : new.built = Append(old.built, q)
        /\ p.kind \notin {"call", "pruned"} => new = old
    BY <2>1, <2>5, <2>6, AlignPartCases
  <2> HIDE DEF fits
  <2>8. old.built \in Seq(AllParts)
    BY <2>6 DEF Accs
  <2>9. ASSUME NEW q PROVE Append(old.built, q) # <<>>
    <3> DEFINE built == old.built
    <3>1. built \in Seq(AllParts \union {q}) /\ q \in AllParts \union {q}
      BY <2>8
    <3> HIDE DEF built
    <3>2. Len(Append(built, q)) = Len(built) + 1 /\ Len(built) \in Nat
      BY <3>1
    <3>3. Len(<<>>) = 0
      OBVIOUS
    <3>4. Append(built, q) # <<>>
      BY <3>2, <3>3
    <3> QED BY <3>4 DEF built
  <2>10. p.kind \in {"call", "pruned"} => new.built # <<>>
    BY <2>7, <2>9
  <2>11. ASSUME NEW j \in 1..(l + 1), parts[j].kind \in {"call", "pruned"} PROVE new.built # <<>>
    <3>1. CASE j = l + 1
      BY <2>10, <2>11, <3>1 DEF p
    <3>2. CASE j # l + 1
      <4>1. j \in 1..l
        BY <3>2
      <4>2. old.built # <<>>
        BY <2>6, <2>11, <4>1
      <4>3. p.kind \notin {"call", "pruned"} => new.built # <<>>
        BY <2>7, <4>2
      <4> QED BY <2>10, <4>3
    <3> QED BY <3>1, <3>2
  <2>12. Done(l + 1)
    BY <2>7, <2>11 DEF new
  <2> QED BY <2>12
<1>3. Len(parts) \in S
  <2> HIDE DEF S
  <2>1. Len(parts) \in Nat
    OBVIOUS
  <2> QED BY <1>1, <1>2, <2>1, Steps!SetInduction
<1>4. Done(Len(parts))
  BY <1>3
<1>5. Acc(Len(parts)) = Given(base, parts, ids)
  BY PartByPart
<1>6. DOMAIN parts = 1..Len(parts)
  OBVIOUS
<1> HIDE DEF Acc
<1> QED BY <1>4, <1>5, <1>6

\* The responses and dummies of a part of the answer.
AnswerPlaces(built) == {j \in DOMAIN built : built[j].kind \in {"response", "dummy"}}

\* Each call with a key in done has one answer, a dummy only if its key is not
\* in keys.
Once(built, done, keys) ==
    /\ \A j \in AnswerPlaces(built) : built[j].key \in done
    /\ \A j, l \in AnswerPlaces(built) : built[j].key = built[l].key => j = l
    /\ \A key \in done : \E j \in AnswerPlaces(built) : built[j].key = key
    /\ \A j \in AnswerPlaces(built) : built[j].kind = "dummy" => built[j].key \notin keys

\* With the calls of done answered, the other responses of n are still there.
Handed(acc, n, done, keys) ==
    /\ acc \in Accs
    /\ \A r \in DOMAIN acc.responses :
          acc.responses[r].key \notin done /\ \E l \in Responses(n) : acc.responses[r] = n.parts[l]
    /\ \A r, s \in DOMAIN acc.responses : acc.responses[r].key = acc.responses[s].key => r = s
    /\ \A l \in Responses(n) : n.parts[l].key \notin done =>
          \E r \in DOMAIN acc.responses : acc.responses[r] = n.parts[l]
    /\ Once(acc.built, done, keys)

\* An answer that is added.
LEMMA AnswerAdded ==
    ASSUME NEW built \in Seq(AllParts), NEW q \in AllParts, NEW done, NEW keys,
           Once(built, done, keys)
    PROVE  /\ q.kind \notin {"response", "dummy"} => Once(Append(built, q), done, keys)
           /\ (/\ q.kind \in {"response", "dummy"} /\ q.key \notin done
               /\ q.kind = "dummy" => q.key \notin keys) =>
                 Once(Append(built, q), done \union {q.key}, keys)
<1> DEFINE b == Append(built, q)
           n == Len(built)
<1>1. /\ n \in Nat /\ DOMAIN built = 1..n /\ DOMAIN b = 1..(n + 1) /\ b[n + 1] = q
      /\ \A j \in 1..n : b[j] = built[j]
  OBVIOUS
<1> HIDE DEF b, n
<1>2. /\ \A j \in 1..n : j \in 1..(n + 1) /\ j # n + 1
      /\ n + 1 \in 1..(n + 1) /\ \A j \in 1..(n + 1) : j \in 1..n \/ j = n + 1
  BY <1>1
<1>3. ASSUME q.kind \notin {"response", "dummy"}
      PROVE  AnswerPlaces(b) = AnswerPlaces(built)
             /\ \A j \in AnswerPlaces(built) : b[j] = built[j]
  <2>1. \A j \in AnswerPlaces(b) : j \in 1..n
    BY <1>1, <1>2, <1>3 DEF AnswerPlaces
  <2>2. \A j \in AnswerPlaces(built) : b[j] = built[j]
    BY <1>1 DEF AnswerPlaces
  <2>3. AnswerPlaces(b) \subseteq AnswerPlaces(built)
    BY <1>1, <2>1 DEF AnswerPlaces
  <2>4. AnswerPlaces(built) \subseteq AnswerPlaces(b)
    BY <1>1, <1>2 DEF AnswerPlaces
  <2> QED BY <2>2, <2>3, <2>4
<1>4. ASSUME q.kind \in {"response", "dummy"}
      PROVE  AnswerPlaces(b) = AnswerPlaces(built) \union {n + 1}
             /\ \A j \in AnswerPlaces(built) : b[j] = built[j]
  <2>2. \A j \in AnswerPlaces(built) : b[j] = built[j]
    BY <1>1 DEF AnswerPlaces
  <2>3. AnswerPlaces(b) \subseteq AnswerPlaces(built) \union {n + 1}
    BY <1>1, <1>2 DEF AnswerPlaces
  <2>4. AnswerPlaces(built) \subseteq AnswerPlaces(b)
    BY <1>1, <1>2 DEF AnswerPlaces
  <2>5. n + 1 \in AnswerPlaces(b)
    BY <1>1, <1>2, <1>4 DEF AnswerPlaces
  <2> QED BY <2>2, <2>3, <2>4, <2>5
<1>o. /\ \A j \in AnswerPlaces(built) : built[j].key \in done
      /\ \A j, l \in AnswerPlaces(built) : built[j].key = built[l].key => j = l
      /\ \A key \in done : \E j \in AnswerPlaces(built) : built[j].key = key
      /\ \A j \in AnswerPlaces(built) : built[j].kind = "dummy" => built[j].key \notin keys
  BY DEF Once
<1>5. ASSUME q.kind \notin {"response", "dummy"} PROVE Once(b, done, keys)
  BY <1>o, <1>3, <1>5 DEF Once
<1>6. ASSUME q.kind \in {"response", "dummy"}, q.key \notin done,
             q.kind = "dummy" => q.key \notin keys
      PROVE  Once(b, done \union {q.key}, keys)
  <2>1. \A j \in AnswerPlaces(b) :
           \/ j \in AnswerPlaces(built) /\ b[j] = built[j]
           \/ j = n + 1 /\ b[j] = q
    BY <1>1, <1>4, <1>6
  <2>2. \A j \in AnswerPlaces(b) : b[j].key \in done \union {q.key}
    BY <1>o, <2>1
  <2>3. ASSUME NEW j \in AnswerPlaces(b), NEW l \in AnswerPlaces(b), b[j].key = b[l].key
        PROVE  j = l
    <3>1. CASE j = n + 1 /\ b[j] = q
      BY <1>o, <1>6, <2>1, <2>3, <3>1
    <3>2. CASE j \in AnswerPlaces(built) /\ b[j] = built[j]
      BY <1>o, <1>6, <2>1, <2>3, <3>2
    <3> QED BY <2>1, <3>1, <3>2
  <2>4. \A key \in done \union {q.key} : \E j \in AnswerPlaces(b) : b[j].key = key
    <3>1. n + 1 \in AnswerPlaces(b) /\ b[n + 1].key = q.key
      BY <1>1, <1>4, <1>6
    <3>2. \A key \in done : \E j \in AnswerPlaces(b) : b[j].key = key
      <4> TAKE key \in done
      <4>1. PICK j \in AnswerPlaces(built) : built[j].key = key
        BY <1>o
      <4>2. j \in AnswerPlaces(b) /\ b[j] = built[j]
        BY <1>4, <1>6
      <4> QED BY <4>1, <4>2
    <3> QED BY <3>1, <3>2
  <2>5. \A j \in AnswerPlaces(b) : b[j].kind = "dummy" => b[j].key \notin keys
    BY <1>o, <1>6, <2>1
  <2> QED BY <2>2, <2>3, <2>4, <2>5 DEF Once
<1> QED BY <1>5, <1>6 DEF b

\* With IDs a call gets its own response if there is one, else a dummy.
LEMMA HandedCall ==
    ASSUME NEW n \in Turns, NEW acc, NEW done, NEW keys, Handed(acc, n, done, keys),
           NEW p \in AllParts, p.kind = "call", p.key \notin done,
           p.key \in keys => \E l \in Responses(n) : n.parts[l].key = p.key,
           \A l \in Responses(n) : p.name = n.parts[l].name => p.key = n.parts[l].key
    PROVE  Handed(AlignPart(acc, p, TRUE), n, done \union {p.key}, keys)
<1> DEFINE a == AlignPart(acc, p, TRUE)
           fits == Candidates(p, acc.responses, TRUE)
           r == Min(fits)
           own == {x \in DOMAIN acc.responses : acc.responses[x].key = p.key}
           Named == {x \in DOMAIN acc.responses : acc.responses[x].name = p.name}
           more == done \union {p.key}
<1>1. acc \in Accs /\ acc.responses \in Seq(ResponseParts) /\ acc.built \in Seq(AllParts)
      /\ DOMAIN acc.responses = 1..Len(acc.responses) /\ Len(acc.responses) \in Nat
  BY DEF Handed, Accs
<1>2. \A x \in DOMAIN acc.responses :
          acc.responses[x].key \notin done
          /\ \E l \in Responses(n) : acc.responses[x] = n.parts[l]
  BY DEF Handed
<1>3. \A x, y \in DOMAIN acc.responses : acc.responses[x].key = acc.responses[y].key => x = y
  BY DEF Handed
<1>4. \A l \in Responses(n) : n.parts[l].key \notin done =>
          \E x \in DOMAIN acc.responses : acc.responses[x] = n.parts[l]
  BY DEF Handed
<1>5. Once(acc.built, done, keys)
  BY DEF Handed
<1>6. fits = IF own # {} THEN own ELSE Named
  BY DEF Candidates
<1>7. /\ a \in Accs
      /\ fits # {} => /\ r \in fits /\ r \in 1..Len(acc.responses)
                      /\ a.built = Append(acc.built, acc.responses[r])
                      /\ a.responses = RemoveAt(acc.responses, r)
      /\ fits = {} => a.built = Append(acc.built, Dummy(p)) /\ a.responses = acc.responses
  BY <1>1, AlignPartCases
<1>8. a.built \in Seq(AllParts)
  BY <1>7 DEF Accs
<1> HIDE DEF a, r, fits
<1>9. CASE own # {}
  <2> DEFINE q == acc.responses[r]
  <2>1. fits = own
    BY <1>6, <1>9
  <2>2. r \in own /\ r \in 1..Len(acc.responses)
    BY <1>7, <1>9, <2>1
  <2>3. q \in ResponseParts /\ q.key = p.key
    BY <1>1, <2>2
  <2>4. q.kind = "response" /\ q \in AllParts
    BY <2>3 DEF ResponseParts, AllParts
  <2>5. a.built = Append(acc.built, q) /\ a.responses = RemoveAt(acc.responses, r)
    BY <1>7, <1>9, <2>1
  <2> HIDE DEF q
  <2>6. Once(a.built, more, keys)
    BY <1>1, <1>5, <2>3, <2>4, <2>5, AnswerAdded
  <2> DEFINE size == Len(acc.responses)
             Old(x) == IF x < r THEN x ELSE x + 1
  <2>7. /\ DOMAIN a.responses = 1..(size - 1)
        /\ \A x \in 1..(size - 1) : a.responses[x] = acc.responses[Old(x)]
    <3>1. /\ RemoveAt(acc.responses, r) \in Seq(ResponseParts)
          /\ Len(RemoveAt(acc.responses, r)) = size - 1
          /\ \A i \in 1..(size - 1) :
                RemoveAt(acc.responses, r)[i]
                  = IF i < r THEN acc.responses[i] ELSE acc.responses[i + 1]
      BY <1>1, <2>2, Removed
    <3>2. a.responses \in Seq(ResponseParts) /\ Len(a.responses) = size - 1
      BY <2>5, <3>1
    <3>3. DOMAIN a.responses = 1..(size - 1)
      BY <3>2
    <3>4. \A x \in 1..(size - 1) : a.responses[x] = acc.responses[Old(x)]
      BY <2>5, <3>1
    <3> QED BY <3>3, <3>4
  <2>8. /\ \A x \in 1..(size - 1) : Old(x) \in 1..size /\ Old(x) # r
        /\ \A x, y \in 1..(size - 1) : Old(x) = Old(y) => x = y
        /\ \A y \in 1..size : y # r => \E x \in 1..(size - 1) : Old(x) = y
    <3>0. r \in Nat /\ size \in Nat /\ r <= size /\ r >= 1
      BY <1>1, <2>2
    <3> HIDE DEF size
    <3>1. \A x \in 1..(size - 1) : Old(x) \in 1..size /\ Old(x) # r
      BY <3>0
    <3>2. \A x, y \in 1..(size - 1) : Old(x) = Old(y) => x = y
      BY <3>0
    <3>3. ASSUME NEW y \in 1..size, y # r PROVE \E x \in 1..(size - 1) : Old(x) = y
      <4>1. CASE y < r
        <5>1. y \in 1..(size - 1) /\ Old(y) = y
          BY <3>0, <4>1
        <5> QED BY <5>1
      <4>2. CASE ~(y < r)
        <5>1. y - 1 \in 1..(size - 1) /\ Old(y - 1) = y
          BY <3>0, <3>3, <4>2
        <5> QED BY <5>1
      <4> QED BY <4>1, <4>2
    <3> QED BY <3>1, <3>2, <3>3
  <2> HIDE DEF Old
  <2>9. \A x \in DOMAIN a.responses :
           /\ a.responses[x] = acc.responses[Old(x)] /\ Old(x) \in DOMAIN acc.responses
           /\ Old(x) # r
    BY <1>1, <2>7, <2>8
  <2>10. ASSUME NEW x \in DOMAIN a.responses
         PROVE  a.responses[x].key \notin more /\ \E l \in Responses(n) : a.responses[x] = n.parts[l]
    <3>1. a.responses[x].key # p.key
      BY <1>3, <2>2, <2>9
    <3> QED BY <1>2, <2>9, <3>1
  <2>11. \A x, y \in DOMAIN a.responses : a.responses[x].key = a.responses[y].key => x = y
    <3> TAKE x \in DOMAIN a.responses, y \in DOMAIN a.responses
    <3> HAVE a.responses[x].key = a.responses[y].key
    <3>1. Old(x) = Old(y)
      BY <1>3, <2>9
    <3> QED BY <2>7, <2>8, <3>1
  <2>12. ASSUME NEW l \in Responses(n), n.parts[l].key \notin more
         PROVE  \E x \in DOMAIN a.responses : a.responses[x] = n.parts[l]
    <3>1. PICK y \in DOMAIN acc.responses : acc.responses[y] = n.parts[l]
      BY <1>4, <2>12
    <3>2. y # r
      BY <2>2, <2>12, <3>1
    <3>3. PICK x \in 1..(size - 1) : Old(x) = y
      BY <1>1, <2>8, <3>1, <3>2
    <3> QED BY <2>7, <3>1, <3>3
  <2> QED BY <1>7, <2>6, <2>10, <2>11, <2>12 DEF Handed, a
<1>10. CASE own = {}
  <2> DEFINE q == Dummy(p)
  <2>1. \A l \in Responses(n) : n.parts[l].key # p.key
    <3> SUFFICES ASSUME NEW l \in Responses(n), n.parts[l].key = p.key PROVE FALSE
      OBVIOUS
    <3>1. PICK x \in DOMAIN acc.responses : acc.responses[x] = n.parts[l]
      BY <1>4
    <3>2. x \in own
      BY <3>1
    <3> QED BY <1>10, <3>2
  <2>2. fits = {}
    <3>1. \A x \in DOMAIN acc.responses : acc.responses[x].name # p.name
      <4> TAKE x \in DOMAIN acc.responses
      <4>1. PICK l \in Responses(n) : acc.responses[x] = n.parts[l]
        BY <1>2
      <4> QED BY <2>1, <4>1
    <3> QED BY <1>6, <1>10, <3>1
  <2>3. p.key \notin keys
    BY <2>1
  <2>4. a.built = Append(acc.built, q) /\ a.responses = acc.responses
    BY <1>7, <2>2
  <2>5. q.kind = "dummy" /\ q.key = p.key
    BY DEF Dummy
  <2>6. q \in AllParts
    <3>1. p \in CallParts
      BY PartKinds
    <3>2. q \in DummyParts
      BY <3>1 DEF Dummy, CallParts, DummyParts
    <3> QED BY <3>2 DEF AllParts
  <2> HIDE DEF q
  <2>7. Once(a.built, more, keys)
    BY <1>1, <1>5, <2>3, <2>4, <2>5, <2>6, AnswerAdded
  <2>8. \A x \in DOMAIN acc.responses :
           acc.responses[x].key \notin more
           /\ \E l \in Responses(n) : acc.responses[x] = n.parts[l]
    BY <1>2, <1>10
  <2>9. \A l \in Responses(n) : n.parts[l].key \notin more =>
           \E x \in DOMAIN acc.responses : acc.responses[x] = n.parts[l]
    BY <1>4
  <2>10. DOMAIN a.responses = DOMAIN acc.responses
         /\ \A x \in DOMAIN acc.responses : a.responses[x] = acc.responses[x]
    BY <2>4
  <2>11. \A x, y \in DOMAIN a.responses : a.responses[x].key = a.responses[y].key => x = y
    BY <1>3, <2>10
  <2>12. \A x \in DOMAIN a.responses :
            a.responses[x].key \notin more
            /\ \E l \in Responses(n) : a.responses[x] = n.parts[l]
    BY <2>8, <2>10
  <2>13. \A l \in Responses(n) : n.parts[l].key \notin more =>
            \E x \in DOMAIN a.responses : a.responses[x] = n.parts[l]
    BY <2>9, <2>10
  <2> HIDE DEF more
  <2>14. Handed(a, n, more, keys)
    BY <1>7, <2>7, <2>11, <2>12, <2>13 DEF Handed
  <2> QED BY <2>14 DEF a, more
<1> QED BY <1>9, <1>10

\* What is not a call gets no answer.
LEMMA HandedOther ==
    ASSUME NEW n \in Turns, NEW acc, NEW done, NEW keys, Handed(acc, n, done, keys),
           NEW p \in AllParts, p.kind # "call"
    PROVE  Handed(AlignPart(acc, p, TRUE), n, done, keys)
<1> DEFINE a == AlignPart(acc, p, TRUE)
<1>1. acc \in Accs /\ acc.built \in Seq(AllParts)
  BY DEF Handed, Accs
<1>2. /\ a \in Accs
      /\ p.kind = "pruned" => /\ \E q \in PrunedParts : a.built = Append(acc.built, q)
                              /\ a.responses = acc.responses
      /\ p.kind \notin {"call", "pruned"} => a = acc
  BY <1>1, AlignPartCases
<1> HIDE DEF a
<1>3. CASE p.kind # "pruned"
  BY <1>2, <1>3 DEF a
<1>4. CASE p.kind = "pruned"
  <2>1. PICK q \in PrunedParts : a.built = Append(acc.built, q)
    BY <1>2, <1>4
  <2>2. q \in AllParts /\ q.kind = "pruned"
    BY DEF PrunedParts, AllParts
  <2>3. Once(acc.built, done, keys)
    BY DEF Handed
  <2>4. Once(a.built, done, keys)
    BY <1>1, <2>1, <2>2, <2>3, AnswerAdded
  <2>5. a.responses = acc.responses
    BY <1>2, <1>4
  <2> DEFINE left == acc.responses
  <2>6. /\ \A r \in DOMAIN left :
              left[r].key \notin done /\ \E l \in Responses(n) : left[r] = n.parts[l]
        /\ \A r, s \in DOMAIN left : left[r].key = left[s].key => r = s
        /\ \A l \in Responses(n) : n.parts[l].key \notin done =>
              \E r \in DOMAIN left : left[r] = n.parts[l]
    BY DEF Handed
  <2>7. a.responses = left
    BY <2>5
  <2> HIDE DEF left
  <2>8. Handed(a, n, done, keys)
    BY <1>2, <2>4, <2>6, <2>7 DEF Handed
  <2> QED BY <2>8 DEF a
<1> QED BY <1>3, <1>4

CallKeys(m) == {m.parts[j].key : j \in Calls(m)}

\* Part by part, every call of the turn gets its answer.
LEMMA HandedAll ==
    ASSUME NEW m \in Turns, NEW n \in Turns, NEW keys, Paired(m, n, keys)
    PROVE  Handed(Given(Start(n), m.parts, TRUE), n, CallKeys(m), keys)
<1> DEFINE parts == m.parts
           Acc(l) == Given(Start(n), SubSeq(parts, 1, l), TRUE)
           Keyed(l) == {parts[j].key : j \in {h \in Calls(m) : h <= l}}
           S == {l \in Nat : l <= Len(parts) => Handed(Acc(l), n, Keyed(l), keys)}
<1>1. parts \in Seq(AllParts) /\ Len(parts) \in Nat /\ DOMAIN parts = 1..Len(parts)
  BY DEF Turns
<1>2. \A j \in Calls(m) : j \in 1..Len(parts) /\ parts[j].kind = "call"
  BY <1>1 DEF Calls, OfKind
<1>3. 0 \in S
  <2>1. SubSeq(parts, 1, 0) = <<>>
    BY <1>1, PartByPart
  <2>2. Given(Start(n), <<>>, TRUE) = Start(n)
    <3>1. <<>> \in Seq(Nat) /\ 0 \in Nat /\ TRUE \in BOOLEAN
      OBVIOUS
    <3> QED BY <3>1, GivenPartByPart
  <2>3. Keyed(0) = {}
    BY <1>2
  <2>4. OfKind(n, "dummy") = {} /\ \A j, l \in Responses(n) : n.parts[j].key = n.parts[l].key => j = l
    BY DEF Paired
  <2> DEFINE acc == Start(n)
  <2>5. /\ acc \in Accs
        /\ \A j \in DOMAIN acc.built : acc.built[j].kind # "response" /\ acc.built[j].kind # "dummy"
        /\ \A r \in DOMAIN acc.responses : \E l \in Responses(n) : acc.responses[r] = n.parts[l]
        /\ \A l \in Responses(n) : \E r \in DOMAIN acc.responses : acc.responses[r] = n.parts[l]
        /\ \A r, s \in DOMAIN acc.responses : acc.responses[r].key = acc.responses[s].key => r = s
    BY <2>4, StartOf
  <2> HIDE DEF acc
  <2>6. AnswerPlaces(acc.built) = {}
    BY <2>5 DEF AnswerPlaces
  <2>7. Once(acc.built, {}, keys)
    BY <2>6 DEF Once
  <2>8. Handed(acc, n, {}, keys)
    BY <2>5, <2>7 DEF Handed
  <2>9. Acc(0) = acc
    BY <2>1, <2>2 DEF acc
  <2> HIDE DEF Acc, Keyed
  <2> QED BY <2>3, <2>8, <2>9
<1>4. ASSUME NEW l \in Nat, l \in S PROVE l + 1 \in S
  <2> SUFFICES ASSUME l + 1 <= Len(parts) PROVE Handed(Acc(l + 1), n, Keyed(l + 1), keys)
    <3> HIDE DEF Acc, Keyed
    <3>1. l + 1 \in Nat
      OBVIOUS
    <3> QED BY <3>1
  <2> DEFINE p == parts[l + 1]
             front == SubSeq(parts, 1, l)
  <2>1. front \in Seq(AllParts) /\ p \in AllParts /\ SubSeq(parts, 1, l + 1) = Append(front, p)
    BY <1>1, PartByPart
  <2>2. Acc(l + 1) = AlignPart(Acc(l), p, TRUE)
    <3>1. Acc(l + 1) = Given(Start(n), Append(front, p), TRUE) /\ Acc(l) = Given(Start(n), front, TRUE)
      BY <2>1
    <3> HIDE DEF front, p, Acc
    <3>2. TRUE \in BOOLEAN
      OBVIOUS
    <3>3. Given(Start(n), Append(front, p), TRUE) = AlignPart(Given(Start(n), front, TRUE), p, TRUE)
      BY <2>1, <3>2, GivenPartByPart
    <3> QED BY <3>1, <3>3
  <2>3. Handed(Acc(l), n, Keyed(l), keys)
    <3>1. l <= Len(parts)
      BY <1>1
    <3> QED BY <1>4, <3>1
  <2>4. l + 1 \in 1..Len(parts)
    BY <1>1
  <2> HIDE DEF Acc, front
  <2>5. CASE p.kind # "call"
    <3>1. l + 1 \notin Calls(m)
      BY <2>5 DEF Calls, OfKind
    <3>2. \A h \in Calls(m) : h <= l + 1 <=> h <= l
      BY <1>2, <3>1
    <3>3. Keyed(l + 1) = Keyed(l)
      BY <3>2
    <3> HIDE DEF Keyed, p
    <3>4. Handed(AlignPart(Acc(l), p, TRUE), n, Keyed(l), keys)
      BY <2>1, <2>3, <2>5, HandedOther
    <3> QED BY <2>2, <3>3, <3>4
  <2>6. CASE p.kind = "call"
    <3>1. l + 1 \in Calls(m)
      BY <1>1, <2>4, <2>6 DEF Calls, OfKind
    <3>2. \A h \in Calls(m) : h <= l + 1 <=> (h <= l \/ h = l + 1)
      BY <1>2
    <3>3. Keyed(l + 1) = Keyed(l) \union {p.key}
      BY <3>1, <3>2
    <3>4. p.key \notin Keyed(l)
      <4>1. \A h \in Calls(m) : h <= l => h # l + 1
        BY <1>2
      <4>2. \A h \in Calls(m) : parts[h].key = p.key => h = l + 1
        BY <3>1 DEF Paired
      <4> QED BY <4>1, <4>2
    <3>5. p.key \in keys => \E r \in Responses(n) : n.parts[r].key = p.key
      BY <3>1 DEF Paired
    <3>6. \A r \in Responses(n) : p.name = n.parts[r].name => p.key = n.parts[r].key
      BY <3>1 DEF Paired
    <3> HIDE DEF Keyed, p
    <3>7. Handed(AlignPart(Acc(l), p, TRUE), n, Keyed(l) \union {p.key}, keys)
      BY <2>1, <2>3, <2>6, <3>4, <3>5, <3>6, HandedCall
    <3> QED BY <2>2, <3>3, <3>7
  <2> QED BY <2>5, <2>6
<1>5. Len(parts) \in S
  <2> HIDE DEF S
  <2> QED BY <1>1, <1>3, <1>4, Steps!SetInduction
<1>6. Handed(Acc(Len(parts)), n, Keyed(Len(parts)), keys)
  <2> HIDE DEF Acc, Keyed
  <2>1. Len(parts) <= Len(parts)
    BY <1>1
  <2> QED BY <1>5, <2>1
<1>7. Acc(Len(parts)) = Given(Start(n), parts, TRUE)
  BY <1>1, PartByPart
<1>8. Keyed(Len(parts)) = CallKeys(m)
  BY <1>2 DEF CallKeys
<1> HIDE DEF Acc, Keyed
<1> QED BY <1>6, <1>7, <1>8

\* What alignment makes of a conversation: the same turns, none without a part,
\* and with IDs the turn after a model turn holds one answer to each call.
LEMMA AlignTalk ==
    ASSUME NEW c, Talk(c), NEW ids \in BOOLEAN
    PROVE  LET d == AlignFunctionCallsAndResponses(c, ids)
           IN /\ Len(d) = Len(c) /\ DOMAIN d = 1..Len(c)
              /\ \A i \in 1..Len(c) : d[i].role = c[i].role /\ d[i].parts # <<>>
              /\ \A keys : ids = TRUE /\ AllPaired(c, keys) =>
                    \A i \in 1..(Len(c) - 1) : IsModel(d[i]) =>
                       Once(d[i + 1].parts, CallKeys(d[i]), keys)
<1> DEFINE g == [i \in 1..Len(c) |->
                    IF NeedsAlignment(c, i) THEN AlignedTurn(c[i - 1], c[i], ids) ELSE c[i]]
           d == AlignFunctionCallsAndResponses(c, ids)
<1>1. c \in Seq(Turns) /\ Len(c) \in Nat /\ DOMAIN c = 1..Len(c)
  BY DEF Talk
<1>2. d = g /\ Len(d) = Len(c) /\ DOMAIN d = 1..Len(c)
  <2>1. d = SubSeq(g, 1, Len(c))
    BY DEF AlignFunctionCallsAndResponses, Tabulate
  <2>2. g = [i \in 1..Len(c) |-> g[i]]
    OBVIOUS
  <2> HIDE DEF g, d
  <2> QED BY <1>1, <2>1, <2>2, Tabulated
<1>3. \A i \in 1..Len(c) :
         d[i] = IF NeedsAlignment(c, i) THEN AlignedTurn(c[i - 1], c[i], ids) ELSE c[i]
  BY <1>2
<1> HIDE DEF g, d
<1>4. \A i \in 1..Len(c) : c[i] \in Turns
  BY <1>1
<1>5. \A m, n : AlignedTurn(m, n, ids) = Turn(n.role, Given(Start(n), m.parts, ids).built)
  BY DEF AlignedTurn, Given, Start
<1>6. ASSUME NEW i \in 1..Len(c), NeedsAlignment(c, i)
      PROVE  /\ i - 1 \in 1..Len(c) /\ d[i].role = c[i].role /\ d[i].parts # <<>>
             /\ d[i].parts = Given(Start(c[i]), c[i - 1].parts, ids).built
  <2>1. i - 1 \in 1..Len(c)
    BY <1>6 DEF NeedsAlignment
  <2>2. c[i] \in Turns /\ c[i - 1] \in Turns
    BY <1>4, <2>1
  <2> DEFINE acc == Given(Start(c[i]), c[i - 1].parts, ids)
  <2>3. d[i] = Turn(c[i].role, acc.built)
    BY <1>3, <1>5, <1>6
  <2>4. Start(c[i]) \in Accs
    BY <2>2, StartOf
  <2>5. c[i - 1].parts \in Seq(AllParts)
    BY <2>2 DEF Turns
  <2>6. \E j \in DOMAIN c[i - 1].parts : c[i - 1].parts[j].kind \in {"call", "pruned"}
    BY <1>6 DEF NeedsAlignment, OfKind
  <2>7. acc.built # <<>>
    BY <2>4, <2>5, <2>6, GivenShape
  <2> QED BY <2>1, <2>3, <2>7 DEF Turn
<1>7. \A i \in 1..Len(c) : d[i].role = c[i].role /\ d[i].parts # <<>>
  <2>1. \A i \in 1..Len(c) : ~NeedsAlignment(c, i) => d[i] = c[i] /\ c[i].parts # <<>>
    BY <1>1, <1>3 DEF Talk
  <2> QED BY <1>6, <2>1
<1>8. ASSUME NEW keys, ids = TRUE, AllPaired(c, keys), NEW i \in 1..(Len(c) - 1), IsModel(d[i])
      PROVE  Once(d[i + 1].parts, CallKeys(d[i]), keys)
  <2>1. i \in 1..Len(c) /\ i + 1 \in 1..Len(c) /\ i + 1 > 1 /\ (i + 1) - 1 = i
    BY <1>1
  <2>2. IsModel(c[i]) /\ ~IsUser(c[i])
    BY <1>7, <1>8, <2>1 DEF IsModel, IsUser
  <2>3. d[i] = c[i]
    BY <1>3, <2>1, <2>2 DEF NeedsAlignment
  <2>4. Paired(c[i], c[i + 1], keys)
    BY <1>8, <2>2 DEF AllPaired
  <2>5. c[i] \in Turns /\ c[i + 1] \in Turns
    BY <1>4, <2>1
  <2>6. IsUser(c[i + 1])
    <3>1. c[i].role # c[i + 1].role
      BY DEF Talk
    <3> QED BY <2>2, <2>5, <3>1 DEF Turns, Roles, IsModel, IsUser
  <2>7. CASE Calls(c[i]) \union OfKind(c[i], "pruned") # {}
    <3>1. NeedsAlignment(c, i + 1)
      BY <2>1, <2>2, <2>6, <2>7 DEF NeedsAlignment, Calls
    <3>2. d[i + 1].parts = Given(Start(c[i + 1]), c[i].parts, TRUE).built
      BY <1>6, <1>8, <2>1, <3>1
    <3>3. Handed(Given(Start(c[i + 1]), c[i].parts, TRUE), c[i + 1], CallKeys(c[i]), keys)
      BY <2>4, <2>5, HandedAll
    <3> QED BY <2>3, <3>2, <3>3 DEF Handed
  <2>8. CASE Calls(c[i]) \union OfKind(c[i], "pruned") = {}
    <3>1. ~NeedsAlignment(c, i + 1)
      BY <2>1, <2>8 DEF NeedsAlignment, Calls
    <3>2. d[i + 1] = c[i + 1]
      BY <1>3, <2>1, <3>1
    <3>3. Responses(c[i + 1]) = {} /\ OfKind(c[i + 1], "dummy") = {}
      BY <2>4, <2>8 DEF Paired
    <3>4. AnswerPlaces(d[i + 1].parts) = {}
      BY <3>2, <3>3 DEF AnswerPlaces, Responses, OfKind
    <3>5. CallKeys(d[i]) = {}
      BY <2>3, <2>8 DEF CallKeys
    <3> QED BY <3>4, <3>5 DEF Once
  <2> QED BY <2>7, <2>8
<1>9. \A keys : ids = TRUE /\ AllPaired(c, keys) =>
         \A i \in 1..(Len(c) - 1) : IsModel(d[i]) => Once(d[i + 1].parts, CallKeys(d[i]), keys)
  BY <1>8
<1> QED BY <1>2, <1>7, <1>9 DEF d

-------------------------------------------------------------------------------
(* One attempt. *)

\* The stages that keep the turns where they are.
LEMMA ShapedTalk ==
    ASSUME NEW c, Talk(c),
           setting.knobs \in Knobs, setting.ids \in BOOLEAN, setting.disk \in BOOLEAN
    PROVE  /\ Talk(Shaped(c))
           /\ setting.ids /\ Conversation(c) /\ NamesApart(c)
                => AllPaired(Shaped(c), Answered(c))
<1> DEFINE k == setting.knobs
           keys == Answered(c)
           Safe(d) == /\ Talk(d)
                      /\ setting.ids /\ Conversation(c) /\ NamesApart(c) => AllPaired(d, keys)
           unlooped == IF k.loopbreak THEN DropRepeatedScoldings(c) ELSE c
           pruned == IF HasRetrievalToolCall(unlooped) THEN unlooped
                     ELSE PruneStaleTools(unlooped, k, setting.ids)
           current == CollapseEnvBlocks(pruned, k)
           truncated == TruncateToolResults(current, k, setting.disk)
           short == ElideHistoricalWriteActions(truncated, k, setting.disk)
           deep == DeepCompactHistoricalTurns(short, k, setting.disk)
<1>1. k \in Knobs
  OBVIOUS
<1>2. ASSUME NEW d, NEW e, Safe(d), d \in Seq(Turns) => FollowsAll(e, d) PROVE Safe(e)
  <2>1. Talk(d) /\ d \in Seq(Turns)
    BY <1>2 DEF Talk
  <2>2. Talk(e) /\ \A s : AllPaired(d, s) => AllPaired(e, s)
    BY <1>2, <2>1, FollowsTalk
  <2> QED BY <1>2, <2>2
<1>3. Safe(unlooped)
  <2>1. CASE k.loopbreak
    BY <2>1, DropPairs
  <2>2. CASE ~k.loopbreak
    <3>1. Conversation(c) /\ NamesApart(c) => AllPaired(c, keys)
      BY ConversationPairs DEF AllPaired
    <3> QED BY <2>2, <3>1
  <2> QED BY <2>1, <2>2
<1> HIDE DEF unlooped
<1>4. Safe(pruned)
  <2>1. Talk(unlooped)
    BY <1>3
  <2> DEFINE e == PruneStaleTools(unlooped, k, setting.ids)
  <2>2. Talk(e) /\ \A s : setting.ids = TRUE /\ AllPaired(unlooped, s) => AllPaired(e, s)
    <3> HIDE DEF k
    <3> QED BY <1>1, <2>1, PruneTalk
  <2>3. Safe(e)
    <3> HIDE DEF e
    <3> QED BY <1>3, <2>2
  <2> QED BY <1>3, <2>3
<1> HIDE DEF pruned
<1>5. Safe(current)
  <2>1. pruned \in Seq(Turns) => FollowsAll(current, pruned)
    BY <1>1, CollapseFollows
  <2> HIDE DEF current, Safe
  <2> QED BY <1>2, <1>4, <2>1
<1> HIDE DEF current
<1>6. Safe(truncated)
  <2>1. current \in Seq(Turns) => FollowsAll(truncated, current)
    BY <1>1, TruncateFollows
  <2> HIDE DEF truncated, Safe
  <2> QED BY <1>2, <1>5, <2>1
<1> HIDE DEF truncated
<1>7. Safe(short)
  <2>1. truncated \in Seq(Turns) => FollowsAll(short, truncated)
    BY <1>1, WritesFollow
  <2> HIDE DEF short, Safe
  <2> QED BY <1>2, <1>6, <2>1
<1> HIDE DEF short
<1>8. Safe(deep)
  <2>1. short \in Seq(Turns) => FollowsAll(deep, short)
    BY <1>1, CompactFollows
  <2> HIDE DEF deep, Safe
  <2> QED BY <1>2, <1>7, <2>1
<1>9. Shaped(c) = IF HasRetrievalToolCall(current) THEN current ELSE deep
  BY DEF Shaped, short, truncated, current, pruned, unlooped
<1> HIDE DEF deep
<1>10. Safe(Shaped(c))
  BY <1>5, <1>8, <1>9
<1> QED BY <1>10

\* The stages that cut, deduplicate and align.
LEMMA FinishedTalk ==
    ASSUME NEW c, Talk(c),
           setting.knobs \in Knobs, setting.ids \in BOOLEAN, setting.gemini \in BOOLEAN
    PROVE  LET d == Finished(c)
           IN /\ Len(d) \in Nat \ {0} /\ DOMAIN d = 1..Len(d)
              /\ \A i \in 1..Len(d) : d[i].role \in Roles /\ d[i].parts # <<>>
              /\ \A i \in 1..(Len(d) - 1) : d[i].role # d[i + 1].role
              /\ IsUser(d[Len(d)])
              /\ \A keys : setting.ids /\ setting.gemini /\ AllPaired(c, keys) =>
                    \A i \in 1..(Len(d) - 1) : IsModel(d[i]) =>
                       Once(d[i + 1].parts, CallKeys(d[i]), keys)
<1> DEFINE k == setting.knobs
           kept == TrimContents(c, setting.sysBytes, k)
           replayed == DedupReplayedBlocks(kept, k)
           once == DedupSubstringBlocks(replayed, k)
           d == Finished(c)
           aligned == AlignFunctionCallsAndResponses(once, setting.ids)
<1>1. Talk(kept) /\ \A keys : AllPaired(c, keys) => AllPaired(kept, keys)
  BY TrimTalk
<1> HIDE DEF kept
<1>2. Talk(replayed) /\ \A keys : AllPaired(kept, keys) => AllPaired(replayed, keys)
  <2>1. kept \in Seq(Turns)
    BY <1>1 DEF Talk
  <2>2. FollowsAll(replayed, kept)
    BY <2>1, ReplayedFollow
  <2> HIDE DEF replayed
  <2> QED BY <1>1, <2>2, FollowsTalk
<1> HIDE DEF replayed
<1>3. Talk(once) /\ \A keys : AllPaired(replayed, keys) => AllPaired(once, keys)
  <2>1. replayed \in Seq(Turns)
    BY <1>2 DEF Talk
  <2>2. FollowsAll(once, replayed)
    BY <2>1, SubstringsFollow
  <2> HIDE DEF once
  <2> QED BY <1>2, <2>2, FollowsTalk
<1> HIDE DEF once
<1>4. d = IF setting.gemini THEN aligned ELSE once
  BY DEF Finished, once, replayed, kept
<1>5. /\ once \in Seq(Turns) /\ once # <<>>
      /\ \A i \in DOMAIN once : once[i].parts # <<>>
      /\ \A i \in 1..(Len(once) - 1) : once[i].role # once[i + 1].role
      /\ IsUser(once[Len(once)])
  BY <1>3 DEF Talk
<1>6. Len(once) \in Nat \ {0} /\ DOMAIN once = 1..Len(once)
  BY <1>5
<1>7. \A i \in 1..Len(once) : once[i].role \in Roles
  <2>1. \A i \in 1..Len(once) : once[i] \in Turns
    BY <1>5
  <2> QED BY <2>1 DEF Turns
<1>8. /\ Len(aligned) = Len(once) /\ DOMAIN aligned = 1..Len(once)
      /\ \A i \in 1..Len(once) : aligned[i].role = once[i].role /\ aligned[i].parts # <<>>
      /\ \A keys : setting.ids = TRUE /\ AllPaired(once, keys) =>
            \A i \in 1..(Len(once) - 1) : IsModel(aligned[i]) =>
               Once(aligned[i + 1].parts, CallKeys(aligned[i]), keys)
  BY <1>3, AlignTalk
<1> HIDE DEF aligned, d
<1>9. /\ Len(d) = Len(once) /\ DOMAIN d = 1..Len(once)
      /\ \A i \in 1..Len(once) : d[i].role = once[i].role /\ d[i].parts # <<>>
  BY <1>4, <1>5, <1>6, <1>8
<1>10. /\ \A i \in 1..(Len(once) - 1) : d[i].role # d[i + 1].role
       /\ IsUser(d[Len(once)])
  <2>1. \A i \in 1..(Len(once) - 1) : i \in 1..Len(once) /\ i + 1 \in 1..Len(once)
    BY <1>6
  <2>2. Len(once) \in 1..Len(once)
    BY <1>6
  <2> QED BY <1>5, <1>9, <2>1, <2>2 DEF IsUser
<1>11. \A keys : setting.ids /\ setting.gemini /\ AllPaired(c, keys) =>
          \A i \in 1..(Len(once) - 1) : IsModel(d[i]) =>
             Once(d[i + 1].parts, CallKeys(d[i]), keys)
  BY <1>1, <1>2, <1>3, <1>4, <1>8
<1> QED BY <1>6, <1>7, <1>9, <1>10, <1>11 DEF d

-------------------------------------------------------------------------------
(* What the actions do to a conversation. *)

\* Turns that follow the old ones make the same conversation.
LEMMA FollowsConversation ==
    ASSUME NEW c, NEW d, Conversation(c), FollowsAll(d, c),
           \A i \in DOMAIN c : Scolds(d[i], Scoldings) => Scolds(c[i], Scoldings)
    PROVE  Conversation(d) /\ (NamesApart(c) => NamesApart(d))
<1>1. /\ c \in Seq(Turns) /\ d \in Seq(Turns) /\ Len(d) = Len(c) /\ DOMAIN d = DOMAIN c
      /\ DOMAIN c = 1..Len(c) /\ Len(c) \in Nat
  BY DEF Conversation, FollowsAll
<1>2. \A i \in DOMAIN c : FollowsTurn(d[i], c[i]) /\ c[i] \in Turns /\ d[i] \in Turns
  BY <1>1 DEF FollowsAll
<1>3. \A i \in DOMAIN c : d[i].role = c[i].role
  BY <1>2 DEF FollowsTurn
<1>4. \A i \in DOMAIN c :
         /\ OfKind(d[i], "dummy") = OfKind(c[i], "dummy")
         /\ Calls(d[i]) = Calls(c[i]) /\ Responses(d[i]) = Responses(c[i])
         /\ \A j \in Calls(c[i]) \union Responses(c[i]) :
               d[i].parts[j].name = c[i].parts[j].name /\ d[i].parts[j].key = c[i].parts[j].key
  <2> SUFFICES ASSUME NEW i \in DOMAIN c
               PROVE  /\ OfKind(d[i], "dummy") = OfKind(c[i], "dummy")
                      /\ Calls(d[i]) = Calls(c[i]) /\ Responses(d[i]) = Responses(c[i])
                      /\ \A j \in Calls(c[i]) \union Responses(c[i]) :
                            d[i].parts[j].name = c[i].parts[j].name
                            /\ d[i].parts[j].key = c[i].parts[j].key
    OBVIOUS
  <2>1. FollowsTurn(d[i], c[i]) /\ c[i] \in Turns
    BY <1>2
  <2> QED BY <2>1, FollowsKinds DEF Exchanged, Calls, Responses
<1>5. \A i \in DOMAIN c : d[i].parts # <<>>
  <2> SUFFICES ASSUME NEW i \in DOMAIN c PROVE d[i].parts # <<>>
    OBVIOUS
  <2>1. c[i].parts # <<>> /\ c[i].parts \in Seq(AllParts) /\ d[i].parts \in Seq(AllParts)
    BY <1>2 DEF Conversation, Turns
  <2>2. Len(d[i].parts) = Len(c[i].parts)
    BY <1>2 DEF FollowsTurn
  <2> QED BY <2>1, <2>2
<1>6. \A i \in 1..(Len(d) - 1) : i \in DOMAIN c /\ i + 1 \in DOMAIN c /\ i \in 1..(Len(c) - 1)
  BY <1>1
<1>7. \A i \in DOMAIN d : d[i].parts # <<>> /\ OfKind(d[i], "dummy") = {}
  BY <1>1, <1>4, <1>5 DEF Conversation
<1>8. \A i \in 1..(Len(d) - 1) : d[i].role # d[i + 1].role
  BY <1>3, <1>6 DEF Conversation
<1>9. \A i \in DOMAIN d : \A j \in Calls(d[i]) : IsModel(d[i]) /\ d[i].parts[j].key = <<i, j>>
  <2>1. \A i \in DOMAIN c : \A j \in Calls(c[i]) : IsModel(c[i]) /\ c[i].parts[j].key = <<i, j>>
    BY DEF Conversation
  <2> QED BY <1>1, <1>3, <1>4, <2>1 DEF IsModel
<1>10. \A i \in DOMAIN d : \A j \in Responses(d[i]) :
          i > 1 /\ \E l \in Calls(d[i - 1]) : d[i].parts[j].key = <<i - 1, l>>
  <2> SUFFICES ASSUME NEW i \in DOMAIN c, NEW j \in Responses(c[i])
               PROVE  i > 1 /\ \E l \in Calls(d[i - 1]) : d[i].parts[j].key = <<i - 1, l>>
    BY <1>1, <1>4
  <2>1. i > 1 /\ \E l \in Calls(c[i - 1]) : c[i].parts[j].key = <<i - 1, l>>
    BY DEF Conversation
  <2>2. i - 1 \in DOMAIN c
    BY <1>1, <2>1
  <2> QED BY <1>4, <2>1, <2>2
<1>11. \A i \in DOMAIN d : \A j, l \in Responses(d[i]) :
          d[i].parts[j].key = d[i].parts[l].key => j = l
  <2>1. \A i \in DOMAIN c : \A j, l \in Responses(c[i]) :
          c[i].parts[j].key = c[i].parts[l].key => j = l
    BY DEF Conversation
  <2> QED BY <1>1, <1>4, <2>1
<1>12. \A i \in 1..(Len(d) - 1) : Calls(d[i]) # {} => ~Scolds(d[i + 1], Scoldings)
  <2>1. \A i \in 1..(Len(c) - 1) : Calls(c[i]) # {} => ~Scolds(c[i + 1], Scoldings)
    BY DEF Conversation
  <2> QED BY <1>4, <1>6, <2>1
<1>13. Conversation(d)
  BY <1>1, <1>7, <1>8, <1>9, <1>10, <1>11, <1>12 DEF Conversation
<1>14. ASSUME NamesApart(c) PROVE NamesApart(d)
  <2> SUFFICES ASSUME NEW i \in 1..(Len(d) - 1), NEW j \in Calls(d[i]), NEW l \in Responses(d[i + 1]),
                      d[i].parts[j].name = d[i + 1].parts[l].name
               PROVE  d[i].parts[j].key = d[i + 1].parts[l].key
    BY DEF NamesApart
  <2>1. j \in Calls(c[i]) /\ l \in Responses(c[i + 1])
    BY <1>4, <1>6
  <2>2. c[i].parts[j].name = c[i + 1].parts[l].name
    BY <1>4, <1>6, <2>1
  <2>3. c[i].parts[j].key = c[i + 1].parts[l].key
    BY <1>6, <1>14, <2>1, <2>2 DEF NamesApart
  <2> QED BY <1>4, <1>6, <2>1, <2>3
<1> QED BY <1>13, <1>14

\* A nudge is added to a text, which says what it said.
LEMMA NudgeFollows ==
    ASSUME NEW c \in Seq(Turns), c # <<>>
    PROVE  /\ FollowsAll(NudgeLastTurn(c), c)
           /\ \A i \in DOMAIN c : Scolds(NudgeLastTurn(c)[i], Scoldings) => Scolds(c[i], Scoldings)
<1> DEFINE n == Len(c)
           texts == OfKind(c[n], "text")
           k == Min(texts)
           d == NudgeLastTurn(c)
           p == c[n].parts[k]
           q == NudgeText(p)
<1>1. n \in Nat \ {0} /\ DOMAIN c = 1..n /\ n \in DOMAIN c /\ \A i \in DOMAIN c : c[i] \in Turns
  OBVIOUS
<1>2. c[n].parts \in Seq(AllParts) /\ DOMAIN c[n].parts = 1..Len(c[n].parts)
      /\ Len(c[n].parts) \in Nat
  <2>1. c[n] \in Turns
    BY <1>1
  <2>2. c[n].parts \in Seq(AllParts)
    BY <2>1 DEF Turns
  <2> QED BY <2>2
<1>3. CASE ~(IsNoTool(c[n]) \/ IsTodo(c[n]))
  <2>1. d = c
    BY <1>3 DEF NudgeLastTurn
  <2>2. \A i \in DOMAIN c : FollowsTurn(c[i], c[i])
    BY <1>1, SelfFollows
  <2> HIDE DEF d
  <2> QED BY <2>1, <2>2 DEF FollowsAll, d
<1>4. CASE IsNoTool(c[n]) \/ IsTodo(c[n])
  <2>1. texts # {} /\ texts \in SUBSET (1..Len(c[n].parts)) /\ Scolds(c[n], Scoldings)
    <3>1. texts # {} /\ Scolds(c[n], Scoldings)
      BY <1>4 DEF IsNoTool, IsTodo, Scolds, Scoldings
    <3>2. texts \in SUBSET (1..Len(c[n].parts))
      BY <1>2 DEF OfKind
    <3> QED BY <3>1, <3>2
  <2>2. k \in texts
    <3> HIDE DEF texts
    <3> QED BY <1>2, <2>1, MinOfPlaces
  <2>t. \A x \in texts : x \in DOMAIN c[n].parts /\ c[n].parts[x].kind = "text"
                         /\ c[n].parts[x] \in AllParts
    BY <1>2 DEF OfKind
  <2>3. k \in DOMAIN c[n].parts /\ p.kind = "text" /\ p \in AllParts
    <3> HIDE DEF k, texts
    <3> QED BY <2>2, <2>t
  <2>4. p \in TextParts
    BY <2>3, PartKinds
  <2>5. d = [c EXCEPT ![n].parts[k] = NudgeText(@)]
    BY <1>4 DEF NudgeLastTurn
  <2> HIDE DEF k, texts
  <2>6. q \in TextParts
    BY <2>4 DEF NudgeText, TextParts
  <2>7. Follows(q, p)
    BY <2>4, <2>6, TextFollows
  <2> DEFINE parts == [c[n].parts EXCEPT ![k] = q]
             turn == [c[n] EXCEPT !.parts = parts]
  <2>8. d = [c EXCEPT ![n] = turn]
    BY <2>5
  <2>9. /\ parts \in Seq(AllParts) /\ Len(parts) = Len(c[n].parts) /\ DOMAIN parts = DOMAIN c[n].parts
        /\ \A j \in DOMAIN parts : parts[j] = IF j = k THEN q ELSE c[n].parts[j]
    <3>1. q \in AllParts
      BY <2>6 DEF AllParts
    <3> HIDE DEF q
    <3> QED BY <1>2, <2>3, <3>1
  <2> HIDE DEF q, d
  <2>10. \A j \in DOMAIN c[n].parts : Follows(parts[j], c[n].parts[j])
    <3>1. \A j \in DOMAIN c[n].parts : c[n].parts[j] \in AllParts
      BY <1>2
    <3> HIDE DEF parts
    <3> QED BY <2>7, <2>9, <3>1, FollowsSelf DEF p
  <2> HIDE DEF parts
  <2>11. turn \in Turns /\ turn.role = c[n].role /\ turn.parts = parts
    <3>1. c[n] \in Turns
      BY <1>1
    <3> QED BY <2>9, <3>1 DEF Turns
  <2> HIDE DEF turn
  <2>12. FollowsTurn(turn, c[n])
    BY <2>9, <2>10, <2>11 DEF FollowsTurn
  <2>13. /\ d \in Seq(Turns) /\ Len(d) = n /\ DOMAIN d = DOMAIN c
         /\ \A i \in DOMAIN c : d[i] = IF i = n THEN turn ELSE c[i]
    BY <1>1, <2>8, <2>11
  <2>14. \A i \in DOMAIN c : FollowsTurn(d[i], c[i])
    BY <1>1, <2>12, <2>13, SelfFollows
  <2>15. FollowsAll(d, c)
    BY <2>13, <2>14 DEF FollowsAll
  <2>16. \A i \in DOMAIN c : Scolds(d[i], Scoldings) => Scolds(c[i], Scoldings)
    BY <2>1, <2>13
  <2> QED BY <2>15, <2>16 DEF d
<1> QED BY <1>3, <1>4

\* A turn that may come next.
Continues(c, t) ==
    /\ t \in Turns /\ t.parts # <<>> /\ OfKind(t, "dummy") = {}
    /\ c # <<>> => c[Len(c)].role # t.role
    /\ \A j \in Calls(t) : IsModel(t) /\ t.parts[j].key = <<Len(c) + 1, j>>
    /\ \A j \in Responses(t) :
          c # <<>> /\ \E l \in Calls(c[Len(c)]) : t.parts[j].key = <<Len(c), l>>
    /\ \A j, l \in Responses(t) : t.parts[j].key = t.parts[l].key => j = l
    /\ c # <<>> /\ Calls(c[Len(c)]) # {} => ~Scolds(t, Scoldings)

\* Its responses have the names of their own calls or of none.
NamesItsCalls(c, t) ==
    c # <<>> => \A j \in Calls(c[Len(c)]), l \in Responses(t) :
        c[Len(c)].parts[j].name = t.parts[l].name
          => c[Len(c)].parts[j].key = t.parts[l].key

\* It makes a longer conversation.
LEMMA AppendTurn ==
    ASSUME NEW c, Conversation(c), NEW t, Continues(c, t)
    PROVE  /\ Conversation(Append(c, t))
           /\ NamesApart(c) /\ NamesItsCalls(c, t) => NamesApart(Append(c, t))
<1> DEFINE n == Len(c)
           d == Append(c, t)
<1>0. /\ t \in Turns /\ t.parts # <<>> /\ OfKind(t, "dummy") = {}
      /\ c # <<>> => c[n].role # t.role
      /\ \A j \in Calls(t) : IsModel(t) /\ t.parts[j].key = <<n + 1, j>>
      /\ \A j \in Responses(t) :
            c # <<>> /\ \E l \in Calls(c[n]) : t.parts[j].key = <<n, l>>
      /\ \A j, l \in Responses(t) : t.parts[j].key = t.parts[l].key => j = l
      /\ c # <<>> /\ Calls(c[n]) # {} => ~Scolds(t, Scoldings)
  BY DEF Continues
<1>1. c \in Seq(Turns) /\ n \in Nat /\ DOMAIN c = 1..n
  BY DEF Conversation
<1>2. /\ d \in Seq(Turns) /\ Len(d) = n + 1 /\ DOMAIN d = 1..(n + 1) /\ d[n + 1] = t
      /\ \A i \in 1..n : d[i] = c[i]
  BY <1>0, <1>1
<1> HIDE DEF d
<1>3. \A i \in DOMAIN d : (i \in 1..n /\ d[i] = c[i]) \/ (i = n + 1 /\ d[i] = t)
  BY <1>1, <1>2
<1>4. \A i \in 1..(Len(d) - 1) :
         \/ i \in 1..(n - 1) /\ i + 1 \in 1..n /\ d[i] = c[i] /\ d[i + 1] = c[i + 1]
         \/ i = n /\ c # <<>> /\ d[i] = c[n] /\ d[i + 1] = t
  <2> SUFFICES ASSUME NEW i \in 1..(Len(d) - 1)
               PROVE  \/ i \in 1..(n - 1) /\ i + 1 \in 1..n /\ d[i] = c[i] /\ d[i + 1] = c[i + 1]
                      \/ i = n /\ c # <<>> /\ d[i] = c[n] /\ d[i + 1] = t
    OBVIOUS
  <2>1. i \in 1..n
    BY <1>1, <1>2
  <2>2. CASE i = n
    <3>1. c # <<>>
      BY <1>1, <2>1, <2>2
    <3> QED BY <1>2, <2>1, <2>2, <3>1
  <2>3. CASE i # n
    <3>1. i \in 1..(n - 1) /\ i + 1 \in 1..n
      <4> HIDE DEF n
      <4> QED BY <1>1, <2>1, <2>3
    <3> QED BY <1>2, <2>1, <3>1
  <2> QED BY <2>2, <2>3
<1>5. \A i \in DOMAIN d : d[i].parts # <<>> /\ OfKind(d[i], "dummy") = {}
  BY <1>0, <1>1, <1>3 DEF Conversation
<1>6. \A i \in 1..(Len(d) - 1) : d[i].role # d[i + 1].role
  BY <1>0, <1>4 DEF Conversation
<1>7. \A i \in DOMAIN d : \A j \in Calls(d[i]) : IsModel(d[i]) /\ d[i].parts[j].key = <<i, j>>
  BY <1>0, <1>1, <1>3 DEF Conversation
<1>8. \A i \in DOMAIN d : \A j \in Responses(d[i]) :
         i > 1 /\ \E l \in Calls(d[i - 1]) : d[i].parts[j].key = <<i - 1, l>>
  <2> SUFFICES ASSUME NEW i \in DOMAIN d, NEW j \in Responses(d[i])
               PROVE  i > 1 /\ \E l \in Calls(d[i - 1]) : d[i].parts[j].key = <<i - 1, l>>
    OBVIOUS
  <2>1. CASE i \in 1..n /\ d[i] = c[i]
    <3>1. i > 1 /\ \E l \in Calls(c[i - 1]) : c[i].parts[j].key = <<i - 1, l>>
      BY <1>1, <2>1 DEF Conversation
    <3>2. i - 1 \in 1..n
      BY <1>1, <2>1, <3>1
    <3>3. d[i - 1] = c[i - 1]
      BY <1>2, <3>2
    <3> QED BY <2>1, <3>1, <3>3
  <2>2. CASE i = n + 1 /\ d[i] = t
    <3>1. c # <<>> /\ \E l \in Calls(c[n]) : t.parts[j].key = <<n, l>>
      BY <1>0, <2>2
    <3>2. i > 1 /\ i - 1 = n /\ n \in 1..n
      BY <1>1, <2>2, <3>1
    <3>3. d[i - 1] = c[n]
      BY <1>2, <3>2
    <3> QED BY <2>2, <3>1, <3>2, <3>3
  <2> QED BY <1>3, <2>1, <2>2
<1>9. \A i \in DOMAIN d : \A j, l \in Responses(d[i]) :
         d[i].parts[j].key = d[i].parts[l].key => j = l
  BY <1>0, <1>1, <1>3 DEF Conversation
<1>10. \A i \in 1..(Len(d) - 1) : Calls(d[i]) # {} => ~Scolds(d[i + 1], Scoldings)
  <2>1. \A i \in 1..(Len(c) - 1) : Calls(c[i]) # {} => ~Scolds(c[i + 1], Scoldings)
    BY DEF Conversation
  <2> QED BY <1>0, <1>4, <2>1
<1>11. Conversation(d)
  BY <1>2, <1>5, <1>6, <1>7, <1>8, <1>9, <1>10 DEF Conversation
<1>12. ASSUME NamesApart(c), NamesItsCalls(c, t)
       PROVE  NamesApart(d)
  <2> SUFFICES ASSUME NEW i \in 1..(Len(d) - 1)
               PROVE  \A j \in Calls(d[i]), l \in Responses(d[i + 1]) :
                         d[i].parts[j].name = d[i + 1].parts[l].name
                           => d[i].parts[j].key = d[i + 1].parts[l].key
    BY DEF NamesApart
  <2>1. CASE i \in 1..(n - 1) /\ i + 1 \in 1..n /\ d[i] = c[i] /\ d[i + 1] = c[i + 1]
    BY <1>12, <2>1 DEF NamesApart
  <2>2. CASE i = n /\ c # <<>> /\ d[i] = c[n] /\ d[i + 1] = t
    BY <1>12, <2>2 DEF NamesItsCalls
  <2> QED BY <1>4, <2>1, <2>2
<1> QED BY <1>11, <1>12 DEF d

-------------------------------------------------------------------------------
(* Tools. *)

\* The retrieval tool is offered once.
OneOffer(groups) ==
    \A g, h \in DOMAIN groups : Retrieve \in groups[g] /\ Retrieve \in groups[h] => g = h

\* Some of the groups, in order, offer nothing twice.
LEMMA SomeGroups ==
    ASSUME NEW groups \in Seq(SUBSET ToolNames), OneOffer(groups),
           NEW n \in Nat, n = Len(groups), NEW places \in SUBSET (1..n)
    PROVE  /\ ElementsAt(groups, places) \in Seq(SUBSET ToolNames)
           /\ OneOffer(ElementsAt(groups, places))
<1> DEFINE N == Cardinality(places)
           kept == ElementsAt(groups, places)
<1>1. \A g \in 1..n : g \in DOMAIN groups /\ groups[g] \in SUBSET ToolNames
  OBVIOUS
<1>2. LET chosen == ElementsAt(groups, places)
      IN /\ chosen \in Seq({groups[k] : k \in places})
         /\ Len(chosen) = Cardinality(places) /\ DOMAIN chosen = 1..Cardinality(places)
         /\ \A m \in 1..Cardinality(places) : chosen[m] = groups[NthPlace(places, m)]
  BY ElementsChosen, Zenon
<1>3. /\ kept \in Seq({groups[k] : k \in places}) /\ DOMAIN kept = 1..N
      /\ \A m \in 1..N : kept[m] = groups[NthPlace(places, m)]
  BY <1>2
<1>4. /\ \A m \in 1..N : NthPlace(places, m) \in places
      /\ \A m, l \in 1..N : m < l => NthPlace(places, m) < NthPlace(places, l)
      /\ N \in 0..n
  BY Places
<1> HIDE DEF kept, N
<1>5. kept \in Seq(SUBSET ToolNames)
  <2> DEFINE chosen == {groups[k] : k \in places}
  <2>1. chosen \subseteq SUBSET ToolNames
    BY <1>1
  <2>2. kept \in Seq(chosen)
    BY <1>3, Zenon
  <2> HIDE DEF chosen
  <2> QED BY <2>1, <2>2
<1>6. ASSUME NEW g \in DOMAIN kept, NEW h \in DOMAIN kept,
             Retrieve \in kept[g], Retrieve \in kept[h]
      PROVE  g = h
  <2>1. g \in 1..N /\ h \in 1..N
    BY <1>3
  <2> DEFINE x == NthPlace(places, g)
             y == NthPlace(places, h)
  <2>2. x \in places /\ y \in places
    BY <1>4, <2>1
  <2>3. kept[g] = groups[x] /\ kept[h] = groups[y]
    BY <1>3, <2>1
  <2>4. (g < h => x < y) /\ (h < g => y < x)
    BY <1>4, <2>1
  <2> HIDE DEF x, y
  <2>5. x = y
    BY <1>1, <1>6, <2>2, <2>3 DEF OneOffer
  <2>6. x \in Nat /\ y \in Nat
    BY <2>2
  <2>7. g \in Nat /\ h \in Nat
    BY <1>4, <2>1
  <2> QED BY <2>4, <2>5, <2>6, <2>7
<1> QED BY <1>5, <1>6 DEF OneOffer, kept

\* Taking cold tools off offers nothing twice.
LEMMA PruneActiveOffers ==
    ASSUME NEW c, NEW groups \in Seq(SUBSET ToolNames), OneOffer(groups), NEW knobs
    PROVE  /\ PruneActiveTools(c, groups, knobs) \in Seq(SUBSET ToolNames)
           /\ OneOffer(PruneActiveTools(c, groups, knobs))
<1> DEFINE K == {g \in DOMAIN groups :
                   ~\E name \in groups[g] : IsCold(name, c, knobs.window, knobs.immune)}
<1>1. Len(groups) \in Nat /\ K \in SUBSET (1..Len(groups))
  OBVIOUS
<1>2. PruneActiveTools(c, groups, knobs) = groups
      \/ PruneActiveTools(c, groups, knobs) = ElementsAt(groups, K)
  BY DEF PruneActiveTools
<1> HIDE DEF K
<1> QED BY <1>1, <1>2, SomeGroups

\* With a marker in the prompt the tool is on offer, once.
LEMMA InjectOffers ==
    ASSUME NEW c, NEW groups \in Seq(SUBSET ToolNames), OneOffer(groups)
    PROVE  LET all == InjectTool(c, groups)
           IN /\ all \in Seq(SUBSET ToolNames) /\ OneOffer(all)
              /\ setting.opts /\ HasElided(c) => HasRetrievalTool(all)
<1> DEFINE n == Len(groups)
           more == Append(groups, {Retrieve})
<1>1. n \in Nat /\ DOMAIN groups = 1..n /\ {Retrieve} \in SUBSET ToolNames
  BY DEF ToolNames
<1>2. /\ more \in Seq(SUBSET ToolNames) /\ DOMAIN more = 1..(n + 1) /\ more[n + 1] = {Retrieve}
      /\ \A g \in 1..n : more[g] = groups[g]
  BY <1>1
<1> HIDE DEF more
<1>3. HasRetrievalTool(more)
  BY <1>1, <1>2 DEF HasRetrievalTool
<1>4. ASSUME ~HasRetrievalTool(groups) PROVE OneOffer(more)
  <2>1. \A g \in DOMAIN more : Retrieve \in more[g] => g = n + 1
    BY <1>1, <1>2, <1>4 DEF HasRetrievalTool
  <2> QED BY <2>1 DEF OneOffer
<1>5. InjectTool(c, groups) =
        IF setting.opts /\ HasElided(c) /\ ~HasRetrievalTool(groups) THEN more ELSE groups
  BY DEF InjectTool, more
<1> QED BY <1>2, <1>3, <1>4, <1>5

-------------------------------------------------------------------------------
(* What is sent. *)

\* OwnAnswers for any prompt p and contents c.
AnsweredIn(c, p, i) ==
    LET calls == {q \in ToSet(p[i].parts) : q.kind = "call"}
        places == {j \in DOMAIN p[i + 1].parts : p[i + 1].parts[j].kind \in {"response", "dummy"}}
        By(call) == {j \in places : p[i + 1].parts[j].key = call.key}
        Was(call) == \E k \in DOMAIN c : \E q \in ToSet(c[k].parts) :
                        q.kind = "response" /\ q.key = call.key
    IN /\ \A call \in calls :
             /\ Cardinality(By(call)) = 1
             /\ \A j \in By(call) : p[i + 1].parts[j].kind = "dummy" => ~Was(call)
       /\ \A j \in places : \E call \in calls : j \in By(call)

\* One answer to each call, of its key, is what the property asks for.
LEMMA OnceIsAnswered ==
    ASSUME NEW c \in Seq(Turns), NEW p, NEW i,
           Once(p[i + 1].parts, CallKeys(p[i]), Answered(c))
    PROVE  AnsweredIn(c, p, i)
<1> DEFINE m == p[i]
           built == p[i + 1].parts
           calls == {q \in ToSet(m.parts) : q.kind = "call"}
           places == AnswerPlaces(built)
           By(call) == {j \in places : built[j].key = call.key}
           Was(call) == \E k \in DOMAIN c : \E q \in ToSet(c[k].parts) :
                           q.kind = "response" /\ q.key = call.key
<1>1. /\ \A j \in places : built[j].key \in CallKeys(m)
      /\ \A j, l \in places : built[j].key = built[l].key => j = l
      /\ \A key \in CallKeys(m) : \E j \in places : built[j].key = key
      /\ \A j \in places : built[j].kind = "dummy" => built[j].key \notin Answered(c)
  BY DEF Once
<1>2. CallKeys(m) = {q.key : q \in calls}
  BY DEF CallKeys, Calls, OfKind, ToSet
<1>3. ASSUME NEW call \in calls, Was(call) PROVE call.key \in Answered(c)
  <2>1. PICK k \in DOMAIN c : \E q \in ToSet(c[k].parts) : q.kind = "response" /\ q.key = call.key
    BY <1>3
  <2>2. PICK j \in DOMAIN c[k].parts : c[k].parts[j].kind = "response" /\ c[k].parts[j].key = call.key
    BY <2>1 DEF ToSet
  <2>3. c[k] \in Turns
    OBVIOUS
  <2>4. c[k].parts \in Seq(AllParts)
    BY <2>3 DEF Turns
  <2>5. c[k].parts[j] \in AllParts
    BY <2>4
  <2>6. c[k].parts[j] \in ResponseParts
    BY <2>2, <2>5, PartKinds
  <2>7. call.key \in Keys
    BY <2>2, <2>6 DEF ResponseParts
  <2> QED BY <2>2, <2>7 DEF Answered, Responses, OfKind
<1>4. ASSUME NEW call \in calls
      PROVE  /\ Cardinality(By(call)) = 1
             /\ \A j \in By(call) : built[j].kind = "dummy" => ~Was(call)
  <2>1. call.key \in CallKeys(m)
    BY <1>2
  <2>2. PICK j \in places : built[j].key = call.key
    BY <1>1, <2>1
  <2>3. By(call) = {j}
    BY <1>1, <2>2
  <2>4. Cardinality({j}) = 1
    BY FS_Singleton
  <2>5. \A l \in By(call) : built[l].kind = "dummy" => ~Was(call)
    <3> HIDE DEF Was
    <3> QED BY <1>1, <1>3
  <2> QED BY <2>3, <2>4, <2>5
<1>5. \A j \in places : \E call \in calls : j \in By(call)
  BY <1>1, <1>2
<1>6. places = {j \in DOMAIN built : built[j].kind \in {"response", "dummy"}}
  BY DEF AnswerPlaces
<1> QED BY <1>4, <1>5, <1>6 DEF AnsweredIn

-------------------------------------------------------------------------------
(* What the client and the model say next. *)

\* What a client writes is a part.
LEMMA ClientPart ==
    ASSUME NEW x \in ClientTexts
    PROVE  x \in TextParts /\ x \in AllParts /\ x.kind = "text"
<1>0. /\ x.kind = "text" /\ x.says \in STRING /\ x.block \in Blocks \union {NoBlock}
      /\ x.at = 0 /\ x.env \in {"none", "snapshot"}
      /\ x.nudged = FALSE /\ x.shown = <<>>
  BY DEF ClientTexts
<1>1. /\ x.kind = "text" /\ x.says \in Words /\ x.block \in Blocks \union {NoBlock}
      /\ x.at \in Nat /\ x.env \in {"none", "snapshot", "collapsed"}
      /\ x.nudged \in BOOLEAN /\ x.shown = <<>>
  <2>1. x.says \in Words
    BY <1>0 DEF Words
  <2>2. x.at \in Nat
    BY <1>0
  <2>3. x.env \in {"none", "snapshot", "collapsed"}
    BY <1>0
  <2>4. x.nudged \in BOOLEAN
    BY <1>0
  <2> QED BY <1>0, <2>1, <2>2, <2>3, <2>4, Zenon
<1>2. x.shown \in Seq(Forms)
  BY <1>1
<1>3. x = [kind |-> x.kind, says |-> x.says, block |-> x.block, at |-> x.at,
           env |-> x.env, nudged |-> x.nudged, shown |-> x.shown]
  BY DEF ClientTexts
<1>4. x \in TextParts
  BY <1>1, <1>2, <1>3 DEF TextParts
<1> QED BY <1>1, <1>4 DEF AllParts

\* Some parts that are calls, of different keys, in order.
LEMMA SomeCalls ==
    ASSUME NEW seq, NEW n \in Nat, NEW places \in SUBSET (1..n),
           \A k \in places : seq[k] \in CallParts,
           \A k, h \in places : seq[k].key = seq[h].key => k = h
    PROVE  LET chosen == ElementsAt(seq, places)
           IN /\ chosen \in Seq(CallParts)
              /\ \A m \in DOMAIN chosen : \E k \in places : chosen[m] = seq[k]
              /\ \A m, l \in DOMAIN chosen : chosen[m].key = chosen[l].key => m = l
              /\ chosen = <<>> => places = {}
<1> DEFINE N == Cardinality(places)
           chosen == ElementsAt(seq, places)
<1>1. /\ chosen \in Seq({seq[k] : k \in places})
      /\ Len(chosen) = N /\ DOMAIN chosen = 1..N
      /\ \A m \in 1..N : chosen[m] = seq[NthPlace(places, m)]
  <2>1. LET found == ElementsAt(seq, places)
        IN /\ found \in Seq({seq[k] : k \in places})
           /\ Len(found) = Cardinality(places) /\ DOMAIN found = 1..Cardinality(places)
           /\ \A m \in 1..Cardinality(places) : found[m] = seq[NthPlace(places, m)]
    BY ElementsChosen, Zenon
  <2> QED BY <2>1
<1>2. /\ \A m \in 1..N : NthPlace(places, m) \in places
      /\ \A m, l \in 1..N : m < l => NthPlace(places, m) < NthPlace(places, l)
      /\ N \in 0..n
  BY Places
<1>3. N = 0 => places = {}
  <2>1. IsFiniteSet(places)
    <3>1. IsFiniteSet(1..n)
      BY FS_Interval
    <3> QED BY <3>1, FS_Subset
  <2> QED BY <2>1, FS_EmptySet
<1> HIDE DEF chosen, N
<1>4. chosen \in Seq(CallParts)
  <2> DEFINE those == {seq[k] : k \in places}
  <2>1. those \subseteq CallParts
    OBVIOUS
  <2>2. chosen \in Seq(those)
    BY <1>1, Zenon
  <2> HIDE DEF those
  <2> QED BY <2>1, <2>2
<1>5. ASSUME NEW m \in DOMAIN chosen, NEW l \in DOMAIN chosen, chosen[m].key = chosen[l].key
      PROVE  m = l
  <2>1. m \in 1..N /\ l \in 1..N
    BY <1>1
  <2> DEFINE x == NthPlace(places, m)
             y == NthPlace(places, l)
  <2>2. x \in places /\ y \in places
    BY <1>2, <2>1
  <2>3. chosen[m] = seq[x] /\ chosen[l] = seq[y]
    BY <1>1, <2>1
  <2>4. (m < l => x < y) /\ (l < m => y < x)
    BY <1>2, <2>1
  <2> HIDE DEF x, y
  <2>5. x = y
    BY <1>5, <2>2, <2>3
  <2>6. x \in Nat /\ m \in Nat /\ l \in Nat
    BY <1>2, <2>1, <2>2
  <2> QED BY <2>4, <2>5, <2>6
<1>6. \A m \in DOMAIN chosen : \E k \in places : chosen[m] = seq[k]
  BY <1>1, <1>2
<1>7. chosen = <<>> => places = {}
  BY <1>1, <1>3
<1> QED BY <1>4, <1>5, <1>6, <1>7 DEF chosen

\* Calls of the turn m, each once.
CallsOf(m, seq) ==
    /\ seq \in Seq(CallParts)
    /\ \A k \in DOMAIN seq : \E j \in Calls(m) : seq[k] = m.parts[j]
    /\ \A k, h \in DOMAIN seq : seq[k].key = seq[h].key => k = h

\* The open calls are those of the model's last turn.
LEMMA OpenCallsOf ==
    ASSUME Conversation(history), history # <<>>
    PROVE  LET m == history[Len(history)]
           IN CallsOf(m, OpenCalls) /\ (OpenCalls = <<>> => Calls(m) = {})
<1> DEFINE n == Len(history)
           m == history[n]
<1>1. history \in Seq(Turns) /\ n \in Nat /\ n \in DOMAIN history
  BY DEF Conversation
<1>2. m \in Turns
  BY <1>1
<1>3. Last(history) = m
  BY DEF Last
<1>4. \A j \in Calls(m) : m.parts[j].key = <<n, j>>
  BY <1>1 DEF Conversation
<1> HIDE DEF m
<1>5. m.parts \in Seq(AllParts)
  BY <1>2 DEF Turns
<1>6. Calls(m) \in SUBSET (1..Len(m.parts)) /\ Len(m.parts) \in Nat
  BY <1>5 DEF Calls, OfKind
<1>7. \A j \in Calls(m) : m.parts[j] \in CallParts
  <2> SUFFICES ASSUME NEW j \in Calls(m) PROVE m.parts[j] \in CallParts
    OBVIOUS
  <2>1. m.parts[j] \in AllParts /\ m.parts[j].kind = "call"
    BY <1>5 DEF Calls, OfKind
  <2> QED BY <2>1, PartKinds
<1>8. \A j, l \in Calls(m) : m.parts[j].key = m.parts[l].key => j = l
  BY <1>4
<1>9. OpenCalls = ElementsAt(m.parts, Calls(m))
  BY <1>3 DEF OpenCalls, Calls
<1>10. LET chosen == ElementsAt(m.parts, Calls(m))
       IN /\ chosen \in Seq(CallParts)
          /\ \A k \in DOMAIN chosen : \E j \in Calls(m) : chosen[k] = m.parts[j]
          /\ \A k, l \in DOMAIN chosen : chosen[k].key = chosen[l].key => k = l
          /\ chosen = <<>> => Calls(m) = {}
  BY <1>6, <1>7, <1>8, SomeCalls
<1>11. CallsOf(m, OpenCalls) /\ (OpenCalls = <<>> => Calls(m) = {})
  BY <1>9, <1>10 DEF CallsOf
<1> QED BY <1>11 DEF m

\* Leaving calls out leaves calls of the turn.
LEMMA CallsOfSome ==
    ASSUME NEW m, NEW seq, CallsOf(m, seq), NEW places \in SUBSET DOMAIN seq
    PROVE  CallsOf(m, ElementsAt(seq, places))
<1>1. /\ seq \in Seq(CallParts) /\ Len(seq) \in Nat /\ DOMAIN seq = 1..Len(seq)
      /\ \A k \in DOMAIN seq : \E j \in Calls(m) : seq[k] = m.parts[j]
      /\ \A k, h \in DOMAIN seq : seq[k].key = seq[h].key => k = h
  BY DEF CallsOf
<1>2. \A k \in places : seq[k] \in CallParts
  BY <1>1
<1>3. places \in SUBSET (1..Len(seq))
  BY <1>1
<1>4. \A k, h \in places : seq[k].key = seq[h].key => k = h
  BY <1>1
<1>5. LET chosen == ElementsAt(seq, places)
      IN /\ chosen \in Seq(CallParts)
         /\ \A k \in DOMAIN chosen : \E j \in places : chosen[k] = seq[j]
         /\ \A k, l \in DOMAIN chosen : chosen[k].key = chosen[l].key => k = l
         /\ chosen = <<>> => places = {}
  BY <1>1, <1>2, <1>3, <1>4, SomeCalls
<1> QED BY <1>1, <1>5 DEF CallsOf

\* The client's answers to some calls.
AnswersTo(seq) == [k \in 1..Len(seq) |-> Response(ResponseName(seq[k]), seq[k])]

\* A turn of the client's parts: it answers calls of m, and what it writes
\* beside the answers is no scolding.
RepliesTo(m, parts) ==
    /\ parts \in Seq(AllParts) /\ parts # <<>>
    /\ \A j \in DOMAIN parts :
          \/ /\ parts[j] \in ResponseParts
             /\ \E l \in Calls(m) : parts[j].key = m.parts[l].key
                                    /\ parts[j].name \in {"tool", m.parts[l].name}
             /\ setting.ids => parts[j].name = "tool"
          \/ parts[j] \in TextParts /\ parts[j].says = "ask"
    /\ \A j, l \in DOMAIN parts :
          parts[j].kind = "response" /\ parts[l].kind = "response" /\ parts[j].key = parts[l].key
            => j = l

\* The answers to some calls name those calls or no tool.
LEMMA AnswersReply ==
    ASSUME NEW m, NEW seq, CallsOf(m, seq)
    PROVE  /\ AnswersTo(seq) \in Seq(ResponseParts) /\ Len(AnswersTo(seq)) = Len(seq)
           /\ \A k \in 1..Len(seq) : \E l \in Calls(m) :
                 /\ AnswersTo(seq)[k].key = m.parts[l].key
                 /\ AnswersTo(seq)[k].name \in {"tool", m.parts[l].name}
                 /\ setting.ids => AnswersTo(seq)[k].name = "tool"
           /\ \A k, h \in 1..Len(seq) :
                 AnswersTo(seq)[k].key = AnswersTo(seq)[h].key => k = h
<1> DEFINE N == Len(seq)
           f == AnswersTo(seq)
<1>1. /\ N \in Nat /\ DOMAIN seq = 1..N
      /\ \A k \in 1..N : seq[k] \in CallParts
      /\ \A k \in 1..N : \E j \in Calls(m) : seq[k] = m.parts[j]
      /\ \A k, h \in 1..N : seq[k].key = seq[h].key => k = h
  BY DEF CallsOf
<1>2. \A k \in 1..N : f[k] = Response(ResponseName(seq[k]), seq[k])
  BY DEF AnswersTo
<1>3. f = [k \in 1..N |-> f[k]]
  BY DEF AnswersTo
<1> HIDE DEF f, N
<1>4. ASSUME NEW k \in 1..N
      PROVE  /\ f[k] \in ResponseParts /\ f[k].key = seq[k].key
             /\ f[k].name \in {"tool", seq[k].name}
             /\ setting.ids => f[k].name = "tool"
  <2> DEFINE s == seq[k]
  <2>1. s \in CallParts
    BY <1>1
  <2>2. f[k] = Response(ResponseName(s), s)
    BY <1>2
  <2> HIDE DEF s
  <2>3. s.name \in Words /\ s.arg \in ArgParts /\ s.key \in Keys
    BY <2>1 DEF CallParts
  <2>4. /\ ResponseName(s) \in {"tool", s.name} /\ ResponseName(s) \in Words
        /\ setting.ids => ResponseName(s) = "tool"
    BY <2>3 DEF ResponseName, Words
  <2>5. <<>> \in Seq(Forms)
    OBVIOUS
  <2> QED BY <2>2, <2>3, <2>4, <2>5 DEF Response, ResponseParts, s
<1>5. f \in Seq(ResponseParts) /\ Len(f) = N
  <2>1. N \in Nat /\ \A k \in 1..N : f[k] \in ResponseParts
    BY <1>1, <1>4
  <2> QED BY <1>3, <2>1, Tabulated
<1>6. ASSUME NEW k \in 1..N
      PROVE  \E l \in Calls(m) : /\ f[k].key = m.parts[l].key
                                 /\ f[k].name \in {"tool", m.parts[l].name}
                                 /\ setting.ids => f[k].name = "tool"
  BY <1>1, <1>4
<1>7. \A k, h \in 1..N : f[k].key = f[h].key => k = h
  BY <1>1, <1>4
<1> QED BY <1>5, <1>6, <1>7 DEF f, N

\* Answers alone, or answers and a question.
LEMMA AnswersRepliesTo ==
    ASSUME NEW m, NEW seq, CallsOf(m, seq)
    PROVE  /\ seq # <<>> => RepliesTo(m, AnswersTo(seq))
           /\ RepliesTo(m, Append(AnswersTo(seq), Text("ask", NoBlock, "snapshot")))
<1> DEFINE N == Len(seq)
           f == AnswersTo(seq)
           x == Text("ask", NoBlock, "snapshot")
           g == Append(f, x)
<1>1. /\ f \in Seq(ResponseParts) /\ Len(f) = N
      /\ \A k \in 1..N : \E l \in Calls(m) : /\ f[k].key = m.parts[l].key
                                             /\ f[k].name \in {"tool", m.parts[l].name}
                                             /\ setting.ids => f[k].name = "tool"
      /\ \A k, h \in 1..N : f[k].key = f[h].key => k = h
  BY AnswersReply
<1>2. x \in TextParts /\ x.says = "ask" /\ x.kind = "text"
  <2>1. <<>> \in Seq(Forms) /\ "ask" \in Words
    BY DEF Words
  <2> QED BY <2>1 DEF Text, TextParts
<1>3. seq # <<>> => N # 0
  BY DEF CallsOf
<1> HIDE DEF f, x, N
<1>4. ResponseParts \subseteq AllParts /\ x \in AllParts
  BY <1>2 DEF AllParts
<1>5. f \in Seq(AllParts) /\ N \in Nat /\ DOMAIN f = 1..N
  BY <1>1, <1>4
<1>6. /\ g \in Seq(AllParts) /\ g # <<>> /\ DOMAIN g = 1..(N + 1) /\ g[N + 1] = x
      /\ \A k \in 1..N : g[k] = f[k]
  <2>1. Len(f) = N
    BY <1>1
  <2>2. g \in Seq(AllParts) /\ Len(g) = N + 1 /\ g[N + 1] = x
    BY <1>4, <1>5, <2>1
  <2>3. DOMAIN g = 1..(N + 1) /\ N + 1 # 0
    BY <1>5, <2>2
  <2>4. \A k \in 1..N : g[k] = f[k]
    BY <1>4, <1>5, <2>1
  <2> QED BY <2>2, <2>3, <2>4
<1> HIDE DEF g
<1>7. \A k \in 1..N : f[k] \in ResponseParts
  BY <1>1, <1>5
<1>8. seq # <<>> => RepliesTo(m, f)
  <2>1. seq # <<>> => f # <<>>
    BY <1>3, <1>1
  <2> QED BY <1>1, <1>5, <1>7, <2>1 DEF RepliesTo
<1>9. RepliesTo(m, g)
  <2>1. \A j \in DOMAIN g : (j \in 1..N /\ g[j] = f[j]) \/ (j = N + 1 /\ g[j] = x)
    BY <1>5, <1>6
  <2>2. ASSUME NEW j \in DOMAIN g
        PROVE  \/ /\ g[j] \in ResponseParts
                  /\ \E l \in Calls(m) : g[j].key = m.parts[l].key
                                    /\ g[j].name \in {"tool", m.parts[l].name}
                  /\ setting.ids => g[j].name = "tool"
               \/ g[j] \in TextParts /\ g[j].says = "ask"
    <3>1. CASE j \in 1..N /\ g[j] = f[j]
      BY <1>1, <1>7, <3>1
    <3>2. CASE j = N + 1 /\ g[j] = x
      BY <1>2, <3>2
    <3> QED BY <2>1, <3>1, <3>2
  <2>3. \A j, l \in DOMAIN g :
          g[j].kind = "response" /\ g[l].kind = "response" /\ g[j].key = g[l].key => j = l
    BY <1>1, <1>2, <2>1
  <2> QED BY <1>6, <2>2, <2>3 DEF RepliesTo
<1> QED BY <1>8, <1>9 DEF f, g, x

\* What UserParts is, by case.
LEMMA UserPartsCases ==
    ASSUME NEW parts \in UserParts
    PROVE  \/ history = <<>> /\ \E t \in Openings : parts = <<t>>
           \/ history # <<>> /\ OpenCalls = <<>> /\ \E t \in Replies : parts = <<t>>
           \/ history # <<>> /\ OpenCalls # <<>> /\ parts = AnswersTo(OpenCalls)
           \/ /\ history # <<>>
              /\ \E places \in SUBSET DOMAIN OpenCalls :
                    parts = Append(AnswersTo(ElementsAt(OpenCalls, places)),
                                   Text("ask", NoBlock, "snapshot"))
<1>1. CASE history = <<>>
  BY <1>1 DEF UserParts
<1>2. CASE history # <<>> /\ OpenCalls = <<>>
  BY <1>2 DEF UserParts
<1>3. CASE history # <<>> /\ OpenCalls # <<>>
  <2>1. \/ parts = AnswersTo(OpenCalls)
        \/ \E left \in DOMAIN OpenCalls :
              parts = Append(AnswersTo(ElementsAt(OpenCalls, DOMAIN OpenCalls \ {left})),
                             Text("ask", NoBlock, "snapshot"))
    BY <1>3 DEF UserParts, AnswersTo
  <2> QED BY <1>3, <2>1
<1> QED BY <1>1, <1>2, <1>3

\* The role and the parts of a turn.
LEMMA TurnOf ==
    ASSUME NEW role, NEW parts
    PROVE  /\ Turn(role, parts).role = role /\ Turn(role, parts).parts = parts
           /\ role \in Roles /\ parts \in Seq(AllParts) => Turn(role, parts) \in Turns
  BY DEF Turn, Turns

\* A reply to the model's calls may come next.
LEMMA ReplyTurn ==
    ASSUME NEW c, Conversation(c), c # <<>>, IsModel(c[Len(c)]),
           \A j \in Calls(c[Len(c)]) : c[Len(c)].parts[j].name # "tool",
           NEW parts, RepliesTo(c[Len(c)], parts)
    PROVE  /\ Continues(c, Turn("user", parts))
           /\ setting.ids => NamesItsCalls(c, Turn("user", parts))
<1> DEFINE n == Len(c)
           m == c[n]
           t == Turn("user", parts)
<1>1. n \in Nat /\ n \in DOMAIN c /\ m.role = "model"
  BY DEF Conversation, IsModel
<1>2. \A j \in Calls(m) : m.parts[j].key = <<n, j>>
  BY <1>1 DEF Conversation
<1>3. /\ parts \in Seq(AllParts) /\ parts # <<>>
      /\ \A j \in DOMAIN parts :
            \/ /\ parts[j] \in ResponseParts
               /\ \E l \in Calls(m) : parts[j].key = m.parts[l].key
                                      /\ parts[j].name \in {"tool", m.parts[l].name}
               /\ setting.ids => parts[j].name = "tool"
            \/ parts[j] \in TextParts /\ parts[j].says = "ask"
      /\ \A j, l \in DOMAIN parts :
            parts[j].kind = "response" /\ parts[l].kind = "response" /\ parts[j].key = parts[l].key
              => j = l
  BY DEF RepliesTo
<1>4. t.role = "user" /\ t.parts = parts /\ t \in Turns
  BY <1>3, TurnOf DEF Roles
<1>5. \A j \in Calls(m) : m.parts[j].name # "tool"
  OBVIOUS
<1> HIDE DEF m, t
<1>6. \A p \in ResponseParts : p.kind = "response"
  BY DEF ResponseParts
<1>7. \A p \in TextParts : p.kind = "text"
  BY DEF TextParts
<1>8. /\ Calls(t) = {} /\ OfKind(t, "dummy") = {}
  BY <1>3, <1>4, <1>6, <1>7 DEF Calls, OfKind
<1>9. \A j \in Responses(t) :
         /\ \E l \in Calls(m) : t.parts[j].key = <<n, l>>
         /\ setting.ids => t.parts[j].name = "tool"
  <2> SUFFICES ASSUME NEW j \in Responses(t)
               PROVE  /\ \E l \in Calls(m) : parts[j].key = <<n, l>>
                      /\ setting.ids => parts[j].name = "tool"
    BY <1>4
  <2>1. j \in DOMAIN parts /\ parts[j].kind = "response"
    BY <1>4 DEF Responses, OfKind
  <2>2. /\ \E l \in Calls(m) : parts[j].key = m.parts[l].key
        /\ setting.ids => parts[j].name = "tool"
    BY <1>3, <1>7, <2>1
  <2> QED BY <1>2, <2>2
<1>10. \A j, l \in Responses(t) : t.parts[j].key = t.parts[l].key => j = l
  BY <1>3, <1>4 DEF Responses, OfKind
<1>11. ~Scolds(t, Scoldings)
  <2> SUFFICES ASSUME NEW j \in OfKind(t, "text"), t.parts[j].says \in Scoldings PROVE FALSE
    BY DEF Scolds
  <2>1. j \in DOMAIN parts /\ parts[j].kind = "text" /\ parts[j].says \in Scoldings
    BY <1>4 DEF OfKind
  <2>2. parts[j].says = "ask"
    BY <1>3, <1>6, <2>1
  <2> QED BY <2>1, <2>2 DEF Scoldings
<1>12. Continues(c, t)
  BY <1>1, <1>3, <1>4, <1>8, <1>9, <1>10, <1>11 DEF Continues, m
<1>13. setting.ids => NamesItsCalls(c, t)
  BY <1>5, <1>9 DEF NamesItsCalls, m
<1> QED BY <1>12, <1>13 DEF t

\* So may a text, unless the client owes an answer.
LEMMA TextTurn ==
    ASSUME NEW c, Conversation(c), NEW role \in Roles, NEW x \in TextParts,
           c # <<>> => c[Len(c)].role # role,
           c # <<>> => Calls(c[Len(c)]) = {}
    PROVE  Continues(c, Turn(role, <<x>>)) /\ NamesItsCalls(c, Turn(role, <<x>>))
<1> DEFINE parts == <<x>>
           t == Turn(role, parts)
<1>1. x \in AllParts /\ x.kind = "text"
  BY DEF AllParts, TextParts
<1>2. parts \in Seq(AllParts) /\ parts # <<>> /\ DOMAIN parts = {1} /\ parts[1] = x
  <2>1. Len(parts) = 1 /\ DOMAIN parts = 1..1 /\ parts[1] = x
    OBVIOUS
  <2>2. parts \in Seq(AllParts)
    BY <1>1
  <2>3. \A j \in 1..1 : j = 1
    OBVIOUS
  <2> QED BY <2>1, <2>2, <2>3
<1> HIDE DEF parts
<1>3. t.role = role /\ t.parts = parts /\ t \in Turns
  BY <1>2, TurnOf
<1> HIDE DEF t
<1>4. Calls(t) = {} /\ Responses(t) = {} /\ OfKind(t, "dummy") = {}
  BY <1>1, <1>2, <1>3 DEF Calls, Responses, OfKind
<1>5. Continues(c, t)
  BY <1>2, <1>3, <1>4 DEF Continues
<1>6. NamesItsCalls(c, t)
  BY <1>4 DEF NamesItsCalls
<1> QED BY <1>5, <1>6 DEF t, parts

\* And calls of the model, each with the key of its place.
LEMMA CallsTurn ==
    ASSUME NEW c, Conversation(c), c # <<>>, IsUser(c[Len(c)]),
           NEW parts \in Seq(CallParts), parts # <<>>,
           \A k \in DOMAIN parts : parts[k].key = <<Len(c) + 1, k>>
    PROVE  Continues(c, Turn("model", parts)) /\ NamesItsCalls(c, Turn("model", parts))
<1> DEFINE n == Len(c)
           t == Turn("model", parts)
<1>1. c[n].role = "user"
  BY DEF IsUser
<1>2. parts \in Seq(AllParts)
  <2>1. CallParts \subseteq AllParts
    BY DEF AllParts
  <2> QED BY <2>1
<1>3. t.role = "model" /\ t.parts = parts /\ t \in Turns
  BY <1>2, TurnOf DEF Roles
<1> HIDE DEF t
<1>4. \A k \in DOMAIN parts : parts[k].kind = "call"
  <2>1. \A p \in CallParts : p.kind = "call"
    BY DEF CallParts
  <2> QED BY <2>1
<1>5. Responses(t) = {} /\ OfKind(t, "dummy") = {} /\ Calls(t) \subseteq DOMAIN parts
  BY <1>3, <1>4 DEF Responses, Calls, OfKind
<1>6. IsModel(t) /\ ~Scolds(t, Scoldings)
  BY <1>3 DEF IsModel, IsUser, Scolds
<1>7. \A k \in Calls(t) : t.parts[k].key = <<n + 1, k>>
  BY <1>3, <1>5
<1>8. Continues(c, t)
  BY <1>1, <1>3, <1>5, <1>6, <1>7 DEF Continues
<1>9. NamesItsCalls(c, t)
  BY <1>5 DEF NamesItsCalls
<1> QED BY <1>8, <1>9 DEF t

\* What a client asks next makes a conversation of its history.
LEMMA AskConversation ==
    ASSUME Conversation(history),
           history = <<>> \/ IsModel(history[Len(history)]),
           \A i \in DOMAIN history : \A j \in Calls(history[i]) : history[i].parts[j].name # "tool",
           NEW parts \in UserParts
    PROVE  LET t == Turn("user", parts)
               d == Append(history, t)
           IN /\ t \in Turns /\ Calls(t) = {}
              /\ Conversation(d) /\ (setting.ids /\ NamesApart(history) => NamesApart(d))
<1> DEFINE n == Len(history)
           m == history[n]
           t == Turn("user", parts)
           d == Append(history, t)
<1>1. Continues(history, t) /\ (setting.ids => NamesItsCalls(history, t))
  <2>1. ASSUME NEW x \in Openings \union Replies, parts = <<x>>,
               history = <<>> \/ Calls(m) = {}
        PROVE  Continues(history, t) /\ NamesItsCalls(history, t)
    <3>1. x \in TextParts
      BY <2>1, PipelineAssumption, ClientPart
    <3>2. history # <<>> => history[Len(history)].role # "user"
      BY DEF IsModel
    <3>3. "user" \in Roles
      BY DEF Roles
    <3> QED BY <2>1, <3>1, <3>2, <3>3, TextTurn
  <2>2. ASSUME history # <<>>, RepliesTo(m, parts)
        PROVE  Continues(history, t) /\ (setting.ids => NamesItsCalls(history, t))
    <3>1. n \in DOMAIN history
      BY <2>2 DEF Conversation
    <3>2. \A j \in Calls(history[Len(history)]) : history[Len(history)].parts[j].name # "tool"
      BY <3>1
    <3> QED BY <2>2, <3>2, ReplyTurn
  <2>3. CASE history = <<>> /\ \E x \in Openings : parts = <<x>>
    BY <2>1, <2>3
  <2>4. CASE history # <<>> /\ OpenCalls = <<>> /\ \E x \in Replies : parts = <<x>>
    <3>1. Calls(m) = {}
      BY <2>4, OpenCallsOf
    <3> QED BY <2>1, <2>4, <3>1
  <2>5. CASE history # <<>> /\ OpenCalls # <<>> /\ parts = AnswersTo(OpenCalls)
    <3>1. CallsOf(m, OpenCalls)
      BY <2>5, OpenCallsOf
    <3>2. RepliesTo(m, parts)
      BY <2>5, <3>1, AnswersRepliesTo
    <3> QED BY <2>2, <2>5, <3>2
  <2>6. CASE /\ history # <<>>
             /\ \E places \in SUBSET DOMAIN OpenCalls :
                   parts = Append(AnswersTo(ElementsAt(OpenCalls, places)),
                                  Text("ask", NoBlock, "snapshot"))
    <3>1. PICK places \in SUBSET DOMAIN OpenCalls :
             parts = Append(AnswersTo(ElementsAt(OpenCalls, places)),
                            Text("ask", NoBlock, "snapshot"))
      BY <2>6
    <3>2. CallsOf(m, OpenCalls)
      BY <2>6, OpenCallsOf
    <3>3. CallsOf(m, ElementsAt(OpenCalls, places))
      BY <3>2, CallsOfSome
    <3>4. RepliesTo(m, parts)
      BY <3>1, <3>3, AnswersRepliesTo
    <3> QED BY <2>2, <2>6, <3>4
  <2> HIDE DEF t, m
  <2> QED BY <2>3, <2>4, <2>5, <2>6, UserPartsCases
<1>2. t.role = "user"
  BY TurnOf
<1> HIDE DEF t
<1>3. t \in Turns /\ Calls(t) = {}
  BY <1>1, <1>2 DEF Continues, IsModel
<1>4. Conversation(d) /\ (setting.ids /\ NamesApart(history) => NamesApart(d))
  BY <1>1, AppendTurn
<1> QED BY <1>3, <1>4 DEF t

\* What the model answers: a text or calls, none of them named "tool".
LEMMA AnswerConversation ==
    ASSUME NEW c, Conversation(c), c # <<>>, IsUser(c[Len(c)]),
           NEW calls \in ModelTurns
    PROVE  LET t == Turn("model",
                       IF calls = <<>> THEN <<Text("answer", NoBlock, "none")>>
                       ELSE [k \in DOMAIN calls |->
                               Call(calls[k][1], calls[k][2], <<Len(c) + 1, k>>)])
               d == Append(c, t)
           IN /\ t \in Turns /\ \A j \in Calls(t) : t.parts[j].name # "tool"
              /\ Conversation(d) /\ (NamesApart(c) => NamesApart(d))
<1> DEFINE n == Len(c)
           x == Text("answer", NoBlock, "none")
           f == [k \in DOMAIN calls |-> Call(calls[k][1], calls[k][2], <<n + 1, k>>)]
           parts == IF calls = <<>> THEN <<x>> ELSE f
           t == Turn("model", parts)
           d == Append(c, t)
<1>1. n \in Nat /\ n \in DOMAIN c
  BY DEF Conversation
<1>2. Calls(c[n]) = {} /\ c[n].role = "user"
  BY <1>1 DEF Conversation, IsModel, IsUser
<1>3. Continues(c, t) /\ NamesItsCalls(c, t) /\ \A j \in Calls(t) : t.parts[j].name # "tool"
  <2>1. CASE calls = <<>>
    <3>1. x \in TextParts
      <4>1. <<>> \in Seq(Forms) /\ "answer" \in Words
        BY DEF Words
      <4> QED BY <4>1 DEF Text, TextParts
    <3>2. "model" \in Roles /\ c[Len(c)].role # "model"
      BY <1>2 DEF Roles
    <3> HIDE DEF x
    <3>3. t = Turn("model", <<x>>)
      BY <2>1
    <3>4. Continues(c, t) /\ NamesItsCalls(c, t)
      BY <1>2, <3>1, <3>2, <3>3, TextTurn
    <3>5. Calls(t) = {}
      <4>1. t.parts = <<x>> /\ x.kind = "text"
        BY <3>1, <3>3, TurnOf DEF TextParts
      <4>2. \A j \in DOMAIN <<x>> : <<x>>[j] = x
        OBVIOUS
      <4> QED BY <4>1, <4>2 DEF Calls, OfKind
    <3> QED BY <3>4, <3>5
  <2>2. CASE calls # <<>>
    <3> DEFINE N == Len(calls)
    <3>1. calls \in Seq((STRING \ {"tool"}) \X Arguments)
      BY PipelineAssumption
    <3>2. N \in Nat /\ DOMAIN calls = 1..N /\ N # 0
      BY <2>2, <3>1
    <3>3. ASSUME NEW k \in 1..N
          PROVE  f[k] \in CallParts /\ f[k].key = <<n + 1, k>> /\ f[k].name # "tool"
      <4> DEFINE a == calls[k][1]
                 b == calls[k][2]
                 key == <<n + 1, k>>
      <4>1. a \in STRING \ {"tool"} /\ b \in Arguments
        BY <3>1, <3>2
      <4>2. key \in Keys
        BY <1>1 DEF Keys
      <4>3. f[k] = Call(a, b, key)
        BY <3>2
      <4> HIDE DEF a, b, key, f
      <4>4. a \in Words /\ b \in ArgParts /\ <<>> \in Seq(Forms)
        BY <4>1 DEF Words, ArgParts
      <4>5. f[k] \in CallParts /\ f[k].key = key /\ f[k].name = a
        BY <4>2, <4>3, <4>4 DEF Call, CallParts
      <4> QED BY <4>1, <4>5 DEF key
    <3>4. f = [k \in 1..N |-> f[k]]
      BY <3>2
    <3>5. parts = f
      BY <2>2
    <3> HIDE DEF f, N, n, parts
    <3>6. f \in Seq(CallParts) /\ DOMAIN f = 1..N /\ Len(f) = N
      BY <3>2, <3>3, <3>4, Tabulated
    <3>7. f # <<>>
      BY <3>2, <3>6
    <3>8. \A k \in DOMAIN f : f[k].key = <<Len(c) + 1, k>>
      BY <3>3, <3>6 DEF n
    <3>9. Continues(c, t) /\ NamesItsCalls(c, t)
      BY <3>5, <3>6, <3>7, <3>8, CallsTurn
    <3>10. \A j \in Calls(t) : t.parts[j].name # "tool"
      BY <3>3, <3>5, <3>6, TurnOf DEF Calls, OfKind
    <3> QED BY <3>9, <3>10
  <2> QED BY <2>1, <2>2
<1> HIDE DEF t
<1>4. t \in Turns
  BY <1>3 DEF Continues
<1>5. Conversation(d) /\ (NamesApart(c) => NamesApart(d))
  BY <1>3, AppendTurn
<1> QED BY <1>3, <1>4, <1>5 DEF t

\* The gateway's own exchange continues the request's contents.
LEMMA RetrievalConversation ==
    ASSUME NEW c, Conversation(c), c # <<>>, IsUser(c[Len(c)])
    PROVE  LET call == Call(Retrieve, Flat("hash"), <<Len(c) + 1, 1>>)
               d == c \o <<Turn("model", <<call>>), Turn("user", <<Response(Retrieve, call)>>)>>
           IN /\ Conversation(d) /\ (NamesApart(c) => NamesApart(d))
              /\ d # <<>> /\ IsUser(d[Len(d)])
<1> DEFINE n == Len(c)
           call == Call(Retrieve, Flat("hash"), <<Len(c) + 1, 1>>)
           answer == Response(Retrieve, call)
           a == Turn("model", <<call>>)
           b == Turn("user", <<answer>>)
           e == Append(c, a)
           d == c \o <<a, b>>
<1>1. n \in Nat /\ c \in Seq(Turns)
  BY DEF Conversation
<1>2. call \in CallParts /\ call.key = <<n + 1, 1>> /\ call.kind = "call"
  <2>1. <<n + 1, 1>> \in Keys
    BY <1>1 DEF Keys
  <2>2. Retrieve \in Words /\ Flat("hash") \in ArgParts /\ <<>> \in Seq(Forms)
    BY DEF Words, ArgParts
  <2> QED BY <2>1, <2>2 DEF Call, CallParts
<1>3. answer \in ResponseParts /\ answer.key = <<n + 1, 1>> /\ answer.kind = "response"
  <2>1. Retrieve \in Words /\ call.arg \in ArgParts /\ call.key \in Keys /\ <<>> \in Seq(Forms)
    BY <1>2 DEF CallParts, Words
  <2> HIDE DEF call
  <2> QED BY <1>2, <2>1 DEF Response, ResponseParts
<1> HIDE DEF call, answer
<1>4. Continues(c, a) /\ NamesItsCalls(c, a)
  <2> DEFINE parts == <<call>>
  <2>1. parts \in Seq(CallParts) /\ parts # <<>>
    BY <1>2
  <2>2. \A k \in DOMAIN parts : parts[k].key = <<Len(c) + 1, k>>
    BY <1>2
  <2> HIDE DEF parts
  <2>3. Continues(c, Turn("model", parts)) /\ NamesItsCalls(c, Turn("model", parts))
    BY <2>1, <2>2, CallsTurn
  <2> QED BY <2>3 DEF parts
<1>5. a.role = "model" /\ a.parts = <<call>> /\ b.role = "user" /\ b.parts = <<answer>>
  BY TurnOf
<1>6. b \in Turns
  <2>1. <<answer>> \in Seq(AllParts)
    BY <1>3 DEF AllParts
  <2> QED BY <2>1, TurnOf DEF Roles
<1> HIDE DEF a, b
<1>7. Conversation(e) /\ (NamesApart(c) => NamesApart(e))
  BY <1>4, AppendTurn
<1>8. a \in Turns
  BY <1>4 DEF Continues
<1>9. e # <<>> /\ Len(e) = n + 1 /\ e[n + 1] = a
  BY <1>1, <1>8
<1> HIDE DEF e
<1>10. Calls(a) = {1} /\ a.parts[1] = call
  <2>1. DOMAIN a.parts = {1} /\ a.parts[1] = call
    BY <1>5
  <2> QED BY <1>2, <2>1 DEF Calls, OfKind
<1>11. Responses(b) = {1} /\ b.parts[1] = answer /\ Calls(b) = {}
       /\ OfKind(b, "dummy") = {} /\ b.parts # <<>>
  <2>1. DOMAIN b.parts = {1} /\ b.parts[1] = answer
    BY <1>5
  <2> QED BY <1>3, <1>5, <2>1 DEF Calls, Responses, OfKind
<1>12. Continues(e, b)
  <2>1. ~Scolds(b, Scoldings)
    BY <1>11 DEF Scolds, Responses
  <2>2. \A j \in Responses(b) :
           e # <<>> /\ \E l \in Calls(e[Len(e)]) : b.parts[j].key = <<Len(e), l>>
    BY <1>3, <1>9, <1>10, <1>11
  <2>3. e[Len(e)].role # b.role
    BY <1>5, <1>9
  <2> QED BY <1>6, <1>11, <2>1, <2>2, <2>3 DEF Continues
<1>13. NamesItsCalls(e, b)
  BY <1>2, <1>3, <1>9, <1>10, <1>11 DEF NamesItsCalls
<1>14. Conversation(Append(e, b)) /\ (NamesApart(e) => NamesApart(Append(e, b)))
  BY <1>7, <1>12, <1>13, AppendTurn
<1>15. d = Append(e, b)
  BY <1>1, <1>6, <1>8 DEF e
<1>16. d # <<>> /\ d[Len(d)] = b
  BY <1>1, <1>6, <1>8
<1> HIDE DEF d
<1>17. IsUser(d[Len(d)])
  BY <1>5, <1>16 DEF IsUser
<1> QED BY <1>7, <1>14, <1>15, <1>16, <1>17 DEF d, a, b, call, answer

\* What PipelineAssumption says of the setting.
LEMMA SettingFacts ==
    ASSUME setting \in Settings
    PROVE  /\ setting.knobs \in Knobs /\ setting.ids \in BOOLEAN
           /\ setting.gemini \in BOOLEAN /\ setting.disk \in BOOLEAN
           /\ setting.offers \in Seq(SUBSET ToolNames) /\ Len(setting.offers) <= 1
<1>1. /\ setting.knobs \in Knobs
      /\ {setting.ids, setting.gemini, setting.disk, setting.opts, setting.skips} \subseteq BOOLEAN
      /\ setting.offers \in Seq(SUBSET ToolNames) /\ Len(setting.offers) <= 1
  BY PipelineAssumption
<1> QED BY <1>1

\* The request's contents, the conversation it sends, what an attempt sends.
Asking(c) ==
    /\ Conversation(c) /\ c # <<>> /\ IsUser(c[Len(c)])
    /\ setting.ids => NamesApart(c)

\* The nudge leaves the contents a conversation.
LEMMA NudgedAsks ==
    ASSUME NEW c, Asking(c)
    PROVE  Asking(NudgeLastTurn(c)) /\ Len(NudgeLastTurn(c)) = Len(c)
<1> DEFINE d == NudgeLastTurn(c)
<1>1. c \in Seq(Turns) /\ c # <<>> /\ Conversation(c)
  BY DEF Asking, Conversation
<1>2. /\ FollowsAll(d, c)
      /\ \A i \in DOMAIN c : Scolds(d[i], Scoldings) => Scolds(c[i], Scoldings)
  BY <1>1, NudgeFollows
<1> HIDE DEF d
<1>3. Conversation(d) /\ (NamesApart(c) => NamesApart(d))
  BY <1>1, <1>2, FollowsConversation
<1>4. Len(d) = Len(c) /\ d \in Seq(Turns)
  BY <1>2 DEF FollowsAll
<1>5. d # <<>>
  BY <1>1, <1>4
<1>6. Len(c) \in DOMAIN c
  BY <1>1
<1>7. FollowsTurn(d[Len(c)], c[Len(c)])
  BY <1>2, <1>6 DEF FollowsAll
<1>8. IsUser(d[Len(d)])
  BY <1>4, <1>7 DEF Asking, IsUser, FollowsTurn
<1> QED BY <1>3, <1>4, <1>5, <1>8 DEF Asking, d

\* What one attempt sends for the contents c.
LEMMA AttemptSends ==
    ASSUME setting \in Settings, NEW c, Asking(c)
    PROVE  LET final == Finished(Shaped(c))
           IN /\ Len(final) \in Nat \ {0} /\ DOMAIN final = 1..Len(final)
              /\ \A i \in 1..Len(final) : final[i].role \in Roles /\ final[i].parts # <<>>
              /\ \A i \in 1..(Len(final) - 1) : final[i].role # final[i + 1].role
              /\ IsUser(final[Len(final)])
              /\ setting.ids /\ setting.gemini =>
                    \A i \in 1..(Len(final) - 1) : IsModel(final[i]) => AnsweredIn(c, final, i)
<1> DEFINE shaped == Shaped(c)
           final == Finished(shaped)
<1>1. /\ setting.knobs \in Knobs /\ setting.ids \in BOOLEAN
      /\ setting.gemini \in BOOLEAN /\ setting.disk \in BOOLEAN
  BY SettingFacts
<1>2. c \in Seq(Turns) /\ c # <<>> /\ Conversation(c)
  BY DEF Asking, Conversation
<1>3. Talk(c)
  BY <1>2 DEF Asking, Conversation, Talk
<1>4. Talk(shaped) /\ (setting.ids /\ Conversation(c) /\ NamesApart(c)
                         => AllPaired(shaped, Answered(c)))
  BY <1>1, <1>3, ShapedTalk
<1> HIDE DEF shaped
<1>5. /\ Len(final) \in Nat \ {0} /\ DOMAIN final = 1..Len(final)
      /\ \A i \in 1..Len(final) : final[i].role \in Roles /\ final[i].parts # <<>>
      /\ \A i \in 1..(Len(final) - 1) : final[i].role # final[i + 1].role
      /\ IsUser(final[Len(final)])
      /\ \A keys : setting.ids /\ setting.gemini /\ AllPaired(shaped, keys) =>
            \A i \in 1..(Len(final) - 1) : IsModel(final[i]) =>
               Once(final[i + 1].parts, CallKeys(final[i]), keys)
  BY <1>1, <1>4, FinishedTalk
<1> HIDE DEF final
<1>6. ASSUME setting.ids, setting.gemini, NEW i \in 1..(Len(final) - 1), IsModel(final[i])
      PROVE  AnsweredIn(c, final, i)
  <2>1. AllPaired(shaped, Answered(c))
    BY <1>2, <1>4, <1>6 DEF Asking
  <2>2. Once(final[i + 1].parts, CallKeys(final[i]), Answered(c))
    BY <1>5, <1>6, <2>1
  <2> QED BY <1>2, <2>2, OnceIsAnswered
<1> QED BY <1>5, <1>6 DEF final, shaped

\* The property is about the prompt that was sent and the contents behind it.
LEMMA AnsweredInKindIs ==
    ASSUME NEW CONSTANT i
    PROVE  AnsweredInKind(i) <=> AnsweredIn(contents, prompt, i)
  BY Zenon DEF AnsweredInKind, AnsweredIn, PartsAt, Answers, WasAnswered

-------------------------------------------------------------------------------
(* The invariant. *)

\* StillAConversation, the first turn apart.
Exchanges == RolesAlternate /\ (setting.ids => OwnAnswers)

\* The inductive invariant.
PipelineInv ==
    /\ TypeOK
    /\ Conversation(history)
    /\ \A i \in DOMAIN history : \A j \in Calls(history[i]) : history[i].parts[j].name # "tool"
    /\ setting.ids => NamesApart(history)
    /\ pc = "client" => history = <<>> \/ IsModel(history[Len(history)])
    /\ pc # "client" => /\ history # <<>> /\ IsUser(history[Len(history)])
                        /\ Asking(contents)
    /\ OneOffer(tools)
    /\ Sent /\ setting.opts /\ hinted => HasRetrievalTool(tools)
    /\ Exchanges

\* A conversation whose turns have a role and parts.
LEMMA ConversationTurns ==
    ASSUME NEW c, Conversation(c)
    PROVE  \A i \in DOMAIN c : c[i].role \in Roles /\ c[i].parts # <<>>
<1> SUFFICES ASSUME NEW i \in DOMAIN c PROVE c[i].role \in Roles /\ c[i].parts # <<>>
  OBVIOUS
<1>1. c[i] \in Turns
  BY DEF Conversation
<1> QED BY <1>1 DEF Turns, Conversation

\* Before the first turn.
LEMMA EmptyConversation == Conversation(<<>>) /\ NamesApart(<<>>)
<1>1. <<>> \in Seq(Turns) /\ Len(<<>>) = 0 /\ DOMAIN <<>> = {}
  OBVIOUS
<1>2. 1..(0 - 1) = {}
  OBVIOUS
<1> QED BY <1>1, <1>2 DEF Conversation, NamesApart

\* A gateway that starts has sent nothing.
LEMMA InitInv == Init => PipelineInv
<1> SUFFICES ASSUME Init PROVE PipelineInv
  OBVIOUS
<1>1. /\ setting \in Settings /\ history = <<>> /\ pc = "client" /\ contents = <<>>
      /\ tools = <<>> /\ prompt = <<>> /\ hinted = FALSE /\ retrievals = 0 /\ failures = 0
  BY DEF Init
<1>2. MaxTurns \in Nat /\ MaxRetrievals \in Nat /\ MaxFailures \in Nat
  BY PipelineAssumption
<1>3. DOMAIN <<>> = {} /\ Len(<<>>) = 0 /\ <<>> \in Seq(SUBSET ToolNames)
  OBVIOUS
<1>4. retrievals \in 0..MaxRetrievals /\ failures \in 0..MaxFailures /\ Len(history) <= MaxTurns
  BY <1>1, <1>2, <1>3
<1>5. TypeOK
  BY <1>1, <1>3, <1>4 DEF TypeOK
<1>6. ~Sent
  BY <1>1 DEF Sent
<1>7. OneOffer(tools)
  BY <1>1, <1>3 DEF OneOffer
<1>8. Exchanges
  BY <1>6 DEF Exchanges, RolesAlternate, OwnAnswers
<1> QED BY <1>1, <1>3, <1>5, <1>6, <1>7, <1>8, EmptyConversation DEF PipelineInv

\* A new request: its contents are the history with what the client says now.
LEMMA AskInv == PipelineInv /\ Ask => PipelineInv'
<1> SUFFICES ASSUME PipelineInv, Ask PROVE PipelineInv'
  OBVIOUS
<1> DEFINE t(parts) == Turn("user", parts)
<1>1. /\ TypeOK /\ Conversation(history)
      /\ \A i \in DOMAIN history : \A j \in Calls(history[i]) : history[i].parts[j].name # "tool"
      /\ setting.ids => NamesApart(history)
      /\ history = <<>> \/ IsModel(history[Len(history)])
  BY DEF PipelineInv, Ask
<1>2. PICK parts \in UserParts : history' = Append(history, t(parts)) /\ contents' = history'
  BY DEF Ask
<1>3. /\ Len(history) < MaxTurns /\ tools' = setting.offers /\ pc' = "gateway"
      /\ setting' = setting /\ retrievals' = retrievals /\ failures' = failures
      /\ prompt' = prompt /\ hinted' = hinted
  BY DEF Ask, sent
<1> DEFINE x == t(parts)
           d == Append(history, x)
<1>4. /\ x \in Turns /\ Calls(x) = {}
      /\ Conversation(d) /\ (setting.ids /\ NamesApart(history) => NamesApart(d))
  BY <1>1, AskConversation
<1>5. x.role = "user"
  BY TurnOf
<1> HIDE DEF x
<1>6. history \in Seq(Turns) /\ Len(history) \in Nat
  BY <1>1 DEF Conversation
<1>7. /\ d # <<>> /\ Len(d) = Len(history) + 1 /\ d[Len(d)] = x
      /\ DOMAIN d = 1..(Len(history) + 1)
      /\ \A i \in 1..Len(history) : d[i] = history[i]
  <2>1. Len(d) = Len(history) + 1 /\ d \in Seq(Turns)
    BY <1>4, <1>6
  <2>2. DOMAIN d = 1..(Len(history) + 1) /\ Len(history) + 1 # 0
    BY <1>6, <2>1
  <2>3. d[Len(history) + 1] = x /\ \A i \in 1..Len(history) : d[i] = history[i]
    BY <1>4, <1>6
  <2> QED BY <2>1, <2>2, <2>3
<1> HIDE DEF d
<1>8. history' = d /\ contents' = d
  BY <1>2 DEF d, x
<1>9. \A i \in DOMAIN d : \A j \in Calls(d[i]) : d[i].parts[j].name # "tool"
  <2>1. \A i \in DOMAIN d : (i \in DOMAIN history /\ d[i] = history[i]) \/ d[i] = x
    BY <1>6, <1>7
  <2> QED BY <1>1, <1>4, <2>1
<1>10. IsUser(d[Len(d)])
  BY <1>5, <1>7 DEF IsUser
<1>11. Asking(contents)'
  BY <1>1, <1>3, <1>4, <1>7, <1>8, <1>10 DEF Asking
<1>12. setting \in Settings
  BY <1>1 DEF TypeOK
<1>13. tools' \in Seq(SUBSET ToolNames) /\ Len(tools') <= 1
  BY <1>3, <1>12, SettingFacts
<1>14. OneOffer(tools')
  <2>1. \A g, h \in DOMAIN tools' : g = h
    BY <1>13
  <2> QED BY <2>1 DEF OneOffer
<1>15. Len(d) <= MaxTurns
  BY <1>3, <1>6, <1>7, PipelineAssumption
<1>16. TypeOK'
  <2>1. \A i \in DOMAIN d : d[i].role \in Roles /\ d[i].parts # <<>>
    BY <1>4, ConversationTurns
  <2> QED BY <1>1, <1>3, <1>8, <1>13, <1>15, <2>1 DEF TypeOK
<1>17. ~Sent'
  BY <1>3 DEF Sent
<1>18. Exchanges'
  BY <1>17 DEF Exchanges, RolesAlternate, OwnAnswers
<1> QED BY <1>1, <1>3, <1>4, <1>7, <1>8, <1>9, <1>10, <1>11, <1>14, <1>16, <1>17, <1>18
        DEF PipelineInv

\* An attempt: nudge, shape, cut, align and offer, on contents of any shape the client can send.
LEMMA AttemptInv == PipelineInv /\ Attempt => PipelineInv'
<1> SUFFICES ASSUME PipelineInv, Attempt PROVE PipelineInv'
  OBVIOUS
<1> DEFINE c == IF setting.knobs.loopbreak /\ setting.knobs.nudge
                THEN NudgeLastTurn(contents) ELSE contents
           warm == IF setting.knobs.loopbreak THEN DropRepeatedScoldings(c) ELSE c
           final == Finished(Shaped(c))
           left == PruneActiveTools(warm, tools, setting.knobs)
           offered == InjectTool(final, left)
<1>1. /\ TypeOK /\ setting \in Settings /\ Conversation(history)
      /\ \A i \in DOMAIN history : \A j \in Calls(history[i]) : history[i].parts[j].name # "tool"
      /\ setting.ids => NamesApart(history)
      /\ history # <<>> /\ IsUser(history[Len(history)]) /\ Asking(contents)
      /\ tools \in Seq(SUBSET ToolNames) /\ OneOffer(tools)
  BY DEF PipelineInv, Attempt, TypeOK
<1>2. /\ contents' = c /\ prompt' = final /\ tools' = offered /\ hinted' = HasElided(final)
      /\ pc' = "upstream" /\ setting' = setting /\ history' = history
      /\ retrievals' = retrievals /\ failures' = failures
  BY DEF Attempt
<1>3. Asking(c)
  BY <1>1, NudgedAsks
<1> HIDE DEF c
<1>4. /\ Len(final) \in Nat \ {0} /\ DOMAIN final = 1..Len(final)
      /\ \A i \in 1..Len(final) : final[i].role \in Roles /\ final[i].parts # <<>>
      /\ \A i \in 1..(Len(final) - 1) : final[i].role # final[i + 1].role
      /\ IsUser(final[Len(final)])
      /\ setting.ids /\ setting.gemini =>
            \A i \in 1..(Len(final) - 1) : IsModel(final[i]) => AnsweredIn(c, final, i)
  BY <1>1, <1>3, AttemptSends
<1> HIDE DEF final, warm
<1>5. left \in Seq(SUBSET ToolNames) /\ OneOffer(left)
  BY <1>1, PruneActiveOffers
<1> HIDE DEF left
<1>6. /\ offered \in Seq(SUBSET ToolNames) /\ OneOffer(offered)
      /\ setting.opts /\ HasElided(final) => HasRetrievalTool(offered)
  BY <1>5, InjectOffers
<1> HIDE DEF offered
<1>7. c \in Seq(Turns) /\ Conversation(c)
  BY <1>3 DEF Asking, Conversation
<1>8. TypeOK'
  <2>1. \A i \in DOMAIN c : c[i].role \in Roles /\ c[i].parts # <<>>
    BY <1>7, ConversationTurns
  <2>2. hinted' \in BOOLEAN
    BY <1>2 DEF HasElided
  <2>3. \A i \in DOMAIN final : final[i].role \in Roles /\ final[i].parts # <<>>
    BY <1>4
  <2> QED BY <1>1, <1>2, <1>6, <2>1, <2>2, <2>3 DEF TypeOK
<1>9. RolesAlternate'
  <2>1. final # <<>> /\ Last(final) = final[Len(final)]
    BY <1>4 DEF Last
  <2> QED BY <1>2, <1>4, <2>1 DEF RolesAlternate
<1>10. setting.ids => OwnAnswers'
  <2> SUFFICES ASSUME setting.ids, setting.gemini,
                      NEW i \in 1..(Len(final) - 1), IsModel(final[i])
               PROVE  AnsweredInKind(i)'
    BY <1>2 DEF OwnAnswers
  <2>1. AnsweredIn(contents', prompt', i)
    BY <1>2, <1>4
  <2>2. (AnsweredInKind(i) <=> AnsweredIn(contents, prompt, i))'
    BY AnsweredInKindIs, PTL
  <2> QED BY <2>1, <2>2
<1>11. Exchanges'
  BY <1>2, <1>9, <1>10 DEF Exchanges
<1>12. (Sent /\ setting.opts /\ hinted => HasRetrievalTool(tools))'
  BY <1>2, <1>6 DEF Sent
<1>13. Asking(contents)'
  BY <1>2, <1>3 DEF Asking
<1> QED BY <1>1, <1>2, <1>6, <1>8, <1>11, <1>12, <1>13 DEF PipelineInv

\* A failed attempt leaves what the next one starts from.
LEMMA AttemptFailsInv == PipelineInv /\ AttemptFails => PipelineInv'
<1> SUFFICES ASSUME PipelineInv, AttemptFails PROVE PipelineInv'
  OBVIOUS
<1>1. /\ pc = "upstream" /\ pc' = "gateway" /\ failures < MaxFailures /\ failures' = failures + 1
      /\ setting' = setting /\ history' = history /\ contents' = contents /\ tools' = tools
      /\ retrievals' = retrievals /\ prompt' = prompt /\ hinted' = hinted
  BY DEF AttemptFails, sent
<1>2. failures' \in 0..MaxFailures
  <2>1. failures \in 0..MaxFailures /\ MaxFailures \in Nat
    BY PipelineAssumption DEF PipelineInv, TypeOK
  <2> QED BY <1>1, <2>1
<1>3. TypeOK'
  BY <1>1, <1>2 DEF PipelineInv, TypeOK
<1>4. ~Sent'
  BY <1>1 DEF Sent
<1>5. Exchanges'
  BY <1>4 DEF Exchanges, RolesAlternate, OwnAnswers
<1> QED BY <1>1, <1>3, <1>4, <1>5 DEF PipelineInv, Asking

\* A retrieval adds an exchange to the contents.
LEMMA RetrievalInv == PipelineInv /\ Retrieval => PipelineInv'
<1> SUFFICES ASSUME PipelineInv, Retrieval PROVE PipelineInv'
  OBVIOUS
<1> DEFINE call == Call(Retrieve, Flat("hash"), <<Len(contents) + 1, 1>>)
           d == contents \o <<Turn("model", <<call>>), Turn("user", <<Response(Retrieve, call)>>)>>
<1>1. /\ pc = "upstream" /\ pc' = "gateway" /\ retrievals < MaxRetrievals
      /\ retrievals' = retrievals + 1 /\ contents' = d /\ prompt' = <<>>
      /\ setting' = setting /\ history' = history /\ tools' = tools
      /\ failures' = failures /\ hinted' = hinted
  BY DEF Retrieval
<1>2. /\ TypeOK /\ Asking(contents)
  BY <1>1 DEF PipelineInv
<1>3. /\ Conversation(d) /\ (NamesApart(contents) => NamesApart(d))
      /\ d # <<>> /\ IsUser(d[Len(d)])
  BY <1>2, RetrievalConversation DEF Asking
<1> HIDE DEF d
<1>4. Asking(contents)'
  BY <1>1, <1>2, <1>3 DEF Asking
<1>5. retrievals' \in 0..MaxRetrievals
  <2>1. retrievals \in 0..MaxRetrievals /\ MaxRetrievals \in Nat
    BY <1>2, PipelineAssumption DEF TypeOK
  <2> QED BY <1>1, <2>1
<1>6. TypeOK'
  <2>1. \A i \in DOMAIN d : d[i].role \in Roles /\ d[i].parts # <<>>
    BY <1>3, ConversationTurns
  <2>2. DOMAIN <<>> = {}
    OBVIOUS
  <2> QED BY <1>1, <1>2, <1>5, <2>1, <2>2 DEF TypeOK
<1>7. ~Sent'
  BY <1>1 DEF Sent
<1>8. Exchanges'
  BY <1>7 DEF Exchanges, RolesAlternate, OwnAnswers
<1> QED BY <1>1, <1>4, <1>6, <1>7, <1>8 DEF PipelineInv

\* The model answers, and the request is over.
LEMMA AnswerInv == PipelineInv /\ Answer => PipelineInv'
<1> SUFFICES ASSUME PipelineInv, Answer PROVE PipelineInv'
  OBVIOUS
<1> DEFINE n == Len(history) + 1
           t(calls) == Turn("model",
                          IF calls = <<>> THEN <<Text("answer", NoBlock, "none")>>
                          ELSE [k \in DOMAIN calls |-> Call(calls[k][1], calls[k][2], <<n, k>>)])
<1>1. /\ pc = "upstream" /\ pc' = "client" /\ Len(history) + 1 < MaxTurns
      /\ contents' = <<>> /\ tools' = <<>> /\ prompt' = <<>> /\ hinted' = FALSE
      /\ retrievals' = 0 /\ failures' = 0 /\ setting' = setting
  BY DEF Answer
<1>2. PICK calls \in ModelTurns : history' = Append(history, t(calls))
  BY DEF Answer
<1>3. /\ TypeOK /\ Conversation(history)
      /\ \A i \in DOMAIN history : \A j \in Calls(history[i]) : history[i].parts[j].name # "tool"
      /\ setting.ids => NamesApart(history)
      /\ history # <<>> /\ IsUser(history[Len(history)])
  BY <1>1 DEF PipelineInv
<1> DEFINE x == t(calls)
           d == Append(history, x)
<1>4. /\ x \in Turns /\ \A j \in Calls(x) : x.parts[j].name # "tool"
      /\ Conversation(d) /\ (NamesApart(history) => NamesApart(d))
  BY <1>3, AnswerConversation
<1>5. x.role = "model"
  BY TurnOf
<1> HIDE DEF x
<1>6. history \in Seq(Turns) /\ Len(history) \in Nat
  BY <1>3 DEF Conversation
<1>7. /\ Len(d) = Len(history) + 1 /\ d[Len(d)] = x
      /\ DOMAIN d = 1..(Len(history) + 1)
      /\ \A i \in 1..Len(history) : d[i] = history[i]
  <2>1. Len(d) = Len(history) + 1 /\ d \in Seq(Turns)
    BY <1>4, <1>6
  <2>2. DOMAIN d = 1..(Len(history) + 1)
    BY <1>6, <2>1
  <2>3. d[Len(history) + 1] = x /\ \A i \in 1..Len(history) : d[i] = history[i]
    BY <1>4, <1>6
  <2> QED BY <2>1, <2>2, <2>3
<1> HIDE DEF d
<1>8. history' = d
  BY <1>2 DEF d, x
<1>9. \A i \in DOMAIN d : \A j \in Calls(d[i]) : d[i].parts[j].name # "tool"
  <2>1. \A i \in DOMAIN d : (i \in DOMAIN history /\ d[i] = history[i]) \/ d[i] = x
    BY <1>6, <1>7
  <2> QED BY <1>3, <1>4, <2>1
<1>10. IsModel(d[Len(d)])
  BY <1>5, <1>7 DEF IsModel
<1>11. Len(d) <= MaxTurns
  BY <1>1, <1>6, <1>7, PipelineAssumption
<1>12. DOMAIN <<>> = {} /\ <<>> \in Seq(SUBSET ToolNames)
  OBVIOUS
<1>13. retrievals' \in 0..MaxRetrievals /\ failures' \in 0..MaxFailures
  <2>1. MaxRetrievals \in Nat /\ MaxFailures \in Nat
    BY PipelineAssumption
  <2> QED BY <1>1, <2>1
<1>14. TypeOK'
  <2>1. \A i \in DOMAIN d : d[i].role \in Roles /\ d[i].parts # <<>>
    BY <1>4, ConversationTurns
  <2> QED BY <1>1, <1>3, <1>8, <1>11, <1>12, <1>13, <2>1 DEF TypeOK
<1>15. ~Sent'
  BY <1>1 DEF Sent
<1>16. Exchanges'
  BY <1>15 DEF Exchanges, RolesAlternate, OwnAnswers
<1>17. OneOffer(tools')
  BY <1>1, <1>12 DEF OneOffer
<1> QED BY <1>1, <1>3, <1>4, <1>8, <1>9, <1>10, <1>14, <1>15, <1>16, <1>17 DEF PipelineInv

\* Stuttering, and the bound.
LEMMA IdleInv == PipelineInv /\ UNCHANGED vars => PipelineInv'
<1> SUFFICES ASSUME PipelineInv, UNCHANGED vars PROVE PipelineInv'
  OBVIOUS
<1>1. /\ setting' = setting /\ history' = history /\ pc' = pc /\ contents' = contents
      /\ tools' = tools /\ retrievals' = retrievals /\ failures' = failures
      /\ prompt' = prompt /\ hinted' = hinted
  BY DEF vars, request, sent
<1>2. Sent' = Sent
  BY <1>1 DEF Sent
<1>3. TypeOK'
  BY <1>1 DEF PipelineInv, TypeOK
<1>4. RolesAlternate' <=> RolesAlternate
  BY <1>1, <1>2 DEF RolesAlternate
<1>5. OwnAnswers' <=> OwnAnswers
  <2>1. ASSUME NEW CONSTANT i PROVE AnsweredInKind(i)' <=> AnsweredInKind(i)
    <3>1. (AnsweredInKind(i) <=> AnsweredIn(contents, prompt, i))'
      BY AnsweredInKindIs, PTL
    <3> QED BY <1>1, <3>1, AnsweredInKindIs
  <2> QED BY <1>1, <1>2, <2>1 DEF OwnAnswers
<1>6. Exchanges'
  BY <1>1, <1>4, <1>5 DEF PipelineInv, Exchanges
<1> QED BY <1>1, <1>2, <1>3, <1>6 DEF PipelineInv, Asking

\* Every step keeps the invariant.
LEMMA NextInv == PipelineInv /\ [Next]_vars => PipelineInv'
  BY AskInv, AttemptInv, AttemptFailsInv, RetrievalInv, AnswerInv, IdleInv DEF Next, Over

\* A set with one element at most.
LEMMA AtMostOne ==
    ASSUME NEW S, \A x, y \in S : x = y
    PROVE  Cardinality(S) <= 1
<1>1. CASE S = {}
  BY <1>1, FS_EmptySet
<1>2. CASE S # {}
  <2>1. PICK x \in S : TRUE
    BY <1>2
  <2>2. S = {x}
    BY <2>1
  <2> QED BY <2>2, FS_Singleton
<1> QED BY <1>1, <1>2

\* The invariant holds of every request of every client, in every setting.
THEOREM PipelineInvariant == Spec => []PipelineInv
  BY InitInv, NextInv, PTL DEF Spec

\* TypeOK of PromptPipeline: of all a request's steps, none makes a turn without parts.
THEOREM TypeCorrect == Spec => []TypeOK
<1>1. PipelineInv => TypeOK
  BY DEF PipelineInv
<1> QED BY <1>1, PipelineInvariant, PTL

\* RetrievalOffered: however many attempts add the tool to the same options, it is
\* on offer at most once, and it is when the prompt has a marker.
THEOREM ToolOffered == Spec => []RetrievalOffered
<1>1. PipelineInv => RetrievalOffered
  <2> SUFFICES ASSUME PipelineInv, Sent, setting.opts
               PROVE  LET offers == {g \in DOMAIN tools : Retrieve \in tools[g]}
                      IN Cardinality(offers) <= 1 /\ (hinted => offers # {})
    BY DEF RetrievalOffered
  <2> DEFINE offers == {g \in DOMAIN tools : Retrieve \in tools[g]}
  <2>1. Cardinality(offers) <= 1
    <3>1. \A g, h \in offers : g = h
      BY DEF PipelineInv, OneOffer
    <3> HIDE DEF offers
    <3> QED BY <3>1, AtMostOne
  <2>2. hinted => offers # {}
    BY DEF PipelineInv, HasRetrievalTool
  <2> QED BY <2>1, <2>2
<1> QED BY <1>1, PipelineInvariant, PTL

-------------------------------------------------------------------------------
(* A retry. *)

\* A nudge that is there already is not added again.
LEMMA NudgeTwice ==
    ASSUME NEW c \in Seq(Turns), c # <<>>
    PROVE  NudgeLastTurn(NudgeLastTurn(c)) = NudgeLastTurn(c)
<1> DEFINE n == Len(c)
           texts == OfKind(c[n], "text")
           k == Min(texts)
           d == NudgeLastTurn(c)
           p == c[n].parts[k]
           q == NudgeText(p)
<1>1. n \in Nat \ {0} /\ DOMAIN c = 1..n /\ n \in DOMAIN c /\ c[n] \in Turns
  OBVIOUS
<1>2. c[n].parts \in Seq(AllParts) /\ DOMAIN c[n].parts = 1..Len(c[n].parts)
      /\ Len(c[n].parts) \in Nat
  <2>1. c[n].parts \in Seq(AllParts)
    BY <1>1 DEF Turns
  <2> QED BY <2>1
<1>3. CASE ~(IsNoTool(c[n]) \/ IsTodo(c[n]))
  <2>1. NudgeLastTurn(c) = c
    BY <1>3 DEF NudgeLastTurn
  <2> QED BY <2>1
<1>4. CASE IsNoTool(c[n]) \/ IsTodo(c[n])
  <2>1. texts # {} /\ texts \in SUBSET (1..Len(c[n].parts))
    <3>1. texts # {}
      BY <1>4 DEF IsNoTool, IsTodo, Scolds
    <3>2. texts \in SUBSET (1..Len(c[n].parts))
      BY <1>2 DEF OfKind
    <3> QED BY <3>1, <3>2
  <2>2. k \in texts
    <3> HIDE DEF texts
    <3> QED BY <1>2, <2>1, MinOfPlaces
  <2>3. \A x \in texts : x \in DOMAIN c[n].parts /\ c[n].parts[x].kind = "text"
                         /\ c[n].parts[x] \in AllParts
    BY <1>2 DEF OfKind
  <2>4. k \in DOMAIN c[n].parts /\ p \in TextParts
    <3>1. k \in DOMAIN c[n].parts /\ p.kind = "text" /\ p \in AllParts
      <4> HIDE DEF k, texts
      <4> QED BY <2>2, <2>3
    <3> QED BY <3>1, PartKinds
  <2>5. d = [c EXCEPT ![n].parts[k] = NudgeText(@)]
    BY <1>4 DEF NudgeLastTurn
  <2> HIDE DEF k, p
  <2>6. q \in TextParts /\ NudgeText(q) = q /\ q.kind = "text"
    BY <2>4 DEF NudgeText, TextParts
  <2> DEFINE parts == [c[n].parts EXCEPT ![k] = q]
             turn == [c[n] EXCEPT !.parts = parts]
  <2>7. d = [c EXCEPT ![n] = turn]
    BY <2>5 DEF p
  <2>8. q \in AllParts
    BY <2>6 DEF AllParts
  <2> HIDE DEF q, texts
  <2>9. /\ parts \in Seq(AllParts) /\ DOMAIN parts = DOMAIN c[n].parts /\ parts[k] = q
        /\ \A j \in DOMAIN parts : parts[j] = IF j = k THEN q ELSE c[n].parts[j]
    BY <1>2, <2>4, <2>8
  <2> HIDE DEF parts
  <2>10. turn \in Turns /\ turn.parts = parts
    BY <1>1, <2>9 DEF Turns
  <2> HIDE DEF turn, d
  <2>11. d \in Seq(Turns) /\ Len(d) = n /\ d[n] = turn /\ n \in DOMAIN d
    BY <1>1, <2>7, <2>10
  <2>12. OfKind(turn, "text") = texts
    <3>1. \A j \in DOMAIN parts : parts[j].kind = "text" <=> c[n].parts[j].kind = "text"
      BY <2>2, <2>3, <2>6, <2>9
    <3> QED BY <2>9, <2>10, <3>1 DEF OfKind, texts
  <2>13. NudgeLastTurn(d) = d \/ NudgeLastTurn(d) = [d EXCEPT ![n].parts[k] = NudgeText(@)]
    BY <2>11, <2>12 DEF NudgeLastTurn, k
  <2>14. [parts EXCEPT ![k] = q] = parts
    <3>1. k \in DOMAIN parts
      BY <2>4, <2>9
    <3> QED BY <2>9, <3>1
  <2>15. [turn EXCEPT !.parts = parts] = turn
    BY <2>10 DEF Turns
  <2>16. [d EXCEPT ![n] = turn] = d
    BY <2>11
  <2>17. [d EXCEPT ![n].parts[k] = NudgeText(@)] = [d EXCEPT ![n] = [turn EXCEPT !.parts =
                                                        [parts EXCEPT ![k] = q]]]
    BY <2>6, <2>9, <2>10, <2>11
  <2> QED BY <2>13, <2>14, <2>15, <2>16, <2>17 DEF d
<1> QED BY <1>3, <1>4

\* The elements at the first places are those of the sequence that is there.
LEMMA FirstElements ==
    ASSUME NEW S, NEW s \in Seq(S), NEW seq, \A i \in 1..Len(s) : seq[i] = s[i]
    PROVE  ElementsAt(seq, 1..Len(s)) = s
<1> DEFINE n == Len(s)
           places == 1..n
           chosen == ElementsAt(seq, places)
<1>1. n \in Nat /\ DOMAIN s = 1..n
  OBVIOUS
<1>2. Cardinality(places) = n /\ \A x \in places : Cardinality(1..x) = x
  <2>1. \A x \in Nat : Cardinality(1..x) = x
    <3> SUFFICES ASSUME NEW x \in Nat PROVE Cardinality(1..x) = x
      OBVIOUS
    <3> QED BY FS_Interval
  <2> QED BY <1>1, <2>1
<1>3. places \in SUBSET (1..n)
  OBVIOUS
<1> HIDE DEF n
<1>4. ASSUME NEW m \in 1..n PROVE NthPlace(places, m) = m
  <2> DEFINE x == NthPlace(places, m)
  <2>1. m \in 1..Cardinality(places)
    BY <1>2
  <2>2. x \in places /\ Cardinality(Below(places, x)) = m
    <3> HIDE DEF places
    <3> QED BY <1>1, <1>3, <2>1, Places
  <2> HIDE DEF x
  <2>3. Below(places, x) = 1..x
    BY <1>1, <2>2 DEF Below
  <2> QED BY <1>2, <2>2, <2>3 DEF x
<1>5. LET found == ElementsAt(seq, places)
      IN /\ found \in Seq({seq[k] : k \in places})
         /\ Len(found) = Cardinality(places) /\ DOMAIN found = 1..Cardinality(places)
         /\ \A m \in 1..Cardinality(places) : found[m] = seq[NthPlace(places, m)]
  <2> HIDE DEF places
  <2> QED BY <1>1, <1>3, ElementsChosen, Zenon
<1>6. /\ chosen \in Seq({seq[k] : k \in places}) /\ Len(chosen) = n /\ DOMAIN chosen = 1..n
      /\ \A m \in 1..n : chosen[m] = seq[NthPlace(places, m)]
  BY <1>2, <1>5
<1> HIDE DEF chosen, places
<1>7. \A m \in 1..n : chosen[m] = s[m]
  BY <1>4, <1>6 DEF n
<1>8. chosen = [m \in 1..n |-> chosen[m]] /\ s = [m \in 1..n |-> s[m]]
  BY <1>1, <1>6
<1>9. chosen = s
  BY <1>7, <1>8
<1> QED BY <1>9 DEF chosen, places, n

\* Tools that went cold stay off, and the retrieval tool comes back if it went.
LEMMA OfferTwice ==
    ASSUME NEW c, NEW final, NEW groups \in Seq(SUBSET ToolNames), OneOffer(groups), NEW knobs
    PROVE  LET all == InjectTool(final, PruneActiveTools(c, groups, knobs))
           IN InjectTool(final, PruneActiveTools(c, all, knobs)) = all
<1> DEFINE Cold(names) == \E name \in names : IsCold(name, c, knobs.window, knobs.immune)
           Rest(these) == {g \in DOMAIN these : ~Cold(these[g])}
           Prunes == ~(~knobs.active \/ Len(c) <= knobs.window)
           kept == PruneActiveTools(c, groups, knobs)
           more == Append(kept, {Retrieve})
           all == InjectTool(final, kept)
           Adds == setting.opts /\ HasElided(final)
<1>1. \A these : PruneActiveTools(c, these, knobs) =
                    IF Prunes THEN ElementsAt(these, Rest(these)) ELSE these
  BY DEF PruneActiveTools
<1>2. \A these : InjectTool(final, these) =
                    IF Adds /\ ~HasRetrievalTool(these) THEN Append(these, {Retrieve}) ELSE these
  BY DEF InjectTool
<1>3. kept \in Seq(SUBSET ToolNames)
  BY PruneActiveOffers
<1>4. Prunes => \A g \in DOMAIN kept : ~Cold(kept[g])
  <2> SUFFICES ASSUME Prunes, NEW g \in DOMAIN kept PROVE ~Cold(kept[g])
    OBVIOUS
  <2> DEFINE K == Rest(groups)
             n == Len(groups)
  <2>1. n \in Nat /\ K \in SUBSET (1..n)
    OBVIOUS
  <2>2. \A h \in K : ~Cold(groups[h])
    OBVIOUS
  <2>3. kept = ElementsAt(groups, K)
    BY <1>1
  <2> HIDE DEF K, n, kept, Cold, Prunes
  <2>4. LET chosen == ElementsAt(groups, K)
        IN /\ chosen \in Seq({groups[h] : h \in K})
           /\ Len(chosen) = Cardinality(K) /\ DOMAIN chosen = 1..Cardinality(K)
           /\ \A m \in 1..Cardinality(K) : chosen[m] = groups[NthPlace(K, m)]
    BY <2>1, ElementsChosen, Zenon
  <2>5. g \in 1..Cardinality(K) /\ kept[g] = groups[NthPlace(K, g)]
    BY <2>3, <2>4
  <2>6. NthPlace(K, g) \in K
    BY <2>1, <2>5, Places
  <2> QED BY <2>2, <2>5, <2>6
<1> HIDE DEF kept, Cold, Prunes, Adds
<1>5. kept \in Seq(SUBSET ToolNames) /\ Len(kept) \in Nat /\ DOMAIN kept = 1..Len(kept)
  BY <1>3
<1>6. Prunes => PruneActiveTools(c, kept, knobs) = kept
  <2> SUFFICES ASSUME Prunes PROVE PruneActiveTools(c, kept, knobs) = kept
    OBVIOUS
  <2>1. Rest(kept) = 1..Len(kept)
    BY <1>4, <1>5
  <2>2. ElementsAt(kept, 1..Len(kept)) = kept
    BY <1>5, FirstElements
  <2> QED BY <1>1, <2>1, <2>2
<1>7. CASE all = kept
  <2>1. PruneActiveTools(c, kept, knobs) = kept
    BY <1>1, <1>6
  <2> QED BY <1>7, <2>1 DEF kept
<1>8. CASE all # kept
  <2>1. all = more /\ Adds /\ ~HasRetrievalTool(kept)
    BY <1>2, <1>8
  <2>2. /\ {Retrieve} \in SUBSET ToolNames
        /\ more \in Seq(SUBSET ToolNames) /\ DOMAIN more = 1..(Len(kept) + 1)
        /\ Len(more) = Len(kept) + 1
        /\ more[Len(kept) + 1] = {Retrieve} /\ \A g \in 1..Len(kept) : more[g] = kept[g]
    <3>1. {Retrieve} \in SUBSET ToolNames
      BY DEF ToolNames
    <3> QED BY <1>5, <3>1
  <2> HIDE DEF more
  <2>3. HasRetrievalTool(more)
    BY <1>5, <2>2 DEF HasRetrievalTool
  <2>4. InjectTool(final, more) = more /\ InjectTool(final, kept) = more
    BY <1>2, <2>1, <2>3
  <2>5. \A g \in DOMAIN more : g \in 1..Len(kept) \/ (g = Len(kept) + 1 /\ more[g] = {Retrieve})
    BY <1>5, <2>2
  <2>6. Len(kept) + 1 \in DOMAIN more /\ Len(kept) + 1 \notin 1..Len(kept)
        /\ \A g \in 1..Len(kept) : g \in DOMAIN more
    BY <1>5, <2>2
  <2>7. Prunes => \A g \in 1..Len(kept) : ~Cold(more[g])
    BY <1>4, <1>5, <2>2
  <2>8. PruneActiveTools(c, more, knobs) = more \/ PruneActiveTools(c, more, knobs) = kept
    <3>1. CASE ~Prunes
      BY <1>1, <3>1
    <3>2. CASE Prunes /\ Cold({Retrieve})
      <4>1. Rest(more) = 1..Len(kept)
        BY <2>2, <2>5, <2>6, <2>7, <3>2
      <4>2. ElementsAt(more, 1..Len(kept)) = kept
        BY <1>5, <2>2, FirstElements
      <4> QED BY <1>1, <3>2, <4>1, <4>2
    <3>3. CASE Prunes /\ ~Cold({Retrieve})
      <4>0. Rest(more) = DOMAIN more
        BY <2>5, <2>7, <3>3
      <4>1. Rest(more) = 1..Len(more)
        BY <2>2, <4>0
      <4>2. ElementsAt(more, 1..Len(more)) = more
        BY <2>2, FirstElements
      <4> QED BY <1>1, <3>3, <4>1, <4>2
    <3> QED BY <3>1, <3>2, <3>3
  <2> QED BY <2>1, <2>4, <2>8 DEF kept
<1> QED BY <1>7, <1>8

\* What an attempt makes of the contents c and the tools that are left.
Nudged(c) == IF setting.knobs.loopbreak /\ setting.knobs.nudge THEN NudgeLastTurn(c) ELSE c
Warm(c) == IF setting.knobs.loopbreak THEN DropRepeatedScoldings(c) ELSE c
Offer(c, final, groups) == InjectTool(final, PruneActiveTools(Warm(c), groups, setting.knobs))

\* While a prompt is known that was sent for this request, another attempt
\* would send it again.
RetryInv ==
    /\ pc = "client" => prompt = <<>>
    /\ pc # "client" /\ prompt # <<>> =>
          /\ Nudged(contents) = contents
          /\ prompt = Finished(Shaped(contents))
          /\ tools = Offer(contents, prompt, tools)

\* A gateway that starts has sent nothing.
LEMMA InitRetry == Init => RetryInv
  BY DEF Init, RetryInv

\* An attempt leaves what another attempt would find.
LEMMA AttemptRetry == PipelineInv /\ Attempt => RetryInv'
<1> SUFFICES ASSUME PipelineInv, Attempt PROVE RetryInv'
  OBVIOUS
<1> DEFINE c == Nudged(contents)
           final == Finished(Shaped(c))
           offered == Offer(c, final, tools)
<1>1. /\ Asking(contents) /\ tools \in Seq(SUBSET ToolNames) /\ OneOffer(tools)
  BY DEF PipelineInv, Attempt, TypeOK
<1>2. /\ contents' = c /\ prompt' = final /\ tools' = offered /\ setting' = setting
      /\ pc' = "upstream"
  BY DEF Attempt, Nudged, Warm, Offer
<1>3. Nudged(c) = c
  <2>1. contents \in Seq(Turns) /\ contents # <<>>
    BY <1>1 DEF Asking, Conversation
  <2>2. NudgeLastTurn(NudgeLastTurn(contents)) = NudgeLastTurn(contents)
    BY <2>1, NudgeTwice
  <2> QED BY <2>2 DEF Nudged
<1> HIDE DEF c
<1>4. Offer(c, final, offered) = offered
  <2> HIDE DEF final
  <2> QED BY <1>1, OfferTwice DEF Offer
<1> HIDE DEF offered
<1>5. Nudged(contents)' = Nudged(c)
  BY <1>2 DEF Nudged
<1>6. Finished(Shaped(contents))' = final
  BY <1>2 DEF Shaped, Finished, FinishedDedupFirst
<1>7. Offer(contents, prompt, tools)' = Offer(c, final, offered)
  <2> HIDE DEF final
  <2> QED BY <1>2 DEF Offer, Warm, InjectTool
<1> QED BY <1>2, <1>3, <1>4, <1>5, <1>6, <1>7 DEF RetryInv

\* No other step changes what a retry would send, except to forget it.
LEMMA NextRetry == PipelineInv /\ RetryInv /\ [Next]_vars => RetryInv'
<1> SUFFICES ASSUME PipelineInv, RetryInv, [Next]_vars PROVE RetryInv'
  OBVIOUS
<1>1. ASSUME setting' = setting, contents' = contents, tools' = tools, prompt' = prompt,
             pc' = pc \/ (pc = "upstream" /\ pc' = "gateway")
      PROVE  RetryInv'
  <2>1. Finished(Shaped(contents))' = Finished(Shaped(contents))
    BY <1>1 DEF Shaped, Finished
  <2>2. Nudged(contents)' = Nudged(contents)
    BY <1>1 DEF Nudged
  <2>3. Offer(contents, prompt, tools)' = Offer(contents, prompt, tools)
    BY <1>1 DEF Offer, Warm, InjectTool
  <2> QED BY <1>1, <2>1, <2>2, <2>3 DEF RetryInv
<1>2. prompt' = <<>> => RetryInv'
  BY DEF RetryInv
<1>3. CASE Ask
  <2>1. prompt' = <<>>
    BY <1>3 DEF Ask, sent, RetryInv
  <2> QED BY <1>2, <2>1
<1>4. CASE Attempt
  BY <1>4, AttemptRetry
<1>5. CASE AttemptFails
  BY <1>1, <1>5 DEF AttemptFails, sent
<1>6. CASE Retrieval
  BY <1>2, <1>6 DEF Retrieval
<1>7. CASE Answer
  BY <1>2, <1>7 DEF Answer
<1>8. CASE UNCHANGED vars
  BY <1>1, <1>8 DEF vars, request, sent
<1> QED BY <1>3, <1>4, <1>5, <1>6, <1>7, <1>8 DEF Next, Over

\* Another attempt sends what was sent.
LEMMA RetrySends ==
    PipelineInv /\ RetryInv /\ [Next]_vars =>
        (pc = "gateway" /\ pc' = "upstream" /\ prompt # <<>> => prompt' = prompt /\ tools' = tools)
<1> SUFFICES ASSUME RetryInv, [Next]_vars, pc = "gateway", pc' = "upstream", prompt # <<>>
             PROVE  prompt' = prompt /\ tools' = tools
  OBVIOUS
<1>1. Attempt
  BY DEF Next, Ask, AttemptFails, Retrieval, Answer, Over, vars
<1>2. /\ Nudged(contents) = contents /\ prompt = Finished(Shaped(contents))
      /\ tools = Offer(contents, prompt, tools)
  BY DEF RetryInv
<1>3. /\ prompt' = Finished(Shaped(Nudged(contents)))
      /\ tools' = Offer(Nudged(contents), Finished(Shaped(Nudged(contents))), tools)
  BY <1>1 DEF Attempt, Nudged, Warm, Offer
<1> QED BY <1>2, <1>3

\* RetrySamePrompt: a retry asks the same again, although the attempts before
\* it changed the request's parts and options.
THEOREM RetriesAsk == Spec => RetrySamePrompt
<1>1. Init => PipelineInv /\ RetryInv
  BY InitInv, InitRetry
<1>2. PipelineInv /\ RetryInv /\ [Next]_vars => (PipelineInv /\ RetryInv)'
  BY NextInv, NextRetry
<1>3. PipelineInv /\ RetryInv /\ [Next]_vars =>
        [pc = "gateway" /\ pc' = "upstream" /\ prompt # <<>>
           => prompt' = prompt /\ tools' = tools]_vars
  BY RetrySends
<1> QED BY <1>1, <1>2, <1>3, PTL DEF Spec, RetrySamePrompt

-------------------------------------------------------------------------------
(* What the stages leave of a text, and of the latest turn. *)

\* A part that is shortened where it stands stays what it is: a text, a call, ...
Stays(q, p) == q.kind = p.kind /\ (p.kind = "text" => q.at = p.at)

\* And every part of a turn, of a conversation.
StaysTurn(t, s) == \A j \in 1..Len(s.parts) : Stays(t.parts[j], s.parts[j])

StaysAll(d, c) == \A i \in 1..Len(c) : StaysTurn(d[i], c[i])

\* A turn some parts of which are changed where they stand.
LEMMA TurnMapped ==
    ASSUME NEW s \in Turns, NEW f, f = [j \in 1..Len(s.parts) |-> f[j]]
    PROVE  LET t == Turn(s.role, SubSeq(f, 1, Len(s.parts)))
           IN t.role = s.role /\ \A j \in 1..Len(s.parts) : t.parts[j] = f[j]
<1>1. s.parts \in Seq(AllParts) /\ Len(s.parts) \in Nat
  BY DEF Turns
<1>2. SubSeq(f, 1, Len(s.parts)) = f
  BY <1>1, Tabulated
<1> QED BY <1>2 DEF Turn

\* A stage that shortens parts where they stand.
LEMMA AllStay ==
    ASSUME NEW c \in Seq(Turns), NEW g,
           g = [i \in 1..Len(c) |-> g[i]],
           \A i \in 1..Len(c) : StaysTurn(g[i], c[i])
    PROVE  /\ StaysAll(SubSeq(g, 1, Len(c)), c)
           /\ g[Len(c)] = c[Len(c)] => SubSeq(g, 1, Len(c))[Len(c)] = c[Len(c)]
<1>1. Len(c) \in Nat
  OBVIOUS
<1>2. SubSeq(g, 1, Len(c)) = g
  BY <1>1, Tabulated
<1> QED BY <1>2 DEF StaysAll

\* Eliding leaves the kind and the place of a part.
LEMMA ElideStays ==
    ASSUME NEW p \in AllParts, p.kind \in {"text", "call", "response"},
           NEW form, NEW disk
    PROVE  Stays(Elide(p, form, disk), p)
<1> DEFINE q == [p EXCEPT !.shown = Append(@, form)]
<1>1. CASE p.kind = "text"
  <2>1. p \in TextParts
    BY <1>1, PartKinds
  <2>2. q.kind = p.kind /\ q.at = p.at
    BY <2>1 DEF TextParts
  <2> QED BY <2>2 DEF Elide, Stays
<1>2. CASE p.kind = "call"
  <2>1. p \in CallParts
    BY <1>2, PartKinds
  <2>2. q.kind = p.kind
    BY <2>1 DEF CallParts
  <2> QED BY <1>2, <2>2 DEF Elide, Stays
<1>3. CASE p.kind = "response"
  <2>1. p \in ResponseParts
    BY <1>3, PartKinds
  <2>2. q.kind = p.kind
    BY <2>1 DEF ResponseParts
  <2> QED BY <1>3, <2>2 DEF Elide, Stays
<1> QED BY <1>1, <1>2, <1>3

\* The parts of a conversation.
LEMMA PartsOf ==
    ASSUME NEW c \in Seq(Turns), NEW i \in 1..Len(c)
    PROVE  /\ c[i] \in Turns /\ c[i].parts \in Seq(AllParts) /\ Len(c[i].parts) \in Nat
           /\ DOMAIN c[i].parts = 1..Len(c[i].parts)
           /\ \A j \in 1..Len(c[i].parts) : c[i].parts[j] \in AllParts
<1>1. c[i] \in Turns
  OBVIOUS
<1>2. c[i].parts \in Seq(AllParts)
  BY <1>1 DEF Turns
<1> QED BY <1>1, <1>2

\* Snapshots are collapsed, but not in the latest turn.
LEMMA CollapseStays ==
    ASSUME NEW c \in Seq(Turns), NEW knobs, c # <<>>, IsUser(c[Len(c)])
    PROVE  /\ StaysAll(CollapseEnvBlocks(c, knobs), c)
           /\ CollapseEnvBlocks(c, knobs)[Len(c)] = c[Len(c)]
<1> DEFINE Change(i, j) ==
              LET p == c[i].parts[j] IN
              IF p.kind = "text" /\ p.env = "snapshot" THEN [p EXCEPT !.env = "collapsed"] ELSE p
           Touched(i) == knobs.env /\ IsUser(c[i]) /\ i # LastUserTurn(c)
           Map(i) == [j \in 1..Len(c[i].parts) |-> Change(i, j)]
           g == [i \in 1..Len(c) |->
                   IF Touched(i) THEN Turn(c[i].role, SubSeq(Map(i), 1, Len(c[i].parts)))
                   ELSE c[i]]
<1>1. CollapseEnvBlocks(c, knobs) = SubSeq(g, 1, Len(c))
  BY DEF CollapseEnvBlocks, MapParts, Tabulate
<1>2. ASSUME NEW i \in 1..Len(c), NEW j \in 1..Len(c[i].parts)
      PROVE  Stays(Change(i, j), c[i].parts[j])
  <2> DEFINE p == c[i].parts[j]
  <2>1. p \in AllParts
    BY PartsOf
  <2>2. CASE p.kind = "text"
    <3>1. p \in TextParts
      BY <2>1, <2>2, PartKinds
    <3>2. [p EXCEPT !.env = "collapsed"].kind = p.kind /\ [p EXCEPT !.env = "collapsed"].at = p.at
      BY <3>1 DEF TextParts
    <3> QED BY <3>2 DEF Stays
  <2> QED BY <2>2 DEF Stays
<1>3. LastUserTurn(c) = Len(c)
  <2> DEFINE users == {i \in 1..Len(c) : IsUser(c[i])}
  <2>1. LastUserTurn(c) = IF users # {} THEN Max(users) ELSE 0
    BY DEF LastUserTurn, SelectLastInSeq
  <2>2. Len(c) \in users /\ \A i \in users : i \in Nat /\ i <= Len(c)
    OBVIOUS
  <2> HIDE DEF users
  <2>3. Max(users) \in users /\ \A i \in users : Max(users) >= i
    BY <2>2 DEF Max
  <2> QED BY <2>1, <2>2, <2>3
<1>4. ~Touched(Len(c)) /\ Len(c) \in 1..Len(c)
  BY <1>3
<1> HIDE DEF Change, Touched
<1>5. ASSUME NEW i \in 1..Len(c) PROVE StaysTurn(g[i], c[i])
  <2> DEFINE f == Map(i)
  <2>1. \A j \in 1..Len(c[i].parts) : f[j] = Change(i, j)
    OBVIOUS
  <2>2. \A j \in 1..Len(c[i].parts) :
           Turn(c[i].role, SubSeq(f, 1, Len(c[i].parts))).parts[j] = f[j]
    BY TurnMapped
  <2> QED BY <1>2, <2>1, <2>2 DEF StaysTurn, Stays
<1>6. g = [i \in 1..Len(c) |-> g[i]] /\ g[Len(c)] = c[Len(c)]
  BY <1>4
<1> HIDE DEF g
<1> QED BY <1>1, <1>5, <1>6, AllStay

\* Outputs and texts are shortened in older turns.
LEMMA TruncateStays ==
    ASSUME NEW c \in Seq(Turns), NEW knobs \in Knobs, NEW disk, c # <<>>
    PROVE  /\ StaysAll(TruncateToolResults(c, knobs, disk), c)
           /\ TruncateToolResults(c, knobs, disk)[Len(c)] = c[Len(c)]
<1> DEFINE Change(i, j) ==
              LET p == c[i].parts[j] IN
              IF \/ p.kind = "response" /\ OutputSize(p) > knobs.resultMax
                 \/ p.kind = "text" /\ TextSize(p) > knobs.resultMax
              THEN Elide(p, ResultForm(p, knobs.retain > 0 /\ Len(c) - i >= knobs.retain + 2, knobs), disk)
              ELSE p
           Touched(i) == knobs.truncate /\ i # Len(c) /\ Len(c) - i >= knobs.retain
           Map(i) == [j \in 1..Len(c[i].parts) |-> Change(i, j)]
           g == [i \in 1..Len(c) |->
                   IF Touched(i) THEN Turn(c[i].role, SubSeq(Map(i), 1, Len(c[i].parts)))
                   ELSE c[i]]
<1>1. TruncateToolResults(c, knobs, disk) = SubSeq(g, 1, Len(c))
  BY DEF TruncateToolResults, MapParts, Tabulate
<1>2. ASSUME NEW i \in 1..Len(c), NEW j \in 1..Len(c[i].parts)
      PROVE  Stays(Change(i, j), c[i].parts[j])
  <2> DEFINE p == c[i].parts[j]
  <2>1. p \in AllParts
    BY PartsOf
  <2>2. ASSUME p.kind = "text" \/ p.kind = "call" \/ p.kind = "response", NEW form
        PROVE  Stays(Elide(p, form, disk), p)
    BY <2>1, <2>2, ElideStays
  <2>3. Stays(p, p)
    BY DEF Stays
  <2> HIDE DEF p
  <2> QED BY <2>2, <2>3 DEF p
<1>3. (~Touched(Len(c))) /\ Len(c) \in 1..Len(c)
  OBVIOUS
<1> HIDE DEF Change, Touched
<1>4. ASSUME NEW i \in 1..Len(c) PROVE StaysTurn(g[i], c[i])
  <2> DEFINE f == Map(i)
  <2>1. \A j \in 1..Len(c[i].parts) : f[j] = Change(i, j)
    OBVIOUS
  <2>2. \A j \in 1..Len(c[i].parts) :
           Turn(c[i].role, SubSeq(f, 1, Len(c[i].parts))).parts[j] = f[j]
    BY TurnMapped
  <2> QED BY <1>2, <2>1, <2>2 DEF StaysTurn, Stays
<1>5. g = [i \in 1..Len(c) |-> g[i]] /\ (g[Len(c)] = c[Len(c)])
  BY <1>3
<1> HIDE DEF g
<1> QED BY <1>1, <1>4, <1>5, AllStay

\* Written files are elided in older turns.
LEMMA WritesStay ==
    ASSUME NEW c \in Seq(Turns), NEW knobs \in Knobs, NEW disk, c # <<>>
    PROVE  /\ StaysAll(ElideHistoricalWriteActions(c, knobs, disk), c)
           /\ ElideHistoricalWriteActions(c, knobs, disk)[Len(c)] = c[Len(c)]
<1> DEFINE Change(i, j) ==
              LET p == c[i].parts[j] IN
              IF p.kind = "call" /\ p.name = WriteFile /\ p.shown = <<>>
              THEN Elide(p, "elided", disk) ELSE p
           Touched(i) == /\ knobs.write
                         /\ knobs.writeRetain > 0
                         /\ Len(c) >= 3
                         /\ i # Len(c)
                         /\ Len(c) - i >= knobs.writeRetain
           Map(i) == [j \in 1..Len(c[i].parts) |-> Change(i, j)]
           g == [i \in 1..Len(c) |->
                   IF Touched(i) THEN Turn(c[i].role, SubSeq(Map(i), 1, Len(c[i].parts)))
                   ELSE c[i]]
<1>1. ElideHistoricalWriteActions(c, knobs, disk) = SubSeq(g, 1, Len(c))
  BY DEF ElideHistoricalWriteActions, MapParts, Tabulate
<1>2. ASSUME NEW i \in 1..Len(c), NEW j \in 1..Len(c[i].parts)
      PROVE  Stays(Change(i, j), c[i].parts[j])
  <2> DEFINE p == c[i].parts[j]
  <2>1. p \in AllParts
    BY PartsOf
  <2>2. ASSUME p.kind = "text" \/ p.kind = "call" \/ p.kind = "response", NEW form
        PROVE  Stays(Elide(p, form, disk), p)
    BY <2>1, <2>2, ElideStays
  <2>3. Stays(p, p)
    BY DEF Stays
  <2> HIDE DEF p
  <2> QED BY <2>2, <2>3 DEF p
<1>3. (~Touched(Len(c))) /\ Len(c) \in 1..Len(c)
  OBVIOUS
<1> HIDE DEF Change, Touched
<1>4. ASSUME NEW i \in 1..Len(c) PROVE StaysTurn(g[i], c[i])
  <2> DEFINE f == Map(i)
  <2>1. \A j \in 1..Len(c[i].parts) : f[j] = Change(i, j)
    OBVIOUS
  <2>2. \A j \in 1..Len(c[i].parts) :
           Turn(c[i].role, SubSeq(f, 1, Len(c[i].parts))).parts[j] = f[j]
    BY TurnMapped
  <2> QED BY <1>2, <2>1, <2>2 DEF StaysTurn, Stays
<1>5. g = [i \in 1..Len(c) |-> g[i]] /\ (g[Len(c)] = c[Len(c)])
  BY <1>3
<1> HIDE DEF g
<1> QED BY <1>1, <1>4, <1>5, AllStay

\* Cold turns are compacted, and the latest is not one of them if any is kept warm.
LEMMA CompactStays ==
    ASSUME NEW c \in Seq(Turns), NEW knobs \in Knobs, NEW disk, c # <<>>
    PROVE  /\ StaysAll(DeepCompactHistoricalTurns(c, knobs, disk), c)
           /\ (knobs.deep => knobs.keep > 0)
                => DeepCompactHistoricalTurns(c, knobs, disk)[Len(c)] = c[Len(c)]
<1> DEFINE Change(i, j) ==
              DeepCompact(c[i].parts[j], knobs, disk)
           Touched(i) == knobs.deep /\ i <= Len(c) - knobs.keep
           Map(i) == [j \in 1..Len(c[i].parts) |-> Change(i, j)]
           g == [i \in 1..Len(c) |->
                   IF Touched(i) THEN Turn(c[i].role, SubSeq(Map(i), 1, Len(c[i].parts)))
                   ELSE c[i]]
<1>1. DeepCompactHistoricalTurns(c, knobs, disk) = SubSeq(g, 1, Len(c))
  BY DEF DeepCompactHistoricalTurns, MapParts, Tabulate
<1>2. ASSUME NEW i \in 1..Len(c), NEW j \in 1..Len(c[i].parts)
      PROVE  Stays(Change(i, j), c[i].parts[j])
  <2> DEFINE p == c[i].parts[j]
  <2>1. p \in AllParts
    BY PartsOf
  <2>2. ASSUME p.kind = "text" \/ p.kind = "call" \/ p.kind = "response", NEW form
        PROVE  Stays(Elide(p, form, disk), p)
    BY <2>1, <2>2, ElideStays
  <2>3. Stays(p, p)
    BY DEF Stays
  <2> HIDE DEF p
  <2> QED BY <2>2, <2>3 DEF p, DeepCompact
<1>3. ((knobs.deep => knobs.keep > 0) => ~Touched(Len(c))) /\ Len(c) \in 1..Len(c)
  BY DEF Knobs
<1> HIDE DEF Change, Touched
<1>4. ASSUME NEW i \in 1..Len(c) PROVE StaysTurn(g[i], c[i])
  <2> DEFINE f == Map(i)
  <2>1. \A j \in 1..Len(c[i].parts) : f[j] = Change(i, j)
    OBVIOUS
  <2>2. \A j \in 1..Len(c[i].parts) :
           Turn(c[i].role, SubSeq(f, 1, Len(c[i].parts))).parts[j] = f[j]
    BY TurnMapped
  <2> QED BY <1>2, <2>1, <2>2 DEF StaysTurn, Stays
<1>5. g = [i \in 1..Len(c) |-> g[i]] /\ ((knobs.deep => knobs.keep > 0) => g[Len(c)] = c[Len(c)])
  BY <1>3
<1> HIDE DEF g
<1> QED BY <1>1, <1>4, <1>5, AllStay

-------------------------------------------------------------------------------
(* What duplicates are replaced by (dedup.go, dedup_substring.go). *)

\* Part p of turn i of c has become q: it stands, or it is a text that points
\* at a turn where the same text still stands.
PointsBack(q, p, d, c, i) ==
    \E t \in 1..i : /\ p.kind = "text" /\ q = Pointer(t, p) /\ c[t].role = c[i].role
                    /\ \E m \in 1..Len(c[t].parts) : c[t].parts[m] = p /\ d[t].parts[m] = p

\* The same for a text the block of which stands in a turn before.
RefersBack(q, p, d, c, i) ==
    \E t \in 1..i : /\ p.kind = "text" /\ q = [p EXCEPT !.at = t] /\ c[t].role = c[i].role
                    /\ \E m \in 1..Len(c[t].parts) :
                          /\ IsBareBlock(c[t].parts[m]) /\ c[t].parts[m].block = p.block
                          /\ d[t].parts[m] = c[t].parts[m]

\* The first occurrence of a text that is replaced stays.
LEMMA ReplayedPoint ==
    ASSUME NEW c \in Seq(Turns), NEW knobs, knobs.dedup \in BOOLEAN
    PROVE  LET d == DedupReplayedBlocks(c, knobs)
           IN \A i \in 1..Len(c) : \A j \in 1..Len(c[i].parts) :
                 \/ d[i].parts[j] = c[i].parts[j]
                 \/ PointsBack(d[i].parts[j], c[i].parts[j], d, c, i)
<1> DEFINE Twins(i, j) ==
              {k \in {h \in 1..i : c[h].role = c[i].role} :
                  \E m \in DOMAIN c[k].parts :
                     /\ Before(<<k, m>>, <<i, j>>)
                     /\ c[k].parts[m] = c[i].parts[j]}
           Change(i, j) ==
              LET p == c[i].parts[j]
              IN IF (p.kind = "text" /\ TextSize(p) >= knobs.dedupMin) /\ Twins(i, j) # {}
                 THEN Pointer(Min(Twins(i, j)), p) ELSE p
           On == knobs.dedup /\ Len(c) >= 2
           Map(i) == [j \in 1..Len(c[i].parts) |-> Change(i, j)]
           g == [i \in 1..Len(c) |->
                   IF On THEN Turn(c[i].role, SubSeq(Map(i), 1, Len(c[i].parts)))
                   ELSE c[i]]
<1>1. DedupReplayedBlocks(c, knobs) = SubSeq(g, 1, Len(c))
  BY DEF DedupReplayedBlocks, MapParts, Tabulate
<1>2. SubSeq(g, 1, Len(c)) = g
  <2>1. g = [i \in 1..Len(c) |-> g[i]] /\ Len(c) \in Nat
    OBVIOUS
  <2> HIDE DEF g
  <2> QED BY <2>1, Tabulated
<1> HIDE DEF Change, Twins, On
<1>3. ASSUME NEW i \in 1..Len(c), NEW j \in 1..Len(c[i].parts)
      PROVE  g[i].parts[j] = IF On THEN Change(i, j) ELSE c[i].parts[j]
  <2> DEFINE f == Map(i)
  <2>1. f[j] = Change(i, j)
    OBVIOUS
  <2>2. Turn(c[i].role, SubSeq(f, 1, Len(c[i].parts))).parts[j] = f[j]
    BY TurnMapped
  <2> QED BY <2>1, <2>2
<1> HIDE DEF g
<1>4. ASSUME NEW i \in 1..Len(c), NEW j \in 1..Len(c[i].parts),
             On, c[i].parts[j].kind = "text", Twins(i, j) # {}
      PROVE  PointsBack(Pointer(Min(Twins(i, j)), c[i].parts[j]), c[i].parts[j], g, c, i)
  <2> DEFINE t == Min(Twins(i, j))
             p == c[i].parts[j]
             P == {m \in 1..Len(c[t].parts) : c[t].parts[m] = p}
  <2>1. Twins(i, j) \subseteq 1..i /\ i \in Nat
    BY DEF Twins
  <2>2. t \in Twins(i, j) /\ \A k \in Twins(i, j) : t <= k
    BY <1>4, <2>1, MinOfPlaces
  <2> HIDE DEF t
  <2>a. t \in 1..i /\ c[t].role = c[i].role
        /\ \E m \in DOMAIN c[t].parts : c[t].parts[m] = p
    BY <2>2 DEF Twins
  <2> HIDE DEF p
  <2>3. t \in 1..i /\ t \in 1..Len(c) /\ c[t].role = c[i].role
        /\ \E m \in DOMAIN c[t].parts : c[t].parts[m] = p
    BY <2>a
  <2>4. DOMAIN c[t].parts = 1..Len(c[t].parts) /\ Len(c[t].parts) \in Nat
    BY <2>3, PartsOf
  <2>5. P \in SUBSET (1..Len(c[t].parts)) /\ P # {}
    BY <2>3, <2>4
  <2>6. PICK m \in P : \A h \in P : m <= h
    <3> HIDE DEF P
    <3> QED BY <2>4, <2>5, MinOfPlaces
  <2>7. m \in 1..Len(c[t].parts) /\ c[t].parts[m] = p
    BY <2>6
  <2>8. Twins(t, m) = {}
    <3> SUFFICES ASSUME NEW k \in Twins(t, m) PROVE FALSE
      OBVIOUS
    <3>1. k \in 1..t /\ c[k].role = c[t].role
      BY DEF Twins
    <3>2. PICK l \in DOMAIN c[k].parts : Before(<<k, l>>, <<t, m>>) /\ c[k].parts[l] = p
      BY <2>7 DEF Twins
    <3>3. CASE k = t
      <4>1. l \in P /\ l < m
        BY <2>3, <2>4, <3>2, <3>3 DEF Before
      <4> QED BY <2>6, <2>7, <4>1
    <3>4. CASE k # t
      <4>1. k < t /\ k \in 1..i /\ k < i
        BY <2>3, <3>1, <3>4
      <4>2. c[k].role = c[i].role
        BY <2>3, <3>1
      <4>3. Before(<<k, l>>, <<i, j>>)
        BY <4>1 DEF Before
      <4>4. k \in Twins(i, j)
        BY <3>2, <4>1, <4>2, <4>3 DEF Twins, p
      <4> QED BY <2>2, <2>3, <4>1, <4>4 
    <3> QED BY <3>3, <3>4
  <2>9. g[t].parts[m] = p
    <3>1. Change(t, m) = c[t].parts[m]
      BY <2>8 DEF Change
    <3> QED BY <1>3, <2>3, <2>7, <3>1
  <2>10. PointsBack(Pointer(t, p), p, g, c, i)
    BY <1>4, <2>3, <2>7, <2>9 DEF PointsBack, p
  <2> QED BY <2>10 DEF t, p
<1>5. ASSUME NEW i \in 1..Len(c), NEW j \in 1..Len(c[i].parts)
      PROVE  g[i].parts[j] = c[i].parts[j] \/ PointsBack(g[i].parts[j], c[i].parts[j], g, c, i)
  <2>1. CASE On /\ c[i].parts[j].kind = "text" /\ Twins(i, j) # {}
    <3>1. \/ Change(i, j) = c[i].parts[j]
          \/ Change(i, j) = Pointer(Min(Twins(i, j)), c[i].parts[j])
      BY DEF Change
    <3> QED BY <1>3, <1>4, <2>1, <3>1
  <2>2. CASE ~(On /\ c[i].parts[j].kind = "text" /\ Twins(i, j) # {})
    <3>1. On => Change(i, j) = c[i].parts[j]
      BY <2>2 DEF Change
    <3> QED BY <1>3, <3>1
  <2> QED BY <2>1, <2>2
<1> QED BY <1>1, <1>2, <1>5

\* A bare block is as long as every other one of its kind.
LEMMA BareSize ==
    ASSUME NEW p \in TextParts, NEW q \in TextParts, p.at = 0, q.at = 0,
           IsBareBlock(p), IsBareBlock(q), p.block = q.block
    PROVE  ~(TextSize(p) > TextSize(q))
<1>1. BlockSize(q.block) \in Nat
  BY DEF BlockSize
<1>2. TextSize(p) = 1 + BlockSize(q.block) + 0 /\ TextSize(q) = 1 + BlockSize(q.block) + 0
  BY DEF TextSize, ShownSize, IsBareBlock
<1> QED BY <1>1, <1>2

\* The block that a text refers to stays where it is.
LEMMA SubstringsRefer ==
    ASSUME NEW c \in Seq(Turns), NEW knobs, knobs.substring \in BOOLEAN,
           \A i \in 1..Len(c) : \A j \in 1..Len(c[i].parts) :
              c[i].parts[j].kind = "text" => c[i].parts[j].at = 0
    PROVE  LET d == DedupSubstringBlocks(c, knobs)
           IN \A i \in 1..Len(c) : \A j \in 1..Len(c[i].parts) :
                 \/ d[i].parts[j] = c[i].parts[j]
                 \/ RefersBack(d[i].parts[j], c[i].parts[j], d, c, i)
<1> DEFINE Sources(i, j) ==
              {k \in {h \in 1..i : c[h].role = c[i].role} :
                  \E m \in DOMAIN c[k].parts :
                     /\ Before(<<k, m>>, <<i, j>>)
                     /\ (IsBareBlock(c[k].parts[m])
                           /\ TextSize(c[k].parts[m]) >= knobs.dedupMin)
                     /\ Embeds(c[i].parts[j], c[k].parts[m])}
           Change(i, j) ==
              LET p == c[i].parts[j]
              IN IF p.kind = "text" /\ p.block # NoBlock /\ Sources(i, j) # {}
                 THEN [p EXCEPT !.at = Min(Sources(i, j))] ELSE p
           On == knobs.substring /\ Len(c) >= 2
           Map(i) == [j \in 1..Len(c[i].parts) |-> Change(i, j)]
           g == [i \in 1..Len(c) |->
                   IF On THEN Turn(c[i].role, SubSeq(Map(i), 1, Len(c[i].parts)))
                   ELSE c[i]]
<1>1. DedupSubstringBlocks(c, knobs) = SubSeq(g, 1, Len(c))
  BY DEF DedupSubstringBlocks, MapParts, Tabulate
<1>2. SubSeq(g, 1, Len(c)) = g
  <2>1. g = [i \in 1..Len(c) |-> g[i]] /\ Len(c) \in Nat
    OBVIOUS
  <2> HIDE DEF g
  <2> QED BY <2>1, Tabulated
<1> HIDE DEF Change, Sources, On
<1>3. ASSUME NEW i \in 1..Len(c), NEW j \in 1..Len(c[i].parts)
      PROVE  g[i].parts[j] = IF On THEN Change(i, j) ELSE c[i].parts[j]
  <2> DEFINE f == Map(i)
  <2>1. f[j] = Change(i, j)
    OBVIOUS
  <2>2. Turn(c[i].role, SubSeq(f, 1, Len(c[i].parts))).parts[j] = f[j]
    BY TurnMapped
  <2> QED BY <2>1, <2>2
<1> HIDE DEF g
<1>4. ASSUME NEW i \in 1..Len(c), NEW j \in 1..Len(c[i].parts),
             On, c[i].parts[j].kind = "text", Sources(i, j) # {}
      PROVE  RefersBack([c[i].parts[j] EXCEPT !.at = Min(Sources(i, j))], c[i].parts[j], g, c, i)
  <2> DEFINE t == Min(Sources(i, j))
             p == c[i].parts[j]
  <2>1. Sources(i, j) \subseteq 1..i /\ i \in Nat
    BY DEF Sources
  <2>2. t \in Sources(i, j)
    BY <1>4, <2>1, MinOfPlaces
  <2> HIDE DEF t
  <2>a. t \in 1..i /\ c[t].role = c[i].role
    BY <2>2 DEF Sources
  <2>3. t \in 1..i /\ t \in 1..Len(c) /\ c[t].role = c[i].role
    BY <2>a
  <2>4. PICK m \in DOMAIN c[t].parts : IsBareBlock(c[t].parts[m]) /\ Embeds(p, c[t].parts[m])
    BY <2>2 DEF Sources
  <2> HIDE DEF p
  <2>5. m \in 1..Len(c[t].parts) /\ c[t].parts[m] \in AllParts
    BY <2>3, <2>4, PartsOf
  <2>6. c[t].parts[m] \in TextParts /\ c[t].parts[m].at = 0 /\ c[t].parts[m].block = p.block
    <3>1. c[t].parts[m].kind = "text"
      BY <2>4 DEF IsBareBlock
    <3>2. c[t].parts[m].block = p.block
      BY <2>4 DEF Embeds
    <3> QED BY <2>3, <2>5, <3>1, <3>2, PartKinds
  <2>7. Sources(t, m) = {}
    <3> SUFFICES ASSUME NEW k \in Sources(t, m) PROVE FALSE
      OBVIOUS
    <3>1. k \in 1..t /\ k \in 1..Len(c)
      BY <2>3 DEF Sources
    <3>2. PICK l \in DOMAIN c[k].parts : IsBareBlock(c[k].parts[l]) /\ Embeds(c[t].parts[m], c[k].parts[l])
      BY DEF Sources
    <3>3. l \in 1..Len(c[k].parts) /\ c[k].parts[l] \in AllParts
      BY <3>1, <3>2, PartsOf
    <3>4. c[k].parts[l] \in TextParts /\ c[k].parts[l].at = 0
      <4>1. c[k].parts[l].kind = "text"
        BY <3>2 DEF IsBareBlock
      <4> QED BY <3>1, <3>3, <4>1, PartKinds
    <3>5. c[t].parts[m].block = c[k].parts[l].block /\ TextSize(c[t].parts[m]) > TextSize(c[k].parts[l])
      BY <3>2 DEF Embeds
    <3> QED BY <2>4, <2>6, <3>2, <3>4, <3>5, BareSize
  <2>8. g[t].parts[m] = c[t].parts[m]
    <3>1. Change(t, m) = c[t].parts[m]
      BY <2>7 DEF Change
    <3> QED BY <1>3, <2>3, <2>5, <3>1
  <2>9. RefersBack([p EXCEPT !.at = t], p, g, c, i)
    BY <1>4, <2>3, <2>4, <2>5, <2>6, <2>8 DEF RefersBack, p
  <2> QED BY <2>9 DEF t, p
<1>5. ASSUME NEW i \in 1..Len(c), NEW j \in 1..Len(c[i].parts)
      PROVE  g[i].parts[j] = c[i].parts[j] \/ RefersBack(g[i].parts[j], c[i].parts[j], g, c, i)
  <2>1. CASE On /\ c[i].parts[j].kind = "text" /\ Sources(i, j) # {}
    <3>1. \/ Change(i, j) = c[i].parts[j]
          \/ Change(i, j) = [c[i].parts[j] EXCEPT !.at = Min(Sources(i, j))]
      BY DEF Change
    <3> QED BY <1>3, <1>4, <2>1, <3>1
  <2>2. CASE ~(On /\ c[i].parts[j].kind = "text" /\ Sources(i, j) # {})
    <3>1. On => Change(i, j) = c[i].parts[j]
      BY <2>2 DEF Change
    <3> QED BY <1>3, <3>1
  <2> QED BY <2>1, <2>2
<1> QED BY <1>1, <1>2, <1>5

-------------------------------------------------------------------------------
(* What the alignment keeps of a turn (align.go). *)

\* The sequence has the element, somewhere or at some places.
Has(s, x) == \E j \in DOMAIN s : s[j] = x
HasAt(s, places, x) == \E k \in places : s[k] = x

\* The elements at some places, whatever their order.
LEMMA ChosenHas ==
    ASSUME NEW n \in Nat, NEW places \in SUBSET (1..n), NEW seq, NEW x
    PROVE  Has(ElementsAt(seq, places), x) <=> HasAt(seq, places, x)
<1> DEFINE chosen == ElementsAt(seq, places)
<1>1. /\ DOMAIN chosen = 1..Cardinality(places)
      /\ \A m \in 1..Cardinality(places) : chosen[m] = seq[NthPlace(places, m)]
  <2>1. LET all == ElementsAt(seq, places)
        IN /\ all \in Seq({seq[k] : k \in places})
           /\ Len(all) = Cardinality(places) /\ DOMAIN all = 1..Cardinality(places)
           /\ \A m \in 1..Cardinality(places) : all[m] = seq[NthPlace(places, m)]
    BY ElementsChosen, Zenon
  <2> QED BY <2>1
<1> HIDE DEF chosen
<1>2. /\ \A m \in 1..Cardinality(places) : NthPlace(places, m) \in places
      /\ \A k \in places : \E m \in 1..Cardinality(places) : NthPlace(places, m) = k
  BY Places
<1>3. ASSUME Has(chosen, x) PROVE \E k \in places : seq[k] = x
  BY <1>1, <1>2, <1>3 DEF Has
<1>4. ASSUME NEW k \in places, seq[k] = x PROVE Has(chosen, x)
  <2>1. PICK m \in 1..Cardinality(places) : NthPlace(places, m) = k
    BY <1>2
  <2> QED BY <1>1, <1>4, <2>1 DEF Has
<1> QED BY <1>3, <1>4 DEF chosen, HasAt

\* What is appended to a sequence or removed from it.
LEMMA HasAppended ==
    ASSUME NEW B, NEW s \in Seq(B), NEW q, NEW x
    PROVE  Has(Append(s, q), x) <=> Has(s, x) \/ x = q
<1>1. s \in Seq(B \union {q}) /\ Len(s) \in Nat /\ DOMAIN s = 1..Len(s)
  OBVIOUS
<1>2. /\ DOMAIN Append(s, q) = 1..(Len(s) + 1) /\ Append(s, q)[Len(s) + 1] = q
      /\ \A i \in 1..Len(s) : Append(s, q)[i] = s[i]
  BY <1>1
<1>3. /\ Len(s) + 1 \in 1..(Len(s) + 1)
      /\ \A i \in 1..Len(s) : i \in 1..(Len(s) + 1)
      /\ \A i \in 1..(Len(s) + 1) : i = Len(s) + 1 \/ i \in 1..Len(s)
  BY <1>1
<1> QED BY <1>1, <1>2, <1>3 DEF Has

\* Taking one element out leaves the others.
LEMMA HasRemoved ==
    ASSUME NEW B, NEW s \in Seq(B), NEW r \in 1..Len(s), NEW x
    PROVE  /\ Has(RemoveAt(s, r), x) => Has(s, x)
           /\ Has(s, x) => Has(RemoveAt(s, r), x) \/ x = s[r]
<1> DEFINE n == Len(s)
           t == RemoveAt(s, r)
<1>1. n \in Nat /\ DOMAIN s = 1..n /\ r \in 1..n
  OBVIOUS
<1>2. t \in Seq(B) /\ Len(t) = n - 1 /\ \A i \in 1..(n - 1) : t[i] = IF i < r THEN s[i] ELSE s[i + 1]
  BY Removed
<1>3. DOMAIN t = 1..(n - 1)
  BY <1>1, <1>2
<1> HIDE DEF t, n
<1>4. ASSUME NEW i \in 1..(n - 1) PROVE \E j \in DOMAIN s : t[i] = s[j]
  <2>1. i \in 1..n /\ i + 1 \in 1..n
    BY <1>1
  <2> QED BY <1>1, <1>2, <2>1
<1>5. ASSUME NEW j \in 1..n PROVE s[j] = s[r] \/ \E i \in DOMAIN t : t[i] = s[j]
  <2>1. CASE j = r
    BY <2>1
  <2>2. CASE j < r
    <3>1. j \in 1..(n - 1)
      BY <1>1, <2>2
    <3> QED BY <1>2, <1>3, <2>2, <3>1
  <2>3. CASE j > r
    <3>1. j - 1 \in 1..(n - 1) /\ ~(j - 1 < r) /\ (j - 1) + 1 = j
      BY <1>1, <2>3
    <3>2. t[j - 1] = s[j]
      BY <1>2, <3>1
    <3> QED BY <1>3, <3>1, <3>2
  <2> QED BY <1>1, <2>1, <2>2, <2>3
<1> QED BY <1>1, <1>3, <1>4, <1>5 DEF Has, t

\* From one state of an answer to a later one nothing is lost, and only
\* placeholders are new.
Hands(a, b) ==
    /\ \A x : Has(b.built, x) => Has(a.built, x)
    /\ \A x : Has(b.responses, x) => Has(a.built, x) \/ Has(a.responses, x)
    /\ \A x : Has(a.built, x) =>
          Has(b.built, x) \/ Has(b.responses, x) \/ x.kind \in {"dummy", "pruned"}
    /\ \A x : Has(a.responses, x) => Has(b.responses, x)

\* Step after step.
LEMMA HandsOn ==
    ASSUME NEW a, NEW b, NEW c, Hands(a, b), Hands(b, c)
    PROVE  Hands(a, c)
  BY DEF Hands

\* Answering one part.
LEMMA PartHands ==
    ASSUME NEW acc \in Accs, NEW p \in AllParts, NEW ids \in BOOLEAN
    PROVE  Hands(AlignPart(acc, p, ids), acc)
<1> DEFINE a == AlignPart(acc, p, ids)
           fits == Candidates(p, acc.responses, ids)
           r == Min(fits)
<1>1. /\ p.kind = "call" /\ fits # {} =>
            /\ r \in 1..Len(acc.responses)
            /\ a.built = Append(acc.built, acc.responses[r])
            /\ a.responses = RemoveAt(acc.responses, r)
      /\ p.kind = "call" /\ fits = {} =>
            a.built = Append(acc.built, Dummy(p)) /\ a.responses = acc.responses
      /\ p.kind = "pruned" =>
            /\ \E q \in PrunedParts : a.built = Append(acc.built, q)
            /\ a.responses = acc.responses
      /\ p.kind \notin {"call", "pruned"} => a = acc
  BY AlignPartCases
<1>2. acc.built \in Seq(AllParts) /\ acc.responses \in Seq(ResponseParts)
      /\ DOMAIN acc.responses = 1..Len(acc.responses)
  BY DEF Accs
<1> HIDE DEF a, fits, r
<1>7. \A q, x : Has(Append(acc.built, q), x) <=> Has(acc.built, x) \/ x = q
  <2> DEFINE built == acc.built
  <2>1. built \in Seq(AllParts)
    BY <1>2
  <2> HIDE DEF built
  <2>2. \A q, x : Has(Append(built, q), x) <=> Has(built, x) \/ x = q
    BY <2>1, HasAppended
  <2> QED BY <2>2 DEF built
<1>3. CASE p.kind = "call" /\ fits # {}
  <2>a. a.built = Append(acc.built, acc.responses[r])
    BY <1>1, <1>3
  <2>1. \A x : Has(a.built, x) <=> Has(acc.built, x) \/ x = acc.responses[r]
    <3> SUFFICES ASSUME NEW x PROVE Has(a.built, x) <=> Has(acc.built, x) \/ x = acc.responses[r]
      OBVIOUS
    <3>1. Has(Append(acc.built, acc.responses[r]), x) <=> Has(acc.built, x) \/ x = acc.responses[r]
      BY <1>7
    <3> QED BY <2>a, <3>1
  <2>2. \A x : /\ Has(a.responses, x) => Has(acc.responses, x)
               /\ Has(acc.responses, x) => Has(a.responses, x) \/ x = acc.responses[r]
    BY <1>1, <1>2, <1>3, HasRemoved
  <2>3. Has(acc.responses, acc.responses[r])
    BY <1>1, <1>2, <1>3 DEF Has
  <2> QED BY <2>1, <2>2, <2>3 DEF Hands, a
<1>4. CASE p.kind = "call" /\ fits = {}
  <2>a. a.built = Append(acc.built, Dummy(p))
    BY <1>1, <1>4
  <2>1. \A x : Has(a.built, x) <=> Has(acc.built, x) \/ x = Dummy(p)
    <3> SUFFICES ASSUME NEW x PROVE Has(a.built, x) <=> Has(acc.built, x) \/ x = Dummy(p)
      OBVIOUS
    <3>1. Has(Append(acc.built, Dummy(p)), x) <=> Has(acc.built, x) \/ x = Dummy(p)
      BY <1>7
    <3> QED BY <2>a, <3>1
  <2>2. Dummy(p).kind = "dummy"
    BY DEF Dummy
  <2> QED BY <1>1, <1>4, <2>1, <2>2 DEF Hands, a
<1>5. CASE p.kind = "pruned"
  <2>1. PICK q \in PrunedParts : a.built = Append(acc.built, q)
    BY <1>1, <1>5
  <2>2. \A x : Has(a.built, x) <=> Has(acc.built, x) \/ x = q
    BY <1>7, <2>1
  <2>3. q.kind = "pruned"
    BY DEF PrunedParts
  <2> QED BY <1>1, <1>5, <2>2, <2>3 DEF Hands, a
<1>6. CASE p.kind \notin {"call", "pruned"}
  BY <1>1, <1>6 DEF Hands, a
<1> QED BY <1>3, <1>4, <1>5, <1>6

\* Answering the parts of a turn, one after the other.
LEMMA GivenHands ==
    ASSUME NEW ids \in BOOLEAN, NEW base \in Accs, NEW parts \in Seq(AllParts)
    PROVE  Hands(Given(base, parts, ids), base)
<1> DEFINE Acc(l) == Given(base, SubSeq(parts, 1, l), ids)
           S == {l \in Nat : l <= Len(parts) => Hands(Acc(l), base)}
<1>1. 0 \in S
  <2>0. SubSeq(parts, 1, 0) = <<>>
    BY PartByPart
  <2>g. Given(base, <<>>, ids) = base
    <3>1. <<>> \in Seq(Nat) /\ 0 \in Nat
      OBVIOUS
    <3> QED BY <3>1, GivenPartByPart
  <2>1. Acc(0) = base
    BY <2>0, <2>g
  <2>2. Hands(base, base)
    BY DEF Hands
  <2> HIDE DEF Acc
  <2> QED BY <2>1, <2>2
<1>2. ASSUME NEW l \in Nat, l \in S PROVE l + 1 \in S
  <2> SUFFICES ASSUME l + 1 <= Len(parts) PROVE Hands(Acc(l + 1), base)
    OBVIOUS
  <2> DEFINE p == parts[l + 1]
             front == SubSeq(parts, 1, l)
  <2>1. front \in Seq(AllParts) /\ p \in AllParts /\ SubSeq(parts, 1, l + 1) = Append(front, p)
    BY PartByPart
  <2>2. l <= Len(parts)
    OBVIOUS
  <2>3. Hands(Acc(l), base)
    BY <1>2, <2>2
  <2>4. Acc(l) = Given(base, front, ids) /\ Acc(l + 1) = Given(base, Append(front, p), ids)
    BY <2>1
  <2> HIDE DEF front, p, Acc
  <2>5. Given(base, Append(front, p), ids) = AlignPart(Given(base, front, ids), p, ids)
    BY <2>1, GivenPartByPart
  <2>6. Given(base, front, ids) \in Accs
    BY <2>1, GivenShape
  <2>7. Hands(Acc(l + 1), Acc(l))
    BY <2>1, <2>4, <2>5, <2>6, PartHands
  <2> QED BY <2>3, <2>7, HandsOn
<1>3. Len(parts) \in S
  <2> HIDE DEF S
  <2>1. Len(parts) \in Nat
    OBVIOUS
  <2> QED BY <1>1, <1>2, <2>1, Steps!SetInduction
<1>4. Hands(Acc(Len(parts)), base)
  BY <1>3
<1>5. Acc(Len(parts)) = Given(base, parts, ids)
  BY PartByPart
<1> HIDE DEF Acc
<1> QED BY <1>4, <1>5

\* The turn that is rebuilt has its texts and pointers, and no response of another turn.
LEMMA AlignKeeps ==
    ASSUME NEW c \in Seq(Turns), NEW ids \in BOOLEAN, NEW i \in 1..Len(c), NEW x
    PROVE  LET d == AlignFunctionCallsAndResponses(c, ids)
           IN /\ d[i].role = c[i].role
              /\ x.kind = "text" \/ x.kind = "pointer" =>
                    (Has(d[i].parts, x) <=> Has(c[i].parts, x))
              /\ x.kind = "response" /\ Has(d[i].parts, x) => Has(c[i].parts, x)
              /\ ~NeedsAlignment(c, i) => d[i] = c[i]
              /\ NeedsAlignment(c, i) => d[i].parts = Given(Start(c[i]), c[i - 1].parts, ids).built
<1> DEFINE d == AlignFunctionCallsAndResponses(c, ids)
<1>1. d[i] = IF NeedsAlignment(c, i) THEN AlignedTurn(c[i - 1], c[i], ids) ELSE c[i]
  <2> DEFINE f == [k \in 1..Len(c) |->
                     IF NeedsAlignment(c, k) THEN AlignedTurn(c[k - 1], c[k], ids) ELSE c[k]]
  <2>1. d = SubSeq(f, 1, Len(c))
    BY DEF AlignFunctionCallsAndResponses, Tabulate
  <2>2. f = [k \in 1..Len(c) |-> f[k]] /\ Len(c) \in Nat
    OBVIOUS
  <2>3. f[i] = IF NeedsAlignment(c, i) THEN AlignedTurn(c[i - 1], c[i], ids) ELSE c[i]
    OBVIOUS
  <2> HIDE DEF f, d
  <2>4. SubSeq(f, 1, Len(c)) = f
    BY <2>2, Tabulated
  <2> QED BY <2>1, <2>3, <2>4
<1> HIDE DEF d
<1>2. CASE ~NeedsAlignment(c, i)
  BY <1>1, <1>2 DEF d
<1>3. CASE NeedsAlignment(c, i)
  <2> DEFINE n == c[i]
             m == c[i - 1]
             a == Given(Start(n), m.parts, ids)
  <2>1. i > 1 /\ i - 1 \in 1..Len(c)
    BY <1>3 DEF NeedsAlignment
  <2>2. m.parts \in Seq(AllParts) /\ n \in Turns /\ n.parts \in Seq(AllParts)
        /\ Len(n.parts) \in Nat /\ DOMAIN n.parts = 1..Len(n.parts)
    BY <2>1, PartsOf
  <2>3. d[i] = Turn(n.role, a.built)
    BY <1>1, <1>3 DEF AlignedTurn, Given, Start
  <2>4. d[i].role = n.role /\ d[i].parts = a.built
    BY <2>3 DEF Turn
  <2> HIDE DEF n, m
  <2>5. Start(n) \in Accs
    BY <2>2, StartOf
  <2>6. Hands(a, Start(n))
    BY <2>2, <2>5, GivenHands
  <2> HIDE DEF a
  <2>7. Has(Start(n).built, x) <=> Has(n.parts, x) /\ x.kind \notin {"response", "pruned"}
    <3> DEFINE places == {j \in DOMAIN n.parts : n.parts[j].kind \notin {"response", "pruned"}}
    <3>1. places \in SUBSET (1..Len(n.parts))
      BY <2>2
    <3>2. Start(n).built = ElementsAt(n.parts, places)
      BY DEF Start, Plain
    <3>3. HasAt(n.parts, places, x) <=> Has(n.parts, x) /\ x.kind \notin {"response", "pruned"}
      BY DEF Has, HasAt
    <3> HIDE DEF places
    <3> DEFINE parts == n.parts
               size == Len(parts)
    <3>a. size \in Nat /\ places \in SUBSET (1..size)
      BY <2>2, <3>1
    <3> HIDE DEF parts, size
    <3>4. Has(ElementsAt(parts, places), x) <=> HasAt(parts, places, x)
      BY <3>a, ChosenHas
    <3> QED BY <3>2, <3>3, <3>4 DEF parts
  <2>8. Has(Start(n).responses, x) => Has(n.parts, x) /\ x.kind = "response"
    <3>1. \A r \in DOMAIN Start(n).responses : \E l \in Responses(n) :
             Start(n).responses[r] = n.parts[l]
      BY <2>2, StartOf
    <3> QED BY <3>1 DEF Has, Responses, OfKind
  <2>9. /\ x.kind = "text" \/ x.kind = "pointer" => (Has(a.built, x) <=> Has(n.parts, x))
        /\ x.kind = "response" /\ Has(a.built, x) => Has(n.parts, x)
    BY <2>6, <2>7, <2>8 DEF Hands
  <2> QED BY <1>3, <2>4, <2>9 DEF d, n, m, a
<1> QED BY <1>2, <1>3

-------------------------------------------------------------------------------
(* What the prompt points back at is there. *)

\* Having an element is holding it in the set of the elements.
LEMMA HasIs ==
    ASSUME NEW s, NEW x
    PROVE  Has(s, x) <=> x \in ToSet(s)
  BY DEF Has, ToSet

\* The block stands at turn i of p, and so does a part, or it is referred to.
BlockIn(p, i, block) ==
    \E q \in ToSet(p[i].parts) : IsBareBlock(q) /\ q.at = 0 /\ q.block = block

StandsIn(p, i, part) ==
    \E q \in ToSet(p[i].parts) :
        \/ q = part
        \/ /\ part.kind = "text"
           /\ q.kind = "text"
           /\ q.at \in 1..i
           /\ [q EXCEPT !.at = 0] = part
           /\ BlockIn(p, q.at, part.block)

ResolvesIn(p, i, q) ==
    /\ q.to \in 1..i
    /\ p[q.to].role = p[i].role
    /\ StandsIn(p, q.to, q.text)

RefersIn(p, i) ==
    \A q \in ToSet(p[i].parts) :
        /\ q.kind = "pointer" => ResolvesIn(p, i, q)
        /\ q.kind = "text" /\ q.at # 0 => q.at \in 1..i /\ BlockIn(p, q.at, q.block)

ReadableIn(p, i, part) ==
    \/ StandsIn(p, i, part)
    \/ \E q \in ToSet(p[i].parts) : q.kind = "pointer" /\ q.text = part /\ ResolvesIn(p, i, q)

\* No part refers to another turn.
Clean(c) ==
    \A i \in 1..Len(c) : \A j \in 1..Len(c[i].parts) :
        /\ c[i].parts[j].kind # "pointer"
        /\ c[i].parts[j].kind = "text" => c[i].parts[j].at = 0

\* Nor in what is left of a conversation whose front is cut.
LEMMA CutClean ==
    ASSUME NEW c, Clean(c), NEW d, NEW from,
           \A i \in 1..Len(d) : from + i - 1 \in 1..Len(c) /\ d[i] = c[from + i - 1]
    PROVE  Clean(d)
<1> SUFFICES ASSUME NEW i \in 1..Len(d), NEW j \in 1..Len(d[i].parts)
             PROVE  /\ d[i].parts[j].kind # "pointer"
                    /\ d[i].parts[j].kind = "text" => d[i].parts[j].at = 0
  BY DEF Clean
<1> DEFINE h == from + i - 1
<1>1. h \in 1..Len(c) /\ d[i] = c[h]
  OBVIOUS
<1> HIDE DEF h
<1> QED BY <1>1 DEF Clean

\* After both searches for duplicates every part can be read, and what is
\* pointed at or referred to stands in an earlier turn or the same.
LEMMA DedupRefers ==
    ASSUME NEW c \in Seq(Turns), Clean(c), NEW knobs \in Knobs
    PROVE  LET once == DedupSubstringBlocks(DedupReplayedBlocks(c, knobs), knobs)
           IN \A i \in 1..Len(c) :
                 /\ RefersIn(once, i)
                 /\ \A x \in ToSet(c[i].parts) :
                       /\ ReadableIn(once, i, x)
                       /\ x.kind # "text" => x \in ToSet(once[i].parts)
<1> DEFINE d == DedupReplayedBlocks(c, knobs)
           e == DedupSubstringBlocks(d, knobs)
<1>1. knobs.dedup \in BOOLEAN /\ knobs.substring \in BOOLEAN
  BY DEF Knobs
<1>2. FollowsAll(d, c)
  BY ReplayedFollow
<1>3. \A i \in 1..Len(c) : \A j \in 1..Len(c[i].parts) :
         \/ d[i].parts[j] = c[i].parts[j]
         \/ PointsBack(d[i].parts[j], c[i].parts[j], d, c, i)
  BY <1>1, ReplayedPoint
<1> HIDE DEF d
<1>4. d \in Seq(Turns) /\ Len(d) = Len(c)
  BY <1>2 DEF FollowsAll
<1>5. FollowsAll(e, d)
  BY <1>4, SubstringsFollow
<1>6. \A i \in 1..Len(c) : /\ DOMAIN c[i].parts = 1..Len(c[i].parts)
                           /\ DOMAIN d[i].parts = 1..Len(c[i].parts)
                           /\ DOMAIN e[i].parts = 1..Len(c[i].parts)
                           /\ Len(d[i].parts) = Len(c[i].parts)
                           /\ d[i].role = c[i].role /\ e[i].role = c[i].role
  <2>1. \A i \in 1..Len(c) : DOMAIN c[i].parts = 1..Len(c[i].parts)
    BY PartsOf
  <2>2. \A i \in 1..Len(c) : FollowsTurn(d[i], c[i]) /\ FollowsTurn(e[i], d[i])
    BY <1>2, <1>4, <1>5 DEF FollowsAll
  <2> QED BY <2>1, <2>2 DEF FollowsTurn
<1>7. \A i \in 1..Len(c) : \A j \in 1..Len(c[i].parts) :
         \A q : PointsBack(q, c[i].parts[j], d, c, i) => q.kind = "pointer"
  BY DEF PointsBack, Pointer
<1>8. \A i \in 1..Len(c) : \A j \in 1..Len(c[i].parts) :
         d[i].parts[j].kind = "text" => d[i].parts[j].at = 0 /\ d[i].parts[j] = c[i].parts[j]
  <2> SUFFICES ASSUME NEW i \in 1..Len(c), NEW j \in 1..Len(c[i].parts), d[i].parts[j].kind = "text"
               PROVE  d[i].parts[j].at = 0 /\ d[i].parts[j] = c[i].parts[j]
    OBVIOUS
  <2>1. ~PointsBack(d[i].parts[j], c[i].parts[j], d, c, i)
    BY <1>7
  <2>2. d[i].parts[j] = c[i].parts[j]
    BY <1>3, <2>1
  <2> QED BY <2>2 DEF Clean
<1>9. \A i \in 1..Len(c) : \A j \in 1..Len(c[i].parts) :
         \/ e[i].parts[j] = d[i].parts[j]
         \/ RefersBack(e[i].parts[j], d[i].parts[j], e, d, i)
  <2>1. \A i \in 1..Len(d) : \A j \in 1..Len(d[i].parts) :
           d[i].parts[j].kind = "text" => d[i].parts[j].at = 0
    BY <1>4, <1>6, <1>8
  <2>2. \A i \in 1..Len(d) : \A j \in 1..Len(d[i].parts) :
           \/ e[i].parts[j] = d[i].parts[j]
           \/ RefersBack(e[i].parts[j], d[i].parts[j], e, d, i)
    BY <1>1, <1>4, <2>1, SubstringsRefer
  <2> QED BY <1>4, <1>6, <2>2
<1> HIDE DEF e
\* A text of c that is not replaced stands, its block perhaps elsewhere.
<1>10. ASSUME NEW i \in 1..Len(c), NEW j \in 1..Len(c[i].parts), d[i].parts[j].kind = "text",
              NEW q, q = e[i].parts[j], q # d[i].parts[j]
       PROVE  /\ q.kind = "text" /\ q.at \in 1..i /\ [q EXCEPT !.at = 0] = d[i].parts[j]
              /\ q.block = d[i].parts[j].block /\ BlockIn(e, q.at, q.block)
  <2> DEFINE p == d[i].parts[j]
  <2>1. RefersBack(q, p, e, d, i)
    BY <1>9, <1>10
  <2>2. p \in TextParts /\ p.at = 0
    <3>1. d[i].parts[j] \in AllParts
      BY <1>4, <1>6, PartsOf
    <3> QED BY <1>8, <1>10, <3>1, PartKinds
  <2> HIDE DEF p
  <2>3. PICK t \in 1..i : /\ q = [p EXCEPT !.at = t]
                          /\ \E m \in 1..Len(d[t].parts) :
                                /\ IsBareBlock(d[t].parts[m]) /\ d[t].parts[m].block = p.block
                                /\ e[t].parts[m] = d[t].parts[m]
    BY <2>1 DEF RefersBack
  <2>4. q.kind = "text" /\ q.at = t /\ q.block = p.block
    BY <2>2, <2>3 DEF TextParts
  <2>5. [q EXCEPT !.at = 0] = p
    BY <2>2, <2>3 DEF TextParts
  <2>6. PICK m \in 1..Len(d[t].parts) : /\ IsBareBlock(d[t].parts[m]) /\ d[t].parts[m].block = p.block
                                        /\ e[t].parts[m] = d[t].parts[m]
    BY <2>3
  <2>7. t \in 1..Len(c) /\ m \in 1..Len(c[t].parts)
    <3>1. t \in 1..Len(c)
      OBVIOUS
    <3> QED BY <1>6, <3>1
  <2>8. e[t].parts[m] \in ToSet(e[t].parts)
    BY <1>6, <2>7 DEF ToSet
  <2>9. e[t].parts[m].at = 0
    <3>1. d[t].parts[m].kind = "text"
      BY <2>6 DEF IsBareBlock
    <3> QED BY <1>8, <2>6, <2>7, <3>1
  <2>10. BlockIn(e, q.at, q.block)
    BY <2>4, <2>6, <2>8, <2>9 DEF BlockIn
  <2> QED BY <2>4, <2>5, <2>10 DEF p
<1>11. ASSUME NEW i \in 1..Len(c), NEW j \in 1..Len(c[i].parts), d[i].parts[j].kind = "text"
       PROVE  StandsIn(e, i, d[i].parts[j])
  <2> DEFINE q == e[i].parts[j]
  <2>1. q \in ToSet(e[i].parts)
    BY <1>6 DEF ToSet
  <2>2. CASE q = d[i].parts[j]
    BY <2>1, <2>2 DEF StandsIn
  <2>3. CASE q # d[i].parts[j]
    <3>1. /\ q.kind = "text" /\ q.at \in 1..i /\ [q EXCEPT !.at = 0] = d[i].parts[j]
          /\ q.block = d[i].parts[j].block /\ BlockIn(e, q.at, q.block)
      BY <1>10, <1>11, <2>3
    <3> HIDE DEF q
    <3> QED BY <1>11, <2>1, <3>1 DEF StandsIn
  <2> QED BY <2>2, <2>3
\* What is not a text is left by the second search.
<1>12. \A i \in 1..Len(c) : \A j \in 1..Len(c[i].parts) :
          d[i].parts[j].kind # "text" => e[i].parts[j] = d[i].parts[j]
  BY <1>9 DEF RefersBack
<1>13. ASSUME NEW i \in 1..Len(c), NEW j \in 1..Len(c[i].parts), d[i].parts[j] # c[i].parts[j],
              NEW q, q = e[i].parts[j]
       PROVE  q.kind = "pointer" /\ q.text = c[i].parts[j] /\ ResolvesIn(e, i, q)
  <2> DEFINE p == c[i].parts[j]
  <2>1. PointsBack(d[i].parts[j], p, d, c, i)
    BY <1>3, <1>13
  <2> HIDE DEF p
  <2>2. PICK t \in 1..i : /\ p.kind = "text" /\ d[i].parts[j] = Pointer(t, p) /\ c[t].role = c[i].role
                          /\ \E m \in 1..Len(c[t].parts) : c[t].parts[m] = p /\ d[t].parts[m] = p
    BY <2>1 DEF PointsBack
  <2>3. q = Pointer(t, p)
    <3>1. d[i].parts[j].kind # "text"
      BY <2>2 DEF Pointer
    <3> QED BY <1>12, <1>13, <2>2, <3>1
  <2>4. q.kind = "pointer" /\ q.to = t /\ q.text = p
    BY <2>3 DEF Pointer
  <2>5. PICK m \in 1..Len(c[t].parts) : d[t].parts[m] = p
    BY <2>2
  <2>6. t \in 1..Len(c)
    OBVIOUS
  <2>7. StandsIn(e, t, p)
    BY <1>11, <2>2, <2>5, <2>6
  <2>8. e[t].role = e[i].role
    BY <1>6, <2>2, <2>6
  <2> QED BY <2>4, <2>7, <2>8 DEF ResolvesIn, p
<1>14. ASSUME NEW i \in 1..Len(c) PROVE RefersIn(e, i)
  <2> SUFFICES ASSUME NEW q \in ToSet(e[i].parts)
               PROVE  /\ q.kind = "pointer" => ResolvesIn(e, i, q)
                      /\ q.kind = "text" /\ q.at # 0 => q.at \in 1..i /\ BlockIn(e, q.at, q.block)
    BY DEF RefersIn
  <2>1. PICK j \in 1..Len(c[i].parts) : q = e[i].parts[j]
    BY <1>6 DEF ToSet
  <2>2. ASSUME q.kind = "pointer" PROVE ResolvesIn(e, i, q)
    <3>1. d[i].parts[j] # c[i].parts[j]
      <4> SUFFICES ASSUME d[i].parts[j] = c[i].parts[j] PROVE FALSE
        OBVIOUS
      <4>1. d[i].parts[j].kind # "pointer"
        BY DEF Clean
      <4>2. q # d[i].parts[j]
        BY <2>2, <4>1
      <4>3. d[i].parts[j].kind = "text"
        BY <1>12, <2>1, <4>2
      <4>4. q.kind = "text"
        <5>1. \A y : y = e[i].parts[j] /\ y # d[i].parts[j] => y.kind = "text"
          BY <1>10, <4>3
        <5> QED BY <2>1, <4>2, <5>1
      <4> QED BY <2>2, <4>4
    <3> QED BY <1>13, <2>1, <3>1
  <2>3. ASSUME q.kind = "text", q.at # 0 PROVE q.at \in 1..i /\ BlockIn(e, q.at, q.block)
    <3>1. d[i].parts[j].kind = "text"
      BY <1>12, <2>1, <2>3
    <3>2. d[i].parts[j] # q
      BY <1>8, <2>3, <3>1
    <3> QED BY <1>10, <2>1, <3>1, <3>2
  <2> QED BY <2>2, <2>3
<1>15. ASSUME NEW i \in 1..Len(c), NEW x \in ToSet(c[i].parts)
       PROVE  ReadableIn(e, i, x) /\ (x.kind # "text" => x \in ToSet(e[i].parts))
  <2>1. PICK j \in 1..Len(c[i].parts) : x = c[i].parts[j]
    BY <1>6 DEF ToSet
  <2>2. e[i].parts[j] \in ToSet(e[i].parts)
    BY <1>6 DEF ToSet
  <2>3. CASE d[i].parts[j] # c[i].parts[j]
    <3>1. ReadableIn(e, i, x)
      BY <1>13, <2>1, <2>2, <2>3 DEF ReadableIn
    <3>2. x.kind = "text"
      <4>1. PointsBack(d[i].parts[j], c[i].parts[j], d, c, i)
        BY <1>3, <2>3
      <4> QED BY <2>1, <4>1 DEF PointsBack
    <3> QED BY <3>1, <3>2
  <2>4. CASE d[i].parts[j] = c[i].parts[j] /\ x.kind = "text"
    BY <1>11, <2>1, <2>4 DEF ReadableIn
  <2>5. CASE d[i].parts[j] = c[i].parts[j] /\ x.kind # "text"
    <3>1. e[i].parts[j] = x
      BY <1>12, <2>1, <2>5
    <3>2. x \in ToSet(e[i].parts)
      BY <2>2, <3>1
    <3> QED BY <3>2 DEF ReadableIn, StandsIn
  <2> QED BY <2>3, <2>4, <2>5
<1> QED BY <1>14, <1>15 DEF d, e

\* The same parts in the same roles can be read in the same way.
LEMMA SameReads ==
    ASSUME NEW e \in Seq(Turns), NEW f, NEW n \in Nat, n = Len(e),
           \A i \in 1..n : f[i].role = e[i].role,
           \A i \in 1..n : \A x : x.kind = "text" \/ x.kind = "pointer" =>
              (x \in ToSet(f[i].parts) <=> x \in ToSet(e[i].parts)),
           NEW i \in 1..n, RefersIn(e, i)
    PROVE  /\ RefersIn(f, i)
           /\ \A x : x.kind = "text" /\ ReadableIn(e, i, x) => ReadableIn(f, i, x)
<1>1. ASSUME NEW k \in 1..n, NEW block, BlockIn(e, k, block) PROVE BlockIn(f, k, block)
  <2>1. PICK q \in ToSet(e[k].parts) : IsBareBlock(q) /\ q.at = 0 /\ q.block = block
    BY <1>1 DEF BlockIn
  <2>2. q.kind = "text"
    BY <2>1 DEF IsBareBlock
  <2>3. q \in ToSet(f[k].parts)
    BY <2>2
  <2> QED BY <2>1, <2>3 DEF BlockIn
<1>2. ASSUME NEW k \in 1..n, NEW x, x.kind = "text", StandsIn(e, k, x) PROVE StandsIn(f, k, x)
  <2>1. PICK q \in ToSet(e[k].parts) :
           \/ q = x
           \/ /\ x.kind = "text"
              /\ q.kind = "text"
              /\ q.at \in 1..k
              /\ [q EXCEPT !.at = 0] = x
              /\ BlockIn(e, q.at, x.block)
    BY <1>2 DEF StandsIn
  <2>2. q.kind = "text"
    BY <1>2, <2>1
  <2>3. q \in ToSet(f[k].parts)
    BY <2>2
  <2>4. CASE q = x
    BY <2>3, <2>4 DEF StandsIn
  <2>5. CASE q # x
    <3>1. q.at \in 1..n /\ q.at \in 1..k
      BY <2>1, <2>5
    <3>2. BlockIn(f, q.at, x.block)
      BY <1>1, <2>1, <2>5, <3>1
    <3>3. [q EXCEPT !.at = 0] = x
      BY <2>1, <2>5
    <3> QED BY <1>2, <2>2, <2>3, <3>1, <3>2, <3>3 DEF StandsIn
  <2> QED BY <2>4, <2>5
<1>3. ASSUME NEW q \in ToSet(e[i].parts), q.kind = "pointer" PROVE ResolvesIn(f, i, q) /\ q.text.kind = "text"
  <2>0. ResolvesIn(e, i, q)
    BY <1>3 DEF RefersIn
  <2>x. q.text.kind = "text"
    <3>1. PICK j \in 1..Len(e[i].parts) : q = e[i].parts[j]
      BY PartsOf DEF ToSet
    <3>2. q \in PointerParts
      BY <1>3, <3>1, PartsOf, PartKinds
    <3> QED BY <3>2 DEF PointerParts, TextParts
  <2>1. q.to \in 1..i /\ e[q.to].role = e[i].role /\ StandsIn(e, q.to, q.text)
    BY <2>0 DEF ResolvesIn
  <2>2. q.to \in 1..n
    BY <2>1
  <2>3. StandsIn(f, q.to, q.text)
    BY <1>2, <2>x, <2>1, <2>2
  <2>4. f[q.to].role = f[i].role
    BY <2>1, <2>2
  <2> QED BY <2>x, <2>1, <2>3, <2>4 DEF ResolvesIn
<1>4. ASSUME NEW q \in ToSet(f[i].parts), q.kind = "text" \/ q.kind = "pointer"
      PROVE  q \in ToSet(e[i].parts)
  BY <1>4
<1>5. RefersIn(f, i)
  <2> SUFFICES ASSUME NEW q \in ToSet(f[i].parts)
               PROVE  /\ q.kind = "pointer" => ResolvesIn(f, i, q)
                      /\ q.kind = "text" /\ q.at # 0 => q.at \in 1..i /\ BlockIn(f, q.at, q.block)
    BY DEF RefersIn
  <2>1. ASSUME q.kind = "pointer" PROVE ResolvesIn(f, i, q)
    BY <1>3, <1>4, <2>1
  <2>2. ASSUME q.kind = "text", q.at # 0 PROVE q.at \in 1..i /\ BlockIn(f, q.at, q.block)
    <3>1. q.at \in 1..i /\ BlockIn(e, q.at, q.block)
      BY <1>4, <2>2 DEF RefersIn
    <3>2. q.at \in 1..n
      BY <3>1
    <3> QED BY <1>1, <3>1, <3>2
  <2> QED BY <2>1, <2>2
<1>6. ASSUME NEW x, x.kind = "text", ReadableIn(e, i, x) PROVE ReadableIn(f, i, x)
  <2>1. CASE StandsIn(e, i, x)
    BY <1>2, <1>6, <2>1 DEF ReadableIn
  <2>2. CASE \E q \in ToSet(e[i].parts) : q.kind = "pointer" /\ q.text = x /\ ResolvesIn(e, i, q)
    <3>1. PICK q \in ToSet(e[i].parts) : q.kind = "pointer" /\ q.text = x
      BY <2>2
    <3>2. q \in ToSet(f[i].parts) /\ ResolvesIn(f, i, q)
      BY <1>3, <3>1
    <3> QED BY <3>1, <3>2 DEF ReadableIn
  <2> QED BY <1>6, <2>1, <2>2 DEF ReadableIn
<1> QED BY <1>5, <1>6

\* TrimContents keeps a suffix, and everything without a budget.
LEMMA TrimShape ==
    ASSUME NEW c \in Seq(Turns), c # <<>>, NEW sysBytes, NEW knobs
    PROVE  LET d == TrimContents(c, sysBytes, knobs)
           IN /\ \E from \in 1..Len(c) : d = SubSeq(c, from, Len(c))
              /\ knobs.budget = 0 => d = c
<1> DEFINE n == Len(c)
           Bytes(from) == SumFunction([i \in from..n |-> ContentBytes(c[i])])
           fitting == {i \in 1..n : sysBytes + Bytes(i) <= knobs.budget}
           start == Min(fitting \union {n})
<1>1. n \in Nat /\ n \in 1..n /\ 1 \in 1..n
  OBVIOUS
<1>2. start \in 1..n
  <2>1. fitting \union {n} \in SUBSET (1..n) /\ fitting \union {n} # {}
    BY <1>1
  <2> HIDE DEF fitting
  <2> QED BY <1>1, <2>1, MinOfPlaces
<1>3. SubSeq(c, n, n) = <<c[n]>>
  <2> DEFINE last == SubSeq(c, n, n)
  <2>1. last \in Seq(Turns) /\ Len(last) = 1 /\ last[1] = c[n]
    BY <1>1
  <2> HIDE DEF last
  <2>2. last = <<last[1]>>
    BY <2>1
  <2> QED BY <2>1, <2>2 DEF last
<1>4. SubSeq(c, 1, n) = c
  OBVIOUS
<1>5. /\ \/ TrimContents(c, sysBytes, knobs) = c
         \/ TrimContents(c, sysBytes, knobs) = <<c[n]>>
         \/ TrimContents(c, sysBytes, knobs) = SubSeq(c, start, n)
      /\ knobs.budget = 0 => TrimContents(c, sysBytes, knobs) = c
  BY DEF TrimContents
<1> HIDE DEF start
<1> QED BY <1>1, <1>2, <1>3, <1>4, <1>5

\* The turns of a suffix.
LEMMA SuffixTurns ==
    ASSUME NEW c \in Seq(Turns), NEW from \in 1..Len(c)
    PROVE  LET d == SubSeq(c, from, Len(c))
           IN /\ d \in Seq(Turns) /\ Len(d) = Len(c) - from + 1
              /\ \A i \in 1..Len(d) : from + i - 1 \in 1..Len(c) /\ d[i] = c[from + i - 1]
              /\ Len(d) \in 1..Len(d) /\ d[Len(d)] = c[Len(c)]
              /\ Len(d) > 1 => Len(c) > 1 /\ d[Len(d) - 1] = c[Len(c) - 1]
<1> DEFINE n == Len(c)
           d == SubSeq(c, from, n)
<1>1. n \in Nat /\ from \in Nat /\ from <= n
  OBVIOUS
<1>2. /\ d \in Seq(Turns) /\ Len(d) = n - from + 1
      /\ \A i \in 1..(n - from + 1) : d[i] = c[from + i - 1]
  BY <1>1
<1> HIDE DEF d, n
<1>3. Len(d) \in 1..Len(d) /\ from + Len(d) - 1 = n /\ (Len(d) > 1 => n > 1)
  BY <1>1, <1>2
<1>4. ASSUME NEW i \in 1..Len(d) PROVE from + i - 1 \in 1..n
  BY <1>1, <1>2
<1>5. ASSUME Len(d) > 1 PROVE Len(d) - 1 \in 1..Len(d) /\ from + (Len(d) - 1) - 1 = n - 1
  BY <1>1, <1>2, <1>5
<1>6. ASSUME Len(d) > 1 PROVE d[Len(d) - 1] = c[n - 1]
  BY <1>2, <1>5, <1>6
<1>7. d[Len(d)] = c[n]
  BY <1>2, <1>3
<1> QED BY <1>2, <1>3, <1>4, <1>6, <1>7 DEF d, n

\* Whatever is cut, deduplicated and aligned, references find what they name,
\* and of the latest turn every text can be read.
LEMMA FinishedRefers ==
    ASSUME NEW c, Talk(c), Clean(c),
           setting.knobs \in Knobs, setting.ids \in BOOLEAN, setting.gemini \in BOOLEAN
    PROVE  LET d == Finished(c)
           IN /\ \A i \in 1..Len(d) : RefersIn(d, i)
              /\ \A x \in ToSet(c[Len(c)].parts) : x.kind = "text" => ReadableIn(d, Len(d), x)
<1> DEFINE k == setting.knobs
           kept == TrimContents(c, setting.sysBytes, k)
           replayed == DedupReplayedBlocks(kept, k)
           once == DedupSubstringBlocks(replayed, k)
           d == Finished(c)
           aligned == AlignFunctionCallsAndResponses(once, setting.ids)
<1>1. c \in Seq(Turns) /\ c # <<>>
  BY DEF Talk
<1>2. PICK from \in 1..Len(c) : kept = SubSeq(c, from, Len(c))
  BY <1>1, TrimShape
<1>3. Talk(kept)
  BY TrimTalk
<1> HIDE DEF kept
<1>4. /\ kept \in Seq(Turns)
      /\ \A i \in 1..Len(kept) : from + i - 1 \in 1..Len(c) /\ kept[i] = c[from + i - 1]
      /\ Len(kept) \in 1..Len(kept) /\ kept[Len(kept)] = c[Len(c)]
  BY <1>1, <1>2, SuffixTurns
<1>5. Clean(kept)
  BY <1>4, CutClean
<1>6. FollowsAll(replayed, kept)
  BY <1>4, ReplayedFollow
<1>7. FollowsAll(once, replayed)
  BY <1>6, SubstringsFollow DEF FollowsAll
<1>8. Talk(once) /\ once \in Seq(Turns) /\ Len(once) = Len(kept)
  <2> HIDE DEF replayed, once
  <2>1. Talk(replayed)
    BY <1>3, <1>6, FollowsTalk
  <2>2. Talk(once)
    BY <1>7, <2>1, FollowsTalk
  <2> QED BY <1>6, <1>7, <2>2 DEF Talk, FollowsAll
<1>9. \A i \in 1..Len(kept) :
         /\ RefersIn(once, i)
         /\ \A x \in ToSet(kept[i].parts) : ReadableIn(once, i, x)
  BY <1>4, <1>5, DedupRefers
<1>10. d = IF setting.gemini THEN aligned ELSE once
  BY DEF Finished, kept
<1> HIDE DEF replayed, once
<1>11. ASSUME NEW i \in 1..Len(kept)
       PROVE  /\ RefersIn(aligned, i)
              /\ \A x : x.kind = "text" /\ ReadableIn(once, i, x) => ReadableIn(aligned, i, x)
  <2>1. /\ \A m \in 1..Len(kept) : aligned[m].role = once[m].role
        /\ \A m \in 1..Len(kept) : \A x : x.kind = "text" \/ x.kind = "pointer" =>
              (Has(aligned[m].parts, x) <=> Has(once[m].parts, x))
    BY <1>8, AlignKeeps
  <2>2. \A m \in 1..Len(kept) : \A x : x.kind = "text" \/ x.kind = "pointer" =>
           (x \in ToSet(aligned[m].parts) <=> x \in ToSet(once[m].parts))
    BY <2>1, HasIs
  <2>3. Len(kept) \in Nat /\ Len(kept) = Len(once) /\ i \in 1..Len(kept) /\ RefersIn(once, i)
    <3>1. Len(kept) \in Nat
      BY <1>4
    <3>2. RefersIn(once, i)
      BY <1>9
    <3> QED BY <1>8, <3>1, <3>2
  <2> HIDE DEF aligned
  <2> QED BY <1>8, <2>1, <2>2, <2>3, SameReads
<1>12. Len(aligned) = Len(kept)
  BY <1>8, AlignTalk
<1> HIDE DEF aligned, d
<1>13. Len(d) = Len(kept)
  BY <1>8, <1>10, <1>12
<1>14. \A i \in 1..Len(kept) : RefersIn(d, i)
  BY <1>9, <1>10, <1>11
<1>15. ASSUME NEW x \in ToSet(c[Len(c)].parts), x.kind = "text" PROVE ReadableIn(d, Len(kept), x)
  <2>1. ReadableIn(once, Len(kept), x)
    BY <1>4, <1>9, <1>15
  <2>2. ReadableIn(aligned, Len(kept), x)
    BY <1>4, <1>11, <1>15, <2>1
  <2> QED BY <1>10, <2>1, <2>2
<1> QED BY <1>13, <1>14, <1>15 DEF d

-------------------------------------------------------------------------------
(* Every response of the latest turn is handed out (align.go). *)

\* Each response of n answers a call of m, and no two the same one; without IDs
\* it has the call's name.
Fitting(m, n, ids) ==
    /\ \A l \in Responses(n) : \E j \in Calls(m) :
          m.parts[j].key = n.parts[l].key /\ (~ids => m.parts[j].name = n.parts[l].name)
    /\ \A j, l \in Responses(n) : n.parts[j].key = n.parts[l].key => j = l

\* The calls of m after the first l parts that a response not handed out yet
\* may be meant for: each has one of its own.
Seats(f, acc, m, l) ==
    /\ \A r \in DOMAIN acc.responses :
          f[r] \in Calls(m) /\ f[r] > l /\ m.parts[f[r]].name = acc.responses[r].name
    /\ \A r, s \in DOMAIN acc.responses : f[r] = f[s] => r = s

Seated(acc, m, l) == acc \in Accs /\ \E f : Seats(f, acc, m, l)

\* Nothing is seated before the first part.
LEMMA SeatedFirst ==
    ASSUME NEW m \in Turns, NEW n \in Turns, Fitting(m, n, FALSE)
    PROVE  Seated(Start(n), m, 0)
<1> DEFINE acc == Start(n)
           f == [r \in DOMAIN acc.responses |->
                   CHOOSE j \in Calls(m) : /\ m.parts[j].key = acc.responses[r].key
                                           /\ m.parts[j].name = acc.responses[r].name]
<1>1. /\ acc \in Accs
      /\ \A r \in DOMAIN acc.responses : \E l \in Responses(n) : acc.responses[r] = n.parts[l]
  BY StartOf
<1>2. \A r, s \in DOMAIN acc.responses : acc.responses[r].key = acc.responses[s].key => r = s
  <2>1. \A j, l \in Responses(n) : n.parts[j].key = n.parts[l].key => j = l
    BY DEF Fitting
  <2> QED BY <2>1, StartOf
<1> HIDE DEF acc
<1>3. \A r \in DOMAIN acc.responses :
         /\ f[r] \in Calls(m) /\ m.parts[f[r]].key = acc.responses[r].key
         /\ m.parts[f[r]].name = acc.responses[r].name
  <2> SUFFICES ASSUME NEW r \in DOMAIN acc.responses
               PROVE  /\ f[r] \in Calls(m) /\ m.parts[f[r]].key = acc.responses[r].key
                      /\ m.parts[f[r]].name = acc.responses[r].name
    OBVIOUS
  <2>1. \E j \in Calls(m) : /\ m.parts[j].key = acc.responses[r].key
                            /\ m.parts[j].name = acc.responses[r].name
    BY <1>1 DEF Fitting
  <2>2. f[r] = CHOOSE j \in Calls(m) : /\ m.parts[j].key = acc.responses[r].key
                                       /\ m.parts[j].name = acc.responses[r].name
    OBVIOUS
  <2> HIDE DEF f
  <2> QED BY <2>1, <2>2
<1> HIDE DEF f
<1>4. \A j \in Calls(m) : j > 0
  <2>1. m.parts \in Seq(AllParts)
    BY DEF Turns
  <2>2. \A j \in Calls(m) : j \in 1..Len(m.parts)
    BY <2>1 DEF Calls, OfKind
  <2> QED BY <2>1, <2>2
<1>5. Seats(f, acc, m, 0)
  BY <1>2, <1>3, <1>4 DEF Seats
<1> QED BY <1>1, <1>5 DEF Seated, acc

\* One call takes one response of its name, if there is any; the others keep or
\* change their seats.
LEMMA SeatedNext ==
    ASSUME NEW m \in Turns, NEW l \in Nat, l + 1 <= Len(m.parts),
           NEW acc, Seated(acc, m, l)
    PROVE  Seated(AlignPart(acc, m.parts[l + 1], FALSE), m, l + 1)
<1> DEFINE p == m.parts[l + 1]
           a == AlignPart(acc, p, FALSE)
           fits == Candidates(p, acc.responses, FALSE)
           r0 == Min(fits)
<1>0. m.parts \in Seq(AllParts) /\ l + 1 \in 1..Len(m.parts) /\ DOMAIN m.parts = 1..Len(m.parts)
  BY DEF Turns
<1>1. p \in AllParts /\ acc \in Accs
  BY <1>0 DEF Seated
<1>2. /\ a \in Accs
      /\ p.kind = "call" /\ fits # {} =>
            /\ r0 \in fits /\ r0 \in 1..Len(acc.responses)
            /\ a.responses = RemoveAt(acc.responses, r0)
      /\ p.kind = "call" /\ fits = {} => a.responses = acc.responses
      /\ p.kind = "pruned" => a.responses = acc.responses
      /\ p.kind \notin {"call", "pruned"} => a = acc
  BY <1>1, AlignPartCases
<1>3. \A r \in fits : acc.responses[r].name = p.name
  BY DEF Candidates
<1>4. \A r \in DOMAIN acc.responses : acc.responses[r].name = p.name => r \in fits
  BY DEF Candidates
<1>5. PICK f : Seats(f, acc, m, l)
  BY DEF Seated
<1>6. \A j \in Calls(m) : j \in 1..Len(m.parts) /\ m.parts[j].kind = "call"
  BY <1>0 DEF Calls, OfKind
<1>7. \A j \in Calls(m) : j > l /\ j # l + 1 => j > l + 1
  BY <1>6
<1> HIDE DEF a, fits, r0
<1>8. CASE p.kind # "call" \/ fits = {}
  <2>1. a.responses = acc.responses
    BY <1>2, <1>8
  <2>2. \A r \in DOMAIN acc.responses : f[r] # l + 1
    <3> SUFFICES ASSUME NEW r \in DOMAIN acc.responses, f[r] = l + 1 PROVE FALSE
      OBVIOUS
    <3>1. f[r] \in Calls(m) /\ m.parts[f[r]].name = acc.responses[r].name
      BY <1>5 DEF Seats
    <3>2. p.kind = "call"
      BY <1>6, <3>1
    <3>3. r \in fits
      BY <1>4, <3>1
    <3> QED BY <1>8, <3>2, <3>3
  <2>3. Seats(f, a, m, l + 1)
    BY <1>5, <1>7, <2>1, <2>2 DEF Seats
  <2> QED BY <1>2, <2>3 DEF Seated, a
<1>9. CASE p.kind = "call" /\ fits # {}
  <2> DEFINE old == acc.responses
             new == a.responses
             n == Len(old)
             up == [i \in 1..(n - 1) |-> IF i < r0 THEN i ELSE i + 1]
             g == [i \in 1..(n - 1) |-> IF f[up[i]] = l + 1 THEN f[r0] ELSE f[up[i]]]
  <2>1. r0 \in fits /\ r0 \in 1..n /\ new = RemoveAt(old, r0)
    BY <1>2, <1>9
  <2>2. old \in Seq(ResponseParts)
    BY <1>1 DEF Accs
  <2>3. \A r \in DOMAIN old :
          f[r] \in Calls(m) /\ f[r] > l /\ m.parts[f[r]].name = old[r].name
    BY <1>5 DEF Seats
  <2>4. \A r, s \in DOMAIN old : f[r] = f[s] => r = s
    BY <1>5 DEF Seats
  <2> HIDE DEF old, new
  <2>5. n \in Nat /\ DOMAIN old = 1..n
    BY <2>2
  <2>6. new \in Seq(ResponseParts) /\ Len(new) = n - 1
        /\ \A i \in 1..(n - 1) : new[i] = IF i < r0 THEN old[i] ELSE old[i + 1]
    BY <2>1, <2>2, Removed
  <2> HIDE DEF n
  <2>7. DOMAIN new = 1..(n - 1)
    BY <2>5, <2>6
  <2>8. \A i \in 1..(n - 1) : up[i] \in 1..n /\ up[i] # r0 /\ new[i] = old[up[i]]
    <3> SUFFICES ASSUME NEW i \in 1..(n - 1) PROVE up[i] \in 1..n /\ up[i] # r0 /\ new[i] = old[up[i]]
      OBVIOUS
    <3>1. CASE i < r0
      <4>1. up[i] = i
        BY <3>1
      <4> QED BY <2>1, <2>5, <2>6, <3>1, <4>1
    <3>2. CASE ~(i < r0)
      <4>1. up[i] = i + 1
        BY <3>2
      <4> QED BY <2>1, <2>5, <2>6, <3>2, <4>1
    <3> QED BY <3>1, <3>2
  <2>9. \A i, h \in 1..(n - 1) : up[i] = up[h] => i = h
    <3> SUFFICES ASSUME NEW i \in 1..(n - 1), NEW h \in 1..(n - 1), up[i] = up[h] PROVE i = h
      OBVIOUS
    <3>1. up[i] = (IF i < r0 THEN i ELSE i + 1) /\ up[h] = (IF h < r0 THEN h ELSE h + 1)
      OBVIOUS
    <3>2. i \in Nat /\ h \in Nat /\ r0 \in Nat
      BY <2>1, <2>5
    <3>3. (IF i < r0 THEN i ELSE i + 1) = (IF h < r0 THEN h ELSE h + 1)
      BY <3>1
    <3> QED BY <3>2, <3>3
  <2>10. \A i \in 1..(n - 1) : g[i] = IF f[up[i]] = l + 1 THEN f[r0] ELSE f[up[i]]
    OBVIOUS
  <2> HIDE DEF up, g
  <2>11. ASSUME NEW i \in 1..(n - 1)
         PROVE  g[i] \in Calls(m) /\ g[i] > l + 1 /\ m.parts[g[i]].name = new[i].name
    <3>1. f[r0] \in Calls(m) /\ f[r0] > l /\ f[up[i]] \in Calls(m) /\ f[up[i]] > l
          /\ m.parts[f[up[i]]].name = new[i].name /\ m.parts[f[r0]].name = old[r0].name
      BY <2>1, <2>3, <2>5, <2>8
    <3>2. CASE f[up[i]] = l + 1
      <4>1. g[i] = f[r0]
        BY <2>10, <3>2
      <4>2. f[r0] # l + 1
        BY <2>1, <2>4, <2>5, <2>8, <3>2
      <4>3. new[i].name = p.name /\ old[r0].name = p.name
        BY <1>3, <2>1, <3>1, <3>2 DEF old
      <4> QED BY <1>7, <3>1, <4>1, <4>2, <4>3
    <3>3. CASE f[up[i]] # l + 1
      <4>1. g[i] = f[up[i]]
        BY <2>10, <3>3
      <4> QED BY <1>7, <3>1, <3>3, <4>1
    <3> QED BY <3>2, <3>3
  <2>12. ASSUME NEW i \in 1..(n - 1), NEW h \in 1..(n - 1), g[i] = g[h] PROVE i = h
    <3>1. up[i] \in 1..n /\ up[h] \in 1..n /\ up[i] # r0 /\ up[h] # r0 /\ r0 \in 1..n
      BY <2>1, <2>8
    <3>2. f[up[i]] # f[r0] /\ f[up[h]] # f[r0]
      BY <2>4, <2>5, <3>1
    <3>3. f[up[i]] = f[up[h]]
      BY <2>10, <2>12, <3>2
    <3>4. up[i] = up[h]
      BY <2>4, <2>5, <3>1, <3>3
    <3> QED BY <2>9, <3>4
  <2>13. Seats(g, a, m, l + 1)
    BY <2>7, <2>11, <2>12 DEF Seats, new
  <2> QED BY <1>2, <2>13 DEF Seated, a
<1> QED BY <1>8, <1>9

\* Without IDs no response of the turn is left over.
LEMMA HandedByName ==
    ASSUME NEW m \in Turns, NEW n \in Turns, Fitting(m, n, FALSE)
    PROVE  Given(Start(n), m.parts, FALSE).responses = <<>>
<1> DEFINE parts == m.parts
           base == Start(n)
           Acc(l) == Given(base, SubSeq(parts, 1, l), FALSE)
           Done(l) == Seated(Acc(l), m, l)
           S == {l \in Nat : l <= Len(parts) => Done(l)}
<1>1. parts \in Seq(AllParts) /\ Len(parts) \in Nat /\ DOMAIN parts = 1..Len(parts)
  BY DEF Turns
<1>2. base \in Accs /\ FALSE \in BOOLEAN
  BY StartOf
<1>3. 0 \in S
  <2>1. SubSeq(parts, 1, 0) = <<>>
    BY <1>1, PartByPart
  <2>2. Given(base, <<>>, FALSE) = base
    <3>1. <<>> \in Seq(Nat) /\ 0 \in Nat
      OBVIOUS
    <3> HIDE DEF base
    <3> QED BY <1>2, <3>1, GivenPartByPart
  <2>3. Acc(0) = base
    BY <2>1, <2>2
  <2>4. Seated(base, m, 0)
    BY SeatedFirst
  <2>5. Done(0)
    BY <2>3, <2>4
  <2> HIDE DEF Done
  <2> QED BY <2>5
<1> HIDE DEF base
<1>4. ASSUME NEW l \in Nat, l \in S PROVE l + 1 \in S
  <2> HIDE DEF Done
  <2> SUFFICES ASSUME l + 1 <= Len(parts) PROVE Done(l + 1)
    OBVIOUS
  <2> DEFINE p == parts[l + 1]
             front == SubSeq(parts, 1, l)
  <2>1. front \in Seq(AllParts) /\ p \in AllParts /\ SubSeq(parts, 1, l + 1) = Append(front, p)
    BY <1>1, PartByPart
  <2>2. l <= Len(parts)
    BY <1>1
  <2>x. Done(l)
    BY <1>4, <2>2
  <2> USE DEF Done
  <2>3. Seated(Acc(l), m, l)
    BY <2>x
  <2>4. Acc(l) = Given(base, front, FALSE) /\ Acc(l + 1) = Given(base, Append(front, p), FALSE)
    BY <2>1
  <2> HIDE DEF front, p, Acc
  <2>5. Given(base, Append(front, p), FALSE) = AlignPart(Given(base, front, FALSE), p, FALSE)
    BY <1>2, <2>1, GivenPartByPart
  <2>6. Acc(l + 1) = AlignPart(Acc(l), p, FALSE)
    BY <2>4, <2>5
  <2> QED BY <2>3, <2>6, SeatedNext DEF p
<1> HIDE DEF Done
<1>5. Len(parts) \in S
  <2> HIDE DEF S
  <2> QED BY <1>1, <1>3, <1>4, Steps!SetInduction
<1>6. Seated(Acc(Len(parts)), m, Len(parts))
  <2>1. Done(Len(parts))
    BY <1>1, <1>5
  <2> QED BY <2>1 DEF Done
<1>7. Acc(Len(parts)) = Given(base, parts, FALSE)
  BY <1>1, PartByPart
<1> DEFINE a == Given(base, parts, FALSE)
<1>8. Seated(a, m, Len(parts))
  BY <1>6, <1>7
<1> HIDE DEF a, Acc
<1>9. PICK f : Seats(f, a, m, Len(parts))
  BY <1>8 DEF Seated
<1>10. \A j \in Calls(m) : ~(j > Len(parts))
  BY <1>1 DEF Calls, OfKind
<1>11. DOMAIN a.responses = {}
  BY <1>9, <1>10 DEF Seats
<1>12. a.responses \in Seq(ResponseParts)
  BY <1>8 DEF Seated, Accs
<1>13. a.responses = <<>>
  <2> DEFINE left == a.responses
  <2>1. left \in Seq(ResponseParts) /\ DOMAIN left = {}
    BY <1>11, <1>12
  <2> HIDE DEF left
  <2>2. DOMAIN left = 1..Len(left) /\ Len(left) \in Nat
    BY <2>1
  <2>3. Len(left) = 0
    BY <2>1, <2>2
  <2>4. left = <<>>
    BY <2>1, <2>3
  <2> QED BY <2>4 DEF left
<1> QED BY <1>13 DEF a, base

-------------------------------------------------------------------------------
(* Responses of the latest turn reach the prompt. *)

\* The turn is rebuilt by name: what fits is handed out.
LEMMA FitsByName ==
    ASSUME NEW m \in Turns, NEW n \in Turns, Fitting(m, n, FALSE),
           NEW l \in Responses(n)
    PROVE  Has(Given(Start(n), m.parts, FALSE).built, n.parts[l])
<1> DEFINE a == Given(Start(n), m.parts, FALSE)
           x == n.parts[l]
<1>1. Start(n) \in Accs /\ Has(Start(n).responses, x)
  BY StartOf DEF Has
<1>2. m.parts \in Seq(AllParts)
  BY DEF Turns
<1>3. Hands(a, Start(n))
  BY <1>1, <1>2, GivenHands
<1>4. a.responses = <<>>
  BY HandedByName
<1> HIDE DEF a, x
<1>5. ~Has(a.responses, x)
  <2>1. ~Has(<<>>, x)
    BY DEF Has
  <2> QED BY <1>4, <2>1
<1>6. Has(a.built, x)
  BY <1>1, <1>3, <1>5 DEF Hands
<1> QED BY <1>6 DEF a, x

\* The turn is rebuilt by ID: whatever answers the call is its own response.
LEMMA FitsById ==
    ASSUME NEW m \in Turns, NEW n \in Turns, NEW keys, Paired(m, n, keys),
           NEW l \in Responses(n), n.parts[l].key \in CallKeys(m),
           NEW built, Once(built, CallKeys(m), keys),
           \A x : x.kind = "response" /\ Has(built, x) => Has(n.parts, x)
    PROVE  Has(built, n.parts[l])
<1>1. PICK j \in AnswerPlaces(built) : built[j].key = n.parts[l].key
  BY DEF Once
<1>2. n.parts[l].key \in keys
  BY DEF Paired
<1>3. built[j].kind = "response" /\ j \in DOMAIN built
  <2>1. built[j].kind = "dummy" => built[j].key \notin keys
    BY DEF Once
  <2>2. j \in DOMAIN built /\ (built[j].kind = "response" \/ built[j].kind = "dummy")
    BY DEF AnswerPlaces
  <2> QED BY <1>1, <1>2, <2>1, <2>2
<1>4. Has(n.parts, built[j])
  <2>1. Has(built, built[j])
    BY <1>3 DEF Has
  <2> QED BY <1>3, <2>1
<1>5. PICK k \in DOMAIN n.parts : n.parts[k] = built[j]
  BY <1>4 DEF Has
<1>6. k \in Responses(n)
  BY <1>3, <1>5 DEF Responses, OfKind
<1>7. k = l
  BY <1>1, <1>5, <1>6 DEF Paired
<1> QED BY <1>3, <1>5, <1>7 DEF Has

\* What fits still fits after parts were changed where they stand.
LEMMA FollowsFitting ==
    ASSUME NEW m \in Turns, NEW n \in Turns, NEW k, NEW h, NEW ids,
           FollowsTurn(k, m), FollowsTurn(h, n), Fitting(m, n, ids)
    PROVE  Fitting(k, h, ids)
<1>1. Calls(k) = Calls(m) /\ Responses(h) = Responses(n)
  BY FollowsKinds DEF Calls, Responses, Exchanged
<1>2. /\ \A j \in Calls(m) : k.parts[j].name = m.parts[j].name /\ k.parts[j].key = m.parts[j].key
      /\ \A j \in Responses(n) : h.parts[j].name = n.parts[j].name /\ h.parts[j].key = n.parts[j].key
  <2>1. \A j \in Calls(m) \union Responses(m) :
           k.parts[j].name = m.parts[j].name /\ k.parts[j].key = m.parts[j].key
    BY FollowsKinds
  <2>2. \A j \in Calls(n) \union Responses(n) :
           h.parts[j].name = n.parts[j].name /\ h.parts[j].key = n.parts[j].key
    BY FollowsKinds
  <2> QED BY <2>1, <2>2
<1> QED BY <1>1, <1>2 DEF Fitting

\* Of the latest turn every response that fits a call before it is in the prompt.
LEMMA FinishedAnswers ==
    ASSUME NEW c, Talk(c), Clean(c),
           setting.knobs \in Knobs, setting.ids \in BOOLEAN, setting.gemini \in BOOLEAN,
           Len(c) > 1 => Fitting(c[Len(c) - 1], c[Len(c)], setting.ids),
           NEW keys, setting.ids => AllPaired(c, keys),
           NEW x \in ToSet(c[Len(c)].parts), x.kind = "response"
    PROVE  Has(Finished(c)[Len(Finished(c))].parts, x)
<1> DEFINE k == setting.knobs
           kept == TrimContents(c, setting.sysBytes, k)
           replayed == DedupReplayedBlocks(kept, k)
           once == DedupSubstringBlocks(replayed, k)
           d == Finished(c)
           aligned == AlignFunctionCallsAndResponses(once, setting.ids)
           n == Len(kept)
<1>1. c \in Seq(Turns) /\ c # <<>>
  BY DEF Talk
<1>2. PICK from \in 1..Len(c) : kept = SubSeq(c, from, Len(c))
  BY <1>1, TrimShape
<1>3. Talk(kept) /\ (setting.ids => AllPaired(kept, keys))
  BY TrimTalk
<1> HIDE DEF kept
<1>4. /\ kept \in Seq(Turns)
      /\ \A i \in 1..n : from + i - 1 \in 1..Len(c) /\ kept[i] = c[from + i - 1]
      /\ n \in 1..n /\ kept[n] = c[Len(c)]
      /\ n > 1 => Len(c) > 1 /\ kept[n - 1] = c[Len(c) - 1]
  BY <1>1, <1>2, SuffixTurns
<1>5. Clean(kept)
  BY <1>4, CutClean
<1>6. FollowsAll(replayed, kept)
  BY <1>4, ReplayedFollow
<1>7. FollowsAll(once, replayed)
  BY <1>6, SubstringsFollow DEF FollowsAll
<1>8. x \in ToSet(once[n].parts)
  BY <1>4, <1>5, DedupRefers
<1>9. d = IF setting.gemini THEN aligned ELSE once
  BY DEF Finished, kept
<1> HIDE DEF replayed, once
<1>10. /\ Talk(once) /\ once \in Seq(Turns) /\ Len(once) = n /\ n \in Nat
       /\ setting.ids => AllPaired(once, keys)
  <2>1. Talk(replayed) /\ (setting.ids => AllPaired(replayed, keys))
    BY <1>3, <1>6, FollowsTalk
  <2>2. Talk(once) /\ (setting.ids => AllPaired(once, keys))
    BY <1>7, <2>1, FollowsTalk
  <2> QED BY <1>6, <1>7, <2>2 DEF Talk, FollowsAll
<1> HIDE DEF n
<1>11. n > 1 => Fitting(once[n - 1], once[n], setting.ids)
  <2> SUFFICES ASSUME n > 1 PROVE Fitting(once[n - 1], once[n], setting.ids)
    OBVIOUS
  <2>1. n - 1 \in 1..n /\ n \in 1..n
    BY <1>10
  <2>2. \A i \in 1..n : /\ kept[i] \in Turns /\ replayed[i] \in Turns
                        /\ FollowsTurn(replayed[i], kept[i]) /\ FollowsTurn(once[i], replayed[i])
    <3>1. DOMAIN kept = 1..n /\ DOMAIN replayed = 1..n /\ \A i \in 1..n : kept[i] \in Turns
      BY <1>4, <1>6 DEF FollowsAll, n
    <3>2. \A i \in 1..n : FollowsTurn(replayed[i], kept[i]) /\ FollowsTurn(once[i], replayed[i])
      BY <1>6, <1>7, <3>1 DEF FollowsAll
    <3> QED BY <3>1, <3>2 DEF FollowsTurn
  <2>3. Fitting(kept[n - 1], kept[n], setting.ids)
    BY <1>4
  <2>4. Fitting(replayed[n - 1], replayed[n], setting.ids)
    BY <2>1, <2>2, <2>3, FollowsFitting
  <2> QED BY <2>1, <2>2, <2>4, FollowsFitting
<1>12. Has(once[n].parts, x)
  BY <1>8, HasIs
<1>13. CASE ~NeedsAlignment(once, n)
  <2>1. n \in 1..Len(once)
    BY <1>4, <1>10
  <2>2. aligned[n] = once[n]
    BY <1>10, <1>13, <2>1, AlignKeeps
  <2>3. Len(aligned) = n
    BY <1>10, AlignTalk
  <2> QED BY <1>9, <1>10, <1>12, <2>2, <2>3
<1>14. CASE NeedsAlignment(once, n)
  <2> DEFINE m == once[n - 1]
             t == once[n]
  <2>1. n > 1 /\ IsModel(m) /\ n \in 1..Len(once) /\ n - 1 \in 1..Len(once)
    BY <1>4, <1>10, <1>14 DEF NeedsAlignment
  <2>2. m \in Turns /\ t \in Turns
    BY <1>10, <2>1
  <2>3. PICK l \in Responses(t) : t.parts[l] = x
    BY <1>12 DEF Has, Responses, OfKind
  <2>4. Fitting(m, t, setting.ids)
    BY <1>11, <2>1
  <2>5. Len(aligned) = n
    BY <1>10, AlignTalk
  <2>6. CASE setting.ids = FALSE
    <3>1. aligned[n].parts = Given(Start(t), m.parts, FALSE).built
      <4>1. aligned[n].parts = Given(Start(t), m.parts, setting.ids).built
        BY <1>10, <1>14, <2>1, AlignKeeps
      <4> HIDE DEF aligned
      <4> QED BY <2>6, <4>1
    <3> HIDE DEF aligned, m, t
    <3>2. Has(aligned[n].parts, x)
      BY <2>2, <2>3, <2>4, <2>6, <3>1, FitsByName
    <3> QED BY <1>9, <1>10, <1>12, <2>5, <3>2 DEF t
  <2>7. CASE setting.ids = TRUE
    <3> DEFINE b == aligned[n].parts
    <3>1. \A y : y.kind = "response" /\ Has(b, y) => Has(t.parts, y)
      BY <1>10, <2>1, AlignKeeps
    <3>2. aligned[n - 1] = m
      <4>1. ~NeedsAlignment(once, n - 1)
        BY <2>1 DEF NeedsAlignment, IsModel, IsUser
      <4> QED BY <1>10, <2>1, <4>1, AlignKeeps
    <3>3. Once(b, CallKeys(m), keys)
      <4>1. n - 1 \in 1..(Len(once) - 1) /\ (n - 1) + 1 = n
        BY <1>10, <2>1
      <4>2. \A i \in 1..(Len(once) - 1) : IsModel(aligned[i]) =>
               Once(aligned[i + 1].parts, CallKeys(aligned[i]), keys)
        BY <1>10, <2>7, AlignTalk
      <4> HIDE DEF aligned
      <4> QED BY <2>1, <3>2, <4>1, <4>2
    <3>4. Paired(m, t, keys)
      BY <1>10, <2>1, <2>7 DEF AllPaired
    <3>5. t.parts[l].key \in CallKeys(m)
      <4>1. PICK j \in Calls(m) : m.parts[j].key = t.parts[l].key
        BY <2>3, <2>4 DEF Fitting
      <4> QED BY <4>1 DEF CallKeys
    <3> HIDE DEF b, m, t
    <3>6. Has(b, t.parts[l])
      BY <2>2, <2>3, <3>1, <3>3, <3>4, <3>5, FitsById
    <3> HIDE DEF aligned
    <3> QED BY <1>9, <1>10, <1>12, <2>3, <2>5, <3>6 DEF b, t
  <2> QED BY <2>6, <2>7
<1> QED BY <1>13, <1>14

-------------------------------------------------------------------------------
(* What is pruned, exactly (prune_tools.go). *)

\* Part j of turn i is a superseded read or is taken for the answer of one.
Gone(c, i, j, ids) ==
    \/ c[i].parts[j].kind = "call" /\ Superseded(c, i, j, ids)
    \/ c[i].parts[j].kind = "response" /\ Outdates(c, i, j, ids) # {}

\* on: whether anything is pruned at all.
PrunedWhere(d, c, ids, on) ==
    \A i \in 1..Len(c) : \A j \in 1..Len(c[i].parts) :
        /\ on /\ Gone(c, i, j, ids) => d[i].parts[j].kind = "pruned"
        /\ ~(on /\ Gone(c, i, j, ids)) => d[i].parts[j] = c[i].parts[j]

\* PruneStaleTools takes superseded reads and their answers, and nothing else.
LEMMA PruneIs ==
    ASSUME NEW c \in Seq(Turns), NEW knobs, NEW ids
    PROVE  \E on \in BOOLEAN : PrunedWhere(PruneStaleTools(c, knobs, ids), c, ids, on)
<1> DEFINE Change(i, j) ==
              LET p == c[i].parts[j]
                  outdated == Outdates(c, i, j, ids)
              IN IF p.kind = "call" /\ Superseded(c, i, j, ids)
                 THEN Pruned("call", p.name)
                 ELSE IF p.kind = "response" /\ outdated # {}
                 THEN Pruned("output", c[i - 1].parts[Min(outdated)].name)
                 ELSE p
           On == knobs.prune /\ Len(c) >= 3
           Map(i) == [j \in 1..Len(c[i].parts) |-> Change(i, j)]
           g == [i \in 1..Len(c) |->
                   IF On THEN Turn(c[i].role, SubSeq(Map(i), 1, Len(c[i].parts)))
                   ELSE c[i]]
           on == IF On THEN TRUE ELSE FALSE
<1>1. PruneStaleTools(c, knobs, ids) = SubSeq(g, 1, Len(c))
  BY DEF PruneStaleTools, MapParts, Tabulate
<1>2. on \in BOOLEAN /\ (on <=> On)
  OBVIOUS
<1>3. ASSUME NEW i \in 1..Len(c), NEW j \in 1..Len(c[i].parts)
      PROVE  /\ Gone(c, i, j, ids) => Change(i, j).kind = "pruned"
             /\ ~Gone(c, i, j, ids) => Change(i, j) = c[i].parts[j]
  BY DEF Gone, Pruned
<1> HIDE DEF Change, on, On
<1>4. ASSUME NEW i \in 1..Len(c), NEW j \in 1..Len(c[i].parts)
      PROVE  g[i].parts[j] = IF On THEN Change(i, j) ELSE c[i].parts[j]
  <2> DEFINE f == Map(i)
  <2>1. c[i] \in Turns
    OBVIOUS
  <2>2. f = [h \in 1..Len(c[i].parts) |-> f[h]] /\ f[j] = Change(i, j)
    OBVIOUS
  <2>3. g[i] = IF On THEN Turn(c[i].role, SubSeq(f, 1, Len(c[i].parts))) ELSE c[i]
    OBVIOUS
  <2> HIDE DEF f, g
  <2>4. Turn(c[i].role, SubSeq(f, 1, Len(c[i].parts))).parts[j] = f[j]
    BY <2>1, <2>2, TurnMapped
  <2> QED BY <2>2, <2>3, <2>4
<1>5. SubSeq(g, 1, Len(c)) = g
  <2>1. g = [i \in 1..Len(c) |-> g[i]] /\ Len(c) \in Nat
    OBVIOUS
  <2> HIDE DEF g
  <2> QED BY <2>1, Tabulated
<1> HIDE DEF g
<1>6. PrunedWhere(g, c, ids, on)
  BY <1>2, <1>3, <1>4 DEF PrunedWhere
<1> QED BY <1>1, <1>2, <1>5, <1>6

\* The keys of an exchange tell its calls, and its responses, apart.
KeysApart(m, n) ==
    /\ \A j, l \in Calls(m) : m.parts[j].key = m.parts[l].key => j = l
    /\ \A j, l \in Responses(n) : n.parts[j].key = n.parts[l].key => j = l

\* With IDs a call goes if and only if its response goes.
LEMMA GoneTogether ==
    ASSUME NEW c \in Seq(Turns), NEW i \in 1..(Len(c) - 1), KeysApart(c[i], c[i + 1]),
           NEW j \in Calls(c[i]), NEW l \in Responses(c[i + 1]),
           c[i].parts[j].key = c[i + 1].parts[l].key
    PROVE  /\ Gone(c, i, j, TRUE) <=> Superseded(c, i, j, TRUE)
           /\ Gone(c, i + 1, l, TRUE) <=> Superseded(c, i, j, TRUE)
<1>1. Gone(c, i, j, TRUE) <=> Superseded(c, i, j, TRUE)
  BY DEF Gone, Calls, OfKind
<1>2. Gone(c, i + 1, l, TRUE) <=> Outdates(c, i + 1, l, TRUE) # {}
  BY DEF Gone, Responses, OfKind
<1>3. ASSUME NEW m, Superseded(c, i, m, TRUE)
      PROVE  /\ c[i].parts[m].kind = "call"
             /\ PairedResponse(c, i, m, TRUE) \in Responses(c[i + 1])
             /\ c[i + 1].parts[PairedResponse(c, i, m, TRUE)].key = c[i].parts[m].key
  <2>1. c[i].parts[m].kind = "call" /\ PairedResponse(c, i, m, TRUE) # 0
    BY <1>3 DEF Superseded, IsRead
  <2> QED BY <2>1, PairedByKey
<1>4. i + 1 # 1 /\ (i + 1) - 1 = i
  OBVIOUS
<1>5. ASSUME Outdates(c, i + 1, l, TRUE) # {} PROVE Superseded(c, i, j, TRUE)
  <2>1. PICK m \in DOMAIN c[i].parts : /\ Superseded(c, i, m, TRUE)
                                       /\ PairedResponse(c, i, m, TRUE) = l
    BY <1>4, <1>5 DEF Outdates
  <2>2. m \in Calls(c[i]) /\ c[i].parts[m].key = c[i].parts[j].key
    BY <1>3, <2>1 DEF Calls, OfKind
  <2>3. m = j
    BY <2>2 DEF KeysApart
  <2> QED BY <2>1, <2>3
<1>6. ASSUME Superseded(c, i, j, TRUE) PROVE Outdates(c, i + 1, l, TRUE) # {}
  <2>1. PairedResponse(c, i, j, TRUE) = l
    <3> DEFINE r == PairedResponse(c, i, j, TRUE)
    <3>1. r \in Responses(c[i + 1]) /\ c[i + 1].parts[r].key = c[i + 1].parts[l].key
      BY <1>3, <1>6
    <3> HIDE DEF r
    <3>2. r = l
      BY <3>1 DEF KeysApart
    <3> QED BY <3>2 DEF r
  <2>2. j \in DOMAIN c[i].parts
    BY DEF Calls, OfKind
  <2>3. j \in Outdates(c, i + 1, l, TRUE)
    BY <1>4, <1>6, <2>1, <2>2 DEF Outdates
  <2> QED BY <2>3
<1> QED BY <1>1, <1>2, <1>5, <1>6

\* With IDs what answers no superseded call stays.
LEMMA GoneAnswers ==
    ASSUME NEW c \in Seq(Turns), NEW i \in 1..(Len(c) - 1),
           NEW l \in Responses(c[i + 1]), Gone(c, i + 1, l, TRUE)
    PROVE  \E j \in Calls(c[i]) : /\ Superseded(c, i, j, TRUE)
                                  /\ c[i].parts[j].key = c[i + 1].parts[l].key
<1>1. i + 1 # 1 /\ (i + 1) - 1 = i
  OBVIOUS
<1>2. Outdates(c, i + 1, l, TRUE) # {}
  BY DEF Gone, Responses, OfKind
<1>3. PICK m \in DOMAIN c[i].parts : /\ Superseded(c, i, m, TRUE)
                                     /\ PairedResponse(c, i, m, TRUE) = l
  BY <1>1, <1>2 DEF Outdates
<1>4. c[i].parts[m].kind = "call" /\ PairedResponse(c, i, m, TRUE) # 0
  BY <1>3 DEF Superseded, IsRead
<1>5. c[i + 1].parts[l].key = c[i].parts[m].key
  BY <1>3, <1>4, PairedByKey
<1>6. m \in Calls(c[i])
  BY <1>4 DEF Calls, OfKind
<1> QED BY <1>3, <1>5, <1>6

-------------------------------------------------------------------------------
(* Exchanges that dropping scoldings keeps (loopbreak.go). *)

\* d are the turns of c at the places f gives, in order, from first to last; calls
\* that were answered, or have just been, stay before their answers.
Picked(d, c, f) ==
    /\ \A x \in 1..Len(d) : f[x] \in 1..Len(c) /\ d[x] = c[f[x]]
    /\ \A x, y \in 1..Len(d) : x < y => f[x] < f[y]
    /\ f[1] = 1 /\ f[Len(d)] = Len(c)
    /\ \A i \in 1..(Len(c) - 1) :
          Calls(c[i]) # {} /\ (Responses(c[i + 1]) # {} \/ i + 1 = Len(c)) =>
             \E x \in 1..(Len(d) - 1) : f[x] = i /\ f[x + 1] = i + 1

\* Nothing is dropped.
LEMMA SelfPicked ==
    ASSUME NEW c \in Seq(Turns), c # <<>>
    PROVE  \E f : Picked(c, c, f)
<1> DEFINE f == [x \in 1..Len(c) |-> x]
<1>1. Len(c) \in Nat /\ Len(c) > 0
  OBVIOUS
<1>2. /\ \A x \in 1..Len(c) : f[x] = x
      /\ \A i \in 1..(Len(c) - 1) : i \in 1..Len(c) /\ i + 1 \in 1..Len(c)
  BY <1>1
<1> HIDE DEF f
<1>3. Len(c) \in 1..Len(c) /\ 1 \in 1..Len(c)
  BY <1>1
<1>4. Picked(c, c, f)
  BY <1>2, <1>3 DEF Picked
<1> QED BY <1>4

\* A turn with calls and its answer are kept.
LEMMA ExchangeKept ==
    ASSUME NEW c, Conversation(c), NEW i \in 1..(Len(c) - 1),
           Calls(c[i]) # {}, Responses(c[i + 1]) # {} \/ i + 1 = Len(c)
    PROVE  IsKept(c, i) /\ IsKept(c, i + 1)
<1>1. /\ c \in Seq(Turns) /\ Len(c) \in Nat /\ DOMAIN c = 1..Len(c)
      /\ i \in DOMAIN c /\ i + 1 \in DOMAIN c /\ i < Len(c) /\ (i + 1) - 1 = i
  BY DEF Conversation
<1>2. \A k \in DOMAIN c : IsDropped(c, k) =>
         IsUser(c[k]) /\ Responses(c[k]) = {} /\ \E h \in DOMAIN c : h > k
  BY DEF IsDropped, IsOldScolding, IsNoTool, IsTodo, Scolds, Responses
<1>3. IsModel(c[i])
  BY <1>1 DEF Conversation
<1>4. ~IsDropped(c, i)
  BY <1>1, <1>2, <1>3 DEF IsUser, IsModel
<1>5. i > 1 => ~IsDropped(c, i - 1)
  <2>1. i > 1 => i - 1 < Len(c) /\ (i - 1) + 1 = i
    BY <1>1
  <2> QED BY <2>1 DEF IsDropped, Calls
<1>6. ~IsDropped(c, i + 1)
  <2>1. i + 1 = Len(c) => ~\E h \in DOMAIN c : h > i + 1
    BY <1>1
  <2> QED BY <1>1, <1>2, <2>1
<1> QED BY <1>1, <1>4, <1>5, <1>6 DEF IsKept

\* Scoldings are dropped, exchanges are not.
LEMMA DropPicked ==
    ASSUME NEW c, Talk(c), Conversation(c)
    PROVE  \E f : Picked(DropRepeatedScoldings(c), c, f)
<1> DEFINE n == Len(c)
           K == {i \in DOMAIN c : IsKept(c, i)}
           N == Cardinality(K)
           d == DropRepeatedScoldings(c)
           f == [x \in 1..N |-> NthPlace(K, x)]
<1>1. c \in Seq(Turns) /\ n \in Nat /\ DOMAIN c = 1..n /\ n \in DOMAIN c
  BY DEF Talk
<1>2. K \in SUBSET (1..n)
  BY <1>1
<1>3. Len(d) = N /\ \A m \in 1..N : d[m] = c[NthPlace(K, m)]
  <2>1. d = ElementsAt(c, K)
    BY DEF DropRepeatedScoldings
  <2> HIDE DEF d, K
  <2>2. n \in Nat /\ K \in SUBSET (1..n)
    BY <1>1, <1>2
  <2> HIDE DEF n
  <2>3. LET chosen == ElementsAt(c, K)
        IN /\ chosen \in Seq({c[k] : k \in K})
           /\ Len(chosen) = N /\ DOMAIN chosen = 1..N
           /\ \A m \in 1..N : chosen[m] = c[NthPlace(K, m)]
    BY <2>2, ElementsChosen, Zenon
  <2> QED BY <2>1, <2>3
<1>4. n \in K
  <2>1. ~IsDropped(c, n)
    BY <1>1 DEF IsDropped, IsOldScolding
  <2>2. n > 1 => ~IsDropped(c, n - 1)
    <3> SUFFICES ASSUME n > 1, IsDropped(c, n - 1) PROVE FALSE
      OBVIOUS
    <3>1. IsUser(c[n - 1])
      BY DEF IsDropped, IsOldScolding, IsNoTool, IsTodo, Scolds
    <3>2. n - 1 \in 1..(Len(c) - 1) /\ (n - 1) + 1 = n
      BY <1>1
    <3>3. c[n - 1].role # c[n].role
      <4>1. \A i \in 1..(Len(c) - 1) : c[i].role # c[i + 1].role
        BY DEF Talk
      <4> QED BY <3>2, <4>1
    <3> QED BY <3>1, <3>3 DEF Talk, IsUser
  <2> QED BY <1>1, <2>1, <2>2 DEF IsKept
<1>5. N \in 1..n /\ NthPlace(K, N) = n /\ N \in Nat
  <2>1. N \in 1..n /\ NthPlace(K, N) = n
    <3> HIDE DEF K
    <3> QED BY <1>1, <1>2, <1>4, LastPlace
  <2> QED BY <2>1
<1>6. /\ \A m \in 1..N : NthPlace(K, m) \in K
      /\ \A k \in K : \E m \in 1..N : NthPlace(K, m) = k
      /\ \A m, l \in 1..N : m < l => NthPlace(K, m) < NthPlace(K, l)
  <2> HIDE DEF K
  <2> QED BY <1>1, <1>2, Places
<1>7. \A x \in 1..N : f[x] = NthPlace(K, x)
  OBVIOUS
<1> HIDE DEF f, d
<1>8. ASSUME NEW i \in 1..(n - 1),
             Calls(c[i]) # {}, Responses(c[i + 1]) # {} \/ i + 1 = n
      PROVE  \E x \in 1..(N - 1) : f[x] = i /\ f[x + 1] = i + 1
  <2>1. i \in K /\ i + 1 \in K
    <3>1. i \in DOMAIN c /\ i + 1 \in DOMAIN c
      BY <1>1
    <3> QED BY <1>8, <3>1, ExchangeKept
  <2>2. PICK x \in 1..N : NthPlace(K, x) = i
    BY <1>6, <2>1
  <2>3. PICK y \in 1..N : NthPlace(K, y) = i + 1
    BY <1>6, <2>1
  <2> HIDE DEF K
  <2>4. ~(y < x) /\ x # y
    <3>1. y < x => i + 1 < i
      BY <1>6, <2>2, <2>3
    <3>2. x = y => i = i + 1
      BY <2>2, <2>3
    <3>3. i \in Nat
      BY <1>1
    <3> QED BY <3>1, <3>2, <3>3
  <2>5. x \in 1..(N - 1) /\ x + 1 \in 1..N
    <3>1. x \in Nat /\ y \in Nat /\ x < y /\ y <= N /\ 1 <= x
      BY <1>5, <2>4
    <3> HIDE DEF N
    <3> QED BY <1>5, <3>1
  <2>6. i < NthPlace(K, x + 1) /\ ~(i + 1 < NthPlace(K, x + 1))
    <3>1. LET p == NthPlace(K, x)
              q == NthPlace(K, x + 1)
          IN /\ p \in K /\ q \in K /\ p < q
             /\ \A z \in K : ~(p < z /\ z < q)
      BY <1>1, <1>2, <2>5, AdjacentPlaces
    <3>2. i < i + 1
      BY <1>1
    <3> QED BY <2>1, <2>2, <3>1, <3>2
  <2>7. NthPlace(K, x + 1) = i + 1
    <3>1. NthPlace(K, x + 1) \in 1..n
      BY <1>2, <1>6, <2>5
    <3> QED BY <1>1, <2>6, <3>1
  <2>8. x \in 1..N
    OBVIOUS
  <2> QED BY <1>7, <2>2, <2>5, <2>7, <2>8
<1>9. Picked(d, c, f)
  <2>1. \A x \in 1..Len(d) : f[x] \in 1..Len(c) /\ d[x] = c[f[x]]
    BY <1>2, <1>3, <1>6, <1>7
  <2>2. \A x, y \in 1..Len(d) : x < y => f[x] < f[y]
    BY <1>3, <1>6, <1>7
  <2>3. f[Len(d)] = Len(c)
    <3>1. N \in 1..N
      BY <1>5
    <3> QED BY <1>3, <1>5, <1>7, <3>1
  <2>4. f[1] = 1
    <3>1. 1 \in K
      BY <1>1 DEF IsKept, IsDropped
    <3>2. PICK m \in 1..N : NthPlace(K, m) = 1
      BY <1>6, <3>1
    <3>3. 1 \in 1..N /\ \A k \in K : k \in Nat /\ k >= 1
      BY <1>2, <1>5
    <3>4. NthPlace(K, 1) \in K
      BY <1>6, <3>3
    <3> HIDE DEF K, N
    <3>5. m = 1 \/ 1 < m
      BY <1>5, <3>2
    <3>6. 1 < m => NthPlace(K, 1) < 1
      BY <1>6, <3>2, <3>3
    <3>7. NthPlace(K, 1) >= 1 /\ NthPlace(K, 1) \in Nat
      BY <3>3, <3>4
    <3>8. NthPlace(K, 1) = 1
      BY <3>2, <3>5, <3>6, <3>7
    <3> QED BY <1>7, <3>3, <3>8
  <2> HIDE DEF K
  <2> QED BY <1>3, <1>8, <2>1, <2>2, <2>3, <2>4 DEF Picked
<1> QED BY <1>9 DEF d

-------------------------------------------------------------------------------
(* From the request's contents to the turns that are cut and deduplicated. *)

\* What stays stays through two stages.
LEMMA StaysOn ==
    ASSUME NEW b \in Seq(Turns), NEW c, NEW d, FollowsAll(c, b), StaysAll(c, b), StaysAll(d, c)
    PROVE  StaysAll(d, b)
<1>1. Len(c) = Len(b) /\ DOMAIN b = 1..Len(b)
  BY DEF FollowsAll
<1>2. \A i \in 1..Len(b) : Len(c[i].parts) = Len(b[i].parts)
  BY <1>1 DEF FollowsAll, FollowsTurn
<1> SUFFICES ASSUME NEW i \in 1..Len(b), NEW j \in 1..Len(b[i].parts)
             PROVE  Stays(d[i].parts[j], b[i].parts[j])
  BY DEF StaysAll, StaysTurn
<1>3. Stays(c[i].parts[j], b[i].parts[j])
  BY DEF StaysAll, StaysTurn
<1>4. Stays(d[i].parts[j], c[i].parts[j])
  BY <1>1, <1>2 DEF StaysAll, StaysTurn
<1> QED BY <1>3, <1>4 DEF Stays

\* What follows follows through two stages.
LEMMA FollowsOn ==
    ASSUME NEW b \in Seq(Turns), NEW c, NEW d, FollowsAll(c, b), FollowsAll(d, c)
    PROVE  FollowsAll(d, b)
<1>1. \A i \in DOMAIN b : FollowsTurn(d[i], b[i])
  <2> SUFFICES ASSUME NEW i \in DOMAIN b PROVE FollowsTurn(d[i], b[i])
    OBVIOUS
  <2>1. FollowsTurn(c[i], b[i]) /\ FollowsTurn(d[i], c[i])
    BY DEF FollowsAll
  <2>2. /\ DOMAIN c[i].parts = DOMAIN b[i].parts
        /\ \A j \in DOMAIN b[i].parts :
              Follows(c[i].parts[j], b[i].parts[j]) /\ Follows(d[i].parts[j], c[i].parts[j])
    BY <2>1 DEF FollowsTurn
  <2>3. ASSUME NEW x, NEW y, NEW z, Follows(y, x), Follows(z, y) PROVE Follows(z, x)
    <3>1. x.kind = "call" \/ x.kind = "response" => y.kind = x.kind
      BY <2>3 DEF Follows, Exchanged
    <3>2. /\ z \in AllParts
          /\ x.kind \in Exchanged => y.kind = x.kind /\ z.kind = y.kind
          /\ x.kind \notin Exchanged => y.kind \notin Exchanged /\ z.kind \notin Exchanged
      BY <2>3 DEF Follows
    <3>3. x.kind = "call" \/ x.kind = "response" => z.name = x.name /\ z.key = x.key
      BY <2>3, <3>1 DEF Follows
    <3> QED BY <3>2, <3>3 DEF Follows
  <2>4. \A j \in DOMAIN b[i].parts : Follows(d[i].parts[j], b[i].parts[j])
    BY <2>2, <2>3
  <2> QED BY <2>1, <2>4 DEF FollowsTurn
<1> QED BY <1>1 DEF FollowsAll

\* u: without the scoldings; p: pruned; s: shortened.
Stages(c, u, p, s, on) ==
    /\ Talk(u) /\ \E f : Picked(u, c, f)
    /\ p \in Seq(Turns) /\ Len(p) = Len(u)
    /\ \A i \in 1..Len(u) : p[i].role = u[i].role /\ Len(p[i].parts) = Len(u[i].parts)
    /\ on \in BOOLEAN /\ PrunedWhere(p, u, setting.ids, on)
    /\ FollowsAll(s, p) /\ StaysAll(s, p)
    /\ KeepsWarm => s[Len(s)] = p[Len(s)]

\* The stages before the history is cut, and what each leaves alone.
LEMMA ShapedStages ==
    ASSUME NEW c, Talk(c), Conversation(c),
           setting.knobs \in Knobs, setting.ids \in BOOLEAN, setting.disk \in BOOLEAN
    PROVE  \E u, p, on : Stages(c, u, p, Shaped(c), on)
<1> DEFINE k == setting.knobs
           u == IF k.loopbreak THEN DropRepeatedScoldings(c) ELSE c
           p == IF HasRetrievalToolCall(u) THEN u ELSE PruneStaleTools(u, k, setting.ids)
           current == CollapseEnvBlocks(p, k)
           truncated == TruncateToolResults(current, k, setting.disk)
           short == ElideHistoricalWriteActions(truncated, k, setting.disk)
           compact == DeepCompactHistoricalTurns(short, k, setting.disk)
           s == Shaped(c)
<1>1. s = IF HasRetrievalToolCall(current) THEN current ELSE compact
  BY DEF Shaped
<1>2. k.loopbreak \in BOOLEAN /\ k.prune \in BOOLEAN
  BY DEF Knobs
<1>3. Talk(u) /\ \E f : Picked(u, c, f)
  BY DropPairs, DropPicked, SelfPicked DEF Talk
<1> HIDE DEF u
<1>4. u \in Seq(Turns) /\ u # <<>>
  BY <1>3 DEF Talk
<1>5. /\ p \in Seq(Turns) /\ Len(p) = Len(u)
      /\ \A i \in 1..Len(u) : p[i].role = u[i].role /\ Len(p[i].parts) = Len(u[i].parts)
      /\ \E on \in BOOLEAN : PrunedWhere(p, u, setting.ids, on)
  <2>1. CASE HasRetrievalToolCall(u)
    <3>1. PrunedWhere(u, u, setting.ids, FALSE)
      BY DEF PrunedWhere
    <3> QED BY <1>4, <2>1, <3>1
  <2>2. CASE ~HasRetrievalToolCall(u)
    <3>1. p = PruneStaleTools(u, k, setting.ids)
      BY <2>2
    <3> HIDE DEF p
    <3> QED BY <1>2, <1>4, <3>1, PruneShape, PruneIs
  <2> QED BY <2>1, <2>2
<1>6. Talk(p)
  <2>1. Talk(PruneStaleTools(u, k, setting.ids))
    BY <1>3, PruneTalk
  <2> QED BY <1>3, <2>1
<1> HIDE DEF p
<1>7. PICK on \in BOOLEAN : PrunedWhere(p, u, setting.ids, on)
  BY <1>5
<1>8. p # <<>> /\ IsUser(p[Len(p)])
  BY <1>6 DEF Talk
<1>9. FollowsAll(current, p) /\ StaysAll(current, p) /\ current[Len(p)] = p[Len(p)]
  BY <1>5, <1>8, CollapseFollows, CollapseStays
<1> HIDE DEF current
<1>10. /\ current \in Seq(Turns) /\ Len(current) = Len(p) /\ current # <<>>
  BY <1>8, <1>9 DEF FollowsAll
<1>11. /\ FollowsAll(truncated, current) /\ StaysAll(truncated, current)
       /\ truncated[Len(p)] = current[Len(p)]
  BY <1>10, TruncateFollows, TruncateStays
<1> HIDE DEF truncated
<1>12. truncated \in Seq(Turns) /\ Len(truncated) = Len(p) /\ truncated # <<>>
  BY <1>8, <1>10, <1>11 DEF FollowsAll
<1>13. /\ FollowsAll(short, truncated) /\ StaysAll(short, truncated)
       /\ short[Len(p)] = truncated[Len(p)]
  BY <1>12, WritesFollow, WritesStay
<1> HIDE DEF short
<1>14. short \in Seq(Turns) /\ Len(short) = Len(p) /\ short # <<>>
  BY <1>8, <1>12, <1>13 DEF FollowsAll
<1>15. /\ FollowsAll(compact, short) /\ StaysAll(compact, short)
       /\ KeepsWarm => compact[Len(p)] = short[Len(p)]
  BY <1>14, CompactFollows, CompactStays DEF KeepsWarm
<1> HIDE DEF compact
<1>16. CASE HasRetrievalToolCall(current)
  <2>1. s = current /\ Len(s) = Len(p)
    BY <1>1, <1>10, <1>16
  <2> HIDE DEF s
  <2>2. Stages(c, u, p, s, on)
    BY <1>3, <1>5, <1>7, <1>9, <2>1 DEF Stages
  <2> QED BY <2>2 DEF s
<1>17. CASE ~HasRetrievalToolCall(current)
  <2>1. s = compact
    BY <1>1, <1>17
  <2> HIDE DEF s
  <2>2. StaysAll(s, p)
    <3>1. StaysAll(truncated, p)
      BY <1>5, <1>9, <1>11, StaysOn
    <3>2. StaysAll(compact, truncated)
      BY <1>12, <1>13, <1>15, StaysOn
    <3>3. FollowsAll(truncated, p)
      BY <1>5, <1>9, <1>11, FollowsOn
    <3> QED BY <1>5, <2>1, <3>1, <3>2, <3>3, StaysOn
  <2>3. FollowsAll(s, p)
    <3>1. FollowsAll(truncated, p)
      BY <1>5, <1>9, <1>11, FollowsOn
    <3>2. FollowsAll(short, p)
      BY <1>5, <1>13, <3>1, FollowsOn
    <3> QED BY <1>5, <1>15, <2>1, <3>2, FollowsOn
  <2>4. Len(s) = Len(p) /\ (KeepsWarm => s[Len(s)] = p[Len(s)])
    BY <1>9, <1>11, <1>13, <1>14, <1>15, <2>1 DEF FollowsAll
  <2>5. Stages(c, u, p, s, on)
    BY <1>3, <1>5, <1>7, <2>2, <2>3, <2>4 DEF Stages
  <2> QED BY <2>5 DEF s
<1> QED BY <1>16, <1>17

-------------------------------------------------------------------------------
(* The first turn. *)

\* A turn of the user that answers nothing.
Opens(t) == IsUser(t) /\ Responses(t) = {} /\ OfKind(t, "dummy") = {}

\* It is one whatever stands where its parts stood.
LEMMA FollowsOpens ==
    ASSUME NEW s \in Turns, NEW t, FollowsTurn(t, s), Opens(s)
    PROVE  Opens(t)
<1>1. t.role = s.role
  BY DEF FollowsTurn
<1>2. Responses(t) = Responses(s) /\ OfKind(t, "dummy") = OfKind(s, "dummy")
  BY FollowsKinds DEF Responses, Exchanged
<1> QED BY <1>1, <1>2 DEF Opens, IsUser

\* A conversation the user opens is one in the prompt, if nothing is cut.
LEMMA OpeningSent ==
    ASSUME NEW c, Talk(c), Conversation(c), IsUser(c[1]), setting.knobs.budget = 0,
           setting.knobs \in Knobs, setting.ids \in BOOLEAN, setting.disk \in BOOLEAN
    PROVE  LET d == Finished(Shaped(c))
           IN Opens(d[1])
<1> DEFINE k == setting.knobs
           s == Shaped(c)
           replayed == DedupReplayedBlocks(s, k)
           once == DedupSubstringBlocks(replayed, k)
           aligned == AlignFunctionCallsAndResponses(once, setting.ids)
<1>1. /\ c \in Seq(Turns) /\ DOMAIN c = 1..Len(c) /\ Len(c) \in Nat /\ 1 \in DOMAIN c
  BY DEF Talk
<1>2. Opens(c[1])
  <2>1. OfKind(c[1], "dummy") = {} /\ \A j \in Responses(c[1]) : 1 > 1
    BY <1>1 DEF Conversation
  <2> QED BY <2>1 DEF Opens
<1>3. PICK u, p, on : Stages(c, u, p, s, on)
  BY ShapedStages
<1> HIDE DEF s
<1>4. u \in Seq(Turns) /\ Len(u) \in Nat /\ 1 \in 1..Len(u) /\ u[1] \in Turns
  BY <1>3 DEF Stages, Talk
<1>5. PICK f : Picked(u, c, f)
  BY <1>3 DEF Stages
<1>6. u[1] = c[1]
  BY <1>4, <1>5 DEF Picked
<1>7. p[1] \in Turns /\ p[1].role = u[1].role /\ Len(p[1].parts) = Len(u[1].parts)
  BY <1>3, <1>4 DEF Stages
<1>8. /\ p[1].parts \in Seq(AllParts) /\ u[1].parts \in Seq(AllParts)
      /\ DOMAIN p[1].parts = 1..Len(u[1].parts) /\ DOMAIN u[1].parts = 1..Len(u[1].parts)
  BY <1>4, <1>7 DEF Turns
<1>9. ASSUME NEW j \in DOMAIN p[1].parts
      PROVE  p[1].parts[j] = u[1].parts[j] \/ p[1].parts[j].kind = "pruned"
  BY <1>3, <1>4, <1>8 DEF Stages, PrunedWhere
<1>10. Opens(p[1])
  BY <1>2, <1>6, <1>7, <1>8, <1>9 DEF Opens, IsUser, Responses, OfKind
<1>11. /\ FollowsAll(s, p) /\ p \in Seq(Turns) /\ Len(p) = Len(u) /\ 1 \in DOMAIN p
  BY <1>3, <1>4 DEF Stages
<1>12. s \in Seq(Turns) /\ Len(s) = Len(u) /\ FollowsTurn(s[1], p[1])
  BY <1>11 DEF FollowsAll
<1>13. Opens(s[1])
  BY <1>7, <1>10, <1>12, FollowsOpens
<1>14. FollowsAll(replayed, s)
  BY <1>12, ReplayedFollow
<1> HIDE DEF replayed
<1>15. replayed \in Seq(Turns) /\ Len(replayed) = Len(u)
  BY <1>12, <1>14 DEF FollowsAll
<1>16. FollowsAll(once, replayed)
  BY <1>15, SubstringsFollow
<1> HIDE DEF once
<1>17. once \in Seq(Turns) /\ Len(once) = Len(u)
  BY <1>15, <1>16 DEF FollowsAll
<1>18. Opens(replayed[1])
  <2>1. 1 \in DOMAIN s /\ s[1] \in Turns
    BY <1>4, <1>12
  <2>2. FollowsTurn(replayed[1], s[1])
    BY <1>14, <2>1 DEF FollowsAll
  <2> QED BY <1>13, <2>1, <2>2, FollowsOpens
<1>19. Opens(once[1])
  <2>1. 1 \in DOMAIN replayed /\ replayed[1] \in Turns
    BY <1>4, <1>15
  <2>2. FollowsTurn(once[1], replayed[1])
    BY <1>16, <2>1 DEF FollowsAll
  <2> QED BY <1>18, <2>1, <2>2, FollowsOpens
<1>20. aligned[1] = once[1]
  <2> DEFINE g == [i \in 1..Len(once) |-> IF NeedsAlignment(once, i)
                     THEN AlignedTurn(once[i - 1], once[i], setting.ids) ELSE once[i]]
  <2>1. aligned = SubSeq(g, 1, Len(once))
    BY DEF AlignFunctionCallsAndResponses, Tabulate
  <2>2. SubSeq(g, 1, Len(once)) = g
    <3> DEFINE n == Len(once)
    <3>1. n \in Nat
      BY <1>4, <1>17
    <3> HIDE DEF n
    <3> QED BY <3>1, Tabulated DEF n
  <2>3. ~NeedsAlignment(once, 1)
    BY DEF NeedsAlignment
  <2> QED BY <1>4, <1>17, <2>1, <2>2, <2>3
<1> HIDE DEF aligned
<1>21. TrimContents(s, setting.sysBytes, k) = s
  BY DEF TrimContents
<1>22. Finished(s) = IF setting.gemini THEN aligned ELSE once
  BY <1>21 DEF Finished, aligned, once, replayed
<1> QED BY <1>19, <1>20, <1>22 DEF s

\* The client opens its conversation, and so does what is sent.
OpensInv ==
    /\ history # <<>> => IsUser(history[1])
    /\ contents # <<>> => IsUser(contents[1])
    /\ StartsWithUser

\* A turn at the end leaves the first one.
LEMMA AppendOpens ==
    ASSUME NEW c \in Seq(Turns), NEW t, IF c = <<>> THEN IsUser(t) ELSE IsUser(c[1])
    PROVE  Append(c, t) # <<>> /\ IsUser(Append(c, t)[1])
<1>1. CASE c = <<>>
  BY <1>1
<1>2. CASE c # <<>>
  BY <1>2
<1> QED BY <1>1, <1>2

LEMMA AttemptOpens == PipelineInv /\ OpensInv /\ Attempt => OpensInv'
<1> SUFFICES ASSUME PipelineInv, OpensInv, Attempt PROVE OpensInv'
  OBVIOUS
<1> DEFINE c == IF setting.knobs.loopbreak /\ setting.knobs.nudge
                THEN NudgeLastTurn(contents) ELSE contents
           final == Finished(Shaped(c))
<1>1. /\ contents' = c /\ prompt' = final /\ pc' = "upstream" /\ setting' = setting
      /\ history' = history
  BY DEF Attempt
<1>2. Asking(contents) /\ setting \in Settings
  BY DEF PipelineInv, Attempt, TypeOK
<1>3. contents \in Seq(Turns) /\ contents # <<>> /\ IsUser(contents[1])
  BY <1>2 DEF Asking, Conversation, OpensInv
<1>4. Asking(c)
  BY <1>2, NudgedAsks
<1>5. IsUser(c[1])
  <2>1. 1 \in DOMAIN contents
    BY <1>3
  <2>2. FollowsAll(NudgeLastTurn(contents), contents)
    BY <1>3, NudgeFollows
  <2>3. NudgeLastTurn(contents)[1].role = contents[1].role
    BY <2>1, <2>2 DEF FollowsAll, FollowsTurn
  <2> QED BY <1>3, <2>3 DEF IsUser
<1> HIDE DEF c
<1>6. Conversation(c) /\ Talk(c)
  BY <1>4 DEF Asking, Conversation, Talk
<1>7. setting.knobs.budget = 0 => Opens(final[1])
  <2> HIDE DEF final
  <2> QED BY <1>2, <1>5, <1>6, SettingFacts, OpeningSent DEF final
<1> HIDE DEF final
<1>8. StartsWithUser'
  BY <1>1, <1>7 DEF StartsWithUser, Answers, Opens, Responses, OfKind
<1> QED BY <1>1, <1>5, <1>8 DEF OpensInv

\* Every step keeps the opening.
LEMMA NextOpens == PipelineInv /\ OpensInv /\ [Next]_vars => OpensInv'
<1> SUFFICES ASSUME PipelineInv, OpensInv, [Next]_vars PROVE OpensInv'
  OBVIOUS
<1>1. CASE Ask
  <2>1. PICK parts \in UserParts : history' = Append(history, Turn("user", parts))
    BY <1>1 DEF Ask
  <2>2. contents' = history' /\ pc' = "gateway"
    BY <1>1 DEF Ask
  <2>3. history \in Seq(Turns)
    BY DEF PipelineInv, Conversation
  <2>4. IsUser(Turn("user", parts))
    BY DEF Turn, IsUser
  <2>5. history' # <<>> /\ IsUser(history'[1])
    BY <2>1, <2>3, <2>4, AppendOpens DEF OpensInv
  <2> QED BY <2>2, <2>5 DEF OpensInv, StartsWithUser, Sent
<1>2. CASE Attempt
  BY <1>2, AttemptOpens
<1>3. CASE AttemptFails
  BY <1>3 DEF AttemptFails, OpensInv, StartsWithUser, Sent
<1>4. CASE Retrieval
  <2> DEFINE call == Call(Retrieve, Flat("hash"), <<Len(contents) + 1, 1>>)
             a == Turn("model", <<call>>)
             b == Turn("user", <<Response(Retrieve, call)>>)
  <2>1. /\ contents' = contents \o <<a, b>> /\ history' = history /\ pc' = "gateway"
    BY <1>4 DEF Retrieval
  <2>2. contents \in Seq(Turns) /\ contents # <<>>
    BY <1>4 DEF PipelineInv, Retrieval, Asking, Conversation
  <2> HIDE DEF a, b
  <2>3. contents' # <<>> /\ contents'[1] = contents[1]
    BY <2>1, <2>2
  <2> QED BY <2>1, <2>2, <2>3 DEF OpensInv, StartsWithUser, Sent
<1>5. CASE Answer
  <2>1. contents' = <<>> /\ pc' = "client"
    BY <1>5 DEF Answer
  <2>2. \E t : history' = Append(history, t)
    BY <1>5 DEF Answer
  <2>3. history \in Seq(Turns) /\ history # <<>>
    BY <1>5 DEF PipelineInv, Conversation, Answer
  <2>4. IsUser(history'[1])
    BY <2>2, <2>3, AppendOpens DEF OpensInv
  <2> QED BY <2>1, <2>4 DEF OpensInv, StartsWithUser, Sent
<1>6. CASE UNCHANGED vars
  BY <1>6 DEF vars, request, sent, OpensInv, StartsWithUser, Sent, Answers
<1> QED BY <1>1, <1>2, <1>3, <1>4, <1>5, <1>6 DEF Next, Over

\* StillAConversation: what an attempt sends is a conversation the API accepts,
\* whatever was dropped, pruned, pointed back for and cut: the roles alternate,
\* the user opens unless the opening was cut and, where calls have IDs, each call
\* is followed by its own answer, once.
THEOREM ConversationSent == Spec => []StillAConversation
<1>1. Init => PipelineInv /\ OpensInv
  BY InitInv DEF Init, OpensInv, StartsWithUser, Sent
<1>2. PipelineInv /\ OpensInv /\ [Next]_vars => (PipelineInv /\ OpensInv)'
  BY NextInv, NextOpens
<1>3. PipelineInv /\ OpensInv => StillAConversation
  BY DEF PipelineInv, OpensInv, Exchanges, StillAConversation
<1> QED BY <1>1, <1>2, <1>3, PTL DEF Spec

-------------------------------------------------------------------------------
(* The parts that clients and models write. *)

\* Nothing of a client's part, or of a model's, is a reference.
Raw(c) ==
    \A i \in 1..Len(c) : \A j \in 1..Len(c[i].parts) :
        LET p == c[i].parts[j]
        IN (p.kind = "text" /\ p.at = 0) \/ p.kind = "call" \/ p.kind = "response"

\* No stage before the search for duplicates makes a reference.
LEMMA StagesClean ==
    ASSUME NEW c, Raw(c), NEW u, NEW p, NEW s, NEW on, Stages(c, u, p, s, on)
    PROVE  Raw(u) /\ Clean(s)
<1>1. PICK f : Picked(u, c, f)
  BY DEF Stages
<1>2. Raw(u)
  <2> SUFFICES ASSUME NEW i \in 1..Len(u), NEW j \in 1..Len(u[i].parts)
               PROVE  LET q == u[i].parts[j]
                      IN (q.kind = "text" /\ q.at = 0) \/ q.kind = "call" \/ q.kind = "response"
    BY DEF Raw
  <2>1. f[i] \in 1..Len(c) /\ u[i] = c[f[i]]
    BY <1>1 DEF Picked
  <2> QED BY <2>1 DEF Raw
<1>3. ASSUME NEW i \in 1..Len(u), NEW j \in 1..Len(u[i].parts)
      PROVE  p[i].parts[j] = u[i].parts[j] \/ p[i].parts[j].kind = "pruned"
  BY DEF Stages, PrunedWhere
<1>4. Clean(p)
  <2>1. Len(p) = Len(u) /\ \A i \in 1..Len(u) : Len(p[i].parts) = Len(u[i].parts)
    BY DEF Stages
  <2> SUFFICES ASSUME NEW i \in 1..Len(u), NEW j \in 1..Len(u[i].parts)
               PROVE  /\ p[i].parts[j].kind # "pointer"
                      /\ p[i].parts[j].kind = "text" => p[i].parts[j].at = 0
    BY <2>1 DEF Clean
  <2>2. LET q == u[i].parts[j]
        IN (q.kind = "text" /\ q.at = 0) \/ q.kind = "call" \/ q.kind = "response"
    BY <1>2 DEF Raw
  <2> QED BY <1>3, <2>2
<1>5. Clean(s)
  <2>1. Len(s) = Len(p) /\ \A i \in 1..Len(p) : Len(s[i].parts) = Len(p[i].parts)
    BY DEF Stages, FollowsAll, FollowsTurn
  <2>2. ASSUME NEW i \in 1..Len(p), NEW j \in 1..Len(p[i].parts)
        PROVE  Stays(s[i].parts[j], p[i].parts[j])
    <3>1. StaysAll(s, p)
      BY DEF Stages
    <3>2. StaysTurn(s[i], p[i])
      BY <3>1 DEF StaysAll
    <3> QED BY <3>2 DEF StaysTurn
  <2>3. ASSUME NEW i \in 1..Len(s), NEW j \in 1..Len(s[i].parts)
        PROVE  /\ s[i].parts[j].kind # "pointer"
               /\ s[i].parts[j].kind = "text" => s[i].parts[j].at = 0
    <3>1. i \in 1..Len(p) /\ j \in 1..Len(p[i].parts)
      BY <2>1
    <3>2. /\ p[i].parts[j].kind # "pointer"
          /\ p[i].parts[j].kind = "text" => p[i].parts[j].at = 0
      BY <1>4, <3>1 DEF Clean
    <3> QED BY <2>2, <3>1, <3>2 DEF Stays
  <2> QED BY <2>3 DEF Clean
<1> QED BY <1>2, <1>5

-------------------------------------------------------------------------------
(* What was just said. *)

\* The operators of LatestTurnReadable, of contents c.
CallsBefore(c) ==
    IF Len(c) < 2 THEN {} ELSE {p \in ToSet(c[Len(c) - 1].parts) : p.kind = "call"}

AgainIn(c, part, other) ==
    /\ part.kind = "response" /\ other.kind = "response"
    /\ \E p, q \in CallsBefore(c) :
        /\ p.key = part.key /\ q.key = other.key
        /\ p.name \in ReadOnlyTools /\ SameCall(q, p) /\ Before(p.key, q.key)

TwiceIn(c) == \E p, q \in CallsBefore(c) : p # q /\ p.name \in ReadOnlyTools /\ SameCall(q, p)

\* A response has the name of its call.
NamesTheirs(c) ==
    \A i \in 2..Len(c) : \A j \in Responses(c[i]), l \in Calls(c[i - 1]) :
        c[i].parts[j].key = c[i - 1].parts[l].key => c[i].parts[j].name = c[i - 1].parts[l].name

\* What is superseded in the turn before the last is read again in that turn.
LEMMA ReadAgain ==
    ASSUME NEW u \in Seq(Turns), Len(u) > 1, Calls(u[Len(u)]) = {},
           NEW ids, NEW j, Superseded(u, Len(u) - 1, j, ids)
    PROVE  \E q \in DOMAIN u[Len(u) - 1].parts :
              /\ j < q /\ SameCall(u[Len(u) - 1].parts[q], u[Len(u) - 1].parts[j])
              /\ IsRead(u, Len(u) - 1, q, ids)
<1> DEFINE m == Len(u)
<1>1. m \in Nat /\ m > 1 /\ m - 1 # m
  OBVIOUS
<1> HIDE DEF m
<1>2. PICK k \in (m - 1)..m : \E q \in DOMAIN u[k].parts :
         /\ Before(<<m - 1, j>>, <<k, q>>)
         /\ SameCall(u[k].parts[q], u[m - 1].parts[j])
         /\ IsRead(u, k, q, ids)
  BY DEF Superseded, m
<1>3. PICK q \in DOMAIN u[k].parts :
         /\ Before(<<m - 1, j>>, <<k, q>>)
         /\ SameCall(u[k].parts[q], u[m - 1].parts[j])
         /\ IsRead(u, k, q, ids)
  BY <1>2
<1>4. k # m
  <2>1. q \in Calls(u[k])
    BY <1>3 DEF SameCall, Calls, OfKind
  <2> QED BY <2>1 DEF m
<1>5. k = m - 1
  BY <1>1, <1>4
<1>6. j < q
  BY <1>1, <1>3, <1>5 DEF Before
<1> QED BY <1>3, <1>5, <1>6 DEF m

\* Of a read made several times in that turn, the last stays.
LEMMA LastReadStays ==
    ASSUME NEW u \in Seq(Turns), Len(u) > 1, Calls(u[Len(u)]) = {},
           NEW ids, NEW j \in Nat, Superseded(u, Len(u) - 1, j, ids)
    PROVE  \E q \in DOMAIN u[Len(u) - 1].parts :
              /\ j < q /\ SameCall(u[Len(u) - 1].parts[q], u[Len(u) - 1].parts[j])
              /\ IsRead(u, Len(u) - 1, q, ids)
              /\ ~Superseded(u, Len(u) - 1, q, ids)
<1> DEFINE i == Len(u) - 1
           n == Len(u[i].parts)
           T == {q \in 1..n : /\ j < q /\ SameCall(u[i].parts[q], u[i].parts[j])
                              /\ IsRead(u, i, q, ids)}
           N == Cardinality(T)
           q == NthPlace(T, N)
<1>1. i \in 1..Len(u)
  OBVIOUS
<1>2. n \in Nat /\ DOMAIN u[i].parts = 1..n
  BY <1>1, PartsOf
<1>3. T \in SUBSET (1..n) /\ \E k \in DOMAIN u[i].parts : k \in T
  BY <1>2, ReadAgain
<1>4. /\ N \in 0..n
      /\ \A l \in 1..N : NthPlace(T, l) \in T
      /\ \A k \in T : \E l \in 1..N : NthPlace(T, l) = k
      /\ \A l, h \in 1..N : l < h => NthPlace(T, l) < NthPlace(T, h)
  <2> HIDE DEF T, n, i
  <2> QED BY <1>2, <1>3, Places
<1>5. N \in 1..N
  BY <1>3, <1>4
<1>6. \A k \in T : ~(q < k)
  <2> HIDE DEF T, N, n
  <2> SUFFICES ASSUME NEW k \in T, q < k PROVE FALSE
    OBVIOUS
  <2>1. PICK l \in 1..N : NthPlace(T, l) = k
    BY <1>4
  <2>2. l = N \/ l < N
    BY <1>4
  <2>3. k \in Nat /\ q \in Nat
    <3>1. q \in T
      BY <1>4, <1>5
    <3>2. \A z \in T : z \in Nat
      BY <1>2, <1>3
    <3> HIDE DEF q
    <3> QED BY <3>1, <3>2
  <2>4. l < N => k < q
    BY <1>4, <1>5, <2>1
  <2> QED BY <2>1, <2>2, <2>3, <2>4 DEF q
<1>7. q \in T
  BY <1>4, <1>5
<1> HIDE DEF q
<1>8. ~Superseded(u, i, q, ids)
  <2> SUFFICES ASSUME Superseded(u, i, q, ids) PROVE FALSE
    OBVIOUS
  <2>1. PICK r \in DOMAIN u[i].parts : /\ q < r /\ SameCall(u[i].parts[r], u[i].parts[q])
                                       /\ IsRead(u, i, r, ids)
    BY ReadAgain
  <2>2. SameCall(u[i].parts[r], u[i].parts[j])
    BY <1>7, <2>1 DEF SameCall
  <2>3. j < r
    <3>1. q \in Nat /\ r \in Nat
      BY <1>2, <1>7
    <3> QED BY <1>7, <2>1, <3>1
  <2>4. r \in T
    BY <1>2, <2>1, <2>2, <2>3
  <2> QED BY <1>6, <2>1, <2>4
<1> QED BY <1>2, <1>7, <1>8

\* The calls the latest turn answers are still in the turn before it.
LEMMA AskedBefore ==
    ASSUME NEW c, Conversation(c), c # <<>>, NEW u \in Seq(Turns), u # <<>>,
           NEW f, Picked(u, c, f), NEW l \in Responses(c[Len(c)])
    PROVE  /\ u[Len(u)] = c[Len(c)]
           /\ Len(c) > 1 /\ Len(u) > 1 /\ u[Len(u) - 1] = c[Len(c) - 1]
           /\ \E j \in Calls(c[Len(c) - 1]) : c[Len(c) - 1].parts[j].key = c[Len(c)].parts[l].key
<1> DEFINE n == Len(c)
           m == Len(u)
<1>1. n \in Nat /\ n > 0 /\ DOMAIN c = 1..n /\ m \in Nat /\ m > 0 /\ m \in 1..m /\ n \in DOMAIN c
  <2>1. c \in Seq(Turns)
    BY DEF Conversation
  <2> QED BY <2>1
<1>2. /\ \A x \in 1..m : u[x] = c[f[x]]
      /\ \A x, y \in 1..m : x < y => f[x] < f[y]
      /\ f[m] = n
      /\ \A i \in 1..(n - 1) : Calls(c[i]) # {} /\ i + 1 = n =>
            \E x \in 1..(m - 1) : f[x] = i /\ f[x + 1] = i + 1
  BY DEF Picked
<1> HIDE DEF n, m
<1>3. u[m] = c[n]
  BY <1>1, <1>2
<1>4. n > 1 /\ \E j \in Calls(c[n - 1]) : c[n].parts[l].key = <<n - 1, j>>
  BY <1>1 DEF Conversation, n
<1>5. n - 1 \in 1..(n - 1) /\ (n - 1) + 1 = n /\ n - 1 \in DOMAIN c
  BY <1>1, <1>4
<1>6. \E j \in Calls(c[n - 1]) : c[n - 1].parts[j].key = c[n].parts[l].key
  <2>1. \A j \in Calls(c[n - 1]) : c[n - 1].parts[j].key = <<n - 1, j>>
    BY <1>5 DEF Conversation
  <2> QED BY <1>4, <2>1
<1>7. PICK x \in 1..(m - 1) : f[x] = n - 1 /\ f[x + 1] = n
  <2> DEFINE i == n - 1
  <2>1. Calls(c[i]) # {} /\ i \in 1..(n - 1) /\ i + 1 = n
    BY <1>4, <1>5
  <2> HIDE DEF i
  <2>2. \E x \in 1..(m - 1) : f[x] = i /\ f[x + 1] = i + 1
    BY <1>2, <2>1
  <2> QED BY <2>1, <2>2 DEF i
<1>8. x \in 1..m /\ x + 1 \in 1..m
  BY <1>1
<1>9. x + 1 = m
  <2>1. x + 1 < m => f[x + 1] < f[m]
    BY <1>1, <1>8, <1>2
  <2>2. f[m] = n
    BY <1>2
  <2> QED BY <1>1, <1>7, <1>8, <2>1, <2>2
<1>10. u[x] = c[n - 1]
  BY <1>7, <1>8, <1>2
<1>11. m > 1 /\ x = m - 1
  BY <1>1, <1>8, <1>9
<1> QED BY <1>3, <1>4, <1>6, <1>10, <1>11 DEF n, m

\* The latest exchange of the contents, where u still has it.
LEMMA LatestExchange ==
    ASSUME NEW c, Conversation(c), c # <<>>, IsUser(c[Len(c)]),
           NEW u \in Seq(Turns), u # <<>>,
           NEW f, Picked(u, c, f), NEW l \in Responses(c[Len(c)])
    PROVE  LET m == Len(u)
               n == Len(c)
           IN /\ m \in Nat /\ m > 1 /\ m - 1 \in 1..(m - 1) /\ (m - 1) + 1 = m
              /\ n \in Nat /\ n > 1 /\ n - 1 \in DOMAIN c /\ n \in DOMAIN c
              /\ u[m] = c[n] /\ u[m - 1] = c[n - 1] /\ Calls(c[n]) = {}
              /\ KeysApart(c[n - 1], c[n])
              /\ \A j \in Calls(c[n - 1]) : c[n - 1].parts[j].key = <<n - 1, j>> /\ j \in Nat
              /\ \E j \in Calls(c[n - 1]) : c[n - 1].parts[j].key = c[n].parts[l].key
<1> DEFINE m == Len(u)
           n == Len(c)
<1>1. /\ u[m] = c[n] /\ n > 1 /\ m > 1 /\ u[m - 1] = c[n - 1]
      /\ \E j \in Calls(c[n - 1]) : c[n - 1].parts[j].key = c[n].parts[l].key
  BY AskedBefore
<1>2. n \in Nat /\ DOMAIN c = 1..n /\ m \in Nat /\ c \in Seq(Turns)
  BY DEF Conversation
<1> HIDE DEF n, m
<1>3. /\ m - 1 \in 1..(m - 1) /\ (m - 1) + 1 = m /\ n - 1 \in DOMAIN c /\ n \in DOMAIN c
      /\ n - 1 \in 1..n
  BY <1>1, <1>2
<1>4. Calls(c[n]) = {}
  <2>1. \A j \in Calls(c[n]) : IsModel(c[n])
    BY <1>3 DEF Conversation
  <2> QED BY <2>1 DEF IsUser, IsModel, n
<1>5. \A j \in Calls(c[n - 1]) : c[n - 1].parts[j].key = <<n - 1, j>> /\ j \in Nat
  <2>1. \A j \in Calls(c[n - 1]) : j \in 1..Len(c[n - 1].parts) /\ Len(c[n - 1].parts) \in Nat
    BY <1>2, <1>3, PartsOf DEF Calls, OfKind, n
  <2>2. \A j \in Calls(c[n - 1]) : c[n - 1].parts[j].key = <<n - 1, j>>
    BY <1>3 DEF Conversation
  <2> QED BY <2>1, <2>2
<1>6. KeysApart(c[n - 1], c[n])
  <2>1. \A j, k \in Responses(c[n]) : c[n].parts[j].key = c[n].parts[k].key => j = k
    BY <1>3 DEF Conversation
  <2> QED BY <1>5, <2>1 DEF KeysApart
<1> QED BY <1>1, <1>2, <1>3, <1>4, <1>5, <1>6 DEF n, m

\* Where nothing was read twice in the last turn, nothing of it is superseded.
LEMMA NothingTwice ==
    ASSUME NEW c, Conversation(c), c # <<>>, IsUser(c[Len(c)]),
           NEW u \in Seq(Turns), u # <<>>,
           NEW f, Picked(u, c, f), NEW l \in Responses(c[Len(c)]),
           NEW ids, ~TwiceIn(c), NEW j \in DOMAIN c[Len(c) - 1].parts
    PROVE  ~Superseded(u, Len(u) - 1, j, ids)
<1> DEFINE m == Len(u)
           n == Len(c)
           t == c[n - 1]
<1>1. /\ m > 1 /\ n \in Nat /\ n > 1 /\ u[m] = c[n] /\ u[m - 1] = t /\ Calls(c[n]) = {}
      /\ \A k \in Calls(t) : t.parts[k].key = <<n - 1, k>> /\ k \in Nat
  BY LatestExchange
<1> HIDE DEF m, n, t
<1> SUFFICES ASSUME Superseded(u, m - 1, j, ids) PROVE FALSE
  BY DEF m
<1>2. PICK q \in DOMAIN t.parts : /\ j < q /\ SameCall(t.parts[q], t.parts[j])
                                  /\ IsRead(u, m - 1, q, ids)
  BY <1>1, ReadAgain DEF m
<1>3. t.parts[j].kind = "call" /\ t.parts[j].name \in ReadOnlyTools /\ t.parts[q].kind = "call"
  BY <1>1, <1>2 DEF Superseded, IsRead
<1>4. j \in DOMAIN t.parts
  BY DEF t, n
<1>5. j \in Calls(t) /\ q \in Calls(t)
  BY <1>2, <1>3, <1>4 DEF Calls, OfKind
<1>6. t.parts[j] # t.parts[q]
  <2>1. t.parts[j].key = <<n - 1, j>> /\ t.parts[q].key = <<n - 1, q>> /\ j \in Nat
    BY <1>1, <1>5
  <2>2. j # q
    BY <1>2, <2>1
  <2> QED BY <2>1, <2>2
<1>7. t.parts[j] \in CallsBefore(c) /\ t.parts[q] \in CallsBefore(c)
  <2>1. ~(Len(c) < 2) /\ t = c[Len(c) - 1]
    BY <1>1 DEF n, t
  <2> QED BY <1>2, <1>3, <1>4, <2>1 DEF CallsBefore, ToSet
<1> QED BY <1>2, <1>3, <1>6, <1>7 DEF TwiceIn

\* The responses of the latest turn that are left fit the calls that are left.
LEMMA LatestFits ==
    ASSUME NEW c, Conversation(c), c # <<>>, IsUser(c[Len(c)]), setting.ids \in BOOLEAN,
           setting.ids \/ ~TwiceIn(c), ~setting.ids => NamesTheirs(c),
           NEW u, NEW p, NEW s, NEW on, Stages(c, u, p, s, on),
           Len(s) > 1
    PROVE  Fitting(s[Len(s) - 1], s[Len(s)], setting.ids)
<1> DEFINE m == Len(u)
           n == Len(c)
           a == p[m - 1]
           b == p[m]
<1>1. u \in Seq(Turns) /\ u # <<>> /\ p \in Seq(Turns) /\ m \in Nat /\ Len(s) = m /\ Len(p) = m
  BY DEF Stages, Talk, FollowsAll
<1>2. PICK f : Picked(u, c, f)
  BY DEF Stages
<1>3. u[m] = c[n]
  <2>1. m \in 1..m
    BY <1>1
  <2> QED BY <1>2, <2>1 DEF Picked
<1>4. m - 1 \in 1..m /\ m \in 1..m /\ m > 1
  BY <1>1
<1>5. /\ a \in Turns /\ b \in Turns
      /\ FollowsTurn(s[m - 1], a) /\ FollowsTurn(s[m], b)
  <2>1. DOMAIN p = 1..m /\ \A i \in DOMAIN p : FollowsTurn(s[i], p[i])
    BY <1>1 DEF Stages, FollowsAll
  <2> QED BY <1>1, <1>4, <2>1
<1>6. \A i \in 1..m : \A j \in 1..Len(u[i].parts) :
         /\ on /\ Gone(u, i, j, setting.ids) => p[i].parts[j].kind = "pruned"
         /\ ~(on /\ Gone(u, i, j, setting.ids)) => p[i].parts[j] = u[i].parts[j]
  BY DEF Stages, PrunedWhere
<1>7. \A i \in 1..m : DOMAIN u[i].parts = 1..Len(u[i].parts) /\ DOMAIN p[i].parts = 1..Len(u[i].parts)
  <2>1. \A i \in 1..m : Len(p[i].parts) = Len(u[i].parts)
    BY DEF Stages
  <2>2. \A i \in 1..m : DOMAIN u[i].parts = 1..Len(u[i].parts) /\ DOMAIN p[i].parts = 1..Len(p[i].parts)
    BY <1>1, PartsOf
  <2> QED BY <2>1, <2>2
<1> HIDE DEF m, n
<1>8. ASSUME NEW l \in Responses(b)
      PROVE  /\ l \in Responses(c[n]) /\ b.parts[l] = c[n].parts[l]
             /\ ~(on /\ Gone(u, m, l, setting.ids))
  <2>1. l \in 1..Len(u[m].parts) /\ b.parts[l].kind = "response"
    BY <1>4, <1>7 DEF Responses, OfKind
  <2>2. ~(on /\ Gone(u, m, l, setting.ids)) /\ b.parts[l] = u[m].parts[l]
    BY <1>4, <1>6, <2>1
  <2> QED BY <1>3, <1>4, <1>7, <2>1, <2>2 DEF Responses, OfKind
<1>9. ASSUME NEW j \in Responses(b), NEW l \in Responses(b), b.parts[j].key = b.parts[l].key
      PROVE  j = l
  <2>1. n \in DOMAIN c
    BY DEF Conversation, n
  <2>2. \A h, k \in Responses(c[n]) : c[n].parts[h].key = c[n].parts[k].key => h = k
    BY <2>1 DEF Conversation
  <2> QED BY <1>8, <1>9, <2>2
<1>10. ASSUME NEW l \in Responses(b)
       PROVE  \E j \in Calls(a) : a.parts[j].key = b.parts[l].key
                                  /\ (~setting.ids => a.parts[j].name = b.parts[l].name)
  <2> DEFINE t == c[n - 1]
  <2>1. l \in Responses(c[n]) /\ b.parts[l] = c[n].parts[l] /\ ~(on /\ Gone(u, m, l, setting.ids))
    BY <1>8
  <2>2. /\ m - 1 \in 1..(m - 1) /\ (m - 1) + 1 = m /\ n - 1 \in DOMAIN c /\ n \in DOMAIN c
        /\ n > 1 /\ u[m - 1] = t /\ KeysApart(t, c[n])
        /\ \E j \in Calls(t) : t.parts[j].key = c[n].parts[l].key
    BY <1>1, <1>2, <2>1, LatestExchange DEF m, n
  <2>3. PICK j \in Calls(t) : t.parts[j].key = c[n].parts[l].key
    BY <2>2
  <2>4. j \in 1..Len(u[m - 1].parts) /\ j \in DOMAIN t.parts /\ t.parts[j].kind = "call"
    BY <1>4, <1>7, <2>2 DEF Calls, OfKind
  <2>5. ~(on /\ Gone(u, m - 1, j, setting.ids))
    <3>1. CASE setting.ids = TRUE
      <4>1. /\ m - 1 \in 1..(Len(u) - 1) /\ KeysApart(u[m - 1], u[(m - 1) + 1])
            /\ j \in Calls(u[m - 1]) /\ l \in Responses(u[(m - 1) + 1])
            /\ u[m - 1].parts[j].key = u[(m - 1) + 1].parts[l].key
        BY <1>3, <2>1, <2>2, <2>3 DEF m
      <4>2. Gone(u, m - 1, j, TRUE) <=> Gone(u, (m - 1) + 1, l, TRUE)
        BY <1>1, <4>1, GoneTogether
      <4> QED BY <2>1, <2>2, <3>1, <4>2
    <3>2. CASE setting.ids = FALSE
      <4>1. ~Superseded(u, m - 1, j, setting.ids)
        BY <1>1, <1>2, <2>1, <2>4, <3>2, NothingTwice DEF m, n
      <4>2. u[m - 1].parts[j].kind # "response"
        BY <2>2, <2>4
      <4> QED BY <4>1, <4>2 DEF Gone
    <3> QED BY <3>1, <3>2
  <2>6. a.parts[j] = t.parts[j]
    BY <1>4, <1>6, <2>2, <2>4, <2>5
  <2>7. j \in Calls(a)
    BY <1>4, <1>7, <2>4, <2>6 DEF Calls, OfKind
  <2>8. ~setting.ids => c[n].parts[l].name = t.parts[j].name
    <3>1. n \in 2..Len(c)
      <4>1. n \in Nat /\ n = Len(c)
        BY DEF Conversation, n
      <4> QED BY <2>2, <4>1
    <3> QED BY <2>1, <2>3, <3>1 DEF NamesTheirs
  <2> QED BY <2>1, <2>3, <2>6, <2>7, <2>8
<1>11. Fitting(a, b, setting.ids)
  BY <1>9, <1>10 DEF Fitting
<1>12. Fitting(s[m - 1], s[m], setting.ids)
  <2> HIDE DEF a, b
  <2> QED BY <1>5, <1>11, FollowsFitting
<1> QED BY <1>1, <1>12 DEF m

\* What was just said reaches the prompt, or of a read made twice the later answer.
LEMMA LatestReaches ==
    ASSUME NEW c, Talk(c), Conversation(c), Raw(c), KeepsWarm,
           setting.knobs \in Knobs, setting.ids \in BOOLEAN, setting.disk \in BOOLEAN,
           setting.gemini \in BOOLEAN,
           setting.ids \/ ~TwiceIn(c), ~setting.ids => NamesTheirs(c),
           setting.ids => NamesApart(c),
           NEW x \in ToSet(c[Len(c)].parts)
    PROVE  LET d == Finished(Shaped(c))
           IN \/ ReadableIn(d, Len(d), x)
              \/ \E y \in ToSet(c[Len(c)].parts) : AgainIn(c, x, y) /\ ReadableIn(d, Len(d), y)
<1> DEFINE s == Shaped(c)
           d == Finished(s)
           n == Len(c)
<1>1. PICK u, p, on : Stages(c, u, p, s, on)
  BY ShapedStages
<1>2. Clean(s)
  <2> HIDE DEF s
  <2> QED BY <1>1, StagesClean
<1>3. Talk(s) /\ (setting.ids => AllPaired(s, Answered(c)))
  BY ShapedTalk
<1>4. PICK f : Picked(u, c, f)
  BY <1>1 DEF Stages
<1>5. /\ c # <<>> /\ IsUser(c[n]) /\ n \in 1..n /\ n \in DOMAIN c /\ c[n] \in Turns
      /\ DOMAIN c[n].parts = 1..Len(c[n].parts)
  <2>1. c \in Seq(Turns) /\ c # <<>> /\ IsUser(c[n])
    BY DEF Talk
  <2>2. n \in 1..n /\ n \in DOMAIN c
    BY <2>1
  <2> QED BY <2>1, <2>2, PartsOf
<1> HIDE DEF s
<1> DEFINE m == Len(u)
<1>6. u \in Seq(Turns) /\ u # <<>> /\ m \in Nat /\ m \in 1..m /\ Len(s) = m /\ s[m] = p[m]
  BY <1>1 DEF Stages, Talk, FollowsAll
<1>7. u[m] = c[n]
  BY <1>4, <1>6 DEF Picked
<1> HIDE DEF m, n
<1>8. \A k \in DOMAIN c[n].parts :
         ~(on /\ Gone(u, m, k, setting.ids)) => s[m].parts[k] = c[n].parts[k]
  <2>1. \A k \in 1..Len(u[m].parts) :
           ~(on /\ Gone(u, m, k, setting.ids)) => p[m].parts[k] = u[m].parts[k]
    BY <1>1, <1>6 DEF Stages, PrunedWhere, m
  <2> QED BY <1>5, <1>6, <1>7, <2>1
<1>9. DOMAIN s[m].parts = DOMAIN c[n].parts
  <2>1. Len(p[m].parts) = Len(u[m].parts) /\ p \in Seq(Turns) /\ Len(p) = m
    BY <1>1, <1>6 DEF Stages, m
  <2>2. DOMAIN p[m].parts = 1..Len(p[m].parts)
    BY <1>6, <2>1, PartsOf
  <2> QED BY <1>5, <1>6, <1>7, <2>1, <2>2
<1>10. \A k \in DOMAIN c[n].parts :
          \/ c[n].parts[k].kind = "text"
          \/ c[n].parts[k].kind = "response" /\ k \in Responses(c[n])
  <2> SUFFICES ASSUME NEW k \in DOMAIN c[n].parts
               PROVE  \/ c[n].parts[k].kind = "text"
                      \/ c[n].parts[k].kind = "response" /\ k \in Responses(c[n])
    OBVIOUS
  <2>1. c[n].parts[k].kind = "text" \/ c[n].parts[k].kind = "call" \/ c[n].parts[k].kind = "response"
    BY <1>5 DEF Raw, n
  <2>2. c[n].parts[k].kind # "call"
    <3>1. k \in Calls(c[n]) => IsModel(c[n])
      BY <1>5 DEF Conversation
    <3> QED BY <1>5, <3>1 DEF Calls, OfKind, IsUser, IsModel
  <2> QED BY <2>1, <2>2 DEF Responses, OfKind
<1>11. m > 1 => Fitting(s[m - 1], s[m], setting.ids)
  BY <1>1, <1>5, <1>6, LatestFits DEF n
<1>12. ASSUME NEW k \in DOMAIN c[n].parts, ~(on /\ Gone(u, m, k, setting.ids))
       PROVE  ReadableIn(d, Len(d), c[n].parts[k])
  <2> DEFINE z == c[n].parts[k]
  <2>1. z \in ToSet(s[Len(s)].parts)
    BY <1>6, <1>8, <1>9, <1>12 DEF ToSet
  <2>2. z.kind = "text" \/ z.kind = "response"
    BY <1>10
  <2> HIDE DEF z
  <2>3. CASE z.kind = "text"
    <3>1. ReadableIn(d, Len(d), z)
      BY <1>2, <1>3, <2>1, <2>3, FinishedRefers
    <3> QED BY <3>1 DEF z
  <2>4. CASE z.kind = "response"
    <3>1. Has(Finished(s)[Len(Finished(s))].parts, z)
      <4>1. Len(s) > 1 => Fitting(s[Len(s) - 1], s[Len(s)], setting.ids)
        BY <1>6, <1>11
      <4>2. setting.ids => AllPaired(s, Answered(c))
        BY <1>3
      <4> QED BY <1>2, <1>3, <2>1, <2>4, <4>1, <4>2, FinishedAnswers
    <3>2. z \in ToSet(d[Len(d)].parts)
      BY <3>1, HasIs
    <3> HIDE DEF d
    <3> QED BY <3>2 DEF ReadableIn, StandsIn, z
  <2> QED BY <2>2, <2>3, <2>4
<1>13. PICK k \in DOMAIN c[n].parts : c[n].parts[k] = x
  BY DEF ToSet, n
<1>14. CASE ~(on /\ Gone(u, m, k, setting.ids))
  BY <1>12, <1>13, <1>14 DEF s
<1>15. CASE on /\ Gone(u, m, k, setting.ids)
  <2> DEFINE t == c[n - 1]
  <2>1. k \in Responses(c[n]) /\ x.kind = "response"
    <3>1. c[n].parts[k].kind # "text"
      BY <1>7, <1>15 DEF Gone
    <3> QED BY <1>10, <1>13, <3>1
  <2>2. /\ m > 1 /\ m - 1 \in 1..(m - 1) /\ (m - 1) + 1 = m
        /\ n \in Nat /\ n > 1 /\ u[m - 1] = t /\ Calls(c[n]) = {} /\ KeysApart(t, c[n])
        /\ \A j \in Calls(t) : t.parts[j].key = <<n - 1, j>> /\ j \in Nat
    BY <1>4, <1>5, <1>6, <2>1, LatestExchange DEF n, m
  <2> HIDE DEF t
  <2>3. setting.ids = TRUE
    <3> SUFFICES ASSUME setting.ids = FALSE PROVE FALSE
      OBVIOUS
    <3>1. Outdates(u, m, k, FALSE) # {}
      <4>1. Gone(u, m, k, FALSE)
        BY <1>15
      <4> QED BY <1>7, <2>1, <4>1 DEF Gone, Responses, OfKind
    <3>2. PICK j \in DOMAIN u[m - 1].parts : Superseded(u, m - 1, j, FALSE)
      BY <2>2, <3>1 DEF Outdates
    <3>3. j \in DOMAIN c[n - 1].parts
      BY <2>2, <3>2 DEF t
    <3>4. ~Superseded(u, m - 1, j, FALSE)
      BY <1>4, <1>5, <1>6, <2>1, <3>3, NothingTwice DEF n, m
    <3> QED BY <3>2, <3>4
  <2>4. PICK j \in Calls(u[m - 1]) : /\ Superseded(u, m - 1, j, TRUE)
                                     /\ u[m - 1].parts[j].key = u[m].parts[k].key
    <3>1. /\ m - 1 \in 1..(Len(u) - 1) /\ k \in Responses(u[(m - 1) + 1])
          /\ Gone(u, (m - 1) + 1, k, TRUE)
      BY <1>7, <1>15, <2>1, <2>2, <2>3 DEF m
    <3>2. \E j \in Calls(u[m - 1]) : /\ Superseded(u, m - 1, j, TRUE)
                                     /\ u[m - 1].parts[j].key = u[(m - 1) + 1].parts[k].key
      BY <1>6, <3>1, GoneAnswers
    <3> QED BY <2>2, <3>2
  <2>5. j \in Nat /\ t.parts[j].key = <<n - 1, j>> /\ t.parts[j].kind = "call" /\ j \in DOMAIN t.parts
    BY <2>2, <2>4 DEF Calls, OfKind
  <2>6. PICK q \in DOMAIN t.parts :
           /\ j < q /\ SameCall(t.parts[q], t.parts[j])
           /\ IsRead(u, m - 1, q, TRUE) /\ ~Superseded(u, m - 1, q, TRUE)
    <3>1. Len(u) > 1 /\ Calls(u[Len(u)]) = {} /\ Superseded(u, Len(u) - 1, j, TRUE)
      BY <1>7, <2>2, <2>4 DEF m
    <3>2. \E q \in DOMAIN u[Len(u) - 1].parts :
              /\ j < q /\ SameCall(u[Len(u) - 1].parts[q], u[Len(u) - 1].parts[j])
              /\ IsRead(u, Len(u) - 1, q, TRUE)
              /\ ~Superseded(u, Len(u) - 1, q, TRUE)
      BY <1>6, <2>5, <3>1, LastReadStays
    <3> QED BY <2>2, <3>2 DEF m
  <2>7. q \in Calls(t) /\ t.parts[q].kind = "call" /\ t.parts[q].key = <<n - 1, q>> /\ q \in Nat
    BY <2>2, <2>6 DEF SameCall, Calls, OfKind
  <2> DEFINE r == PairedResponse(u, m - 1, q, TRUE)
  <2>8. r \in Responses(c[n]) /\ c[n].parts[r].key = t.parts[q].key
    <3>1. r # 0
      BY <2>6 DEF IsRead
    <3>2. r \in Responses(u[(m - 1) + 1]) /\ u[(m - 1) + 1].parts[r].key = u[m - 1].parts[q].key
      BY <1>6, <2>2, <3>1, PairedByKey DEF m
    <3> QED BY <1>7, <2>2, <3>2
  <2> HIDE DEF r
  <2>9. ~Gone(u, m, r, setting.ids)
    <3>1. /\ m - 1 \in 1..(Len(u) - 1) /\ KeysApart(u[m - 1], u[(m - 1) + 1])
          /\ q \in Calls(u[m - 1]) /\ r \in Responses(u[(m - 1) + 1])
          /\ u[m - 1].parts[q].key = u[(m - 1) + 1].parts[r].key
      BY <1>7, <2>2, <2>7, <2>8 DEF m
    <3>2. Gone(u, (m - 1) + 1, r, TRUE) <=> Superseded(u, m - 1, q, TRUE)
      BY <1>6, <3>1, GoneTogether
    <3> QED BY <2>2, <2>3, <2>6, <3>2
  <2> DEFINE y == c[n].parts[r]
  <2>10. r \in DOMAIN c[n].parts /\ y.kind = "response" /\ y \in ToSet(c[n].parts)
    BY <2>8 DEF Responses, OfKind, ToSet
  <2>11. ReadableIn(d, Len(d), y)
    BY <1>12, <2>9, <2>10
  <2>12. AgainIn(c, x, y)
    <3>1. t.parts[j] \in CallsBefore(c) /\ t.parts[q] \in CallsBefore(c)
      <4>1. ~(Len(c) < 2) /\ t = c[Len(c) - 1]
        BY <2>2 DEF n, t
      <4> QED BY <2>5, <2>6, <2>7, <4>1 DEF CallsBefore, ToSet
    <3>2. t.parts[j].key = x.key
      BY <1>7, <1>13, <2>2, <2>4
    <3>3. t.parts[j].name \in ReadOnlyTools
      BY <2>2, <2>4 DEF Superseded, IsRead
    <3>4. Before(t.parts[j].key, t.parts[q].key)
      BY <2>5, <2>6, <2>7 DEF Before
    <3> QED BY <2>1, <2>6, <2>8, <2>10, <3>1, <3>2, <3>3, <3>4 DEF AgainIn
  <2>13. \E z \in ToSet(c[n].parts) : AgainIn(c, x, z) /\ ReadableIn(d, Len(d), z)
    <3> HIDE DEF y, d
    <3> QED BY <2>10, <2>11, <2>12
  <2> QED BY <2>13 DEF n, s
<1> QED BY <1>14, <1>15

-------------------------------------------------------------------------------
(* The newest read of a file. *)

\* Turn t has a part of the kind with the key.
HasKey(t, kind, key) == \E q \in ToSet(t.parts) : q.kind = kind /\ q.key = key

\* Call j of turn i was answered by response l, and nothing answered after it is
\* the same call.
Newest(c, i, j, l) ==
    /\ j \in Calls(c[i]) /\ l \in Responses(c[i + 1]) /\ c[i + 1].parts[l].key = c[i].parts[j].key
    /\ \A k \in i..(Len(c) - 1) : \A q \in Calls(c[k]), r \in Responses(c[k + 1]) :
          /\ c[k + 1].parts[r].key = c[k].parts[q].key
          /\ SameCall(c[k].parts[q], c[i].parts[j])
          => ~Before(<<i, j>>, <<k, q>>)

\* Without the scoldings it is still the newest: it is not superseded.
LEMMA NewestStands ==
    ASSUME NEW c, Conversation(c), NEW u \in Seq(Turns), NEW f, Picked(u, c, f),
           NEW x \in 1..(Len(u) - 1), NEW j, NEW l, Newest(c, f[x], j, l)
    PROVE  ~Superseded(u, x, j, TRUE)
<1> DEFINE i == f[x]
<1> SUFFICES ASSUME Superseded(u, x, j, TRUE) PROVE FALSE
  OBVIOUS
<1>1. Len(u) \in Nat /\ x \in Nat /\ x \in 1..Len(u) /\ DOMAIN c = 1..Len(c) /\ Len(c) \in Nat
  BY DEF Conversation
<1>2. PICK k \in x..Len(u) : \E q \in DOMAIN u[k].parts :
         /\ Before(<<x, j>>, <<k, q>>) /\ SameCall(u[k].parts[q], u[x].parts[j])
         /\ IsRead(u, k, q, TRUE)
  BY DEF Superseded
<1>3. PICK q \in DOMAIN u[k].parts :
         /\ Before(<<x, j>>, <<k, q>>) /\ SameCall(u[k].parts[q], u[x].parts[j])
         /\ IsRead(u, k, q, TRUE)
  BY <1>2
<1>4. /\ k \in 2..(Len(u) - 1) /\ u[k].parts[q].kind = "call"
      /\ PairedResponse(u, k, q, TRUE) # 0
  BY <1>3 DEF IsRead
<1>5. k \in 1..(Len(u) - 1) /\ k \in 1..Len(u) /\ k + 1 \in 1..Len(u) /\ k \in Nat
  BY <1>1, <1>4
<1> DEFINE r == PairedResponse(u, k, q, TRUE)
<1>6. r \in Responses(u[k + 1]) /\ u[k + 1].parts[r].key = u[k].parts[q].key
  BY <1>4, <1>5, PairedByKey
<1> HIDE DEF r
<1> DEFINE h == f[k]
           g == f[k + 1]
<1>7. h \in 1..Len(c) /\ u[k] = c[h] /\ g \in 1..Len(c) /\ u[k + 1] = c[g]
  BY <1>5 DEF Picked
<1>8. i \in 1..Len(c) /\ u[x] = c[i]
  BY <1>1 DEF Picked
<1>9. q \in Calls(c[h])
  BY <1>3, <1>4, <1>7 DEF Calls, OfKind
<1>10. c[h].parts[q].key = <<h, q>>
  BY <1>1, <1>7, <1>9 DEF Conversation
<1>11. g = h + 1
  <2>1. r \in Responses(c[g])
    BY <1>6, <1>7
  <2>2. PICK z : c[g].parts[r].key = <<g - 1, z>>
    <3>1. g \in DOMAIN c
      BY <1>1, <1>7
    <3> QED BY <2>1, <3>1 DEF Conversation
  <2> HIDE DEF g, h
  <2>3. <<g - 1, z>> = <<h, q>>
    BY <1>6, <1>7, <1>10, <2>2
  <2>4. (g - 1) = h
    <3>1. <<g - 1, z>>[1] = g - 1 /\ <<h, q>>[1] = h
      OBVIOUS
    <3> QED BY <2>3, <3>1, Zenon
  <2> QED BY <1>7, <2>4
<1>12. x < k => i < h
  <2>1. \A y, z \in 1..Len(u) : y < z => f[y] < f[z]
    BY Zenon DEF Picked
  <2> QED BY <1>1, <1>5, <2>1
<1>13. x = k \/ x < k
  BY <1>1, <1>2
<1> HIDE DEF h, g
<1>14. Before(<<i, j>>, <<h, q>>)
  <2>1. CASE x < k
    BY <1>12, <2>1 DEF Before
  <2>2. CASE x = k
    <3>1. j < q
      BY <1>1, <1>3, <2>2 DEF Before
    <3>2. i = h
      BY <2>2 DEF h
    <3> QED BY <3>1, <3>2 DEF Before
  <2> QED BY <1>13, <2>1, <2>2
<1>15. h \in i..(Len(c) - 1)
  <2>1. i = h \/ i < h
    BY <1>12, <1>13 DEF h
  <2> HIDE DEF i
  <2> QED BY <1>1, <1>7, <1>8, <1>11, <2>1
<1>16. /\ c[h + 1].parts[r].key = c[h].parts[q].key /\ r \in Responses(c[h + 1])
       /\ SameCall(c[h].parts[q], c[i].parts[j])
  BY <1>3, <1>6, <1>7, <1>8, <1>11
<1> HIDE DEF i
<1>17. Newest(c, i, j, l)
  BY DEF i
<1> QED BY <1>9, <1>14, <1>15, <1>16, <1>17 DEF Newest

\* An exchange that is neither cut nor dropped is in the prompt: the call and
\* a response with its key.
LEMMA FinishedExchange ==
    ASSUME NEW c, Talk(c), setting.knobs \in Knobs, setting.gemini \in BOOLEAN,
           setting.ids = TRUE, setting.knobs.budget = 0,
           NEW keys, AllPaired(c, keys),
           NEW x \in 1..(Len(c) - 1), IsModel(c[x]),
           NEW j \in Calls(c[x]), NEW l \in Responses(c[x + 1]),
           c[x + 1].parts[l].key = c[x].parts[j].key
    PROVE  LET d == Finished(c)
               key == c[x].parts[j].key
           IN /\ x \in 1..Len(d) /\ x + 1 \in 1..Len(d)
              /\ HasKey(d[x], "call", key) /\ HasKey(d[x + 1], "response", key)
<1> DEFINE k == setting.knobs
           kept == TrimContents(c, setting.sysBytes, k)
           replayed == DedupReplayedBlocks(c, k)
           once == DedupSubstringBlocks(replayed, k)
           d == Finished(c)
           aligned == AlignFunctionCallsAndResponses(once, setting.ids)
           key == c[x].parts[j].key
<1>1. c \in Seq(Turns) /\ c # <<>> /\ x \in 1..Len(c) /\ x + 1 \in 1..Len(c) /\ Len(c) \in Nat
  BY DEF Talk
<1>2. kept = c
  BY <1>1, TrimShape
<1>3. d = IF setting.gemini THEN aligned ELSE once
  BY <1>2 DEF Finished
<1>4. FollowsAll(replayed, c)
  BY <1>1, ReplayedFollow
<1>5. FollowsAll(once, replayed)
  BY <1>4, SubstringsFollow DEF FollowsAll
<1> HIDE DEF replayed, once
<1>6. FollowsAll(once, c)
  BY <1>1, <1>4, <1>5, FollowsOn
<1>7. Talk(once) /\ AllPaired(once, keys) /\ once \in Seq(Turns) /\ Len(once) = Len(c)
  BY <1>1, <1>6, FollowsTalk DEF FollowsAll
<1>8. /\ c[x] \in Turns /\ c[x + 1] \in Turns
      /\ FollowsTurn(once[x], c[x]) /\ FollowsTurn(once[x + 1], c[x + 1])
  BY <1>1, <1>6 DEF FollowsAll
<1>9. j \in Calls(once[x]) /\ once[x].parts[j].key = key
  BY <1>8, FollowsKinds DEF Calls, Exchanged
<1>10. l \in Responses(once[x + 1]) /\ once[x + 1].parts[l].key = key
  BY <1>8, FollowsKinds DEF Responses, Exchanged
<1>11. key \in keys
  <2>1. Paired(c[x], c[x + 1], keys)
    BY DEF AllPaired
  <2> QED BY <2>1 DEF Paired
<1>12. HasKey(once[x], "call", key) /\ HasKey(once[x + 1], "response", key)
  BY <1>9, <1>10 DEF HasKey, Calls, Responses, OfKind, ToSet
<1>13. CASE ~setting.gemini
  BY <1>1, <1>3, <1>7, <1>12, <1>13
<1>14. CASE setting.gemini
  <2>1. IsModel(once[x])
    BY <1>8 DEF FollowsTurn, IsModel
  <2>2. aligned[x] = once[x]
    <3>1. ~NeedsAlignment(once, x)
      BY <2>1 DEF NeedsAlignment, IsModel, IsUser
    <3>2. x \in 1..Len(once) /\ setting.ids \in BOOLEAN
      BY <1>1, <1>7
    <3> QED BY <1>7, <3>1, <3>2, AlignKeeps
  <2>3. /\ Len(aligned) = Len(c)
        /\ \A i \in 1..(Len(once) - 1) : IsModel(aligned[i]) =>
              Once(aligned[i + 1].parts, CallKeys(aligned[i]), keys)
    BY <1>7, AlignTalk
  <2> HIDE DEF aligned
  <2>4. Once(aligned[x + 1].parts, CallKeys(once[x]), keys)
    BY <1>7, <2>1, <2>2, <2>3
  <2>5. key \in CallKeys(once[x])
    BY <1>9 DEF CallKeys
  <2> DEFINE b == aligned[x + 1].parts
  <2>6. PICK h \in AnswerPlaces(b) : b[h].key = key
    BY <2>4, <2>5 DEF Once
  <2>7. b[h].kind # "dummy"
    BY <1>11, <2>4, <2>6 DEF Once
  <2>8. h \in DOMAIN b /\ b[h].kind = "response"
    BY <2>7 DEF AnswerPlaces
  <2>9. HasKey(aligned[x + 1], "response", key)
    BY <2>6, <2>8 DEF HasKey, ToSet
  <2> QED BY <1>1, <1>3, <1>12, <1>14, <2>2, <2>3, <2>9
<1> QED BY <1>13, <1>14

\* The newest read of a file, and its content, are in the prompt.
LEMMA NewestReaches ==
    ASSUME NEW c, Talk(c), Conversation(c), NamesApart(c),
           setting.knobs \in Knobs, setting.ids = TRUE, setting.disk \in BOOLEAN,
           setting.gemini \in BOOLEAN, setting.knobs.budget = 0,
           NEW i \in 1..(Len(c) - 1), NEW j, NEW l, Newest(c, i, j, l)
    PROVE  LET d == Finished(Shaped(c))
               key == c[i].parts[j].key
           IN \A kind \in {"call", "response"} : \E x \in 1..Len(d) : HasKey(d[x], kind, key)
<1> DEFINE s == Shaped(c)
           key == c[i].parts[j].key
<1>1. PICK u, p, on : Stages(c, u, p, s, on)
  BY ShapedStages
<1>2. Talk(s) /\ AllPaired(s, Answered(c))
  BY ShapedTalk
<1> HIDE DEF s
<1>3. PICK f : Picked(u, c, f)
  BY <1>1 DEF Stages
<1>4. j \in Calls(c[i]) /\ l \in Responses(c[i + 1]) /\ c[i + 1].parts[l].key = key
  BY DEF Newest
<1>5. PICK x \in 1..(Len(u) - 1) : f[x] = i /\ f[x + 1] = i + 1
  <2>1. Calls(c[i]) # {} /\ Responses(c[i + 1]) # {}
    BY <1>4
  <2> QED BY <1>3, <2>1 DEF Picked
<1>6. /\ u \in Seq(Turns) /\ Len(u) \in Nat /\ p \in Seq(Turns) /\ Len(p) = Len(u) /\ Len(s) = Len(u)
      /\ x \in 1..Len(u) /\ x + 1 \in 1..Len(u)
  BY <1>1 DEF Stages, Talk, FollowsAll
<1>7. u[x] = c[i] /\ u[x + 1] = c[i + 1]
  BY <1>3, <1>5, <1>6 DEF Picked
<1>8. ~Superseded(u, x, j, TRUE)
  BY <1>3, <1>5, <1>6, NewestStands
<1>9. KeysApart(u[x], u[x + 1])
  <2>1. i \in DOMAIN c /\ i + 1 \in DOMAIN c
    BY DEF Conversation
  <2>2. \A h \in Calls(c[i]) : c[i].parts[h].key = <<i, h>>
    BY <2>1 DEF Conversation
  <2>3. \A h, k \in Responses(c[i + 1]) : c[i + 1].parts[h].key = c[i + 1].parts[k].key => h = k
    BY <2>1 DEF Conversation
  <2> QED BY <1>7, <2>2, <2>3 DEF KeysApart
<1>10. ~Gone(u, x, j, TRUE) /\ ~Gone(u, x + 1, l, TRUE)
  BY <1>4, <1>6, <1>7, <1>8, <1>9, GoneTogether
<1>11. p[x].parts[j] = c[i].parts[j] /\ p[x + 1].parts[l] = c[i + 1].parts[l]
  <2>1. j \in 1..Len(u[x].parts) /\ l \in 1..Len(u[x + 1].parts)
    BY <1>4, <1>6, <1>7, PartsOf DEF Calls, Responses, OfKind
  <2>2. \A h \in 1..Len(u) : \A k \in 1..Len(u[h].parts) :
           ~(on /\ Gone(u, h, k, TRUE)) => p[h].parts[k] = u[h].parts[k]
    <3>1. PrunedWhere(p, u, setting.ids, on)
      BY <1>1 DEF Stages
    <3>2. PrunedWhere(p, u, TRUE, on)
      BY <3>1
    <3> QED BY <3>2 DEF PrunedWhere
  <2>3. p[x].parts[j] = u[x].parts[j]
    BY <1>6, <1>10, <2>1, <2>2
  <2>4. p[x + 1].parts[l] = u[x + 1].parts[l]
    BY <1>6, <1>10, <2>1, <2>2
  <2> QED BY <1>7, <2>3, <2>4
<1>12. j \in Calls(p[x]) /\ l \in Responses(p[x + 1])
  <2>1. /\ DOMAIN p[x].parts = DOMAIN u[x].parts
        /\ DOMAIN p[x + 1].parts = DOMAIN u[x + 1].parts
    <3>1. \A h \in 1..Len(u) : Len(p[h].parts) = Len(u[h].parts)
      BY <1>1 DEF Stages
    <3> QED BY <1>6, <3>1, PartsOf
  <2> QED BY <1>4, <1>7, <1>11, <2>1 DEF Calls, Responses, OfKind
<1>13. /\ p[x] \in Turns /\ p[x + 1] \in Turns
       /\ FollowsTurn(s[x], p[x]) /\ FollowsTurn(s[x + 1], p[x + 1])
  <2>1. FollowsAll(s, p)
    BY <1>1 DEF Stages
  <2> QED BY <1>6, <2>1 DEF FollowsAll
<1>14. j \in Calls(s[x]) /\ s[x].parts[j].key = key
  BY <1>11, <1>12, <1>13, FollowsKinds DEF Calls, Exchanged
<1>15. l \in Responses(s[x + 1]) /\ s[x + 1].parts[l].key = key
  BY <1>4, <1>11, <1>12, <1>13, FollowsKinds DEF Responses, Exchanged
<1>16. IsModel(s[x])
  <2>1. IsModel(c[i])
    <3>1. i \in DOMAIN c
      BY DEF Conversation
    <3> QED BY <1>4, <3>1 DEF Conversation
  <2>2. p[x].role = u[x].role
    BY <1>1, <1>6 DEF Stages
  <2> QED BY <1>7, <1>13, <2>1, <2>2 DEF FollowsTurn, IsModel
<1>17. LET d == Finished(s)
           a == s[x].parts[j].key
       IN /\ x \in 1..Len(d) /\ x + 1 \in 1..Len(d)
          /\ HasKey(d[x], "call", a) /\ HasKey(d[x + 1], "response", a)
  <2>1. x \in 1..(Len(s) - 1)
    BY <1>5, <1>6
  <2> QED BY <1>2, <1>14, <1>15, <1>16, <2>1, FinishedExchange
<1> HIDE DEF key
<1>18. \A kind \in {"call", "response"} : \E h \in 1..Len(Finished(s)) : HasKey(Finished(s)[h], kind, key)
  BY <1>14, <1>17
<1> QED BY <1>18 DEF s, key

-------------------------------------------------------------------------------
(* What the client and the upstream model say. *)

\* Nothing of it is a reference, and without IDs a response has the name of its call.
Said(c) == Raw(c) /\ (~setting.ids => NamesTheirs(c))

SaidInv == Said(history) /\ Said(contents)

\* The same of a turn that is said next.
SaidNext(c, t) ==
    /\ \A j \in DOMAIN t.parts :
          LET p == t.parts[j]
          IN (p.kind = "text" /\ p.at = 0) \/ p.kind = "call" \/ p.kind = "response"
    /\ ~setting.ids /\ c # <<>> =>
          \A j \in Responses(t), l \in Calls(c[Len(c)]) :
             t.parts[j].key = c[Len(c)].parts[l].key => t.parts[j].name = c[Len(c)].parts[l].name

\* One more turn.
LEMMA AppendSaid ==
    ASSUME NEW c \in Seq(Turns), NEW t \in Turns, Said(c), SaidNext(c, t)
    PROVE  Said(Append(c, t))
<1> DEFINE n == Len(c)
           d == Append(c, t)
<1>1. n \in Nat
  OBVIOUS
<1>2. Len(d) = n + 1 /\ d[n + 1] = t /\ \A i \in 1..n : d[i] = c[i]
  BY <1>1
<1>3. DOMAIN t.parts = 1..Len(t.parts)
  <2>1. t.parts \in Seq(AllParts)
    BY DEF Turns
  <2> QED BY <2>1
<1> HIDE DEF d, n
<1>4. \A i \in 1..Len(d) : (i \in 1..n /\ d[i] = c[i]) \/ (i = n + 1 /\ d[i] = t)
  BY <1>1, <1>2
<1>5. \A j \in 1..Len(t.parts) :
         LET p == t.parts[j]
         IN (p.kind = "text" /\ p.at = 0) \/ p.kind = "call" \/ p.kind = "response"
  BY <1>3 DEF SaidNext
<1>6. Raw(d)
  <2> SUFFICES ASSUME NEW i \in 1..Len(d), NEW j \in 1..Len(d[i].parts)
               PROVE  LET p == d[i].parts[j]
                      IN (p.kind = "text" /\ p.at = 0) \/ p.kind = "call" \/ p.kind = "response"
    BY DEF Raw
  <2>1. CASE i \in 1..n /\ d[i] = c[i]
    BY <2>1 DEF Said, Raw, n
  <2>2. CASE d[i] = t
    BY <1>5, <2>2
  <2> QED BY <1>4, <2>1, <2>2
<1>7. ASSUME ~setting.ids PROVE NamesTheirs(d)
  <2> SUFFICES ASSUME NEW i \in 2..Len(d), NEW j \in Responses(d[i]), NEW l \in Calls(d[i - 1]),
                      d[i].parts[j].key = d[i - 1].parts[l].key
               PROVE  d[i].parts[j].name = d[i - 1].parts[l].name
    BY DEF NamesTheirs
  <2>1. i \in 1..Len(d) /\ i - 1 \in 1..n /\ d[i - 1] = c[i - 1]
    <3>1. i \in 1..Len(d) /\ i - 1 \in 1..n
      BY <1>1, <1>2
    <3> QED BY <1>2, <3>1
  <2>2. CASE i \in 1..n /\ d[i] = c[i]
    <3>1. i \in 2..Len(c)
      BY <1>1, <2>2 DEF n
    <3>2. NamesTheirs(c)
      BY <1>7 DEF Said
    <3> QED BY <2>1, <2>2, <3>1, <3>2 DEF NamesTheirs
  <2>3. CASE i = n + 1 /\ d[i] = t
    <3>1. i - 1 = n /\ n # 0
      BY <1>1, <2>1, <2>3
    <3>2. c # <<>>
      BY <3>1 DEF n
    <3>3. \A y \in Responses(t), z \in Calls(c[n]) :
             t.parts[y].key = c[n].parts[z].key => t.parts[y].name = c[n].parts[z].name
      BY <1>7, <3>2 DEF SaidNext, n
    <3> QED BY <2>1, <2>3, <3>1, <3>3
  <2> QED BY <1>4, <2>1, <2>2, <2>3
<1> QED BY <1>6, <1>7 DEF Said, d

\* A nudge leaves a text where it stands.
LEMMA NudgeStays ==
    ASSUME NEW c \in Seq(Turns), c # <<>>
    PROVE  StaysAll(NudgeLastTurn(c), c)
<1> DEFINE n == Len(c)
           texts == OfKind(c[n], "text")
           k == Min(texts)
           d == NudgeLastTurn(c)
           p == c[n].parts[k]
           q == NudgeText(p)
<1>1. n \in Nat \ {0} /\ n \in 1..Len(c) /\ DOMAIN c = 1..n
  OBVIOUS
<1>2. /\ c[n] \in Turns /\ DOMAIN c[n].parts = 1..Len(c[n].parts) /\ Len(c[n].parts) \in Nat
      /\ c[n].parts \in Seq(AllParts)
  <2> HIDE DEF n
  <2> QED BY <1>1, PartsOf
<1>3. CASE ~(IsNoTool(c[n]) \/ IsTodo(c[n]))
  <2>1. d = c
    BY <1>3 DEF NudgeLastTurn
  <2> HIDE DEF d
  <2> QED BY <2>1 DEF StaysAll, StaysTurn, Stays, d
<1>4. CASE IsNoTool(c[n]) \/ IsTodo(c[n])
  <2>1. texts # {} /\ texts \in SUBSET (1..Len(c[n].parts))
    <3>1. texts # {}
      BY <1>4 DEF IsNoTool, IsTodo, Scolds
    <3>2. texts \in SUBSET (1..Len(c[n].parts))
      BY <1>2 DEF OfKind
    <3> QED BY <3>1, <3>2
  <2>2. k \in texts
    <3> HIDE DEF texts
    <3> QED BY <1>2, <2>1, MinOfPlaces
  <2>3. \A x \in texts : x \in DOMAIN c[n].parts /\ c[n].parts[x].kind = "text"
                         /\ c[n].parts[x] \in AllParts
    BY <1>2 DEF OfKind
  <2>4. k \in DOMAIN c[n].parts /\ p \in TextParts
    <3>1. k \in DOMAIN c[n].parts /\ p.kind = "text" /\ p \in AllParts
      <4> HIDE DEF k, texts
      <4> QED BY <2>2, <2>3
    <3> QED BY <3>1, PartKinds
  <2>5. d = [c EXCEPT ![n].parts[k] = q]
    BY <1>4 DEF NudgeLastTurn
  <2> HIDE DEF k, texts
  <2>6. q.kind = "text" /\ q.at = p.at /\ p.kind = "text"
    BY <2>4 DEF NudgeText, TextParts
  <2> DEFINE parts == [c[n].parts EXCEPT ![k] = q]
             turn == [c[n] EXCEPT !.parts = parts]
  <2>7. d = [c EXCEPT ![n] = turn]
    BY <2>5
  <2>8. \A j \in 1..Len(c[n].parts) : parts[j] = IF j = k THEN q ELSE c[n].parts[j]
    BY <1>2
  <2> HIDE DEF q, p, parts
  <2>9. turn.parts = parts
    BY <1>2 DEF Turns
  <2> HIDE DEF turn, d
  <2>10. \A i \in 1..Len(c) : d[i] = IF i = n THEN turn ELSE c[i]
    BY <1>1, <2>7
  <2>11. StaysTurn(turn, c[n])
    BY <2>6, <2>8, <2>9 DEF StaysTurn, Stays, p
  <2> HIDE DEF n
  <2>12. \A i \in 1..Len(c) : StaysTurn(d[i], c[i])
    BY <2>10, <2>11 DEF StaysTurn, Stays
  <2> QED BY <2>12 DEF StaysAll, d
<1> QED BY <1>3, <1>4

\* So a nudge leaves what was said.
LEMMA NudgeSaid ==
    ASSUME NEW c \in Seq(Turns), c # <<>>, Said(c)
    PROVE  Said(NudgeLastTurn(c))
<1> DEFINE d == NudgeLastTurn(c)
<1>1. FollowsAll(d, c) /\ StaysAll(d, c)
  BY NudgeFollows, NudgeStays
<1> HIDE DEF d
<1>2. Len(d) = Len(c) /\ Len(c) \in Nat /\ DOMAIN c = 1..Len(c)
  BY <1>1 DEF FollowsAll
<1>3. \A i \in 1..Len(c) : FollowsTurn(d[i], c[i]) /\ c[i] \in Turns /\ StaysTurn(d[i], c[i])
  BY <1>1, <1>2 DEF FollowsAll, StaysAll
<1>4. Raw(d)
  <2> SUFFICES ASSUME NEW i \in 1..Len(d), NEW j \in 1..Len(d[i].parts)
               PROVE  LET p == d[i].parts[j]
                      IN (p.kind = "text" /\ p.at = 0) \/ p.kind = "call" \/ p.kind = "response"
    BY DEF Raw
  <2>1. i \in 1..Len(c) /\ j \in 1..Len(c[i].parts)
    BY <1>2, <1>3 DEF FollowsTurn
  <2>2. Stays(d[i].parts[j], c[i].parts[j])
    BY <1>3, <2>1 DEF StaysTurn
  <2>3. LET p == c[i].parts[j]
        IN (p.kind = "text" /\ p.at = 0) \/ p.kind = "call" \/ p.kind = "response"
    BY <2>1 DEF Said, Raw
  <2> QED BY <2>2, <2>3 DEF Stays
<1>5. ASSUME NEW i \in 1..Len(c)
      PROVE  /\ Calls(d[i]) = Calls(c[i]) /\ Responses(d[i]) = Responses(c[i])
             /\ \A j \in Calls(c[i]) \union Responses(c[i]) :
                   d[i].parts[j].name = c[i].parts[j].name /\ d[i].parts[j].key = c[i].parts[j].key
  BY <1>3, FollowsKinds DEF Exchanged, Calls, Responses
<1>6. ASSUME ~setting.ids PROVE NamesTheirs(d)
  <2> SUFFICES ASSUME NEW i \in 2..Len(d), NEW j \in Responses(d[i]), NEW l \in Calls(d[i - 1]),
                      d[i].parts[j].key = d[i - 1].parts[l].key
               PROVE  d[i].parts[j].name = d[i - 1].parts[l].name
    BY DEF NamesTheirs
  <2>1. i \in 2..Len(c) /\ i \in 1..Len(c) /\ i - 1 \in 1..Len(c)
    BY <1>2
  <2>2. NamesTheirs(c)
    BY <1>6 DEF Said
  <2>3. j \in Responses(c[i]) /\ l \in Calls(c[i - 1])
    BY <1>5, <2>1
  <2>4. c[i].parts[j].key = c[i - 1].parts[l].key
    BY <1>5, <2>1, <2>3
  <2>5. c[i].parts[j].name = c[i - 1].parts[l].name
    BY <2>1, <2>2, <2>3, <2>4 DEF NamesTheirs
  <2> QED BY <1>5, <2>1, <2>3, <2>5
<1> QED BY <1>4, <1>6 DEF Said, d

\* Answers have the names of their calls, unless calls have IDs.
LEMMA AnswersSay ==
    ASSUME NEW m, NEW seq, CallsOf(m, seq), NEW k \in 1..Len(seq)
    PROVE  /\ AnswersTo(seq)[k].kind = "response"
           /\ \E l \in Calls(m) : /\ AnswersTo(seq)[k].key = m.parts[l].key
                                  /\ ~setting.ids => AnswersTo(seq)[k].name = m.parts[l].name
<1>1. k \in DOMAIN seq
  BY DEF CallsOf
<1>2. PICK l \in Calls(m) : seq[k] = m.parts[l]
  BY <1>1 DEF CallsOf
<1> DEFINE s == seq[k]
<1>3. AnswersTo(seq)[k] = Response(ResponseName(s), s)
  BY DEF AnswersTo
<1> HIDE DEF s
<1>4. /\ AnswersTo(seq)[k].kind = "response" /\ AnswersTo(seq)[k].key = s.key
      /\ AnswersTo(seq)[k].name = ResponseName(s)
  BY <1>3 DEF Response
<1>5. ~setting.ids => ResponseName(s) = s.name
  BY DEF ResponseName
<1> QED BY <1>2, <1>4, <1>5 DEF s

\* A turn of answers, and perhaps of a question, says nothing else.
LEMMA ReplySays ==
    ASSUME NEW c, Conversation(c), c # <<>>, NEW t,
           \A j \in DOMAIN t.parts :
              \/ /\ t.parts[j].kind = "response"
                 /\ \E l \in Calls(c[Len(c)]) :
                       /\ t.parts[j].key = c[Len(c)].parts[l].key
                       /\ ~setting.ids => t.parts[j].name = c[Len(c)].parts[l].name
              \/ t.parts[j].kind = "text" /\ t.parts[j].at = 0
    PROVE  SaidNext(c, t)
<1> DEFINE m == c[Len(c)]
<1>1. Len(c) \in DOMAIN c
  BY DEF Conversation
<1>2. \A l \in Calls(m) : m.parts[l].key = <<Len(c), l>>
  BY <1>1 DEF Conversation
<1>3. \A l, h \in Calls(m) : m.parts[l].key = m.parts[h].key => l = h
  BY <1>2
<1>4. ASSUME NEW j \in Responses(t), NEW l \in Calls(m), ~setting.ids,
             t.parts[j].key = m.parts[l].key
      PROVE  t.parts[j].name = m.parts[l].name
  <2>1. j \in DOMAIN t.parts /\ t.parts[j].kind = "response"
    BY DEF Responses, OfKind
  <2>2. PICK h \in Calls(m) : /\ t.parts[j].key = m.parts[h].key
                              /\ ~setting.ids => t.parts[j].name = m.parts[h].name
    BY <2>1
  <2>3. h = l
    BY <1>3, <1>4, <2>2
  <2> QED BY <1>4, <2>2, <2>3
<1>5. \A j \in DOMAIN t.parts :
         (t.parts[j].kind = "text" /\ t.parts[j].at = 0) \/ t.parts[j].kind = "response"
  OBVIOUS
<1> HIDE DEF m
<1> QED BY <1>4, <1>5 DEF SaidNext, m

\* One text, of no place.
LEMMA TextSays ==
    ASSUME NEW c, NEW role, NEW x, x.kind = "text", x.at = 0
    PROVE  SaidNext(c, Turn(role, <<x>>))
<1> DEFINE parts == <<x>>
           t == Turn(role, parts)
<1>1. DOMAIN parts = {1} /\ parts[1] = x
  OBVIOUS
<1> HIDE DEF parts
<1>2. t.parts = parts
  BY TurnOf
<1> HIDE DEF t
<1>3. \A j \in DOMAIN t.parts : t.parts[j] = x
  BY <1>1, <1>2
<1>4. Responses(t) = {}
  BY <1>3 DEF Responses, OfKind
<1>5. SaidNext(c, t)
  BY <1>3, <1>4 DEF SaidNext
<1> QED BY <1>5 DEF t, parts

\* Calls.
LEMMA CallsSay ==
    ASSUME NEW c, NEW role, NEW parts, \A j \in DOMAIN parts : parts[j].kind = "call"
    PROVE  SaidNext(c, Turn(role, parts))
<1> DEFINE t == Turn(role, parts)
<1>1. t.parts = parts
  BY TurnOf
<1> HIDE DEF t
<1>2. Responses(t) = {}
  BY <1>1 DEF Responses, OfKind
<1>3. SaidNext(c, t)
  BY <1>1, <1>2 DEF SaidNext
<1> QED BY <1>3 DEF t

\* What a client asks.
LEMMA AskSays ==
    ASSUME Conversation(history), NEW parts \in UserParts
    PROVE  SaidNext(history, Turn("user", parts))
<1> DEFINE n == Len(history)
           m == history[n]
           t == Turn("user", parts)
           x == Text("ask", NoBlock, "snapshot")
<1>1. t.parts = parts
  BY TurnOf
<1>2. x.kind = "text" /\ x.at = 0
  BY DEF Text
<1>3. ASSUME NEW y \in Openings \union Replies, parts = <<y>>
      PROVE  SaidNext(history, t)
  <2>1. y.kind = "text" /\ y.at = 0
    <3>1. y \in ClientTexts
      BY PipelineAssumption
    <3> QED BY <3>1 DEF ClientTexts
  <2> QED BY <1>3, <2>1, TextSays
<1>4. ASSUME NEW seq, CallsOf(m, seq), history # <<>>,
             parts = AnswersTo(seq) \/ parts = Append(AnswersTo(seq), x)
      PROVE  SaidNext(history, t)
  <2> DEFINE f == AnswersTo(seq)
             N == Len(seq)
  <2>1. f \in Seq(ResponseParts) /\ Len(f) = N /\ N \in Nat
    <3>1. f \in Seq(ResponseParts) /\ Len(f) = N
      BY <1>4, AnswersReply
    <3> QED BY <3>1
  <2>2. \A k \in 1..N : /\ f[k].kind = "response"
                        /\ \E l \in Calls(m) : /\ f[k].key = m.parts[l].key
                                               /\ ~setting.ids => f[k].name = m.parts[l].name
    <3> HIDE DEF m
    <3> QED BY <1>4, AnswersSay
  <2> HIDE DEF f, N, x, m, t
  <2>3. \A j \in DOMAIN parts : (j \in 1..N /\ parts[j] = f[j]) \/ parts[j] = x
    <3>1. CASE parts = f
      BY <2>1, <3>1
    <3>2. CASE parts = Append(f, x)
      <4>1. Len(parts) = N + 1 /\ DOMAIN parts = 1..(N + 1)
        BY <2>1, <3>2
      <4>2. parts[N + 1] = x /\ \A j \in 1..N : parts[j] = f[j]
        BY <2>1, <3>2
      <4>3. \A j \in 1..(N + 1) : j \in 1..N \/ j = N + 1
        BY <2>1
      <4> QED BY <4>1, <4>2, <4>3
    <3> QED BY <1>4, <3>1, <3>2 DEF f
  <2>4. ASSUME NEW j \in DOMAIN t.parts
        PROVE  \/ /\ t.parts[j].kind = "response"
                  /\ \E l \in Calls(history[Len(history)]) :
                        /\ t.parts[j].key = history[Len(history)].parts[l].key
                        /\ ~setting.ids => t.parts[j].name = history[Len(history)].parts[l].name
               \/ t.parts[j].kind = "text" /\ t.parts[j].at = 0
    <3>1. CASE j \in 1..N /\ parts[j] = f[j]
      BY <1>1, <2>2, <3>1 DEF m
    <3>2. CASE parts[j] = x
      BY <1>1, <1>2, <3>2
    <3> QED BY <1>1, <2>3, <3>1, <3>2
  <2> QED BY <1>4, <2>4, ReplySays
<1>5. CASE history = <<>> /\ \E y \in Openings : parts = <<y>>
  BY <1>3, <1>5
<1>6. CASE history # <<>> /\ OpenCalls = <<>> /\ \E y \in Replies : parts = <<y>>
  BY <1>3, <1>6
<1>7. CASE history # <<>> /\ OpenCalls # <<>> /\ parts = AnswersTo(OpenCalls)
  <2>1. CallsOf(m, OpenCalls)
    BY <1>7, OpenCallsOf
  <2> QED BY <1>4, <1>7, <2>1
<1>8. CASE /\ history # <<>>
           /\ \E places \in SUBSET DOMAIN OpenCalls :
                 parts = Append(AnswersTo(ElementsAt(OpenCalls, places)),
                                Text("ask", NoBlock, "snapshot"))
  <2>1. PICK places \in SUBSET DOMAIN OpenCalls :
           parts = Append(AnswersTo(ElementsAt(OpenCalls, places)),
                          Text("ask", NoBlock, "snapshot"))
    BY <1>8
  <2>2. CallsOf(m, OpenCalls)
    BY <1>8, OpenCallsOf
  <2>3. CallsOf(m, ElementsAt(OpenCalls, places))
    <3> HIDE DEF m
    <3> QED BY <2>2, CallsOfSome
  <2> QED BY <1>4, <1>8, <2>1, <2>3
<1> HIDE DEF t, m
<1>9. \/ history = <<>> /\ \E y \in Openings : parts = <<y>>
      \/ history # <<>> /\ OpenCalls = <<>> /\ \E y \in Replies : parts = <<y>>
      \/ history # <<>> /\ OpenCalls # <<>> /\ parts = AnswersTo(OpenCalls)
      \/ /\ history # <<>>
         /\ \E places \in SUBSET DOMAIN OpenCalls :
               parts = Append(AnswersTo(ElementsAt(OpenCalls, places)),
                              Text("ask", NoBlock, "snapshot"))
  BY UserPartsCases
<1> QED BY <1>5, <1>6, <1>7, <1>8, <1>9, Zenon DEF t

-------------------------------------------------------------------------------
(* What is said stays so. *)

\* Nothing is said at the start.
LEMMA InitSaid == Init => SaidInv
<1> SUFFICES ASSUME Init PROVE SaidInv
  OBVIOUS
<1>1. history = <<>> /\ contents = <<>>
  BY DEF Init
<1>2. Len(<<>>) = 0 /\ 1..0 = {} /\ 2..0 = {}
  OBVIOUS
<1> QED BY <1>1, <1>2 DEF SaidInv, Said, Raw, NamesTheirs

\* Nor in a request that is over.
LEMMA NothingSaid == Said(<<>>)
<1>1. Len(<<>>) = 0 /\ 1..0 = {} /\ 2..0 = {}
  OBVIOUS
<1> QED BY <1>1 DEF Said, Raw, NamesTheirs

\* A request.
LEMMA AskSaid == PipelineInv /\ SaidInv /\ Ask => SaidInv'
<1> SUFFICES ASSUME PipelineInv, SaidInv, Ask PROVE SaidInv'
  OBVIOUS
<1>1. PICK parts \in UserParts :
         history' = Append(history, Turn("user", parts)) /\ contents' = history'
  BY DEF Ask
<1> DEFINE t == Turn("user", parts)
<1>2. /\ Conversation(history) /\ history \in Seq(Turns)
      /\ \A i \in DOMAIN history : \A j \in Calls(history[i]) : history[i].parts[j].name # "tool"
      /\ history = <<>> \/ IsModel(history[Len(history)])
  BY DEF PipelineInv, Ask, Conversation
<1>3. SaidNext(history, t)
  BY <1>2, AskSays
<1>4. t \in Turns
  BY <1>2, AskConversation
<1> HIDE DEF t
<1>5. Said(Append(history, t))
  BY <1>2, <1>3, <1>4, AppendSaid DEF SaidInv
<1>6. setting' = setting
  BY DEF Ask
<1> QED BY <1>1, <1>5, <1>6 DEF SaidInv, Said, t

\* An answer of the model.
LEMMA AnswerSaid == PipelineInv /\ SaidInv /\ Answer => SaidInv'
<1> SUFFICES ASSUME PipelineInv, SaidInv, Answer PROVE SaidInv'
  OBVIOUS
<1> DEFINE n == Len(history) + 1
           x == Text("answer", NoBlock, "none")
           f(calls) == [k \in DOMAIN calls |-> Call(calls[k][1], calls[k][2], <<n, k>>)]
           t(calls) == Turn("model", IF calls = <<>> THEN <<x>> ELSE f(calls))
<1>1. PICK calls \in ModelTurns : history' = Append(history, t(calls))
  BY DEF Answer
<1>2. contents' = <<>> /\ setting' = setting
  BY DEF Answer
<1>3. /\ Conversation(history) /\ history \in Seq(Turns) /\ history # <<>>
      /\ IsUser(history[Len(history)])
  BY DEF PipelineInv, Answer, Conversation
<1>4. t(calls) \in Turns
  BY <1>3, AnswerConversation
<1>5. SaidNext(history, t(calls))
  <2>1. CASE calls = <<>>
    <3>1. t(calls) = Turn("model", <<x>>)
      BY <2>1
    <3>2. x.kind = "text" /\ x.at = 0
      BY DEF Text
    <3> HIDE DEF x
    <3> QED BY <3>1, <3>2, TextSays
  <2>2. CASE calls # <<>>
    <3>1. t(calls) = Turn("model", f(calls))
      BY <2>2
    <3>2. \A j \in DOMAIN f(calls) : f(calls)[j].kind = "call"
      BY DEF Call
    <3> HIDE DEF f
    <3> QED BY <3>1, <3>2, CallsSay
  <2> QED BY <2>1, <2>2
<1> HIDE DEF t
<1>6. Said(Append(history, t(calls)))
  BY <1>3, <1>4, <1>5, AppendSaid DEF SaidInv
<1>7. Said(history)' /\ Said(contents)'
  BY <1>1, <1>2, <1>6, NothingSaid DEF Said
<1> QED BY <1>7 DEF SaidInv

\* The gateway's own exchange.
LEMMA RetrievalSaid == PipelineInv /\ SaidInv /\ Retrieval => SaidInv'
<1> SUFFICES ASSUME PipelineInv, SaidInv, Retrieval PROVE SaidInv'
  OBVIOUS
<1> DEFINE n == Len(contents) + 1
           call == Call(Retrieve, Flat("hash"), <<n, 1>>)
           answer == Response(Retrieve, call)
           a == Turn("model", <<call>>)
           b == Turn("user", <<answer>>)
           e == Append(contents, a)
<1>1. /\ contents' = contents \o <<a, b>> /\ setting' = setting /\ history' = history
  BY DEF Retrieval
<1>2. Conversation(contents) /\ contents \in Seq(Turns) /\ Len(contents) \in Nat
  <2>1. Asking(contents)
    BY DEF PipelineInv, Retrieval
  <2> HIDE DEF call, answer, a, b, e
  <2>2. Conversation(contents)
    BY <2>1 DEF Asking
  <2>3. contents \in Seq(Turns)
    BY <2>2 DEF Conversation
  <2> QED BY <2>2, <2>3
<1>3. call.kind = "call" /\ call.key = <<n, 1>> /\ call.name = Retrieve
  BY DEF Call
<1>4. answer.kind = "response" /\ answer.key = call.key /\ answer.name = Retrieve
  BY DEF Response
<1>5. call \in AllParts /\ answer \in AllParts
  <2>1. /\ Retrieve \in Words /\ Flat("hash") \in ArgParts /\ <<>> \in Seq(Forms)
        /\ <<n, 1>> \in Keys
    BY <1>2 DEF Words, ArgParts, Keys
  <2>2. call \in CallParts
    BY <2>1 DEF Call, CallParts
  <2>3. answer \in ResponseParts
    <3>1. call.key \in Keys /\ call.arg \in ArgParts
      BY <2>2 DEF CallParts
    <3> HIDE DEF call
    <3> QED BY <2>1, <3>1 DEF Response, ResponseParts
  <2> QED BY <2>2, <2>3 DEF AllParts
<1> HIDE DEF call, answer
<1>6. /\ DOMAIN <<call>> = {1} /\ <<call>>[1] = call /\ <<call>> \in Seq(AllParts)
      /\ DOMAIN <<answer>> = {1} /\ <<answer>>[1] = answer /\ <<answer>> \in Seq(AllParts)
  BY <1>5
<1>7. a \in Turns /\ b \in Turns /\ a.parts = <<call>> /\ b.parts = <<answer>>
  BY <1>6, TurnOf DEF Roles
<1>8. SaidNext(contents, a)
  <2>1. \A j \in DOMAIN <<call>> : <<call>>[j].kind = "call"
    BY <1>3, <1>6
  <2> QED BY <2>1, CallsSay
<1> HIDE DEF a, b
<1>9. Said(e) /\ e \in Seq(Turns) /\ e[Len(e)] = a
  <2>1. Said(e)
    BY <1>2, <1>7, <1>8, AppendSaid DEF SaidInv
  <2> QED BY <1>2, <1>7, <2>1
<1> HIDE DEF e
<1>10. SaidNext(e, b)
  <2>1. \A j \in DOMAIN b.parts : b.parts[j] = answer
    BY <1>6, <1>7
  <2>2. \A l \in Calls(a) : a.parts[l] = call
    BY <1>6, <1>7 DEF Calls, OfKind
  <2>3. Responses(b) \subseteq DOMAIN b.parts
    BY DEF Responses, OfKind
  <2> QED BY <1>3, <1>4, <1>9, <2>1, <2>2, <2>3 DEF SaidNext
<1>11. Said(Append(e, b))
  BY <1>7, <1>9, <1>10, AppendSaid
<1>12. contents' = Append(e, b)
  BY <1>1, <1>2, <1>7 DEF e
<1> HIDE DEF n
<1>13. Said(history)' /\ Said(contents)'
  BY <1>1, <1>11, <1>12 DEF SaidInv, Said
<1> QED BY <1>13 DEF SaidInv

\* Every step.
LEMMA NextSaid == PipelineInv /\ SaidInv /\ [Next]_vars => SaidInv'
<1> SUFFICES ASSUME PipelineInv, SaidInv, [Next]_vars PROVE SaidInv'
  OBVIOUS
<1>1. ASSUME setting' = setting, history' = history, contents' = contents
      PROVE  SaidInv'
  BY <1>1 DEF SaidInv, Said
<1>2. CASE Ask
  BY <1>2, AskSaid
<1>3. CASE Attempt
  <2>1. /\ contents' = Nudged(contents) /\ setting' = setting /\ history' = history
    BY <1>3 DEF Attempt, Nudged
  <2>2. contents \in Seq(Turns) /\ contents # <<>>
    BY <1>3 DEF PipelineInv, Attempt, Asking, Conversation
  <2>3. Said(Nudged(contents))
    BY <2>2, NudgeSaid DEF Nudged, SaidInv
  <2> QED BY <2>1, <2>3 DEF SaidInv, Said
<1>4. CASE AttemptFails
  BY <1>1, <1>4 DEF AttemptFails
<1>5. CASE Retrieval
  BY <1>5, RetrievalSaid
<1>6. CASE Answer
  BY <1>6, AnswerSaid
<1>7. CASE UNCHANGED vars
  BY <1>1, <1>7 DEF vars, request
<1> QED BY <1>2, <1>3, <1>4, <1>5, <1>6, <1>7 DEF Next, Over

-------------------------------------------------------------------------------
(* What is sent can be read. *)

\* The prompt is what the pipeline makes of the contents.
LEMMA SentIs ==
    ASSUME PipelineInv, RetryInv, Sent
    PROVE  /\ prompt = Finished(Shaped(contents))
           /\ DOMAIN prompt = 1..Len(prompt)
           /\ Talk(contents) /\ Conversation(contents)
           /\ setting.ids => NamesApart(contents)
           /\ setting.knobs \in Knobs /\ setting.ids \in BOOLEAN
           /\ setting.gemini \in BOOLEAN /\ setting.disk \in BOOLEAN
<1>1. setting \in Settings /\ Asking(contents) /\ pc # "client"
  BY DEF PipelineInv, TypeOK, Sent
<1>2. prompt # <<>>
  BY DEF PipelineInv, Exchanges, RolesAlternate
<1>3. prompt = Finished(Shaped(contents))
  BY <1>1, <1>2 DEF RetryInv
<1>4. DOMAIN prompt = 1..Len(prompt)
  BY <1>1, <1>3, AttemptSends
<1>5. /\ Conversation(contents) /\ contents # <<>> /\ IsUser(contents[Len(contents)])
      /\ setting.ids => NamesApart(contents)
  BY <1>1 DEF Asking
<1>6. Talk(contents)
  BY <1>5 DEF Conversation, Talk
<1>7. /\ setting.knobs \in Knobs /\ setting.ids \in BOOLEAN
      /\ setting.gemini \in BOOLEAN /\ setting.disk \in BOOLEAN
  BY <1>1, SettingFacts
<1> QED BY <1>3, <1>4, <1>5, <1>6, <1>7

\* The properties' operators are those of the lemmas, of the prompt.
LEMMA BlockStandsIs ==
    ASSUME NEW i, NEW block
    PROVE  BlockStandsAt(i, block) <=> BlockIn(prompt, i, block)
  BY Zenon DEF BlockStandsAt, BlockIn, PartsAt

\* So a part stands in the prompt,
LEMMA StandsIs ==
    ASSUME NEW i, NEW part
    PROVE  StandsAt(i, part) <=> StandsIn(prompt, i, part)
<1>1. \A q : BlockStandsAt(q.at, part.block) <=> BlockIn(prompt, q.at, part.block)
  BY BlockStandsIs
<1> QED BY <1>1, Zenon DEF StandsAt, StandsIn, PartsAt

\* and a pointer leads to it.
LEMMA ResolvesIs ==
    ASSUME NEW i, NEW q
    PROVE  Resolves(i, q) <=> ResolvesIn(prompt, i, q)
<1>1. StandsAt(q.to, q.text) <=> StandsIn(prompt, q.to, q.text)
  BY StandsIs
<1> QED BY <1>1, Zenon DEF Resolves, ResolvesIn

\* BackReferencesResolve.
LEMMA SentRefers ==
    PipelineInv /\ RetryInv /\ SaidInv => BackReferencesResolve
<1> SUFFICES ASSUME PipelineInv, RetryInv, SaidInv, Sent,
                    NEW i \in DOMAIN prompt, NEW q \in PartsAt(i)
             PROVE  /\ q.kind = "pointer" => Resolves(i, q)
                    /\ q.kind = "text" /\ q.at # 0 => BlockStandsAt(q.at, q.block)
  BY DEF BackReferencesResolve
<1> DEFINE s == Shaped(contents)
<1>1. /\ prompt = Finished(s)
      /\ DOMAIN prompt = 1..Len(prompt)
      /\ Talk(contents) /\ Conversation(contents)
      /\ setting.knobs \in Knobs /\ setting.ids \in BOOLEAN
      /\ setting.gemini \in BOOLEAN /\ setting.disk \in BOOLEAN
  BY SentIs
<1>2. Talk(s)
  BY <1>1, ShapedTalk
<1>3. Clean(s)
  <2>1. PICK u, p, on : Stages(contents, u, p, s, on)
    BY <1>1, ShapedStages
  <2>2. Raw(contents)
    BY DEF SaidInv, Said
  <2> HIDE DEF s
  <2> QED BY <2>1, <2>2, StagesClean
<1> HIDE DEF s
<1>4. \A x \in 1..Len(prompt) : RefersIn(prompt, x)
  BY <1>1, <1>2, <1>3, FinishedRefers
<1>5. RefersIn(prompt, i)
  BY <1>1, <1>4
<1>6. /\ q.kind = "pointer" => ResolvesIn(prompt, i, q)
      /\ q.kind = "text" /\ q.at # 0 => BlockIn(prompt, q.at, q.block)
  BY <1>5 DEF RefersIn, PartsAt
<1> QED BY <1>6, ResolvesIs, BlockStandsIs

\* LatestTurnReadable, where it is promised.
LEMMA SentReadable ==
    ASSUME PipelineInv, RetryInv, SaidInv, setting.ids \/ ~ReadTwice, KeepsWarm
    PROVE  LatestTurnReadable
<1> DEFINE c == contents
           n == Len(prompt)
           said == ToSet(Last(contents).parts)
           Readable(part) ==
              \/ StandsAt(n, part)
              \/ \E q \in PartsAt(n) : q.kind = "pointer" /\ q.text = part /\ Resolves(n, q)
<1> SUFFICES ASSUME Sent, NEW x \in said
             PROVE  \/ Readable(x)
                    \/ \E y \in said : AnsweredAgain(x, y) /\ Readable(y)
  BY DEF LatestTurnReadable
<1>1. /\ prompt = Finished(Shaped(contents))
      /\ Talk(contents) /\ Conversation(contents)
      /\ setting.ids => NamesApart(contents)
      /\ setting.knobs \in Knobs /\ setting.ids \in BOOLEAN
      /\ setting.gemini \in BOOLEAN /\ setting.disk \in BOOLEAN
  BY SentIs
<1>2. Raw(contents) /\ (~setting.ids => NamesTheirs(contents))
  BY DEF SaidInv, Said
<1>3. said = ToSet(contents[Len(contents)].parts)
  BY DEF Last
<1>4. LastCalls = CallsBefore(contents)
  BY Zenon DEF LastCalls, CallsBefore
<1>5. setting.ids \/ ~TwiceIn(contents)
  BY <1>4 DEF ReadTwice, TwiceIn
<1>6. \A y : AnsweredAgain(x, y) <=> AgainIn(contents, x, y)
  BY <1>4 DEF AnsweredAgain, AgainIn
<1>7. \A y : Readable(y) <=> ReadableIn(prompt, Len(prompt), y)
  <2> SUFFICES ASSUME NEW y PROVE Readable(y) <=> ReadableIn(prompt, n, y)
    OBVIOUS
  <2>1. StandsAt(n, y) <=> StandsIn(prompt, n, y)
    BY StandsIs
  <2>2. \A q : Resolves(n, q) <=> ResolvesIn(prompt, n, q)
    BY ResolvesIs
  <2> HIDE DEF n
  <2> QED BY <2>1, <2>2, Zenon DEF ReadableIn, PartsAt
<1> HIDE DEF Readable, said, n
<1>8. x \in ToSet(contents[Len(contents)].parts)
  BY <1>3
<1>9. LET d == Finished(Shaped(contents))
      IN \/ ReadableIn(d, Len(d), x)
         \/ \E y \in ToSet(contents[Len(contents)].parts) :
               AgainIn(contents, x, y) /\ ReadableIn(d, Len(d), y)
  BY <1>1, <1>2, <1>5, <1>8, LatestReaches
<1>10. \/ ReadableIn(prompt, Len(prompt), x)
       \/ \E y \in said : AgainIn(contents, x, y) /\ ReadableIn(prompt, Len(prompt), y)
  BY <1>1, <1>3, <1>9
<1> QED BY <1>6, <1>7, <1>10

\* The reads of a conversation that were answered.
LEMMA ReadsAre ==
    ASSUME NEW c, NEW a
    PROVE  a \in ReadsOf(c) <=>
             \E i \in DOMAIN c : \E j \in Calls(c[i]) :
                /\ a = <<i, j>> /\ c[i].parts[j].name \in ReadOnlyTools
                /\ WasAnswered(c[i].parts[j])
<1> DEFINE Those(i) == {k \in OfKind(c[i], "call") : /\ c[i].parts[k].name \in ReadOnlyTools
                                                     /\ WasAnswered(c[i].parts[k])}
           PairsOf(i) == {<<i, j>> : j \in Those(i)}
<1>1. ReadsOf(c) = UNION {PairsOf(i) : i \in DOMAIN c}
  BY DEF ReadsOf
<1>2. \A i : \A j : j \in Those(i) <=> /\ j \in Calls(c[i]) /\ c[i].parts[j].name \in ReadOnlyTools
                                      /\ WasAnswered(c[i].parts[j])
  BY DEF Calls
<1> HIDE DEF Those
<1>3. \A i : a \in PairsOf(i) <=> \E j \in Those(i) : a = <<i, j>>
  OBVIOUS
<1> HIDE DEF PairsOf
<1>4. a \in ReadsOf(c) <=> \E i \in DOMAIN c : a \in PairsOf(i)
  BY <1>1
<1> QED BY <1>2, <1>3, <1>4, Zenon

\* A call that was answered was answered in the next turn.
LEMMA AnsweredNext ==
    ASSUME Conversation(contents), NEW i \in DOMAIN contents, NEW j \in Calls(contents[i]),
           WasAnswered(contents[i].parts[j])
    PROVE  /\ i \in 1..(Len(contents) - 1)
           /\ \E l \in Responses(contents[i + 1]) :
                 contents[i + 1].parts[l].key = contents[i].parts[j].key
<1> DEFINE c == contents
<1>1. c \in Seq(Turns) /\ Len(c) \in Nat /\ DOMAIN c = 1..Len(c)
  BY DEF Conversation
<1>2. c[i].parts[j].key = <<i, j>>
  BY DEF Conversation
<1>3. PICK k \in DOMAIN c : \E p \in ToSet(c[k].parts) :
         p.kind = "response" /\ p.key = c[i].parts[j].key
  BY DEF WasAnswered
<1>4. PICK l \in DOMAIN c[k].parts :
         c[k].parts[l].kind = "response" /\ c[k].parts[l].key = <<i, j>>
  BY <1>2, <1>3 DEF ToSet
<1>5. l \in Responses(c[k])
  BY <1>4 DEF Responses, OfKind
<1>6. k > 1 /\ \E h \in Calls(c[k - 1]) : c[k].parts[l].key = <<k - 1, h>>
  BY <1>5 DEF Conversation
<1>7. k - 1 = i
  BY <1>4, <1>6
<1>8. k = i + 1 /\ i \in 1..(Len(c) - 1)
  BY <1>1, <1>7
<1> QED BY <1>2, <1>4, <1>5, <1>8

\* NewestRead, with IDs.
LEMMA SentNewest ==
    ASSUME PipelineInv, RetryInv, setting.ids
    PROVE  NewestRead
<1> DEFINE c == contents
<1> SUFFICES ASSUME Sent, setting.knobs.budget = 0, NEW a \in ReadsOf(c), IsNewestRead(a),
                    NEW kind \in {"call", "response"}
             PROVE  \E x \in DOMAIN prompt : \E p \in PartsAt(x) :
                       p.kind = kind /\ p.key = c[a[1]].parts[a[2]].key
  BY DEF NewestRead
<1>1. /\ prompt = Finished(Shaped(c)) /\ DOMAIN prompt = 1..Len(prompt)
      /\ Talk(c) /\ Conversation(c) /\ NamesApart(c)
      /\ setting.knobs \in Knobs /\ setting.ids = TRUE
      /\ setting.gemini \in BOOLEAN /\ setting.disk \in BOOLEAN
  BY SentIs
<1>2. PICK i \in DOMAIN c : \E j \in Calls(c[i]) :
         /\ a = <<i, j>> /\ c[i].parts[j].name \in ReadOnlyTools /\ WasAnswered(c[i].parts[j])
  BY ReadsAre
<1>3. PICK j \in Calls(c[i]) :
         /\ a = <<i, j>> /\ c[i].parts[j].name \in ReadOnlyTools /\ WasAnswered(c[i].parts[j])
  BY <1>2
<1>4. i \in 1..(Len(c) - 1)
  BY <1>1, <1>3, AnsweredNext
<1>5. PICK l \in Responses(c[i + 1]) : c[i + 1].parts[l].key = c[i].parts[j].key
  BY <1>1, <1>3, AnsweredNext
<1>6. ASSUME NEW k \in i..(Len(c) - 1), NEW q \in Calls(c[k]), NEW r \in Responses(c[k + 1]),
             c[k + 1].parts[r].key = c[k].parts[q].key,
             SameCall(c[k].parts[q], c[i].parts[j])
      PROVE  ~Before(<<i, j>>, <<k, q>>)
  <2> DEFINE b == <<k, q>>
  <2>1. k \in DOMAIN c /\ k + 1 \in DOMAIN c
    <3>1. c \in Seq(Turns)
      BY <1>1 DEF Conversation
    <3> QED BY <3>1, <1>4
  <2>2. c[k].parts[q].name = c[i].parts[j].name
    BY <1>6 DEF SameCall
  <2>3. WasAnswered(c[k].parts[q])
    <3>1. c[k + 1].parts[r] \in ToSet(c[k + 1].parts) /\ c[k + 1].parts[r].kind = "response"
      BY DEF Responses, OfKind, ToSet
    <3> QED BY <1>6, <2>1, <3>1 DEF WasAnswered
  <2>4. b \in ReadsOf(c)
    BY <1>3, <2>1, <2>2, <2>3, ReadsAre
  <2>5. ~(Before(a, b) /\ SameCall(c[b[1]].parts[b[2]], c[a[1]].parts[a[2]]))
    BY <2>4 DEF IsNewestRead
  <2> QED BY <1>3, <1>6, <2>5
<1>7. Newest(c, i, j, l)
  BY <1>5, <1>6 DEF Newest
<1>8. LET d == Finished(Shaped(c))
          key == c[i].parts[j].key
      IN \A h \in {"call", "response"} : \E x \in 1..Len(d) : HasKey(d[x], h, key)
  <2> HIDE DEF c
  <2> QED BY <1>1, <1>4, <1>7, NewestReaches
<1>9. PICK x \in DOMAIN prompt : HasKey(prompt[x], kind, c[i].parts[j].key)
  BY <1>1, <1>8
<1>10. c[a[1]].parts[a[2]].key = c[i].parts[j].key
  BY <1>3
<1> QED BY <1>9, <1>10 DEF HasKey, PartsAt

\* All three.
LEMMA SentContent == PipelineInv /\ RetryInv /\ SaidInv => ContentReadable
  BY SentRefers, SentReadable, SentNewest DEF ContentReadable

\* ContentReadable: whatever the stages shorten, point back for, prune, cut and
\* align, the prompt holds what its placeholders point to, what was just said and,
\* where calls have IDs, the newest answer under each key of arguments.
THEOREM ContentSent == Spec => []ContentReadable
<1>1. Init => PipelineInv /\ RetryInv /\ SaidInv
  BY InitInv, InitRetry, InitSaid
<1>2. PipelineInv /\ RetryInv /\ SaidInv /\ [Next]_vars => (PipelineInv /\ RetryInv /\ SaidInv)'
  BY NextInv, NextRetry, NextSaid
<1>3. PipelineInv /\ RetryInv /\ SaidInv => ContentReadable
  BY SentContent
<1> QED BY <1>1, <1>2, <1>3, PTL DEF Spec
===============================================================================
