---------------------------- MODULE TagsCacheProofs ----------------------------
(***************************************************************************)
(* Proofs about TagsCache for every set of clients and publishers and any  *)
(* two freshness windows.                                                  *)
(***************************************************************************)
EXTENDS TagsCache, TLAPS

\* While the memory entry is fresh its list is older by less than the window on
\* disk: it was that much younger when it was seeded, and both age together.
MemInv ==
    mem # None /\ mem.age < MemTTL => mem.old < DiskTTL + mem.age

\* What a process works on: a list from disk within its window, or a new one; an
\* answer within both windows.
ListInv ==
    \A p \in Procs :
        /\ pc[p] = "seeding" => old[p] < DiskTTL
        /\ pc[p] \in {"discovering", "storing", "writing"} => old[p] = 0
        /\ pc[p] = "answered" => old[p] < Cap

\* A client's own discovery keeps the memory entry at most as old as itself,
\* whoever replaced it since; so a client that misses it has not discovered
\* anything within the window.
BurstInv ==
    \A p \in Pollers :
        /\ sinceOwn[p] < MemTTL => mem # None /\ mem.age <= sinceOwn[p]
        /\ pc[p] \in {"reading", "discovering"} => sinceOwn[p] = MemTTL

IInv == TypeOK /\ MemInv /\ ListInv /\ BurstInv

-------------------------------------------------------------------------------
\* A client is a process, and the windows are numbers.
LEMMA Basics == /\ Pollers \subseteq Procs
                /\ MemTTL \in Nat /\ DiskTTL \in Nat /\ Cap \in Nat
                /\ MemTTL > 0 /\ DiskTTL > 0 /\ Cap = MemTTL + DiskTTL
                /\ None \notin MemEntry /\ None \notin DiskEntry
                /\ MaxHangUps \in Nat /\ MaxRestarts \in Nat
  BY TagsAssumption DEF Procs, Cap

\* Growing older up to a limit.
LEMMA OlderType ==
    ASSUME NEW limit \in Nat, NEW n \in 0..limit
    PROVE  Older(n, limit) \in 0..limit /\ Older(n, limit) <= n + 1
           /\ (n < limit => Older(n, limit) = n + 1)
  BY DEF Older

\* The memory entry, when there is one.
LEMMA MemType ==
    TypeOK /\ mem # None =>
        mem.age \in 0..MemTTL /\ mem.old \in 0..Cap /\ mem.list \in SUBSET Publishers
  BY DEF TypeOK, MemEntry, Ages

\* At the start no client has discovered anything, and the memory is empty.
LEMMA InitInv == Init => IInv
<1> SUFFICES ASSUME Init PROVE IInv
  OBVIOUS
<1> USE Basics, TagsAssumption DEF Init
<1>1. TypeOK
  <2>1. disk \in DiskEntry \union {None}
    BY DEF DiskEntry, Ages
  <2> QED BY <2>1 DEF TypeOK, Ages
<1>2. MemInv /\ ListInv /\ BurstInv
  BY DEF MemInv, ListInv, BurstInv
<1> QED BY <1>1, <1>2 DEF IInv

-------------------------------------------------------------------------------
\* Every step keeps every variable in its type.
LEMMA StepTypeOK == TypeOK /\ [Next]_vars => TypeOK'
<1> SUFFICES ASSUME TypeOK, [Next]_vars PROVE TypeOK'
  OBVIOUS
<1> USE Basics DEF TypeOK, locals, budgets
<1>1. ASSUME NEW p \in Pollers, MemoryHit(p) PROVE TypeOK'
  <2>1. mem.list \in SUBSET Publishers /\ mem.old \in Ages
    BY <1>1, MemType DEF MemoryHit, MemFresh, Ages
  <2>2. /\ list' \in [Procs -> SUBSET Publishers]
        /\ old' \in [Procs -> Ages]
    BY <1>1, <2>1 DEF MemoryHit
  <2>3. pc' \in [Procs -> {"idle", "reading", "seeding", "discovering",
                           "storing", "writing", "answered"}]
    BY <1>1 DEF MemoryHit
  <2>4. UNCHANGED <<up, mem, disk, todo, canceled, sinceOwn, hangUps, restarts>>
    BY <1>1 DEF MemoryHit
  <2> QED BY <2>2, <2>3, <2>4
<1>2. ASSUME NEW p \in Pollers, MemoryMiss(p) \/ HangUp(p) PROVE TypeOK'
  <2>1. CASE MemoryMiss(p)
    BY <2>1 DEF MemoryMiss
  <2>2. CASE HangUp(p)
    BY <2>2 DEF HangUp
  <2> QED BY <1>2, <2>1, <2>2
<1>3. ASSUME NEW p \in Procs, DiskHit(p) PROVE TypeOK'
  BY <1>3 DEF DiskHit, DiskUsable, DiskEntry
<1>4. ASSUME NEW p \in Procs, DiskMiss(p) PROVE TypeOK'
  BY <1>4 DEF DiskMiss, Ages
<1>5. ASSUME NEW p \in Procs, NEW q \in Publishers, Gather(p, q) PROVE TypeOK'
  <2>1. list' \in [Procs -> SUBSET Publishers]
    BY <1>5 DEF Gather
  <2>2. todo' \in [Procs -> SUBSET Publishers]
    BY <1>5 DEF Gather
  <2>3. pc' \in [Procs -> {"idle", "reading", "seeding", "discovering",
                           "storing", "writing", "answered"}]
    BY <1>5 DEF Gather
  <2> QED BY <1>5, <2>1, <2>2, <2>3 DEF Gather
<1>6. ASSUME NEW p \in Procs, Seed(p) PROVE TypeOK'
  <2>1. [list |-> list[p], age |-> 0, old |-> old[p]] \in MemEntry
    BY DEF MemEntry
  <2> QED BY <1>6, <2>1 DEF Seed
<1>7. ASSUME NEW p \in Procs, Store(p) PROVE TypeOK'
  <2>1. [list |-> list[p], age |-> 0, old |-> 0] \in MemEntry
    BY DEF MemEntry, Ages
  <2> QED BY <1>7, <2>1 DEF Store
<1>8. ASSUME NEW p \in Procs, WriteDisk(p) PROVE TypeOK'
  <2>1. [list |-> list[p], age |-> 0] \in DiskEntry
    BY DEF DiskEntry, Ages
  <2> QED BY <1>8, <2>1 DEF WriteDisk
<1>9. ASSUME NEW p \in Procs, Finish(p) PROVE TypeOK'
  BY <1>9 DEF Finish, Ages
<1>10. CASE Restart
  BY <1>10 DEF Restart, Ages
<1>11. ASSUME NEW q \in Publishers, PublisherChanges(q) PROVE TypeOK'
  BY <1>11 DEF PublisherChanges
<1>12. CASE Tick
  <2>1. ASSUME mem # None
        PROVE  [mem EXCEPT !.age = Older(@, MemTTL), !.old = Older(@, Cap)] \in MemEntry
    BY <2>1, MemType, OlderType DEF MemEntry, Ages
  <2>2. ASSUME disk # None PROVE [disk EXCEPT !.age = Older(@, Cap)] \in DiskEntry
    BY <2>2, OlderType DEF DiskEntry, Ages
  <2>3. sinceOwn' \in [Pollers -> 0..MemTTL]
    BY <1>12, OlderType DEF Tick
  <2>4. mem' \in MemEntry \union {None} /\ disk' \in DiskEntry \union {None}
    BY <1>12, <2>1, <2>2 DEF Tick
  <2> QED BY <1>12, <2>3, <2>4 DEF Tick
<1>13. CASE UNCHANGED vars
  BY <1>13 DEF vars
<1> QED
  BY <1>1, <1>2, <1>3, <1>4, <1>5, <1>6, <1>7, <1>8, <1>9, <1>10, <1>11, <1>12, <1>13
  DEF Next, Poll, Work

\* Only seeding, storing, time and a restart touch the memory entry.
LEMMA MemKept ==
    [Next]_vars /\ ~Tick /\ ~Restart /\ (\A p \in Procs : ~Seed(p) /\ ~Store(p)) =>
        UNCHANGED <<mem, sinceOwn>>
<1> SUFFICES ASSUME [Next]_vars, ~Tick, ~Restart, \A p \in Procs : ~Seed(p) /\ ~Store(p)
             PROVE  UNCHANGED <<mem, sinceOwn>>
  OBVIOUS
<1> USE DEF locals, budgets
<1>1. ASSUME NEW p \in Pollers, Poll(p) \/ HangUp(p) PROVE UNCHANGED <<mem, sinceOwn>>
  BY <1>1 DEF Poll, MemoryHit, MemoryMiss, HangUp
<1>2. ASSUME NEW p \in Procs, DiskHit(p) \/ DiskMiss(p) \/ WriteDisk(p) \/ Finish(p)
      PROVE  UNCHANGED <<mem, sinceOwn>>
  BY <1>2 DEF DiskHit, DiskMiss, WriteDisk, Finish
<1>3. ASSUME NEW p \in Procs, NEW q \in Publishers, Gather(p, q)
      PROVE  UNCHANGED <<mem, sinceOwn>>
  BY <1>3 DEF Gather
<1>4. ASSUME NEW q \in Publishers, PublisherChanges(q) PROVE UNCHANGED <<mem, sinceOwn>>
  BY <1>4 DEF PublisherChanges
<1>5. ASSUME UNCHANGED vars PROVE UNCHANGED <<mem, sinceOwn>>
  BY <1>5 DEF vars
<1> QED BY <1>1, <1>2, <1>3, <1>4, <1>5 DEF Next, Work

\* The entry in memory.
LEMMA StepMem == TypeOK /\ MemInv /\ ListInv /\ [Next]_vars => MemInv'
<1> SUFFICES ASSUME TypeOK, MemInv, ListInv, [Next]_vars PROVE MemInv'
  OBVIOUS
<1> USE Basics
<1>1. ASSUME NEW p \in Procs, Seed(p) PROVE MemInv'
  <2>1. old[p] \in Nat /\ old[p] < DiskTTL
    BY <1>1 DEF Seed, ListInv, TypeOK, Ages
  <2>2. mem'.age = 0 /\ mem'.old = old[p]
    BY <1>1 DEF Seed
  <2> QED BY <2>1, <2>2 DEF MemInv
<1>2. ASSUME NEW p \in Procs, Store(p) PROVE MemInv'
  BY <1>2 DEF Store, MemInv
<1>3. CASE Tick
  <2>1. SUFFICES ASSUME mem' # None, mem'.age < MemTTL
                 PROVE  mem'.old < DiskTTL + mem'.age
    BY DEF MemInv
  <2>2. mem # None
    BY <1>3, <2>1 DEF Tick
  <2>3. mem \in MemEntry
    BY <2>2 DEF TypeOK
  <2>4. /\ mem' = [mem EXCEPT !.age = Older(@, MemTTL), !.old = Older(@, Cap)]
    BY <1>3, <2>2 DEF Tick
  <2>5. mem'.age = Older(mem.age, MemTTL) /\ mem'.old = Older(mem.old, Cap)
    BY <2>3, <2>4 DEF MemEntry
  <2>6. mem.age \in 0..MemTTL /\ mem.old \in 0..Cap
    BY <2>2, MemType
  <2>7. mem.age < MemTTL /\ mem'.age = mem.age + 1 /\ mem'.old <= mem.old + 1
        /\ mem'.old \in Nat
    BY <2>1, <2>5, <2>6 DEF Older
  <2> QED BY <2>2, <2>6, <2>7 DEF MemInv
<1>4. CASE Restart
  BY <1>4 DEF Restart, MemInv
<1>5. CASE ~Tick /\ ~Restart /\ \A p \in Procs : ~Seed(p) /\ ~Store(p)
  BY <1>5, MemKept DEF MemInv
<1> QED BY <1>1, <1>2, <1>3, <1>4, <1>5

\* The lists the processes hold.
LEMMA StepList == TypeOK /\ MemInv /\ ListInv /\ [Next]_vars => ListInv'
<1> SUFFICES ASSUME TypeOK, MemInv, ListInv, [Next]_vars PROVE ListInv'
  OBVIOUS
<1> USE Basics DEF TypeOK, ListInv, Ages, locals, budgets
<1>1. ASSUME NEW p \in Pollers, MemoryHit(p) PROVE ListInv'
  <2>1. mem.old \in Nat /\ mem.old < Cap
    BY <1>1, MemType DEF MemoryHit, MemFresh, MemInv
  <2> QED BY <1>1, <2>1 DEF MemoryHit
<1>2. ASSUME NEW p \in Pollers, MemoryMiss(p) \/ HangUp(p) PROVE ListInv'
  BY <1>2 DEF MemoryMiss, HangUp
<1>3. ASSUME NEW p \in Procs, DiskHit(p) \/ DiskMiss(p) PROVE ListInv'
  BY <1>3 DEF DiskHit, DiskMiss, DiskUsable
<1>4. ASSUME NEW p \in Procs, NEW q \in Publishers, Gather(p, q) PROVE ListInv'
  BY <1>4 DEF Gather
<1>5. ASSUME NEW p \in Procs, Seed(p) \/ Store(p) \/ WriteDisk(p) \/ Finish(p)
      PROVE  ListInv'
  BY <1>5 DEF Seed, Store, WriteDisk, Finish
<1>6. ASSUME \/ Restart \/ Tick \/ UNCHANGED vars
             \/ \E q \in Publishers : PublisherChanges(q)
      PROVE  ListInv'
  BY <1>6 DEF Restart, Tick, vars, PublisherChanges
<1> QED BY <1>1, <1>2, <1>3, <1>4, <1>5, <1>6 DEF Next, Poll, Work

\* The clients' own discoveries, and those they are about to make.
LEMMA StepBurst == TypeOK /\ BurstInv /\ [Next]_vars => BurstInv'
<1> SUFFICES ASSUME TypeOK, BurstInv, [Next]_vars PROVE BurstInv'
  OBVIOUS
<1> USE Basics DEF TypeOK, BurstInv, locals, budgets
<1>1. ASSUME NEW p \in Pollers, MemoryMiss(p) PROVE BurstInv'
  <2>1. sinceOwn[p] = MemTTL
    BY <1>1, MemType DEF MemoryMiss, MemFresh
  <2> QED BY <1>1, <2>1 DEF MemoryMiss
<1>2. ASSUME NEW p \in Pollers, MemoryHit(p) \/ HangUp(p) PROVE BurstInv'
  BY <1>2 DEF MemoryHit, HangUp
<1>3. ASSUME NEW p \in Procs, DiskHit(p) \/ DiskMiss(p) \/ WriteDisk(p) \/ Finish(p)
      PROVE  BurstInv'
  BY <1>3 DEF DiskHit, DiskMiss, WriteDisk, Finish
<1>4. ASSUME NEW p \in Procs, NEW q \in Publishers, Gather(p, q) PROVE BurstInv'
  BY <1>4 DEF Gather
<1>5. ASSUME NEW p \in Procs, Seed(p) PROVE BurstInv'
  <2>1. mem' \in MemEntry /\ mem'.age = 0
    BY <1>5 DEF Seed, MemEntry
  <2>2. UNCHANGED sinceOwn /\ pc' = [pc EXCEPT ![p] = "answered"]
    BY <1>5 DEF Seed
  <2> QED BY <2>1, <2>2
<1>6. ASSUME NEW p \in Procs, Store(p) PROVE BurstInv'
  <2>1. mem' \in MemEntry /\ mem'.age = 0
    BY <1>6 DEF Store, MemEntry, Ages
  <2>2. /\ sinceOwn' = [q \in Pollers |-> IF q = p THEN 0 ELSE sinceOwn[q]]
        /\ pc' = [pc EXCEPT ![p] = "writing"]
    BY <1>6 DEF Store
  <2> QED BY <2>1, <2>2
<1>7. CASE Tick
  <2> SUFFICES ASSUME NEW p \in Pollers
               PROVE  /\ sinceOwn'[p] < MemTTL => mem' # None /\ mem'.age <= sinceOwn'[p]
                      /\ pc'[p] \in {"reading", "discovering"} => sinceOwn'[p] = MemTTL
    BY DEF BurstInv
  <2>1. sinceOwn'[p] = Older(sinceOwn[p], MemTTL) /\ sinceOwn[p] \in 0..MemTTL
        /\ UNCHANGED pc
    BY <1>7 DEF Tick
  <2>2. ASSUME sinceOwn'[p] < MemTTL
        PROVE  mem' # None /\ mem'.age <= sinceOwn'[p]
    <3>1. sinceOwn[p] < MemTTL /\ sinceOwn'[p] = sinceOwn[p] + 1
      BY <2>1, <2>2 DEF Older
    <3>2. mem # None /\ mem.age <= sinceOwn[p] /\ mem \in MemEntry
      BY <3>1
    <3>3. mem' = [mem EXCEPT !.age = Older(@, MemTTL), !.old = Older(@, Cap)]
      BY <1>7, <3>2 DEF Tick
    <3>4. mem'.age = Older(mem.age, MemTTL) /\ mem.age \in 0..MemTTL
      BY <3>2, <3>3 DEF MemEntry
    <3>5. mem' \in MemEntry
      BY <3>2, <3>3, MemType, OlderType DEF MemEntry, Ages
    <3> QED BY <3>1, <3>2, <3>4, <3>5, <2>1 DEF Older
  <2>3. ASSUME pc'[p] \in {"reading", "discovering"} PROVE sinceOwn'[p] = MemTTL
    BY <2>1, <2>3 DEF Older
  <2> QED BY <2>2, <2>3
<1>8. CASE Restart
  BY <1>8, TagsAssumption DEF Restart
<1>9. ASSUME NEW q \in Publishers, PublisherChanges(q) PROVE BurstInv'
  BY <1>9 DEF PublisherChanges
<1>10. CASE UNCHANGED vars
  BY <1>10 DEF vars
<1> QED BY <1>1, <1>2, <1>3, <1>4, <1>5, <1>6, <1>7, <1>8, <1>9, <1>10
        DEF Next, Poll, Work

-------------------------------------------------------------------------------
\* The inductive invariant of the two copies and the processes that fill them.
THEOREM Invariance == Spec => []IInv
<1>1. Init => IInv
  BY InitInv
<1>2. IInv /\ [Next]_vars => IInv'
  BY StepTypeOK, StepMem, StepList, StepBurst DEF IInv
<1> QED BY <1>1, <1>2, PTL DEF Spec

\* Every variable keeps its type, whatever the windows and the publishers.
THEOREM TypeCorrect == Spec => []TypeOK
<1>1. IInv => TypeOK
  BY DEF IInv
<1> QED BY <1>1, Invariance, PTL

\* No poll of ListModelsCached is answered with a list older than the two windows
\* laid end to end, though seeding restarts one of them.
THEOREM NeverStaler == Spec => []StalenessBounded
<1>1. IInv => StalenessBounded
  BY Basics DEF IInv, ListInv, StalenessBounded
<1> QED BY <1>1, Invariance, PTL

\* A client that went upstream does not go upstream again within the memory
\* window, whatever the other clients store or seed meanwhile.
THEOREM OneBurst == Spec => []OneBurstPerWindow
<1>1. IInv => OneBurstPerWindow
  BY DEF IInv, BurstInv, OneBurstPerWindow
<1> QED BY <1>1, Invariance, PTL
===============================================================================
