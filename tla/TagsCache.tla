------------------------------- MODULE TagsCache -------------------------------
(***************************************************************************)
(* The model list of /api/tags and /v1/models: a memory entry and a copy   *)
(* on disk in front of the discovery fan-out (ListModelsCached, WarmModels *)
(* of pkg/provider/tags_cache.go, ListModels of discovery.go).  Polls, the *)
(* startup warm-up, hang-ups, restarts and publisher outages interleave    *)
(* between the critical sections of the mutex, which are single steps.     *)
(*                                                                         *)
(* A list is the set of publishers whose models it holds.  ListModels      *)
(* never returns an error: a publisher that fails is left out of the list. *)
(* Time is kept as ages, so that it need not be bounded.  The steps of a   *)
(* process that only touch memory or disk are urgent: Tick waits for them. *)
(***************************************************************************)
EXTENDS Naturals

CONSTANTS
    Pollers,          \* clients that poll the list
    Publishers,       \* supportedPublishers
    Warm,             \* the goroutine that runs WarmModels
    None,             \* no entry
    MemTTL,           \* GW_TAGS_CACHE_TTL_SEC; 0 would disable the cache
    DiskTTL,          \* GW_CACHE_TTL_SEC
    MaxHangUps,       \* bound: polls whose client hangs up
    MaxRestarts       \* bound: process restarts

Procs == Pollers \union {Warm}
Cap == MemTTL + DiskTTL
Ages == 0..Cap
MemEntry == [list : SUBSET Publishers, age : 0..MemTTL, old : Ages]
DiskEntry == [list : SUBSET Publishers, age : Ages]

ASSUME TagsAssumption ==
    /\ MemTTL \in Nat \ {0}
    /\ DiskTTL \in Nat \ {0}
    /\ Warm \notin Pollers
    /\ None \notin MemEntry
    /\ None \notin DiskEntry
    /\ {MaxHangUps, MaxRestarts} \subseteq Nat

VARIABLES
    up,            \* publishers that answer a lookup
    mem,           \* tagsCache.entry: age since at, old since its discovery
    disk,          \* models.json: age since written_at
    pc,            \* where each process stands
    todo,          \* lookups of a fan-out that have not reported yet
    list,          \* the list a process works on
    old,           \* its age when it came from disk
    canceled,      \* the client has hung up
    sinceOwn,      \* history: age of the client's last discovery
    hangUps, restarts

locals == <<pc, todo, list, old, canceled, sinceOwn>>
budgets == <<hangUps, restarts>>
vars == <<up, mem, disk, locals, budgets>>

TypeOK ==
    /\ up \in SUBSET Publishers
    /\ mem \in MemEntry \union {None}
    /\ disk \in DiskEntry \union {None}
    /\ pc \in [Procs -> {"idle", "reading", "seeding", "discovering",
                         "storing", "writing", "answered"}]
    /\ todo \in [Procs -> SUBSET Publishers]
    /\ list \in [Procs -> SUBSET Publishers]
    /\ old \in [Procs -> Ages]
    /\ canceled \in [Procs -> BOOLEAN]
    /\ sinceOwn \in [Pollers -> 0..MemTTL]
    /\ hangUps \in 0..MaxHangUps
    /\ restarts \in 0..MaxRestarts

\* The warm-up runs from the start; the disk holds what an earlier run left.
Init ==
    /\ up = Publishers
    /\ mem = None
    /\ disk \in [list : {Publishers}, age : {0, DiskTTL}] \union {None}
    /\ pc = [p \in Procs |-> IF p = Warm THEN "reading" ELSE "idle"]
    /\ todo = [p \in Procs |-> {}]
    /\ list = [p \in Procs |-> {}]
    /\ old = [p \in Procs |-> 0]
    /\ canceled = [p \in Procs |-> FALSE]
    /\ sinceOwn = [p \in Pollers |-> MemTTL]
    /\ hangUps = 0
    /\ restarts = 0

-------------------------------------------------------------------------------
(* A poll: memory, then disk, then the fan-out. *)

MemFresh == mem # None /\ mem.age < MemTTL

\* The expired copy is served like a fresh one.
DiskUsableStale == disk # None /\ disk.list # {}

DiskUsable == disk # None /\ disk.age < DiskTTL /\ disk.list # {}

MemoryHit(p) ==
    /\ pc[p] = "idle"
    /\ MemFresh
    /\ pc' = [pc EXCEPT ![p] = "answered"]
    /\ list' = [list EXCEPT ![p] = mem.list]
    /\ old' = [old EXCEPT ![p] = mem.old]
    /\ UNCHANGED <<up, mem, disk, todo, canceled, sinceOwn, budgets>>

MemoryMiss(p) ==
    /\ pc[p] = "idle"
    /\ ~MemFresh
    /\ pc' = [pc EXCEPT ![p] = "reading"]
    /\ UNCHANGED <<up, mem, disk, todo, list, old, canceled, sinceOwn, budgets>>

DiskHit(p) ==
    /\ pc[p] = "reading"
    /\ DiskUsable
    /\ pc' = [pc EXCEPT ![p] = "seeding"]
    /\ list' = [list EXCEPT ![p] = disk.list]
    /\ old' = [old EXCEPT ![p] = disk.age]
    /\ UNCHANGED <<up, mem, disk, todo, canceled, sinceOwn, budgets>>

\* Also taken for a file that cannot be read or parsed.
DiskMiss(p) ==
    /\ pc[p] = "reading"
    /\ pc' = [pc EXCEPT ![p] = "discovering"]
    /\ todo' = [todo EXCEPT ![p] = Publishers]
    /\ list' = [list EXCEPT ![p] = {}]
    /\ old' = [old EXCEPT ![p] = 0]
    /\ UNCHANGED <<up, mem, disk, canceled, sinceOwn, budgets>>

\* One goroutine of ListModels reports.  A failed lookup adds nothing.
Gather(p, q) ==
    /\ pc[p] = "discovering"
    /\ q \in todo[p]
    /\ todo' = [todo EXCEPT ![p] = @ \ {q}]
    /\ list' = IF q \in up /\ ~canceled[p]
               THEN [list EXCEPT ![p] = @ \union {q}]
               ELSE list
    /\ pc' = [pc EXCEPT ![p] = IF todo[p] = {q} THEN "storing" ELSE @]
    /\ UNCHANGED <<up, mem, disk, old, canceled, sinceOwn, budgets>>

\* Reading the copy renews it.
SeedTouchesDisk(p) ==
    /\ pc[p] = "seeding"
    /\ mem' = [list |-> list[p], age |-> 0, old |-> old[p]]
    /\ disk' = IF disk = None THEN None ELSE [disk EXCEPT !.age = 0]
    /\ pc' = [pc EXCEPT ![p] = "answered"]
    /\ UNCHANGED <<up, todo, list, old, canceled, sinceOwn, budgets>>

Seed(p) ==
    /\ pc[p] = "seeding"
    /\ mem' = [list |-> list[p], age |-> 0, old |-> old[p]]
    /\ pc' = [pc EXCEPT ![p] = "answered"]
    /\ UNCHANGED <<up, disk, todo, list, old, canceled, sinceOwn, budgets>>

\* The entry keeps the time of the one it replaces.
StoreKeepsAge(p) ==
    /\ pc[p] = "storing"
    /\ mem' = [list |-> list[p], old |-> 0,
               age |-> IF mem = None THEN 0 ELSE mem.age]
    /\ sinceOwn' = [q \in Pollers |-> IF q = p THEN 0 ELSE sinceOwn[q]]
    /\ pc' = [pc EXCEPT ![p] = "writing"]
    /\ UNCHANGED <<up, disk, todo, list, old, canceled, budgets>>

Store(p) ==
    /\ pc[p] = "storing"
    /\ mem' = [list |-> list[p], age |-> 0, old |-> 0]
    /\ sinceOwn' = [q \in Pollers |-> IF q = p THEN 0 ELSE sinceOwn[q]]
    /\ pc' = [pc EXCEPT ![p] = "writing"]
    /\ UNCHANGED <<up, disk, todo, list, old, canceled, budgets>>

\* The copy carries no time and so is older than any window.
WriteDiskUndated(p) ==
    /\ pc[p] = "writing"
    /\ disk' \in {[list |-> list[p], age |-> Cap + 1], disk}
    /\ pc' = [pc EXCEPT ![p] = "answered"]
    /\ UNCHANGED <<up, mem, todo, list, old, canceled, sinceOwn, budgets>>

\* A failed write is logged and leaves the earlier copy.
WriteDisk(p) ==
    /\ pc[p] = "writing"
    /\ disk' \in {[list |-> list[p], age |-> 0], disk}
    /\ pc' = [pc EXCEPT ![p] = "answered"]
    /\ UNCHANGED <<up, mem, todo, list, old, canceled, sinceOwn, budgets>>

\* The response has been written, or the warm-up is over.
Finish(p) ==
    /\ pc[p] = "answered"
    /\ pc' = [pc EXCEPT ![p] = "idle"]
    /\ list' = [list EXCEPT ![p] = {}]
    /\ old' = [old EXCEPT ![p] = 0]
    /\ canceled' = [canceled EXCEPT ![p] = FALSE]
    /\ UNCHANGED <<up, mem, disk, todo, sinceOwn, budgets>>

-------------------------------------------------------------------------------
(* The surroundings. *)

\* The request context ends the lookups that have not reported.
HangUp(p) ==
    /\ pc[p] \in {"reading", "discovering"}
    /\ ~canceled[p]
    /\ hangUps < MaxHangUps
    /\ hangUps' = hangUps + 1
    /\ canceled' = [canceled EXCEPT ![p] = TRUE]
    /\ UNCHANGED <<up, mem, disk, pc, todo, list, old, sinceOwn, restarts>>

\* The file on disk outlives the process.
Restart ==
    /\ restarts < MaxRestarts
    /\ restarts' = restarts + 1
    /\ mem' = None
    /\ pc' = [p \in Procs |-> IF p = Warm THEN "reading" ELSE "idle"]
    /\ todo' = [p \in Procs |-> {}]
    /\ list' = [p \in Procs |-> {}]
    /\ old' = [p \in Procs |-> 0]
    /\ canceled' = [p \in Procs |-> FALSE]
    /\ sinceOwn' = [p \in Pollers |-> MemTTL]
    /\ UNCHANGED <<up, disk, hangUps>>

PublisherChanges(q) ==
    /\ up' = IF q \in up THEN up \ {q} ELSE up \union {q}
    /\ UNCHANGED <<mem, disk, locals, budgets>>

Older(n, limit) == IF n < limit THEN n + 1 ELSE n

Tick ==
    /\ \A p \in Procs : pc[p] \notin {"reading", "seeding", "storing", "writing"}
    /\ mem' = IF mem = None THEN None
              ELSE [mem EXCEPT !.age = Older(@, MemTTL), !.old = Older(@, Cap)]
    /\ disk' = IF disk = None THEN None ELSE [disk EXCEPT !.age = Older(@, Cap)]
    /\ sinceOwn' = [p \in Pollers |-> Older(sinceOwn[p], MemTTL)]
    /\ UNCHANGED <<up, pc, todo, list, old, canceled, budgets>>

-------------------------------------------------------------------------------
Poll(p) == MemoryHit(p) \/ MemoryMiss(p)

Work(p) ==
    \/ DiskHit(p) \/ DiskMiss(p) \/ Seed(p) \/ Store(p) \/ WriteDisk(p)
    \/ \E q \in Publishers : Gather(p, q)

Next ==
    \/ \E p \in Pollers : Poll(p) \/ HangUp(p)
    \/ \E p \in Procs : Work(p) \/ Finish(p)
    \/ \E q \in Publishers : PublisherChanges(q)
    \/ Restart
    \/ Tick

Spec == Init /\ [][Next]_vars

\* A lookup ends: the HTTP client times out after 15 s.  Responses are
\* written and time passes.  No fairness on clients, outages or restarts.
Fairness ==
    /\ \A p \in Procs : WF_vars(Work(p)) /\ WF_vars(Finish(p))
    /\ WF_vars(Tick)

FairSpec == Spec /\ Fairness

-------------------------------------------------------------------------------
(* Properties. *)

\* A poll is never answered with a list discovered longer ago than the two
\* freshness windows laid end to end: seeding memory from disk restarts the
\* memory window (tags_cache.go:104) but not the one on disk.
StalenessBounded ==
    \A p \in Pollers : pc[p] = "answered" => old[p] < MemTTL + DiskTTL

\* "One upstream burst per minute regardless of how many times" the picker
\* refreshes (tags_cache.go:25-27): a client whose poll went upstream does
\* not go upstream again within the memory window, whoever else stored or
\* seeded the entry in between, unless the gateway restarted.
OneBurstPerWindow ==
    \A p \in Pollers : pc[p] = "discovering" => sinceOwn[p] = MemTTL

\* Once every publisher answers for good, the lists that outages and hang-ups
\* truncated wear out: from some point on every poll returns them all.
CatalogHeals ==
    <>[](up = Publishers)
        => <>[](\A p \in Pollers : pc[p] = "answered" => list[p] = Publishers)
===============================================================================
