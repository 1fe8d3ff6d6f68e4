----------------------------- MODULE PricingRefresh -----------------------------
(***************************************************************************)
(* The price table behind cost estimates (pkg/provider/pricing_cache.go):  *)
(* WarmPricing fills it at startup while holding pricingRefresh.mu, and a  *)
(* chat request whose TTL check finds the last attempt too old starts a    *)
(* detached refresh.  Both scrape the billing catalog, swap the table and  *)
(* persist a snapshot of it.                                               *)
(*                                                                         *)
(* A table is known by its age: the time since its scrape.  The request's  *)
(* and the refresh's own critical sections are single steps, taken when    *)
(* the warm-up does not hold the mutex; the steps that need no upstream    *)
(* answer are urgent: Tick waits for them.                                 *)
(***************************************************************************)
EXTENDS Naturals

CONSTANTS
    Requests,       \* chat requests, each with the refresh it may start
    Warm,           \* the goroutine that runs WarmPricing
    None,           \* no table, no file, no attempt yet
    TTL,            \* GW_PRICING_CACHE_TTL_SEC
    DiskTTL,        \* GW_CACHE_TTL_SEC
    ScrapeTimeout   \* deadline of a detached refresh, 30 s

Procs == Requests \union {Warm}
Cap == TTL + DiskTTL
Ages == 0..Cap

ASSUME PricingAssumption ==
    /\ TTL \in Nat
    /\ DiskTTL \in Nat
    /\ ScrapeTimeout \in Nat
    /\ ScrapeTimeout < TTL
    /\ Warm \notin Requests
    /\ None \notin Nat

VARIABLES
    billing,        \* the billing catalog answers
    table,          \* pricing.table
    disk,           \* pricing.json: age since written_at, old since the scrape
    lastAttempt,    \* age of pricingRefresh.lastAttempt
    handler,        \* handler[r]: where the request stands
    pc,             \* pc[p]: where the refresh or the warm-up stands
    cached,         \* the copy WarmPricing read from disk
    snap,           \* snap[p]: the snapshot about to be written
    running         \* running[p]: age of p's scrape

vars == <<billing, table, disk, lastAttempt, handler, pc, cached, snap, running>>

TypeOK ==
    /\ billing \in BOOLEAN
    /\ table \in Ages \union {None}
    /\ disk \in [age : Ages, old : Ages] \union {None}
    /\ lastAttempt \in 0..TTL \union {None}
    /\ handler \in [Requests -> {"idle", "locking", "serving"}]
    /\ pc \in [Procs -> {"none", "locking", "reading", "scraping", "failed",
                         "scraped", "copying", "writing"}]
    /\ cached \in Ages \union {None}
    /\ snap \in [Procs -> Ages \union {None}]
    /\ running \in [Procs -> Ages]

Init ==
    /\ billing \in BOOLEAN
    /\ table = None
    /\ disk \in {None, [age |-> 0, old |-> 0], [age |-> DiskTTL, old |-> DiskTTL]}
    /\ lastAttempt = None
    /\ handler = [r \in Requests |-> "idle"]
    /\ pc = [p \in Procs |-> IF p = Warm THEN "locking" ELSE "none"]
    /\ cached = None
    /\ snap = [p \in Procs |-> None]
    /\ running = [p \in Procs |-> 0]

\* WarmPricing keeps the mutex until it returns.
LockHeld == pc[Warm] \notin {"none", "locking"}

-------------------------------------------------------------------------------
(* A chat request calls MaybeRefreshPricing before it does anything else. *)

\* A slot is taken again once the refresh it started is over.
Arrive(r) ==
    /\ handler[r] = "idle"
    /\ pc[r] = "none"
    /\ handler' = [handler EXCEPT ![r] = "locking"]
    /\ UNCHANGED <<billing, table, disk, lastAttempt, pc, cached, snap, running>>

\* The first attempt is the only one.
StaleOnce == lastAttempt = None

Stale == lastAttempt = None \/ lastAttempt = TTL

StillFresh(r) ==
    /\ handler[r] = "locking"
    /\ ~LockHeld
    /\ ~Stale
    /\ handler' = [handler EXCEPT ![r] = "serving"]
    /\ UNCHANGED <<billing, table, disk, lastAttempt, pc, cached, snap, running>>

StartRefresh(r) ==
    /\ handler[r] = "locking"
    /\ ~LockHeld
    /\ Stale
    /\ lastAttempt' = 0
    /\ handler' = [handler EXCEPT ![r] = "serving"]
    /\ pc' = [pc EXCEPT ![r] = "scraping"]
    /\ running' = [running EXCEPT ![r] = 0]
    /\ UNCHANGED <<billing, table, disk, cached, snap>>

Served(r) ==
    /\ handler[r] = "serving"
    /\ handler' = [handler EXCEPT ![r] = "idle"]
    /\ UNCHANGED <<billing, table, disk, lastAttempt, pc, cached, snap, running>>

-------------------------------------------------------------------------------
(* The warm-up, and the scrape both share. *)

WarmLocks ==
    /\ pc[Warm] = "locking"
    /\ lastAttempt' = 0
    /\ pc' = [pc EXCEPT ![Warm] = "reading"]
    /\ UNCHANGED <<billing, table, disk, handler, cached, snap, running>>

WarmFromDisk ==
    /\ pc[Warm] = "reading"
    /\ disk # None
    /\ disk.age < DiskTTL
    /\ table' = disk.old
    /\ pc' = [pc EXCEPT ![Warm] = "none"]
    /\ UNCHANGED <<billing, disk, lastAttempt, handler, cached, snap, running>>

\* An expired copy is kept as a fallback; an unreadable one is as none.
WarmMissesDisk ==
    /\ pc[Warm] = "reading"
    /\ cached' \in {None} \union
         IF disk # None /\ disk.age >= DiskTTL THEN {disk.old} ELSE {}
    /\ pc' = [pc EXCEPT ![Warm] = "scraping"]
    /\ running' = [running EXCEPT ![Warm] = 0]
    /\ UNCHANGED <<billing, table, disk, lastAttempt, handler, snap>>

\* RefreshPricing swaps the whole table once it has resolved prices.
ScrapeSucceeds(p) ==
    /\ pc[p] = "scraping"
    /\ billing
    /\ table' = 0
    /\ pc' = [pc EXCEPT ![p] = IF p = Warm THEN "copying" ELSE "scraped"]
    /\ running' = [running EXCEPT ![p] = 0]
    /\ UNCHANGED <<billing, disk, lastAttempt, handler, cached, snap>>

ScrapeFails(p) ==
    /\ pc[p] = "scraping"
    /\ ~billing
    /\ pc' = [pc EXCEPT ![p] = "failed"]
    /\ UNCHANGED <<billing, table, disk, lastAttempt, handler, cached, snap, running>>

\* The early return skips the unlock.
WarmFallsBackLocked ==
    /\ pc[Warm] = "failed"
    /\ table' = IF cached = None THEN table ELSE cached
    /\ UNCHANGED <<billing, disk, lastAttempt, handler, pc, cached, snap, running>>

WarmFallsBack ==
    /\ pc[Warm] = "failed"
    /\ table' = IF cached = None THEN table ELSE cached
    /\ pc' = [pc EXCEPT ![Warm] = "none"]
    /\ cached' = None
    /\ UNCHANGED <<billing, disk, lastAttempt, handler, snap, running>>

\* The refresh takes the mutex once more to note how it went.
RefreshReports(r) ==
    /\ pc[r] \in {"failed", "scraped"}
    /\ ~LockHeld
    /\ pc' = [pc EXCEPT ![r] = IF @ = "scraped" THEN "copying" ELSE "none"]
    /\ UNCHANGED <<billing, table, disk, lastAttempt, handler, cached, snap, running>>

CopyTable(p) ==
    /\ pc[p] = "copying"
    /\ snap' = [snap EXCEPT ![p] = table]
    /\ pc' = [pc EXCEPT ![p] = "writing"]
    /\ UNCHANGED <<billing, table, disk, lastAttempt, handler, cached, running>>

\* The copy carries no time and so is older than any window.
WriteDiskUndated(p) ==
    /\ pc[p] = "writing"
    /\ disk' \in {[age |-> Cap + 1, old |-> snap[p]], disk}
    /\ snap' = [snap EXCEPT ![p] = None]
    /\ cached' = IF p = Warm THEN None ELSE cached
    /\ pc' = [pc EXCEPT ![p] = "none"]
    /\ UNCHANGED <<billing, table, lastAttempt, handler, running>>

WriteDisk(p) ==
    /\ pc[p] = "writing"
    /\ disk' \in {[age |-> 0, old |-> snap[p]], disk}
    /\ snap' = [snap EXCEPT ![p] = None]
    /\ cached' = IF p = Warm THEN None ELSE cached
    /\ pc' = [pc EXCEPT ![p] = "none"]
    /\ UNCHANGED <<billing, table, lastAttempt, handler, running>>

-------------------------------------------------------------------------------
(* The surroundings. *)

BillingChanges ==
    /\ billing' = ~billing
    /\ UNCHANGED <<table, disk, lastAttempt, handler, pc, cached, snap, running>>

\* A step that waits neither for an upstream answer nor for the mutex.
Urgent(p) ==
    \/ pc[p] \in {"reading", "copying", "writing"}
    \/ p = Warm /\ pc[p] = "failed"
    \/ p # Warm /\ pc[p] \in {"failed", "scraped"} /\ ~LockHeld

Older(n, limit) == IF n = None \/ n = limit THEN n ELSE n + 1

Tick ==
    /\ ~\E p \in Procs : Urgent(p)
    /\ \A r \in Requests : pc[r] = "scraping" => running[r] < ScrapeTimeout
    /\ table' = Older(table, Cap)
    /\ disk' = IF disk = None THEN None
               ELSE [age |-> Older(disk.age, Cap), old |-> Older(disk.old, Cap)]
    /\ lastAttempt' = Older(lastAttempt, TTL)
    /\ cached' = Older(cached, Cap)
    /\ snap' = [p \in Procs |-> Older(snap[p], Cap)]
    /\ running' = [p \in Procs |->
                     IF pc[p] \in {"scraping", "scraped"} THEN Older(running[p], Cap)
                     ELSE running[p]]
    /\ UNCHANGED <<billing, handler, pc>>

-------------------------------------------------------------------------------
Handle(r) == StillFresh(r) \/ StartRefresh(r)

Work(p) == ScrapeSucceeds(p) \/ ScrapeFails(p) \/ CopyTable(p) \/ WriteDisk(p)

WarmWork == WarmLocks \/ WarmFromDisk \/ WarmMissesDisk \/ WarmFallsBack

Next ==
    \/ \E r \in Requests : Arrive(r) \/ Handle(r) \/ Served(r) \/ RefreshReports(r)
    \/ \E p \in Procs : Work(p)
    \/ WarmWork
    \/ BillingChanges
    \/ Tick

Spec == Init /\ [][Next]_vars

\* A scrape ends, with an answer or at its deadline; sync.Mutex lets a waiter
\* in even against newcomers (it hands over after 1 ms): strong fairness.
Fairness ==
    /\ \A r \in Requests :
        /\ SF_vars(Handle(r))
        /\ SF_vars(RefreshReports(r))
        /\ WF_vars(Served(r))
    /\ \A p \in Procs : WF_vars(Work(p))
    /\ WF_vars(WarmWork)
    /\ WF_vars(Tick)

FairSpec == Spec /\ Fairness

-------------------------------------------------------------------------------
(* Properties. *)

\* Whatever the warm-up meets, it gives the mutex back: every chat request
\* gets past the TTL check.
RequestsProceed ==
    \A r \in Requests : handler[r] = "locking" ~> handler[r] # "locking"

\* While chat requests keep coming and the catalog answers for good, cost
\* estimates appear: a failed warm-up does not leave the table empty.
EstimatesAppear ==
    /\ <>[]billing
    /\ []<>(\E r \in Requests : handler[r] = "serving")
    => <>(table # None)
===============================================================================
