------------------------------ MODULE ElidedStore ------------------------------
(***************************************************************************)
(* The compress-cache-retrieve store: elided_<hash>.json files on disk,    *)
(* written by the compression stages of every request (SaveToElidedCache,  *)
(* WriteFSCache), read back when the model asks (ReadFSCache) and removed  *)
(* by the periodic cleaner (CleanupElidedFiles).  Requests, the cleaner    *)
(* and process restarts interleave at every file system call.              *)
(*                                                                         *)
(* A block is identified by its hash: two requests that elide the same     *)
(* block write the same content to the same name.                          *)
(***************************************************************************)
EXTENDS Naturals

CONSTANTS
    Requests,     \* requests being served, each eliding one block
    Hashes,       \* hashes of the blocks
    TTL,          \* GW_ELIDED_TTL_SEC
    MaxTime,      \* bound: the clock stops here
    MaxRestarts,  \* bound: process restarts
    Absent        \* no such file

ASSUME StoreAssumption ==
    /\ TTL \in Nat
    /\ MaxTime \in Nat
    /\ TTL <= MaxTime
    /\ MaxRestarts \in Nat
    /\ Absent \notin [mtime : 0..MaxTime, whole : BOOLEAN]

VARIABLES
    now,          \* the clock
    file,         \* file[h]: elided_<h>.json
    temp,         \* temp[r]: the temporary file of r's save
    pc,           \* pc[r]: where request r stands
    hash,         \* hash[r]: the block r elided
    answer,       \* answer[r]: what a retrieval gave r's model
    savedAt,      \* history: when r's last save was renamed into place
    quiet,        \* history: no cleaning pass was under way at that moment
    cleaner,      \* the cleaning pass
    restarts      \* process restarts so far

requestVars == <<pc, hash, answer, savedAt, quiet>>
vars == <<now, file, temp, requestVars, cleaner, restarts>>

Time == 0..MaxTime
File == [mtime : Time, whole : BOOLEAN]

TypeOK ==
    /\ now \in Time
    /\ file \in [Hashes -> File \union {Absent}]
    /\ temp \in [Requests -> File \union {Absent}]
    /\ pc \in [Requests -> {"idle", "saving", "placed", "verbatim", "answered"}]
    /\ hash \in [Requests -> Hashes]
    /\ answer \in [Requests -> {"none", "content", "unavailable"}]
    /\ savedAt \in [Requests -> Time]
    /\ quiet \in [Requests -> BOOLEAN]
    /\ cleaner \in [pc : {"idle", "scanning", "removing"}, at : Time,
                    todo : SUBSET Hashes, victim : Hashes]
    /\ restarts \in 0..MaxRestarts

\* The directory starts with whatever an earlier run left in it.
Init ==
    /\ now = TTL
    /\ file \in [Hashes -> {Absent, [mtime |-> 0, whole |-> TRUE]}]
    /\ temp = [r \in Requests |-> Absent]
    /\ pc = [r \in Requests |-> "idle"]
    /\ hash \in [Requests -> Hashes]
    /\ answer = [r \in Requests |-> "none"]
    /\ savedAt = [r \in Requests |-> 0]
    /\ quiet = [r \in Requests |-> FALSE]
    /\ cleaner \in [pc : {"idle"}, at : {0}, todo : {{}}, victim : Hashes]
    /\ restarts = 0

-------------------------------------------------------------------------------
(* Saving: CreateTemp, Write and Close, Rename. *)

\* Every upstream attempt runs the pipeline again, so a request whose
\* placeholder is already in place may save the same block once more.
CreateTemp(r) ==
    /\ \/ /\ pc[r] = "idle"
          /\ \E h \in Hashes : hash' = [hash EXCEPT ![r] = h]
       \/ /\ pc[r] = "placed"
          /\ UNCHANGED hash
    /\ pc' = [pc EXCEPT ![r] = "saving"]
    /\ temp' = [temp EXCEPT ![r] = [mtime |-> now, whole |-> FALSE]]
    /\ UNCHANGED <<now, file, answer, savedAt, quiet, cleaner, restarts>>

\* The file carries the time of its expiry.
WriteTempExpiry(r) ==
    /\ pc[r] = "saving"
    /\ temp[r] # Absent
    /\ ~temp[r].whole
    /\ temp' = [temp EXCEPT ![r] = [mtime |-> now + TTL, whole |-> TRUE]]
    /\ UNCHANGED <<now, file, requestVars, cleaner, restarts>>

WriteTemp(r) ==
    /\ pc[r] = "saving"
    /\ temp[r] # Absent
    /\ ~temp[r].whole
    /\ temp' = [temp EXCEPT ![r] = [mtime |-> now, whole |-> TRUE]]
    /\ UNCHANGED <<now, file, requestVars, cleaner, restarts>>

\* The file is moved into place before its content is written.
ReadyToRenameEarly(r) == pc[r] = "saving" /\ temp[r] # Absent

ReadyToRename(r) == pc[r] = "saving" /\ temp[r] # Absent /\ temp[r].whole

\* The rename replaces the file of an earlier save.  The stage then puts the
\* placeholder with the hash into the prompt.
RenameIntoPlace(r) ==
    /\ ReadyToRename(r)
    /\ file' = [file EXCEPT ![hash[r]] = temp[r]]
    /\ temp' = [temp EXCEPT ![r] = Absent]
    /\ pc' = [pc EXCEPT ![r] = "placed"]
    /\ savedAt' = [savedAt EXCEPT ![r] = now]
    /\ quiet' = [quiet EXCEPT ![r] = cleaner.pc = "idle"]
    /\ UNCHANGED <<now, hash, answer, cleaner, restarts>>

\* The placeholder goes into the prompt whether or not the save worked.
SaveFailsUnnoticed(r) ==
    /\ pc[r] = "saving"
    /\ temp' = [temp EXCEPT ![r] = Absent]
    /\ pc' = [pc EXCEPT ![r] = "placed"]
    /\ savedAt' = [savedAt EXCEPT ![r] = now]
    /\ quiet' = [quiet EXCEPT ![r] = cleaner.pc = "idle"]
    /\ UNCHANGED <<now, file, hash, answer, cleaner, restarts>>

\* Any of the calls fails: the temporary file is removed and the block is
\* sent as it is.
SaveFails(r) ==
    /\ pc[r] = "saving"
    /\ temp' = [temp EXCEPT ![r] = Absent]
    /\ pc' = [pc EXCEPT ![r] = "verbatim"]
    /\ UNCHANGED <<now, file, hash, answer, savedAt, quiet, cleaner, restarts>>

-------------------------------------------------------------------------------
(* Retrieving, and the end of a request. *)

\* ReadFSCache ignores the age of what it finds; a missing or torn file gives
\* the model an error text instead of the content.
Retrieve(r) ==
    /\ pc[r] = "placed"
    /\ pc' = [pc EXCEPT ![r] = "answered"]
    /\ LET f == file[hash[r]] IN
       answer' = [answer EXCEPT ![r] = IF f # Absent /\ f.whole THEN "content"
                                       ELSE "unavailable"]
    /\ UNCHANGED <<now, file, temp, hash, savedAt, quiet, cleaner, restarts>>

\* The request is over and another one takes its place.
Finish(r) ==
    /\ pc[r] \in {"placed", "verbatim", "answered"}
    /\ pc' = [pc EXCEPT ![r] = "idle"]
    /\ answer' = [answer EXCEPT ![r] = "none"]
    /\ UNCHANGED <<now, file, temp, hash, savedAt, quiet, cleaner, restarts>>

-------------------------------------------------------------------------------
(* CleanupElidedFiles: ReadDir and now, then Info and Remove per entry. *)

\* A pass that cannot read the directory is given up before it has begun and
\* changes nothing.
StartPass ==
    /\ cleaner.pc = "idle"
    /\ cleaner' = [cleaner EXCEPT !.pc = "scanning", !.at = now,
                                  !.todo = {h \in Hashes : file[h] # Absent}]
    /\ UNCHANGED <<now, file, temp, requestVars, restarts>>

\* now.Sub(info.ModTime()) > ttl
ExpiredFlipped(f, at) == at <= f.mtime + TTL

Expired(f, at) == at > f.mtime + TTL

\* An entry whose file is gone makes Info fail and is skipped.
Examine(h) ==
    /\ cleaner.pc = "scanning"
    /\ h \in cleaner.todo
    /\ cleaner' = IF file[h] # Absent /\ Expired(file[h], cleaner.at)
                     THEN [cleaner EXCEPT !.pc = "removing", !.victim = h, !.todo = @ \ {h}]
                     ELSE [cleaner EXCEPT !.todo = @ \ {h}]
    /\ UNCHANGED <<now, file, temp, requestVars, restarts>>

\* Info fails although the file is there: the entry is left for another pass.
InfoFails(h) ==
    /\ cleaner.pc = "scanning"
    /\ h \in cleaner.todo
    /\ cleaner' = [cleaner EXCEPT !.todo = @ \ {h}]
    /\ UNCHANGED <<now, file, temp, requestVars, restarts>>

\* os.Remove takes whatever file has that name by now.
Remove ==
    /\ cleaner.pc = "removing"
    /\ file' = [file EXCEPT ![cleaner.victim] = Absent]
    /\ cleaner' = [cleaner EXCEPT !.pc = "scanning"]
    /\ UNCHANGED <<now, temp, requestVars, restarts>>

\* The file stays and the pass goes on with the next entry.
RemoveFails ==
    /\ cleaner.pc = "removing"
    /\ cleaner' = [cleaner EXCEPT !.pc = "scanning"]
    /\ UNCHANGED <<now, file, temp, requestVars, restarts>>

EndPass ==
    /\ cleaner.pc = "scanning"
    /\ cleaner.todo = {}
    /\ cleaner' = [cleaner EXCEPT !.pc = "idle"]
    /\ UNCHANGED <<now, file, temp, requestVars, restarts>>

-------------------------------------------------------------------------------
(* The clock and the process. *)

\* A save takes no time that counts against a TTL of hours.
Tick ==
    /\ now < MaxTime
    /\ \A r \in Requests : temp[r] = Absent
    /\ now' = now + 1
    /\ UNCHANGED <<file, temp, requestVars, cleaner, restarts>>

\* The process dies and is started again: what was in memory is lost, a
\* temporary file stays behind under a name nobody reads or cleans.
Restart ==
    /\ restarts < MaxRestarts
    /\ restarts' = restarts + 1
    /\ temp' = [r \in Requests |-> Absent]
    /\ pc' = [r \in Requests |-> "idle"]
    /\ answer' = [r \in Requests |-> "none"]
    /\ cleaner' = [cleaner EXCEPT !.pc = "idle", !.todo = {}]
    /\ UNCHANGED <<now, file, hash, savedAt, quiet>>

Request(r) ==
    \/ CreateTemp(r)
    \/ WriteTemp(r)
    \/ RenameIntoPlace(r)
    \/ SaveFails(r)
    \/ Retrieve(r)
    \/ Finish(r)

Cleaner ==
    \/ StartPass
    \/ \E h \in Hashes : Examine(h) \/ InfoFails(h)
    \/ Remove
    \/ RemoveFails
    \/ EndPass

Next ==
    \/ \E r \in Requests : Request(r)
    \/ Cleaner
    \/ Tick
    \/ Restart

Spec == Init /\ [][Next]_vars

RemoveVictim(h) == cleaner.victim = h /\ Remove

\* The cleaner's ticker keeps firing and a pass goes on once started.  Every
\* pass tries a file again, and Info and Remove do not fail on it each time.
FairSpec ==
    /\ Spec
    /\ WF_vars(Cleaner)
    /\ \A h \in Hashes : SF_vars(Examine(h)) /\ SF_vars(RemoveVictim(h))

-------------------------------------------------------------------------------
(* Properties. *)

\* A reader never sees half a file, wherever a save is interrupted: content
\* becomes visible under its hash by the rename alone.
NeverTorn == \A h \in Hashes : file[h] # Absent => file[h].whole

\* A placeholder is answered with its content if the request asks within the
\* TTL of its save and no cleaning pass was under way when the save ended.
ContentWithinTTL ==
    \A r \in Requests :
        (answer[r] = "unavailable" /\ quiet[r]) => now > savedAt[r] + TTL

\* The store does not grow for ever: a file nobody saves again is removed
\* once it has expired, however often a pass has failed to look at it or to
\* remove it before.
ExpiredFilesGo ==
    \A h \in Hashes :
        (file[h] # Absent /\ now > file[h].mtime + TTL)
            ~> (file[h] = Absent \/ now <= file[h].mtime + TTL)
===============================================================================
