---------------------------- MODULE ElidedStoreProofs ---------------------------
(***************************************************************************)
(* Proofs about ElidedStore for every set of requests and hashes, every    *)
(* time to live and any number of restarts.                                *)
(***************************************************************************)
EXTENDS ElidedStore, TLAPS

\* A temporary file is as old as the present moment: time waits for a save.
TempInv == \A r \in Requests : temp[r] # Absent => temp[r].mtime = now

\* Passes began and saves ended in the past.
TimeInv ==
    /\ cleaner.at <= now
    /\ \A r \in Requests : savedAt[r] <= now

\* A block whose placeholder is in place, saved while no pass was under way,
\* is on disk until its time to live is over: its file is no older than the
\* save, and no pass has picked it.
PlacedInv ==
    \A r \in Requests :
        (pc[r] = "placed" /\ quiet[r] /\ now <= savedAt[r] + TTL) =>
            /\ file[hash[r]] # Absent
            /\ file[hash[r]].mtime >= savedAt[r]
            /\ ~(cleaner.pc = "removing" /\ cleaner.victim = hash[r])

\* Only a request that has asked has an answer, and only a late or unlucky one
\* a refusal.
AnswerInv ==
    \A r \in Requests :
        /\ pc[r] # "answered" => answer[r] = "none"
        /\ (answer[r] = "unavailable" /\ quiet[r]) => now > savedAt[r] + TTL

IInv == TypeOK /\ NeverTorn /\ TempInv /\ TimeInv /\ PlacedInv /\ AnswerInv

-------------------------------------------------------------------------------
\* What an earlier run left behind satisfies the invariant.
LEMMA InitInv == Init => IInv
<1> SUFFICES ASSUME Init PROVE IInv
  OBVIOUS
<1> USE StoreAssumption DEF Init
<1>1. TypeOK
  <2>1. now \in Time /\ 0 \in Time
    BY DEF Time
  <2>2. file \in [Hashes -> File \union {Absent}]
    <3>1. [mtime |-> 0, whole |-> TRUE] \in File
      BY <2>1 DEF File
    <3> QED BY <3>1
  <2>3. cleaner \in [pc : {"idle", "scanning", "removing"}, at : Time,
                     todo : SUBSET Hashes, victim : Hashes]
    BY <2>1
  <2> QED BY <2>1, <2>2, <2>3 DEF TypeOK
<1>2. NeverTorn
  BY DEF NeverTorn
<1>3. TempInv /\ TimeInv
  BY DEF TempInv, TimeInv
<1>4. PlacedInv /\ AnswerInv
  BY DEF PlacedInv, AnswerInv
<1> QED BY <1>1, <1>2, <1>3, <1>4 DEF IInv

-------------------------------------------------------------------------------
\* Every step keeps every variable in its type.
LEMMA StepTypeOK == TypeOK /\ [Next]_vars => TypeOK'
<1> SUFFICES ASSUME TypeOK, [Next]_vars PROVE TypeOK'
  OBVIOUS
<1> USE StoreAssumption DEF TypeOK, requestVars
<1>1. ASSUME NEW r \in Requests, CreateTemp(r) PROVE TypeOK'
  <2>1. [mtime |-> now, whole |-> FALSE] \in File
    BY DEF File
  <2> QED BY <1>1, <2>1 DEF CreateTemp
<1>2. ASSUME NEW r \in Requests, WriteTemp(r) PROVE TypeOK'
  <2>1. [mtime |-> now, whole |-> TRUE] \in File
    BY DEF File
  <2> QED BY <1>2, <2>1 DEF WriteTemp
<1>3. ASSUME NEW r \in Requests, RenameIntoPlace(r) PROVE TypeOK'
  <2>1. (cleaner.pc = "idle") \in BOOLEAN
    OBVIOUS
  <2>2. quiet' \in [Requests -> BOOLEAN]
    BY <1>3, <2>1 DEF RenameIntoPlace
  <2>3. /\ file' \in [Hashes -> File \union {Absent}]
        /\ temp' \in [Requests -> File \union {Absent}]
    BY <1>3 DEF RenameIntoPlace, ReadyToRename
  <2>4. /\ pc' \in [Requests -> {"idle", "saving", "placed", "verbatim", "answered"}]
        /\ savedAt' \in [Requests -> Time]
    BY <1>3 DEF RenameIntoPlace
  <2> QED BY <1>3, <2>2, <2>3, <2>4 DEF RenameIntoPlace
<1>4. ASSUME NEW r \in Requests, SaveFails(r) PROVE TypeOK'
  BY <1>4 DEF SaveFails
<1>5. ASSUME NEW r \in Requests, Retrieve(r) PROVE TypeOK'
  BY <1>5 DEF Retrieve
<1>6. ASSUME NEW r \in Requests, Finish(r) PROVE TypeOK'
  BY <1>6 DEF Finish
<1>7. CASE StartPass
  BY <1>7 DEF StartPass
<1>8. ASSUME NEW h \in Hashes, Examine(h) \/ InfoFails(h) PROVE TypeOK'
  BY <1>8 DEF Examine, InfoFails
<1>9. CASE Remove \/ RemoveFails
  BY <1>9 DEF Remove, RemoveFails
<1>10. CASE EndPass
  BY <1>10 DEF EndPass
<1>11. CASE Tick
  BY <1>11 DEF Tick, Time
<1>12. CASE Restart
  <2>1. cleaner' \in [pc : {"idle", "scanning", "removing"}, at : Time,
                      todo : SUBSET Hashes, victim : Hashes]
    BY <1>12 DEF Restart
  <2>2. /\ temp' \in [Requests -> File \union {Absent}]
        /\ pc' \in [Requests -> {"idle", "saving", "placed", "verbatim", "answered"}]
        /\ answer' \in [Requests -> {"none", "content", "unavailable"}]
    BY <1>12 DEF Restart
  <2>3. restarts' \in 0..MaxRestarts /\ UNCHANGED <<now, file, hash, savedAt, quiet>>
    BY <1>12 DEF Restart
  <2> QED BY <2>1, <2>2, <2>3
<1>13. CASE UNCHANGED vars
  BY <1>13 DEF vars
<1> QED
  BY <1>1, <1>2, <1>3, <1>4, <1>5, <1>6, <1>7, <1>8, <1>9, <1>10, <1>11, <1>12, <1>13
     DEF Next, Request, Cleaner

-------------------------------------------------------------------------------
\* Only whole files are renamed into place, and none is written to there.
LEMMA StepTorn == TypeOK /\ NeverTorn /\ [Next]_vars => NeverTorn'
<1> SUFFICES ASSUME TypeOK, NeverTorn, [Next]_vars PROVE NeverTorn'
  OBVIOUS
<1> USE DEF TypeOK, NeverTorn, requestVars
<1>1. ASSUME NEW r \in Requests, RenameIntoPlace(r) PROVE NeverTorn'
  BY <1>1 DEF RenameIntoPlace, ReadyToRename
<1>2. ASSUME NEW r \in Requests,
             CreateTemp(r) \/ WriteTemp(r) \/ SaveFails(r) \/ Retrieve(r) \/ Finish(r)
      PROVE  UNCHANGED file
  BY <1>2 DEF CreateTemp, WriteTemp, SaveFails, Retrieve, Finish
<1>3. CASE Remove
  BY <1>3 DEF Remove
<1>4. ASSUME StartPass \/ RemoveFails \/ EndPass \/ Tick \/ Restart \/ UNCHANGED vars
      PROVE  UNCHANGED file
  BY <1>4 DEF StartPass, RemoveFails, EndPass, Tick, Restart, vars
<1>5. ASSUME NEW h \in Hashes, Examine(h) \/ InfoFails(h) PROVE UNCHANGED file
  BY <1>5 DEF Examine, InfoFails
<1>6. ASSUME UNCHANGED file PROVE NeverTorn'
  BY <1>6
<1> QED
  BY <1>1, <1>2, <1>3, <1>4, <1>5, <1>6 DEF Next, Request, Cleaner

\* Time stands while a temporary file exists.
LEMMA StepTemp == TypeOK /\ TempInv /\ [Next]_vars => TempInv'
<1> SUFFICES ASSUME TypeOK, TempInv, [Next]_vars PROVE TempInv'
  OBVIOUS
<1> USE DEF TypeOK, TempInv, requestVars
<1>1. ASSUME NEW r \in Requests, CreateTemp(r) \/ WriteTemp(r) PROVE TempInv'
  BY <1>1 DEF CreateTemp, WriteTemp
<1>2. ASSUME NEW r \in Requests, RenameIntoPlace(r) \/ SaveFails(r) PROVE TempInv'
  BY <1>2 DEF RenameIntoPlace, SaveFails
<1>3. ASSUME NEW r \in Requests, Retrieve(r) \/ Finish(r) PROVE UNCHANGED <<temp, now>>
  BY <1>3 DEF Retrieve, Finish
<1>4. CASE Tick \/ Restart
  BY <1>4 DEF Tick, Restart
<1>5. ASSUME StartPass \/ Remove \/ RemoveFails \/ EndPass \/ UNCHANGED vars
      PROVE  UNCHANGED <<temp, now>>
  BY <1>5 DEF StartPass, Remove, RemoveFails, EndPass, vars
<1>6. ASSUME NEW h \in Hashes, Examine(h) \/ InfoFails(h) PROVE UNCHANGED <<temp, now>>
  BY <1>6 DEF Examine, InfoFails
<1>7. ASSUME UNCHANGED <<temp, now>> PROVE TempInv'
  BY <1>7
<1> QED
  BY <1>1, <1>2, <1>3, <1>4, <1>5, <1>6, <1>7 DEF Next, Request, Cleaner

\* The clock does not go back.
LEMMA StepTime == TypeOK /\ TimeInv /\ [Next]_vars => TimeInv'
<1> SUFFICES ASSUME TypeOK, TimeInv, [Next]_vars PROVE TimeInv'
  OBVIOUS
<1> USE StoreAssumption DEF TypeOK, TimeInv, Time, requestVars
<1>1. ASSUME NEW r \in Requests, RenameIntoPlace(r) PROVE TimeInv'
  BY <1>1 DEF RenameIntoPlace
<1>2. ASSUME NEW r \in Requests,
             CreateTemp(r) \/ WriteTemp(r) \/ SaveFails(r) \/ Retrieve(r) \/ Finish(r)
      PROVE  UNCHANGED <<now, savedAt, cleaner>>
  BY <1>2 DEF CreateTemp, WriteTemp, SaveFails, Retrieve, Finish
<1>3. CASE StartPass \/ Remove \/ RemoveFails \/ EndPass \/ Restart
  <2>1. UNCHANGED <<now, savedAt>>
    BY <1>3 DEF StartPass, Remove, RemoveFails, EndPass, Restart
  <2>2. cleaner'.at \in {cleaner.at, now}
    BY <1>3 DEF StartPass, Remove, RemoveFails, EndPass, Restart
  <2> QED BY <2>1, <2>2
<1>4. ASSUME NEW h \in Hashes, Examine(h) \/ InfoFails(h) PROVE TimeInv'
  BY <1>4 DEF Examine, InfoFails
<1>5. CASE Tick
  BY <1>5 DEF Tick
<1>6. ASSUME UNCHANGED <<now, savedAt, cleaner>> PROVE TimeInv'
  BY <1>6
<1>7. CASE UNCHANGED vars
  BY <1>6, <1>7 DEF vars
<1> QED
  BY <1>1, <1>2, <1>3, <1>4, <1>5, <1>6, <1>7 DEF Next, Request, Cleaner

-------------------------------------------------------------------------------
\* A rename puts a file of this moment in place; the cleaner picks and removes
\* expired files only, and an expired file is older than any save whose time
\* to live is not over.
LEMMA StepPlaced ==
    TypeOK /\ TempInv /\ TimeInv /\ PlacedInv /\ [Next]_vars => PlacedInv'
<1> SUFFICES ASSUME TypeOK, TempInv, TimeInv, PlacedInv, [Next]_vars,
                    NEW q \in Requests,
                    pc'[q] = "placed", quiet'[q], now' <= savedAt'[q] + TTL
             PROVE  /\ file'[hash'[q]] # Absent
                    /\ file'[hash'[q]].mtime >= savedAt'[q]
                    /\ ~(cleaner'.pc = "removing" /\ cleaner'.victim = hash'[q])
  BY DEF PlacedInv
<1> DEFINE Held == /\ file'[hash'[q]] # Absent
                   /\ file'[hash'[q]].mtime >= savedAt'[q]
                   /\ ~(cleaner'.pc = "removing" /\ cleaner'.victim = hash'[q])
<1> USE StoreAssumption DEF TypeOK, TempInv, TimeInv, PlacedInv, Time, File, requestVars
<1>1. ASSUME NEW r \in Requests, RenameIntoPlace(r) PROVE Held
  <2>1. temp[r] # Absent /\ temp[r].mtime = now
    BY <1>1 DEF RenameIntoPlace, ReadyToRename
  <2>2. CASE q = r
    <3>1. file'[hash'[q]] = temp[r] /\ savedAt'[q] = now
      BY <1>1, <2>2 DEF RenameIntoPlace
    <3>2. quiet'[q] = (cleaner.pc = "idle") /\ cleaner' = cleaner
      BY <1>1, <2>2 DEF RenameIntoPlace
    <3>3. cleaner'.pc = "idle"
      BY <3>2, Zenon
    <3>4. now >= now
      OBVIOUS
    <3> QED BY <2>1, <3>1, <3>3, <3>4
  <2>3. CASE q # r
    <3>1. /\ pc[q] = "placed" /\ quiet[q]
          /\ savedAt'[q] = savedAt[q] /\ now' = now
          /\ hash' = hash /\ cleaner' = cleaner
      BY <1>1, <2>3 DEF RenameIntoPlace
    <3>2. file'[hash[q]] = IF hash[q] = hash[r] THEN temp[r] ELSE file[hash[q]]
      BY <1>1 DEF RenameIntoPlace
    <3>3. now >= savedAt[q]
      OBVIOUS
    <3> QED BY <2>1, <3>1, <3>2, <3>3
  <2> QED BY <2>2, <2>3
<1>2. ASSUME NEW r \in Requests,
             CreateTemp(r) \/ WriteTemp(r) \/ SaveFails(r) \/ Retrieve(r) \/ Finish(r)
      PROVE  Held
  <2>1. /\ pc[q] = "placed"
        /\ UNCHANGED <<now, file, savedAt, quiet, cleaner>>
        /\ hash'[q] = hash[q]
    BY <1>2 DEF CreateTemp, WriteTemp, SaveFails, Retrieve, Finish
  <2> QED BY <2>1
<1>3. ASSUME NEW h \in Hashes, Examine(h) PROVE Held
  <2>1. UNCHANGED <<now, file, temp, pc, hash, savedAt, quiet>>
    BY <1>3 DEF Examine
  <2>2. /\ file[hash[q]] # Absent
        /\ file[hash[q]].mtime >= savedAt[q]
        /\ ~(cleaner.pc = "removing" /\ cleaner.victim = hash[q])
    BY <2>1
  <2>3. ~Expired(file[hash[q]], cleaner.at)
    BY <2>1, <2>2 DEF Expired
  <2>4. ~(cleaner'.pc = "removing" /\ cleaner'.victim = hash[q])
    <3>1. CASE file[h] # Absent /\ Expired(file[h], cleaner.at)
      <4>1. h # hash[q] /\ cleaner'.victim = h
        BY <1>3, <2>3, <3>1 DEF Examine
      <4> QED BY <4>1
    <3>2. CASE ~(file[h] # Absent /\ Expired(file[h], cleaner.at))
      <4>1. cleaner'.pc = "scanning"
        BY <1>3, <3>2 DEF Examine
      <4> QED BY <4>1
    <3> QED BY <3>1, <3>2
  <2> QED BY <2>1, <2>2, <2>4
<1>4. CASE Remove
  <2>1. /\ UNCHANGED <<now, pc, hash, savedAt, quiet>>
        /\ cleaner.pc = "removing" /\ cleaner'.pc = "scanning"
    BY <1>4 DEF Remove
  <2>2. cleaner.victim # hash[q]
    BY <2>1
  <2>3. file'[hash[q]] = file[hash[q]]
    BY <1>4, <2>2 DEF Remove
  <2> QED BY <2>1, <2>3
<1>5. CASE StartPass \/ RemoveFails \/ EndPass
  <2>1. UNCHANGED <<now, file, pc, hash, savedAt, quiet>> /\ cleaner'.pc # "removing"
    BY <1>5 DEF StartPass, RemoveFails, EndPass
  <2> QED BY <2>1
<1>9. ASSUME NEW h \in Hashes, InfoFails(h) PROVE Held
  <2>1. UNCHANGED <<now, file, pc, hash, savedAt, quiet>> /\ cleaner'.pc # "removing"
    BY <1>9 DEF InfoFails
  <2> QED BY <2>1
<1>6. CASE Tick
  <2>1. now' = now + 1 /\ UNCHANGED <<file, pc, hash, savedAt, quiet, cleaner>>
    BY <1>6 DEF Tick
  <2> QED BY <2>1
<1>7. CASE Restart
  BY <1>7 DEF Restart
<1>8. CASE UNCHANGED vars
  BY <1>8 DEF vars
<1> QED
  BY <1>1, <1>2, <1>3, <1>4, <1>5, <1>6, <1>7, <1>8, <1>9 DEF Next, Request, Cleaner

\* A request that asks in time finds its file.
LEMMA StepAnswer ==
    TypeOK /\ NeverTorn /\ PlacedInv /\ AnswerInv /\ [Next]_vars => AnswerInv'
<1> SUFFICES ASSUME TypeOK, NeverTorn, PlacedInv, AnswerInv, [Next]_vars,
                    NEW q \in Requests
             PROVE  /\ pc'[q] # "answered" => answer'[q] = "none"
                    /\ (answer'[q] = "unavailable" /\ quiet'[q]) => now' > savedAt'[q] + TTL
  BY DEF AnswerInv
<1> DEFINE Sound ==
      /\ pc'[q] # "answered" => answer'[q] = "none"
      /\ (answer'[q] = "unavailable" /\ quiet'[q]) => now' > savedAt'[q] + TTL
<1> USE StoreAssumption DEF TypeOK, AnswerInv, Time, requestVars
<1>1. ASSUME NEW r \in Requests, Retrieve(r) PROVE Sound
  <2>1. UNCHANGED <<now, savedAt, quiet>> /\ pc[r] = "placed" /\ pc'[r] = "answered"
    BY <1>1 DEF Retrieve
  <2>2. CASE q = r
    <3>1. answer'[q] = "unavailable" => ~(file[hash[q]] # Absent /\ file[hash[q]].whole)
      BY <1>1, <2>2 DEF Retrieve
    <3>2. file[hash[q]] # Absent => file[hash[q]].whole
      BY DEF NeverTorn
    <3>3. (answer'[q] = "unavailable" /\ quiet[q]) => ~(now <= savedAt[q] + TTL)
      BY <2>1, <2>2, <3>1, <3>2 DEF PlacedInv
    <3> QED BY <2>1, <2>2, <3>3
  <2>3. CASE q # r
    BY <1>1, <2>1, <2>3 DEF Retrieve
  <2> QED BY <2>2, <2>3
<1>2. ASSUME NEW r \in Requests, RenameIntoPlace(r) PROVE Sound
  BY <1>2 DEF RenameIntoPlace, ReadyToRename
<1>3. ASSUME NEW r \in Requests, CreateTemp(r) \/ WriteTemp(r) \/ SaveFails(r) PROVE Sound
  BY <1>3 DEF CreateTemp, WriteTemp, SaveFails
<1>4. ASSUME NEW r \in Requests, Finish(r) PROVE Sound
  BY <1>4 DEF Finish
<1>5. CASE StartPass \/ Remove \/ RemoveFails \/ EndPass
  BY <1>5 DEF StartPass, Remove, RemoveFails, EndPass
<1>6. ASSUME NEW h \in Hashes, Examine(h) \/ InfoFails(h) PROVE Sound
  BY <1>6 DEF Examine, InfoFails
<1>7. CASE Tick
  BY <1>7 DEF Tick
<1>8. CASE Restart
  BY <1>8 DEF Restart
<1>9. CASE UNCHANGED vars
  BY <1>9 DEF vars
<1> QED
  BY <1>1, <1>2, <1>3, <1>4, <1>5, <1>6, <1>7, <1>8, <1>9 DEF Next, Request, Cleaner

-------------------------------------------------------------------------------
\* The inductive invariant of the store holds in every state.
THEOREM Invariance == Spec => []IInv
<1>1. Init => IInv
  BY InitInv
<1>2. IInv /\ [Next]_vars => IInv'
  BY StepTypeOK, StepTorn, StepTemp, StepTime, StepPlaced, StepAnswer DEF IInv
<1> QED BY <1>1, <1>2, PTL DEF Spec

\* Files, requests and the cleaner keep their types.
THEOREM TypeCorrect == Spec => []TypeOK
<1>1. IInv => TypeOK
  BY DEF IInv
<1> QED BY <1>1, Invariance, PTL

\* No reader meets half a file under its final name (WriteFSCache's rename),
\* however many requests save and wherever the process dies.
THEOREM FilesWhole == Spec => []NeverTorn
<1>1. IInv => NeverTorn
  BY DEF IInv
<1> QED BY <1>1, Invariance, PTL

\* A placeholder can be redeemed for its time to live if no pass was under way
\* when its block was saved (SaveToElidedCache, CleanupElidedFiles).
THEOREM Redeemable == Spec => []ContentWithinTTL
<1>1. IInv => ContentWithinTTL
  BY DEF IInv, AnswerInv, ContentWithinTTL
<1> QED BY <1>1, Invariance, PTL
===============================================================================
