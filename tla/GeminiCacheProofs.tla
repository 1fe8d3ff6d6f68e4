---------------------------- MODULE GeminiCacheProofs ---------------------------
(***************************************************************************)
(* Proofs about GeminiCache for every set of requests, prompts and names,  *)
(* every lifetime, and every margin above the delay of a call.             *)
(***************************************************************************)
EXTENDS GeminiCache, TLAPS

\* A request holds a prompt from its start to its return, and an answer only
\* when it has been served.
OwnInv ==
    \A r \in Requests :
        /\ pc[r] # "idle" => own[r] # None
        /\ pc[r] # "served" => used[r] = None

\* The registry, and a request that holds a name, refer to resources that exist
\* and hold the prefix of the key.
NamesInv ==
    /\ \A k \in Keys : registry[k] # None =>
            /\ resource[registry[k].name] # None
            /\ Key(resource[registry[k].name].prompt) = k
    /\ \A r \in Requests : pc[r] \in {"created", "ready"} =>
            /\ name[r] # None
            /\ resource[name[r]] # None
            /\ Key(resource[name[r]].prompt) = Key(own[r])

\* Unless the upstream lost it, a resource outlives its entry, and a request
\* that refers to it arrives before it lapses: what is left of its life makes up
\* for the time a call may still take.
LifeInv ==
    /\ \A k \in Keys : registry[k] # None =>
            \/ registry[k].name \in dropped
            \/ registry[k].left <= resource[registry[k].name].left
    /\ \A r \in Requests : pc[r] = "created" =>
            \/ name[r] \in dropped
            \/ /\ resource[name[r]].left + waited[r] >= Life
               /\ resource[name[r]].left + asked[r] >= Life
    /\ \A r \in Requests : pc[r] = "ready" =>
            \/ name[r] \in dropped
            \/ resource[name[r]].left + waited[r] > MaxDelay

IInv == TypeOK /\ OwnInv /\ NamesInv /\ LifeInv /\ OwnPrefix /\ AliveWhenUsed

-------------------------------------------------------------------------------
\* A prompt's key is a key.
LEMMA KeyType == ASSUME NEW p \in Prompt PROVE Key(p) \in Keys
  BY DEF Prompt, Key, Keys

\* Taking one away.
LEMMA MinusOne == ASSUME NEW m \in Nat
                  PROVE  /\ Minus(m, 1) \in Nat /\ Minus(m, 1) <= m
                         /\ Minus(m, 1) + 1 >= m
                         /\ \A n \in Nat : m <= n => Minus(m, 1) <= Minus(n, 1)
  BY DEF Minus

\* Nothing is cached and nothing asked at the start.
LEMMA InitInv == Init => IInv
<1> SUFFICES ASSUME Init PROVE IInv
  OBVIOUS
<1> USE GeminiAssumption DEF Init
<1>1. TypeOK
  BY DEF TypeOK
<1>2. OwnInv /\ NamesInv /\ LifeInv
  BY DEF OwnInv, NamesInv, LifeInv
<1>3. OwnPrefix /\ AliveWhenUsed
  BY DEF OwnPrefix, AliveWhenUsed
<1> QED BY <1>1, <1>2, <1>3 DEF IInv

-------------------------------------------------------------------------------
\* Every step keeps every variable in its type.
LEMMA StepTypeOK == TypeOK /\ OwnInv /\ NamesInv /\ [Next]_vars => TypeOK'
<1> SUFFICES ASSUME TypeOK, OwnInv, NamesInv, [Next]_vars PROVE TypeOK'
  OBVIOUS
<1> USE GeminiAssumption DEF TypeOK, locals, lost
<1>1. ASSUME NEW r \in Requests, Start(r) PROVE TypeOK'
  BY <1>1 DEF Start
<1>2. ASSUME NEW r \in Requests, Hit(r) PROVE TypeOK'
  <2>1. own[r] \in Prompt
    BY <1>2 DEF Hit, OwnInv
  <2>2. registry[Key(own[r])].name \in Names
    BY <1>2, <2>1, KeyType DEF Hit, Usable, Entry
  <2> QED BY <1>2, <2>2 DEF Hit
<1>3. ASSUME NEW r \in Requests, Miss(r) PROVE TypeOK'
  <2>1. registry' \in [Keys -> Entry \union {None}]
    BY <1>3 DEF Miss
  <2>2. waited' \in [Requests -> 0..MaxDelay]
    BY <1>3 DEF Miss
  <2>3. pc' \in [Requests -> {"idle", "lookup", "creating", "created", "ready",
                             "plain", "served", "rejected"}]
    BY <1>3 DEF Miss
  <2> QED BY <1>3, <2>1, <2>2, <2>3 DEF Miss
<1>4. ASSUME NEW r \in Requests, CreateArrives(r) PROVE TypeOK'
  <2>1. own[r] \in Prompt
    BY <1>4 DEF CreateArrives, OwnInv
  <2>2. [prompt |-> own[r], left |-> Life] \in Resource
    BY <2>1 DEF Resource
  <2> QED BY <1>4, <2>2 DEF CreateArrives
<1>5. ASSUME NEW r \in Requests, CreateFails(r) PROVE TypeOK'
  BY <1>5 DEF CreateFails
<1>6. ASSUME NEW r \in Requests, StoreAndApply(r) PROVE TypeOK'
  <2>1. resource[name[r]] \in Resource /\ name[r] \in Names
    BY <1>6 DEF StoreAndApply, NamesInv
  <2>2. Expiry(r) \subseteq 0..Life
    BY <2>1 DEF Expiry, Minus, Resource
  <2>3. PICK left \in 0..Life :
            registry' = [registry EXCEPT ![Key(own[r])] = [name |-> name[r], left |-> left]]
    BY <1>6, <2>2 DEF StoreAndApply
  <2>4. [name |-> name[r], left |-> left] \in Entry
    BY <2>1 DEF Entry
  <2>5. registry' \in [Keys -> Entry \union {None}]
    BY <2>3, <2>4
  <2> QED BY <1>6, <2>5 DEF StoreAndApply
<1>7. ASSUME NEW r \in Requests, GenerateCached(r) PROVE TypeOK'
  <2>1. resource[name[r]].prompt \in Prompt
    BY <1>7 DEF GenerateCached, NamesInv, Resource
  <2> QED BY <1>7, <2>1 DEF GenerateCached
<1>8. ASSUME NEW r \in Requests, GeneratePlain(r) \/ Return(r) PROVE TypeOK'
  BY <1>8 DEF GeneratePlain, Return
<1>9. ASSUME NEW n \in Names, Drop(n) PROVE TypeOK'
  <2>1. resource[n] \in Resource
    BY <1>9 DEF Drop
  <2>2. [resource[n] EXCEPT !.left = 0] \in Resource
    BY <2>1 DEF Resource
  <2>3. resource' = [resource EXCEPT ![n] = [resource[n] EXCEPT !.left = 0]]
    BY <1>9 DEF Drop
  <2>4. resource' \in [Names -> Resource \union {None}]
    BY <2>2, <2>3
  <2> QED BY <1>9, <2>4 DEF Drop
<1>10. CASE Tick
  <2>1. \A n \in Names : resource[n] # None =>
            [resource[n] EXCEPT !.left = Minus(@, 1)] \in Resource
    BY DEF Minus, Resource
  <2>2. \A k \in Keys : registry[k] # None =>
            [registry[k] EXCEPT !.left = Minus(@, 1)] \in Entry
    BY DEF Minus, Entry
  <2>3. resource' \in [Names -> Resource \union {None}]
    BY <1>10, <2>1 DEF Tick
  <2>4. registry' \in [Keys -> Entry \union {None}]
    BY <1>10, <2>2 DEF Tick
  <2>5. waited' \in [Requests -> 0..MaxDelay] /\ asked' \in [Requests -> 0..Life]
    BY <1>10 DEF Tick
  <2> QED BY <1>10, <2>3, <2>4, <2>5 DEF Tick
<1>11. CASE UNCHANGED vars
  BY <1>11 DEF vars
<1> QED
  BY <1>1, <1>2, <1>3, <1>4, <1>5, <1>6, <1>7, <1>8, <1>9, <1>10, <1>11 DEF Next

\* The request's prompt and the model's answer come and go with its place.
LEMMA StepOwn == TypeOK /\ OwnInv /\ NamesInv /\ [Next]_vars => OwnInv'
<1> SUFFICES ASSUME TypeOK, OwnInv, NamesInv, [Next]_vars PROVE OwnInv'
  OBVIOUS
<1> USE GeminiAssumption DEF TypeOK, OwnInv, locals, lost
<1>1. ASSUME NEW r \in Requests, Start(r) \/ Return(r) PROVE OwnInv'
  BY <1>1 DEF Start, Return
<1>2. ASSUME NEW r \in Requests, Hit(r) \/ Miss(r) PROVE OwnInv'
  BY <1>2 DEF Hit, Miss
<1>3. ASSUME NEW r \in Requests, CreateArrives(r) \/ CreateFails(r) \/ StoreAndApply(r)
      PROVE OwnInv'
  BY <1>3 DEF CreateArrives, CreateFails, StoreAndApply
<1>4. ASSUME NEW r \in Requests, GenerateCached(r) \/ GeneratePlain(r) PROVE OwnInv'
  BY <1>4 DEF GenerateCached, GeneratePlain
<1>5. ASSUME NEW n \in Names, Drop(n) PROVE OwnInv'
  BY <1>5 DEF Drop
<1>6. CASE Tick
  BY <1>6 DEF Tick
<1>7. CASE UNCHANGED vars
  BY <1>7 DEF vars
<1> QED BY <1>1, <1>2, <1>3, <1>4, <1>5, <1>6, <1>7 DEF Next

-------------------------------------------------------------------------------
\* A resource, once made, keeps its prefix; names are not used twice.
LEMMA ResourcesKept ==
    TypeOK /\ [Next]_vars =>
        \A n \in Names : resource[n] # None =>
            resource'[n] # None /\ resource'[n].prompt = resource[n].prompt
<1> SUFFICES ASSUME TypeOK, [Next]_vars, NEW n \in Names, resource[n] # None
             PROVE  resource'[n] # None /\ resource'[n].prompt = resource[n].prompt
  OBVIOUS
<1> DEFINE Kept == resource'[n] # None /\ resource'[n].prompt = resource[n].prompt
<1> USE GeminiAssumption DEF TypeOK, locals, lost
<1>1. ASSUME NEW r \in Requests, CreateArrives(r) PROVE Kept
  BY <1>1 DEF CreateArrives
<1>2. ASSUME NEW r \in Requests, Start(r) \/ Hit(r) \/ Miss(r) \/ CreateFails(r)
      PROVE Kept
  BY <1>2 DEF Start, Hit, Miss, CreateFails
<1>3. ASSUME NEW r \in Requests,
             StoreAndApply(r) \/ GenerateCached(r) \/ GeneratePlain(r) \/ Return(r)
      PROVE Kept
  BY <1>3 DEF StoreAndApply, GenerateCached, GeneratePlain, Return
<1>4. ASSUME NEW m \in Names, Drop(m) PROVE Kept
  <2>1. resource' = [resource EXCEPT ![m] = [resource[m] EXCEPT !.left = 0]]
    BY <1>4 DEF Drop
  <2>2. resource[m] \in Resource
    BY <1>4 DEF Drop
  <2>3. [resource[m] EXCEPT !.left = 0] \in Resource
    BY <2>2 DEF Resource
  <2>4. [resource[m] EXCEPT !.left = 0].prompt = resource[m].prompt
    BY <2>2 DEF Resource
  <2> QED BY <2>1, <2>3, <2>4
<1>5. CASE Tick
  <2>1. resource'[n] = [resource[n] EXCEPT !.left = Minus(@, 1)]
    BY <1>5 DEF Tick
  <2>2. resource[n] \in Resource
    OBVIOUS
  <2>3. resource'[n] \in Resource /\ resource'[n].prompt = resource[n].prompt
    BY <2>1, <2>2 DEF Resource, Minus
  <2> QED BY <2>3
<1>6. CASE UNCHANGED vars
  BY <1>6 DEF vars
<1> QED BY <1>1, <1>2, <1>3, <1>4, <1>5, <1>6 DEF Next

\* A resource of a prefix stays one.
LEMMA PrefixKept ==
    TypeOK /\ [Next]_vars =>
        \A n \in Names, k \in Keys :
            (resource[n] # None /\ Key(resource[n].prompt) = k) =>
                resource'[n] # None /\ Key(resource'[n].prompt) = k
  BY ResourcesKept DEF Key

\* A key's entry names a resource of its prefix.
LEMMA StepEntries ==
    TypeOK /\ OwnInv /\ NamesInv /\ [Next]_vars =>
        \A k \in Keys : registry'[k] # None =>
            /\ resource'[registry'[k].name] # None
            /\ Key(resource'[registry'[k].name].prompt) = k
<1> SUFFICES ASSUME TypeOK, OwnInv, NamesInv, [Next]_vars,
                    NEW k \in Keys, registry'[k] # None
             PROVE  /\ resource'[registry'[k].name] # None
                    /\ Key(resource'[registry'[k].name].prompt) = k
  OBVIOUS
<1> DEFINE Good == /\ resource'[registry'[k].name] # None
                   /\ Key(resource'[registry'[k].name].prompt) = k
<1>1. ASSUME registry[k] # None, registry'[k].name = registry[k].name PROVE Good
  <2>1. registry[k].name \in Names
    BY <1>1 DEF TypeOK, Entry
  <2> QED BY <1>1, <2>1, PrefixKept DEF NamesInv
<1>2. ASSUME registry'[k] = registry[k] PROVE Good
  BY <1>1, <1>2
<1> HIDE DEF Good
<1> USE GeminiAssumption DEF TypeOK, locals, lost
<1>3. ASSUME NEW r \in Requests,
             Start(r) \/ Hit(r) \/ CreateArrives(r) \/ CreateFails(r)
      PROVE Good
  BY <1>2, <1>3 DEF Start, Hit, CreateArrives, CreateFails
<1>4. ASSUME NEW r \in Requests, Miss(r) PROVE Good
  <2>1. registry'[k] \in {None, registry[k]}
    BY <1>4 DEF Miss
  <2> QED BY <1>2, <2>1
<1>5. ASSUME NEW r \in Requests, StoreAndApply(r) PROVE Good
  <2>1. /\ name[r] \in Names
        /\ resource[name[r]] # None
        /\ Key(resource[name[r]].prompt) = Key(own[r])
    BY <1>5 DEF StoreAndApply, NamesInv
  <2>2. PICK left :
            registry' = [registry EXCEPT ![Key(own[r])] = [name |-> name[r], left |-> left]]
    BY <1>5 DEF StoreAndApply
  <2>3. CASE k = Key(own[r])
    <3>1. registry'[k].name = name[r]
      BY <2>2, <2>3
    <3> QED BY <2>1, <2>3, <3>1, PrefixKept DEF Good
  <2>4. CASE k # Key(own[r])
    <3>1. registry'[k] = registry[k]
      BY <2>2, <2>4
    <3> QED BY <1>2, <3>1
  <2> QED BY <2>3, <2>4
<1>6. ASSUME NEW r \in Requests, GenerateCached(r) \/ GeneratePlain(r) \/ Return(r)
      PROVE Good
  BY <1>2, <1>6 DEF GenerateCached, GeneratePlain, Return
<1>7. ASSUME NEW n \in Names, Drop(n) PROVE Good
  BY <1>2, <1>7 DEF Drop
<1>8. ASSUME Tick PROVE Good
  <2>1. registry[k] # None /\ registry'[k].name = registry[k].name
    BY <1>8 DEF Tick, Entry
  <2> QED BY <1>1, <2>1
<1>9. ASSUME UNCHANGED vars PROVE Good
  BY <1>2, <1>9 DEF vars
<1> QED BY <1>3, <1>4, <1>5, <1>6, <1>7, <1>8, <1>9 DEF Next, Good

\* A request that holds a name holds that of a resource of its own prefix.
LEMMA StepNamed ==
    TypeOK /\ OwnInv /\ NamesInv /\ [Next]_vars =>
        \A r \in Requests : pc'[r] \in {"created", "ready"} =>
            /\ name'[r] # None
            /\ resource'[name'[r]] # None
            /\ Key(resource'[name'[r]].prompt) = Key(own'[r])
<1> SUFFICES ASSUME TypeOK, OwnInv, NamesInv, [Next]_vars,
                    NEW q \in Requests, pc'[q] \in {"created", "ready"}
             PROVE  /\ name'[q] # None
                    /\ resource'[name'[q]] # None
                    /\ Key(resource'[name'[q]].prompt) = Key(own'[q])
  OBVIOUS
<1> DEFINE Good == /\ name'[q] # None
                   /\ resource'[name'[q]] # None
                   /\ Key(resource'[name'[q]].prompt) = Key(own'[q])
<1>1. ASSUME pc[q] \in {"created", "ready"}, name'[q] = name[q], own'[q] = own[q]
      PROVE  Good
  <2>1. name[q] \in Names /\ own[q] \in Prompt
    BY <1>1 DEF NamesInv, OwnInv, TypeOK
  <2>2. Key(own[q]) \in Keys
    BY <2>1, KeyType
  <2> QED BY <1>1, <2>1, <2>2, PrefixKept, GeminiAssumption DEF NamesInv
<1>2. ASSUME pc'[q] = pc[q], name'[q] = name[q], own'[q] = own[q] PROVE Good
  BY <1>1, <1>2
<1> HIDE DEF Good
<1> USE GeminiAssumption DEF TypeOK, locals, lost
<1>3. ASSUME NEW r \in Requests, Start(r) \/ Miss(r) \/ CreateFails(r) \/ Return(r)
      PROVE Good
  <2>1. q # r
    BY <1>3 DEF Start, Miss, CreateFails, Return
  <2> QED BY <1>2, <1>3, <2>1 DEF Start, Miss, CreateFails, Return
<1>4. ASSUME NEW r \in Requests, Hit(r) PROVE Good
  <2>1. CASE q = r
    <3>1. own[q] \in Prompt /\ own' = own
      BY <1>4, <2>1 DEF Hit, OwnInv
    <3>2. Key(own[q]) \in Keys /\ registry[Key(own[q])] # None
      BY <1>4, <2>1, <3>1, KeyType DEF Hit, Usable
    <3>3. registry[Key(own[q])].name \in Names
      BY <3>2 DEF Entry
    <3>4. name'[q] = registry[Key(own[q])].name
      BY <1>4, <2>1 DEF Hit
    <3> QED BY <3>1, <3>2, <3>3, <3>4, PrefixKept DEF NamesInv, Good
  <2>2. CASE q # r
    BY <1>2, <1>4, <2>2 DEF Hit
  <2> QED BY <2>1, <2>2
<1>5. ASSUME NEW r \in Requests, CreateArrives(r) PROVE Good
  <2>1. PICK n \in Names :
            /\ resource' = [resource EXCEPT ![n] = [prompt |-> own[r], left |-> Life]]
            /\ name' = [name EXCEPT ![r] = n]
    BY <1>5 DEF CreateArrives
  <2>2. CASE q = r
    <3>1. resource'[n] # None /\ resource'[n].prompt = own[r]
      BY <1>5, <2>1 DEF Resource, CreateArrives, OwnInv
    <3> QED BY <1>5, <2>1, <2>2, <3>1 DEF CreateArrives, Good
  <2>3. CASE q # r
    BY <1>2, <1>5, <2>1, <2>3 DEF CreateArrives
  <2> QED BY <2>2, <2>3
<1>6. ASSUME NEW r \in Requests, StoreAndApply(r) PROVE Good
  <2>1. pc[q] \in {"created", "ready"} /\ UNCHANGED <<name, own>>
    BY <1>6 DEF StoreAndApply
  <2> QED BY <1>1, <2>1
<1>7. ASSUME NEW r \in Requests, GenerateCached(r) \/ GeneratePlain(r) PROVE Good
  BY <1>2, <1>7 DEF GenerateCached, GeneratePlain
<1>8. ASSUME NEW n \in Names, Drop(n) PROVE Good
  BY <1>2, <1>8 DEF Drop
<1>9. ASSUME Tick \/ UNCHANGED vars PROVE Good
  BY <1>2, <1>9 DEF Tick, vars
<1> QED BY <1>3, <1>4, <1>5, <1>6, <1>7, <1>8, <1>9 DEF Next, Good

\* The model is given the prefix of the request's key.
LEMMA StepPrefix == TypeOK /\ OwnInv /\ NamesInv /\ OwnPrefix /\ [Next]_vars => OwnPrefix'
<1> SUFFICES ASSUME TypeOK, OwnInv, NamesInv, OwnPrefix, [Next]_vars PROVE OwnPrefix'
  OBVIOUS
<1> USE GeminiAssumption DEF TypeOK, OwnInv, OwnPrefix, locals, lost
<1>1. ASSUME NEW r \in Requests, Start(r) \/ Return(r) PROVE OwnPrefix'
  BY <1>1 DEF Start, Return
<1>2. ASSUME NEW r \in Requests, GenerateCached(r) PROVE OwnPrefix'
  <2>1. Key(resource[name[r]].prompt) = Key(own[r])
    BY <1>2 DEF GenerateCached, NamesInv
  <2>2. /\ resource[name[r]].prompt.sys = own[r].sys
        /\ resource[name[r]].prompt.tools = own[r].tools
    BY <2>1 DEF Key
  <2> QED BY <1>2, <2>2 DEF GenerateCached
<1>3. ASSUME NEW r \in Requests, GeneratePlain(r) PROVE OwnPrefix'
  BY <1>3 DEF GeneratePlain
<1>4. ASSUME NEW r \in Requests,
             Hit(r) \/ Miss(r) \/ CreateArrives(r) \/ CreateFails(r) \/ StoreAndApply(r)
      PROVE UNCHANGED <<used, own>>
  BY <1>4 DEF Hit, Miss, CreateArrives, CreateFails, StoreAndApply
<1>5. ASSUME NEW n \in Names, Drop(n) PROVE UNCHANGED <<used, own>>
  BY <1>5 DEF Drop
<1>6. ASSUME Tick \/ UNCHANGED vars PROVE UNCHANGED <<used, own>>
  BY <1>6 DEF Tick, vars
<1>7. ASSUME UNCHANGED <<used, own>> PROVE OwnPrefix'
  BY <1>7
<1> QED BY <1>1, <1>2, <1>3, <1>4, <1>5, <1>6, <1>7 DEF Next

-------------------------------------------------------------------------------
\* What happens to the life of a resource: time takes one, a loss takes all,
\* and nothing else touches it.
LEMMA LifeKept ==
    TypeOK /\ [Next]_vars =>
        /\ dropped \subseteq dropped'
        /\ \A n \in Names : (resource[n] # None /\ n \notin dropped') =>
            /\ resource[n].left \in 0..Life
            /\ Tick => resource'[n].left = Minus(resource[n].left, 1)
            /\ Tick \/ resource'[n].left = resource[n].left
<1> SUFFICES ASSUME TypeOK, [Next]_vars
             PROVE  /\ dropped \subseteq dropped'
                    /\ \A n \in Names : (resource[n] # None /\ n \notin dropped') =>
                        /\ resource[n].left \in 0..Life
                        /\ Tick => resource'[n].left = Minus(resource[n].left, 1)
                        /\ Tick \/ resource'[n].left = resource[n].left
  OBVIOUS
<1> USE GeminiAssumption DEF TypeOK, locals, lost
<1>1. \A n \in Names : resource[n] # None => resource[n] \in Resource
  OBVIOUS
<1>2. \A n \in Names : resource[n] # None => resource[n].left \in 0..Life
  BY <1>1 DEF Resource
<1>3. ASSUME NEW r \in Requests, CreateArrives(r)
      PROVE  /\ dropped' = dropped
             /\ \A n \in Names : resource[n] # None => resource'[n] = resource[n]
  BY <1>3 DEF CreateArrives
<1>4. ASSUME NEW r \in Requests,
             \/ Start(r) \/ Hit(r) \/ Miss(r) \/ CreateFails(r) \/ StoreAndApply(r)
             \/ GenerateCached(r) \/ GeneratePlain(r) \/ Return(r)
      PROVE  UNCHANGED <<resource, dropped>>
  BY <1>4 DEF Start, Hit, Miss, CreateFails, StoreAndApply, GenerateCached,
              GeneratePlain, Return
<1>5. ASSUME NEW m \in Names, Drop(m)
      PROVE  /\ dropped' = dropped \union {m}
             /\ \A n \in Names \ {m} : resource'[n] = resource[n]
  BY <1>5 DEF Drop
<1>6. ASSUME Tick
      PROVE  /\ dropped' = dropped
             /\ \A n \in Names : resource[n] # None =>
                    resource'[n].left = Minus(resource[n].left, 1)
  <2>1. dropped' = dropped
    BY <1>6 DEF Tick
  <2>2. ASSUME NEW n \in Names, resource[n] # None
        PROVE  resource'[n].left = Minus(resource[n].left, 1)
    <3>1. resource'[n] = [resource[n] EXCEPT !.left = Minus(@, 1)]
      BY <1>6, <2>2 DEF Tick
    <3> QED BY <3>1, <2>2, <1>1 DEF Resource
  <2> QED BY <2>1, <2>2
<1>7. ASSUME ~Tick
      PROVE  /\ dropped \subseteq dropped'
             /\ \A n \in Names : (resource[n] # None /\ n \notin dropped') =>
                    resource'[n] = resource[n]
  <2>1. ASSUME UNCHANGED vars PROVE UNCHANGED <<resource, dropped>>
    BY <2>1 DEF vars
  <2> QED BY <1>3, <1>4, <1>5, <1>7, <2>1 DEF Next
<1>8. CASE Tick
  BY <1>2, <1>6, <1>8
<1>9. CASE ~Tick
  BY <1>2, <1>7, <1>9
<1> QED BY <1>8, <1>9

\* An entry lapses no later than its resource.
LEMMA StepEntryLife ==
    IInv /\ [Next]_vars =>
        \A k \in Keys : registry'[k] # None =>
            \/ registry'[k].name \in dropped'
            \/ registry'[k].left <= resource'[registry'[k].name].left
<1> SUFFICES ASSUME TypeOK, NamesInv, LifeInv, [Next]_vars,
                    NEW k \in Keys, registry'[k] # None
             PROVE  \/ registry'[k].name \in dropped'
                    \/ registry'[k].left <= resource'[registry'[k].name].left
  BY DEF IInv
<1> DEFINE Good == \/ registry'[k].name \in dropped'
                   \/ registry'[k].left <= resource'[registry'[k].name].left
<1>1. ASSUME registry'[k] = registry[k], ~Tick PROVE Good
  <2>1. registry[k].name \in Names /\ resource[registry[k].name] # None
    BY <1>1 DEF TypeOK, Entry, NamesInv
  <2> QED BY <1>1, <2>1, LifeKept DEF LifeInv
<1>2. ASSUME Tick PROVE Good
  <2>1. registry[k] # None /\ registry'[k] = [registry[k] EXCEPT !.left = Minus(@, 1)]
    BY <1>2 DEF Tick
  <2>2. registry[k] \in Entry
    BY <2>1 DEF TypeOK
  <2>3. /\ registry[k].left \in 0..Life
        /\ registry[k].name \in Names
        /\ registry'[k].name = registry[k].name
        /\ registry'[k].left = Minus(registry[k].left, 1)
    BY <2>1, <2>2 DEF Entry
  <2>4. resource[registry[k].name] # None
    BY <2>1 DEF NamesInv
  <2>5. CASE registry[k].name \in dropped'
    BY <2>3, <2>5
  <2>6. CASE registry[k].name \notin dropped'
    <3>1. /\ resource[registry[k].name].left \in 0..Life
          /\ resource'[registry[k].name].left = Minus(resource[registry[k].name].left, 1)
      BY <1>2, <2>3, <2>4, <2>6, LifeKept
    <3>2. registry[k].left <= resource[registry[k].name].left
      BY <2>1, <2>3, <2>6, LifeKept DEF LifeInv
    <3> QED BY <2>3, <3>1, <3>2, MinusOne, GeminiAssumption
  <2> QED BY <2>5, <2>6
<1>3. ASSUME NEW r \in Requests, StoreAndApply(r) PROVE Good
  <2>1. PICK left \in Expiry(r) :
            registry' = [registry EXCEPT ![Key(own[r])] = [name |-> name[r], left |-> left]]
    BY <1>3 DEF StoreAndApply
  <2>2. UNCHANGED <<resource, dropped, asked>> /\ pc[r] = "created"
    BY <1>3 DEF StoreAndApply, lost
  <2>3. CASE k = Key(own[r])
    <3>1. registry'[k].name = name[r] /\ registry'[k].left = left
      BY <2>1, <2>3 DEF TypeOK
    <3>2. name[r] \in Names /\ resource[name[r]] \in Resource
      BY <2>2 DEF NamesInv, TypeOK
    <3>3. resource[name[r]].left \in 0..Life /\ asked[r] \in 0..Life
      BY <3>2 DEF Resource, TypeOK
    <3>4. name[r] \in dropped \/ resource[name[r]].left + asked[r] >= Life
      BY <2>2 DEF LifeInv
    <3>5. left = resource[name[r]].left \/ left = Minus(Life, asked[r])
      BY <2>1 DEF Expiry
    <3>6. name[r] \in dropped \/ left <= resource[name[r]].left
      BY <3>3, <3>4, <3>5, GeminiAssumption DEF Minus
    <3> QED BY <2>2, <3>1, <3>6
  <2>4. CASE k # Key(own[r])
    <3>1. registry'[k] = registry[k]
      BY <2>1, <2>4 DEF TypeOK
    <3>2. registry[k].name \in Names /\ resource[registry[k].name] # None
      BY <3>1 DEF TypeOK, Entry, NamesInv
    <3> QED BY <2>2, <3>1, <3>2 DEF LifeInv
  <2> QED BY <2>3, <2>4
<1>4. ASSUME ~Tick, \A r \in Requests : ~StoreAndApply(r) PROVE registry'[k] = registry[k]
  <2>1. ASSUME NEW r \in Requests,
               \/ Start(r) \/ Hit(r) \/ CreateArrives(r) \/ CreateFails(r)
               \/ GenerateCached(r) \/ GeneratePlain(r) \/ Return(r)
        PROVE  UNCHANGED registry
    BY <2>1 DEF Start, Hit, CreateArrives, CreateFails, GenerateCached,
                GeneratePlain, Return
  <2>2. ASSUME NEW r \in Requests, Miss(r) PROVE registry'[k] = registry[k]
    BY <2>2 DEF Miss, TypeOK
  <2>3. ASSUME NEW n \in Names, Drop(n) PROVE UNCHANGED registry
    BY <2>3 DEF Drop
  <2>4. ASSUME UNCHANGED vars PROVE UNCHANGED registry
    BY <2>4 DEF vars
  <2> QED BY <1>4, <2>1, <2>2, <2>3, <2>4 DEF Next
<1> QED BY <1>1, <1>2, <1>3, <1>4

\* Time passes for a request that refers to a resource: what it waited and what
\* the resource lost are the same.
LEMMA WaitTick ==
    IInv /\ Tick =>
        \A q \in Requests : pc[q] \in {"created", "ready"} =>
            /\ name'[q] = name[q] /\ pc'[q] = pc[q]
            /\ \/ name[q] \in dropped'
               \/ /\ resource'[name[q]].left \in Nat
                  /\ resource[name[q]].left = resource'[name[q]].left + 1
            /\ waited[q] \in Nat /\ waited'[q] = waited[q] + 1
            /\ asked[q] \in Nat /\ asked'[q] \in Nat
            /\ pc[q] = "created" => asked'[q] = asked[q] + 1 \/ asked'[q] = Life
<1> SUFFICES ASSUME IInv, Tick, NEW q \in Requests, pc[q] \in {"created", "ready"}
             PROVE  /\ name'[q] = name[q] /\ pc'[q] = pc[q]
                    /\ \/ name[q] \in dropped'
                       \/ /\ resource'[name[q]].left \in Nat
                          /\ resource[name[q]].left = resource'[name[q]].left + 1
                    /\ waited[q] \in Nat /\ waited'[q] = waited[q] + 1
                    /\ asked[q] \in Nat /\ asked'[q] \in Nat
                    /\ pc[q] = "created" => asked'[q] = asked[q] + 1 \/ asked'[q] = Life
  OBVIOUS
<1> USE GeminiAssumption
<1>1. TypeOK /\ NamesInv /\ LifeInv
  BY DEF IInv
<1>2. UNCHANGED <<name, pc, dropped>>
  BY DEF Tick, lost
<1>3. name[q] \in Names /\ resource[name[q]] # None
  BY <1>1 DEF TypeOK, NamesInv
<1>4. /\ waited[q] \in 0..MaxDelay /\ waited[q] < MaxDelay /\ waited'[q] = waited[q] + 1
      /\ asked[q] \in 0..Life
  BY <1>1 DEF TypeOK, Tick, Waiting
<1>5. /\ asked'[q] \in Nat
      /\ pc[q] = "created" => asked'[q] = asked[q] + 1 \/ asked'[q] = Life
  <2>1. Life \in Nat /\ asked[q] \in Nat /\ asked[q] <= Life
    BY <1>4
  <2>2. asked'[q] = IF pc[q] \in {"creating", "created"} /\ asked[q] < Life
                    THEN asked[q] + 1 ELSE asked[q]
    BY DEF Tick
  <2> QED BY <2>1, <2>2
<1>6. ASSUME name[q] \notin dropped'
      PROVE  /\ resource'[name[q]].left \in Nat
             /\ resource[name[q]].left = resource'[name[q]].left + 1
  <2>1. /\ resource[name[q]].left \in 0..Life
        /\ resource'[name[q]].left = Minus(resource[name[q]].left, 1)
    BY <1>1, <1>3, <1>6, LifeKept DEF Next
  <2>2. resource[name[q]].left > 0
    <3>1. CASE pc[q] = "created"
      BY <1>1, <1>2, <1>4, <1>6, <2>1, <3>1 DEF LifeInv
    <3>2. CASE pc[q] = "ready"
      BY <1>1, <1>2, <1>4, <1>6, <2>1, <3>2 DEF LifeInv
    <3> QED BY <3>1, <3>2
  <2> QED BY <2>1, <2>2 DEF Minus
<1> QED BY <1>2, <1>4, <1>5, <1>6

\* A request to whom nothing happens but other requests' steps keeps what it
\* knows of the life of its resource.
LEMMA OtherStep ==
    IInv /\ [Next]_vars /\ ~Tick =>
        \A q \in Requests :
            (pc[q] \in {"created", "ready"} /\ name[q] \notin dropped') =>
                /\ name[q] \notin dropped
                /\ resource'[name[q]].left = resource[name[q]].left
  BY LifeKept DEF IInv, TypeOK, NamesInv

\* A request that waits for the answer to its creation.
LEMMA StepCreatedLife ==
    IInv /\ [Next]_vars =>
        \A r \in Requests : pc'[r] = "created" =>
            \/ name'[r] \in dropped'
            \/ /\ resource'[name'[r]].left + waited'[r] >= Life
               /\ resource'[name'[r]].left + asked'[r] >= Life
<1> SUFFICES ASSUME IInv, [Next]_vars, NEW q \in Requests, pc'[q] = "created"
             PROVE  \/ name'[q] \in dropped'
                    \/ /\ resource'[name'[q]].left + waited'[q] >= Life
                       /\ resource'[name'[q]].left + asked'[q] >= Life
  OBVIOUS
<1> DEFINE Good == \/ name'[q] \in dropped'
                   \/ /\ resource'[name'[q]].left + waited'[q] >= Life
                      /\ resource'[name'[q]].left + asked'[q] >= Life
<1>0. TypeOK /\ LifeInv
  BY DEF IInv
<1>1. ASSUME UNCHANGED <<pc[q], name[q], waited[q], asked[q]>>, ~Tick PROVE Good
  BY <1>0, <1>1, OtherStep DEF LifeInv
<1>2. ASSUME Tick PROVE Good
  <2>1. pc[q] = "created"
    BY <1>2 DEF Tick
  <2>2. \/ name[q] \in dropped
        \/ /\ resource[name[q]].left + waited[q] >= Life
           /\ resource[name[q]].left + asked[q] >= Life
    BY <1>0, <2>1 DEF LifeInv
  <2>3. dropped \subseteq dropped'
    BY <1>0, LifeKept
  <2> QED BY <1>2, <2>1, <2>2, <2>3, WaitTick, GeminiAssumption
<1> HIDE DEF Good
<1> USE GeminiAssumption, <1>0 DEF TypeOK, locals, lost
<1>3. ASSUME ~Tick, NEW r \in Requests,
             \/ Start(r) \/ Hit(r) \/ Miss(r) \/ CreateFails(r) \/ StoreAndApply(r)
             \/ GenerateCached(r) \/ GeneratePlain(r) \/ Return(r)
      PROVE  Good
  <2>1. q # r
    BY <1>3 DEF Start, Hit, Miss, CreateFails, StoreAndApply, GenerateCached,
                GeneratePlain, Return
  <2>2. UNCHANGED <<pc[q], name[q], waited[q], asked[q]>>
    BY <1>3, <2>1 DEF Start, Hit, Miss, CreateFails, StoreAndApply,
                      GenerateCached, GeneratePlain, Return
  <2> QED BY <1>1, <1>3, <2>2
<1>4. ASSUME ~Tick, NEW r \in Requests, CreateArrives(r) PROVE Good
  <2>1. PICK n \in Names :
            /\ resource[n] = None
            /\ resource' = [resource EXCEPT ![n] = [prompt |-> own[r], left |-> Life]]
            /\ name' = [name EXCEPT ![r] = n]
    BY <1>4 DEF CreateArrives
  <2>2. CASE q = r
    <3>1. name'[q] = n /\ resource'[n].left = Life
      BY <2>1, <2>2
    <3>2. waited'[q] \in Nat /\ asked'[q] \in Nat
      BY <1>4 DEF CreateArrives
    <3> QED BY <3>1, <3>2 DEF Good
  <2>3. CASE q # r
    <3>1. UNCHANGED <<pc[q], name[q], waited[q], asked[q]>>
      BY <1>4, <2>1, <2>3 DEF CreateArrives
    <3> QED BY <1>1, <1>4, <3>1
  <2> QED BY <2>2, <2>3
<1>5. ASSUME ~Tick, NEW n \in Names, Drop(n) PROVE Good
  BY <1>1, <1>5 DEF Drop
<1>6. ASSUME ~Tick, UNCHANGED vars PROVE Good
  BY <1>1, <1>6 DEF vars
<1> QED BY <1>2, <1>3, <1>4, <1>5, <1>6 DEF Next, Good

\* A request about to call the model.
LEMMA StepReadyLife ==
    IInv /\ [Next]_vars =>
        \A r \in Requests : pc'[r] = "ready" =>
            \/ name'[r] \in dropped'
            \/ resource'[name'[r]].left + waited'[r] > MaxDelay
<1> SUFFICES ASSUME IInv, [Next]_vars, NEW q \in Requests, pc'[q] = "ready"
             PROVE  \/ name'[q] \in dropped'
                    \/ resource'[name'[q]].left + waited'[q] > MaxDelay
  OBVIOUS
<1> DEFINE Good == \/ name'[q] \in dropped'
                   \/ resource'[name'[q]].left + waited'[q] > MaxDelay
<1>0. TypeOK /\ OwnInv /\ NamesInv /\ LifeInv
  BY DEF IInv
<1>1. ASSUME UNCHANGED <<pc[q], name[q], waited[q]>>, ~Tick PROVE Good
  BY <1>0, <1>1, OtherStep DEF LifeInv
<1>2. ASSUME Tick PROVE Good
  <2>1. pc[q] = "ready"
    BY <1>2 DEF Tick
  <2>2. \/ name[q] \in dropped
        \/ resource[name[q]].left + waited[q] > MaxDelay
    BY <1>0, <2>1 DEF LifeInv
  <2>3. dropped \subseteq dropped'
    BY <1>0, LifeKept
  <2> QED BY <1>2, <2>1, <2>2, <2>3, WaitTick, GeminiAssumption
<1> HIDE DEF Good
<1> USE GeminiAssumption, <1>0 DEF TypeOK, locals, lost
<1>3. ASSUME ~Tick, NEW r \in Requests,
             \/ Start(r) \/ Miss(r) \/ CreateArrives(r) \/ CreateFails(r)
             \/ GenerateCached(r) \/ GeneratePlain(r) \/ Return(r)
      PROVE  Good
  <2>1. q # r
    BY <1>3 DEF Start, Miss, CreateArrives, CreateFails, GenerateCached,
                GeneratePlain, Return
  <2>2. UNCHANGED <<pc[q], name[q], waited[q]>>
    BY <1>3, <2>1 DEF Start, Miss, CreateArrives, CreateFails, GenerateCached,
                      GeneratePlain, Return
  <2> QED BY <1>1, <1>3, <2>2
<1>4. ASSUME ~Tick, NEW r \in Requests, Hit(r) PROVE Good
  <2>1. CASE q = r
    <3>1. own[q] \in Prompt /\ UNCHANGED <<resource, dropped>> /\ waited'[q] = 0
      BY <1>4, <2>1 DEF Hit, OwnInv
    <3> DEFINE e == registry[Key(own[q])]
    <3>2. /\ Key(own[q]) \in Keys /\ e # None /\ e.left >= Margin
          /\ name'[q] = e.name
      BY <1>4, <2>1, <3>1, KeyType DEF Hit, Usable
    <3>3. e.left \in Nat /\ e.name \in Names
      BY <3>2 DEF Entry
    <3>4. resource[e.name].left \in Nat
      BY <3>2, <3>3 DEF NamesInv, Resource
    <3>5. e.name \in dropped \/ e.left <= resource[e.name].left
      BY <3>2 DEF LifeInv
    <3> QED BY <3>1, <3>2, <3>3, <3>4, <3>5 DEF Good
  <2>2. CASE q # r
    <3>1. UNCHANGED <<pc[q], name[q], waited[q]>>
      BY <1>4, <2>2 DEF Hit
    <3> QED BY <1>1, <1>4, <3>1
  <2> QED BY <2>1, <2>2
<1>5. ASSUME ~Tick, NEW r \in Requests, StoreAndApply(r) PROVE Good
  <2>1. CASE q = r
    <3>1. /\ pc[q] = "created" /\ UNCHANGED <<resource, dropped, name>>
          /\ waited'[q] = 0
      BY <1>5, <2>1 DEF StoreAndApply
    <3>2. resource[name[q]].left \in Nat /\ waited[q] \in 0..MaxDelay
      BY <3>1 DEF NamesInv, Resource
    <3>3. name[q] \in dropped \/ resource[name[q]].left + waited[q] >= Life
      BY <3>1 DEF LifeInv
    <3> QED BY <3>1, <3>2, <3>3 DEF Good
  <2>2. CASE q # r
    <3>1. UNCHANGED <<pc[q], name[q], waited[q]>>
      BY <1>5, <2>2 DEF StoreAndApply
    <3> QED BY <1>1, <1>5, <3>1
  <2> QED BY <2>1, <2>2
<1>6. ASSUME ~Tick, NEW n \in Names, Drop(n) PROVE Good
  BY <1>1, <1>6 DEF Drop
<1>7. ASSUME ~Tick, UNCHANGED vars PROVE Good
  BY <1>1, <1>7 DEF vars
<1> QED BY <1>2, <1>3, <1>4, <1>5, <1>6, <1>7 DEF Next, Good

\* The upstream refuses a name only of a resource it has lost.
LEMMA StepAlive == IInv /\ [Next]_vars => AliveWhenUsed'
<1> SUFFICES ASSUME IInv, [Next]_vars, NEW q \in Requests, pc'[q] = "rejected"
             PROVE  name'[q] \in dropped'
  BY DEF AliveWhenUsed
<1>1. TypeOK /\ NamesInv /\ LifeInv /\ AliveWhenUsed /\ dropped \subseteq dropped'
  BY LifeKept DEF IInv
<1> DEFINE Good == name'[q] \in dropped'
<1>2. ASSUME pc[q] = "rejected", name'[q] = name[q] PROVE Good
  BY <1>1, <1>2 DEF AliveWhenUsed
<1> USE GeminiAssumption, <1>1 DEF TypeOK, locals, lost
<1>3. ASSUME NEW r \in Requests,
             \/ Start(r) \/ Hit(r) \/ Miss(r) \/ CreateArrives(r) \/ CreateFails(r)
             \/ StoreAndApply(r) \/ GeneratePlain(r) \/ Return(r)
      PROVE  pc[q] = "rejected" /\ name'[q] = name[q]
  BY <1>3 DEF Start, Hit, Miss, CreateArrives, CreateFails, StoreAndApply,
              GeneratePlain, Return
<1>4. ASSUME NEW r \in Requests, GenerateCached(r) PROVE Good
  <2>1. CASE pc[q] = "rejected"
    BY <1>2, <1>4, <2>1 DEF GenerateCached
  <2>2. CASE pc[q] # "rejected"
    <3>1. /\ q = r /\ pc[q] = "ready" /\ ~(resource[name[q]].left > 0)
          /\ UNCHANGED <<name, dropped>>
      BY <1>4, <2>2 DEF GenerateCached
    <3>2. resource[name[q]].left \in Nat /\ waited[q] \in 0..MaxDelay
      BY <3>1 DEF NamesInv, Resource
    <3>3. name[q] \in dropped \/ resource[name[q]].left + waited[q] > MaxDelay
      BY <3>1 DEF LifeInv
    <3> QED BY <3>1, <3>2, <3>3
  <2> QED BY <2>1, <2>2
<1>5. ASSUME \/ \E n \in Names : Drop(n)
             \/ Tick
             \/ UNCHANGED vars
      PROVE  pc[q] = "rejected" /\ name'[q] = name[q]
  BY <1>5 DEF Drop, Tick, vars
<1> QED BY <1>2, <1>3, <1>4, <1>5 DEF Next

-------------------------------------------------------------------------------
\* The names and the lives, put together.
LEMMA StepNames == TypeOK /\ OwnInv /\ NamesInv /\ [Next]_vars => NamesInv'
  BY StepEntries, StepNamed DEF NamesInv

\* Every step keeps what the life of a resource has to cover.
LEMMA StepLife == IInv /\ [Next]_vars => LifeInv'
  BY StepEntryLife, StepCreatedLife, StepReadyLife DEF LifeInv

\* IInv is an invariant of the registry and its upstream, with any number of
\* requests that create, hit and store at once.
THEOREM Invariance == Spec => []IInv
<1>1. Init => IInv
  BY InitInv
<1>2. IInv /\ [Next]_vars => IInv'
  BY StepTypeOK, StepOwn, StepNames, StepLife, StepPrefix, StepAlive DEF IInv
<1> QED BY <1>1, <1>2, PTL DEF Spec

\* Every variable keeps its type, whatever the numbers of requests, prompts and
\* names and whatever the lifetimes.
THEOREM TypeCorrect == Spec => []TypeOK
<1>1. IInv => TypeOK
  BY DEF IInv
<1> QED BY <1>1, Invariance, PTL

\* The model answers under the request's own system prompt and tools, whichever
\* request made the resource it answers from.
THEOREM PrefixesKept == Spec => []OwnPrefix
<1>1. IInv => OwnPrefix
  BY DEF IInv
<1> QED BY <1>1, Invariance, PTL

\* A safety margin above the delay of a call is enough: a request never reaches
\* the model with the name of a resource that has lapsed by itself.
THEOREM NeverLapsed == Spec => []AliveWhenUsed
<1>1. IInv => AliveWhenUsed
  BY DEF IInv
<1> QED BY <1>1, Invariance, PTL
===============================================================================
