------------------------------ MODULE GeminiCache ------------------------------
(***************************************************************************)
(* Explicit prompt caching on the Gemini path                              *)
(* (pkg/provider/gemini_cache.go): a process-local registry of             *)
(* CachedContent resources keyed by the prompt prefix.  A streaming        *)
(* request looks the key up, creates a resource outside the registry's     *)
(* lock on a miss, and sends either its own prefix or a resource's name.   *)
(*                                                                         *)
(* Lifetimes are counted down, so that time itself need not be bounded.    *)
(***************************************************************************)
EXTENDS Naturals

CONSTANTS
    Requests,     \* requests whose prefix passed PlanCache and the minimum size
    Systems,      \* model and system prompt
    Toolsets,     \* tool declarations
    Choices,      \* ToolConfig: the request's tool_choice
    Names,        \* bound: resources created upstream
    None,         \* no entry, no resource
    Life,         \* GW_GEMINI_CACHE_TTL
    Margin,       \* geminiCacheSafetyMargin
    MaxDelay,     \* bound: time a call takes to reach the upstream or return
    MaxDrops      \* bound: resources the upstream loses before their time

Prompt == [sys : Systems, tools : Toolsets, choice : Choices]
Keys == Systems \X Toolsets
Resource == [prompt : Prompt, left : 0..Life]
Entry == [name : Names, left : 0..Life]

ASSUME GeminiAssumption ==
    /\ {Life, Margin, MaxDelay, MaxDrops} \subseteq Nat
    /\ MaxDelay < Margin
    /\ MaxDelay + MaxDelay < Life
    /\ None \notin Resource
    /\ None \notin Entry
    /\ None \notin Names
    /\ None \notin Prompt

VARIABLES
    resource,    \* upstream resources: the prefix they hold and their lifetime
    registry,    \* geminiCaches.m
    pc,          \* where each request stands
    own,         \* what the request asks for
    name,        \* the resource it refers to
    waited,      \* time since its last call upstream was made
    asked,       \* time since MaybeApplyGeminiCache took now
    used,        \* the prompt the upstream answered
    dropped,     \* resources lost before their time
    drops        \* how many

locals == <<pc, own, name, waited, asked, used>>
lost == <<dropped, drops>>
vars == <<resource, registry, locals, lost>>

TypeOK ==
    /\ resource \in [Names -> Resource \union {None}]
    /\ registry \in [Keys -> Entry \union {None}]
    /\ pc \in [Requests -> {"idle", "lookup", "creating", "created", "ready",
                            "plain", "served", "rejected"}]
    /\ own \in [Requests -> Prompt \union {None}]
    /\ name \in [Requests -> Names \union {None}]
    /\ waited \in [Requests -> 0..MaxDelay]
    /\ asked \in [Requests -> 0..Life]
    /\ used \in [Requests -> Prompt \union {None}]
    /\ dropped \in SUBSET Names
    /\ drops \in 0..MaxDrops

Init ==
    /\ resource = [n \in Names |-> None]
    /\ registry = [k \in Keys |-> None]
    /\ pc = [r \in Requests |-> "idle"]
    /\ own = [r \in Requests |-> None]
    /\ name = [r \in Requests |-> None]
    /\ waited = [r \in Requests |-> 0]
    /\ asked = [r \in Requests |-> 0]
    /\ used = [r \in Requests |-> None]
    /\ dropped = {}
    /\ drops = 0

Minus(m, n) == IF m > n THEN m - n ELSE 0

\* The key forgets the tool declarations.
KeyWithoutTools(p) == <<p.sys, CHOOSE t \in Toolsets : TRUE>>

\* geminiCacheKey: the tool choice is not part of it.
Key(p) == <<p.sys, p.tools>>

-------------------------------------------------------------------------------
(* MaybeApplyGeminiCache. *)

Start(r) ==
    /\ pc[r] = "idle"
    /\ pc' = [pc EXCEPT ![r] = "lookup"]
    /\ \E p \in Prompt : own' = [own EXCEPT ![r] = p]
    /\ asked' = [asked EXCEPT ![r] = 0]
    /\ UNCHANGED <<resource, registry, name, waited, used, lost>>

\* The entry is used up to the moment it expires.
UsableToTheEnd(k) == registry[k] # None /\ registry[k].left > 0

\* lookup: unless now + margin is after the expiry.
Usable(k) == registry[k] # None /\ registry[k].left >= Margin

Hit(r) ==
    /\ pc[r] = "lookup"
    /\ Usable(Key(own[r]))
    /\ name' = [name EXCEPT ![r] = registry[Key(own[r])].name]
    /\ waited' = [waited EXCEPT ![r] = 0]
    /\ pc' = [pc EXCEPT ![r] = "ready"]
    /\ UNCHANGED <<resource, registry, own, asked, used, lost>>

Miss(r) ==
    /\ pc[r] = "lookup"
    /\ ~Usable(Key(own[r]))
    /\ registry' = [registry EXCEPT ![Key(own[r])] = None]
    /\ waited' = [waited EXCEPT ![r] = 0]
    /\ pc' = [pc EXCEPT ![r] = "creating"]
    /\ UNCHANGED <<resource, own, name, asked, used, lost>>

\* The upstream makes the resource; its answer is still on the way.
CreateArrives(r) ==
    /\ pc[r] = "creating"
    /\ \E n \in Names :
        /\ resource[n] = None
        /\ resource' = [resource EXCEPT ![n] = [prompt |-> own[r], left |-> Life]]
        /\ name' = [name EXCEPT ![r] = n]
    /\ waited' = [waited EXCEPT ![r] = 0]
    /\ pc' = [pc EXCEPT ![r] = "created"]
    /\ UNCHANGED <<registry, own, asked, used, lost>>

\* The request goes on uncached; a resource made for it is never stored.
CreateFails(r) ==
    /\ pc[r] \in {"creating", "created"}
    /\ name' = [name EXCEPT ![r] = None]
    /\ waited' = [waited EXCEPT ![r] = 0]
    /\ pc' = [pc EXCEPT ![r] = "plain"]
    /\ UNCHANGED <<resource, registry, own, asked, used, lost>>

\* The safety margin is added to the expiry.
ExpiryWithMargin(r) == {resource[name[r]].left, Minus(Life, asked[r]) + Margin}

\* The server's ExpireTime or, when it gives none, now + ttl with the now
\* taken before the lookup.
Expiry(r) == {resource[name[r]].left, Minus(Life, asked[r])}

StoreAndApply(r) ==
    /\ pc[r] = "created"
    /\ \E left \in Expiry(r) :
        registry' = [registry EXCEPT
            ![Key(own[r])] = [name |-> name[r], left |-> left]]
    /\ waited' = [waited EXCEPT ![r] = 0]
    /\ pc' = [pc EXCEPT ![r] = "ready"]
    /\ UNCHANGED <<resource, own, name, asked, used, lost>>

-------------------------------------------------------------------------------
(* The request reaches the model. *)

\* applyCachedContentToConfig has removed the request's own system prompt,
\* tools and tool choice: the model sees those of the resource.
GenerateCached(r) ==
    /\ pc[r] = "ready"
    /\ IF resource[name[r]].left > 0
       THEN /\ used' = [used EXCEPT ![r] = resource[name[r]].prompt]
            /\ pc' = [pc EXCEPT ![r] = "served"]
       ELSE /\ pc' = [pc EXCEPT ![r] = "rejected"]
            /\ UNCHANGED used
    /\ UNCHANGED <<resource, registry, own, name, waited, asked, lost>>

GeneratePlain(r) ==
    /\ pc[r] = "plain"
    /\ used' = [used EXCEPT ![r] = own[r]]
    /\ pc' = [pc EXCEPT ![r] = "served"]
    /\ UNCHANGED <<resource, registry, own, name, waited, asked, lost>>

Return(r) ==
    /\ pc[r] \in {"served", "rejected"}
    /\ pc' = [pc EXCEPT ![r] = "idle"]
    /\ own' = [own EXCEPT ![r] = None]
    /\ name' = [name EXCEPT ![r] = None]
    /\ used' = [used EXCEPT ![r] = None]
    /\ waited' = [waited EXCEPT ![r] = 0]
    /\ asked' = [asked EXCEPT ![r] = 0]
    /\ UNCHANGED <<resource, registry, lost>>

-------------------------------------------------------------------------------
(* The surroundings. *)

\* Somebody deletes the resource, or the upstream evicts it.
Drop(n) ==
    /\ drops < MaxDrops
    /\ drops' = drops + 1
    /\ resource[n] # None
    /\ resource' = [resource EXCEPT ![n].left = 0]
    /\ dropped' = dropped \union {n}
    /\ UNCHANGED <<registry, locals>>

Waiting(r) == pc[r] \in {"creating", "created", "ready", "plain"}

Tick ==
    /\ \A r \in Requests : pc[r] # "lookup" /\ (Waiting(r) => waited[r] < MaxDelay)
    /\ resource' = [n \in Names |->
         IF resource[n] = None THEN None
         ELSE [resource[n] EXCEPT !.left = Minus(@, 1)]]
    /\ registry' = [k \in Keys |->
         IF registry[k] = None THEN None
         ELSE [registry[k] EXCEPT !.left = Minus(@, 1)]]
    /\ waited' = [r \in Requests |->
         IF Waiting(r) THEN waited[r] + 1 ELSE waited[r]]
    /\ asked' = [r \in Requests |->
         IF pc[r] \in {"creating", "created"} /\ asked[r] < Life
         THEN asked[r] + 1 ELSE asked[r]]
    /\ UNCHANGED <<pc, own, name, used, lost>>

-------------------------------------------------------------------------------
Next ==
    \/ \E r \in Requests :
        \/ Start(r) \/ Hit(r) \/ Miss(r)
        \/ CreateArrives(r) \/ CreateFails(r) \/ StoreAndApply(r)
        \/ GenerateCached(r) \/ GeneratePlain(r) \/ Return(r)
    \/ \E n \in Names : Drop(n)
    \/ Tick

Spec == Init /\ [][Next]_vars

-------------------------------------------------------------------------------
(* Properties. *)

\* "Guarding against the resource lapsing mid-request"
\* (gemini_cache.go:73-75): a request that refers to a resource still finds
\* it alive, unless the upstream lost it: hits, fresh creations, slow answers
\* and missing ExpireTimes included.
AliveWhenUsed ==
    \A r \in Requests : pc[r] = "rejected" => name[r] \in dropped

\* Sharing resources never mixes prefixes up: the model answers under the
\* request's own system prompt and tools.
OwnPrefix ==
    \A r \in Requests :
        used[r] # None => /\ used[r].sys = own[r].sys
                          /\ used[r].tools = own[r].tools

\* Documented (gemini_cache.go:127-129): the cleared ToolConfig "would be
\* redundant": the model answers under the request's own tool choice.
OwnToolChoice ==
    \A r \in Requests : used[r] # None => used[r].choice = own[r].choice
===============================================================================
