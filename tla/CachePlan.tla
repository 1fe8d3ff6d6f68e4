-------------------------------- MODULE CachePlan -------------------------------
(***************************************************************************)
(* PlanCache (pkg/provider/cache.go): which prefixes of a request are worth *)
(* caching.  The anchors are positions among the merged turns, from 1, and *)
(* 0 stands for none (-1 in the code).                                     *)
(***************************************************************************)
EXTENDS Naturals, Sequences, SequencesExt

CONSTANTS
    CacheMinBytes,      \* GW_CACHE_MIN_BYTES
    CacheTailMinTurns,  \* GW_CACHE_TAIL_MIN_TURNS
    CacheTailMinBytes   \* GW_CACHE_TAIL_MIN_BYTES

ASSUME CachePlanAssumption ==
    {CacheMinBytes, CacheTailMinTurns, CacheTailMinBytes} \subseteq Nat \ {0}

NoTurn == 0
NoPlan == [cacheSystem |-> FALSE, firstUserTurn |-> NoTurn, tailTurn |-> NoTurn]

\* Implicit caches and publishers without any get no plan.
Explicit(publisher) == publisher \in {"anthropic", "google"}

\* Calls and responses count 64 bytes whatever they carry: one unit here.
PartBytes(part) == IF part.kind \in {"text", "media"} THEN part.bytes ELSE 1

ContentBytes(content) == FoldLeft(LAMBDA sum, part : sum + PartBytes(part), 0, content.parts)

PlannedRole(content) == IF content.role = "model" THEN "assistant" ELSE "user"

\* An empty turn counted.
AddTurnEmptyToo(turns, content) ==
    IF turns # <<>> /\ Last(turns).role = PlannedRole(content)
    THEN [turns EXCEPT ![Len(turns)].bytes = @ + ContentBytes(content)]
    ELSE Append(turns, [role |-> PlannedRole(content), bytes |-> ContentBytes(content)])

AddTurn(turns, content) ==
    LET bytes == ContentBytes(content)
        role == PlannedRole(content)
    IN IF bytes = 0 THEN turns
       ELSE IF turns # <<>> /\ Last(turns).role = role
       THEN [turns EXCEPT ![Len(turns)].bytes = @ + bytes]
       ELSE Append(turns, [role |-> role, bytes |-> bytes])

MergedTurns(contents) == FoldLeft(AddTurn, <<>>, contents)

PrefixBytes(turns, anchor) ==
    FoldLeft(LAMBDA sum, turn : sum + turn.bytes, 0, SubSeq(turns, 1, anchor))

FirstUserTurn(turns) ==
    IF \E i \in DOMAIN turns : turns[i].role = "user"
    THEN CHOOSE i \in DOMAIN turns :
            turns[i].role = "user" /\ \A j \in 1..(i - 1) : turns[j].role # "user"
    ELSE NoTurn

\* The last turn but one, the last being the new question.
TailAnchor(turns) == Len(turns) - 1

PlanTailBreakpoint(turns, firstUser) ==
    IF /\ Len(turns) >= CacheTailMinTurns
       /\ TailAnchor(turns) > firstUser
       /\ PrefixBytes(turns, TailAnchor(turns)) >= CacheTailMinBytes
    THEN TailAnchor(turns)
    ELSE NoTurn

\* Three anchors at most: the cap of four at the end of PlanCache drops none.
PlanTurns(turns, systemBytes) ==
    LET firstUser == FirstUserTurn(turns)
    IN [cacheSystem |-> systemBytes >= CacheMinBytes /\ Len(turns) >= 2,
        firstUserTurn |->
            IF /\ firstUser # NoTurn
               /\ Len(turns) > firstUser
               /\ turns[firstUser].bytes >= CacheMinBytes
            THEN firstUser
            ELSE NoTurn,
        tailTurn |-> PlanTailBreakpoint(turns, firstUser)]

PlanCache(contents, systemBytes, publisher) ==
    LET turns == MergedTurns(contents)
    IN IF ~Explicit(publisher) \/ turns = <<>> THEN NoPlan
       ELSE PlanTurns(turns, systemBytes)
===============================================================================
