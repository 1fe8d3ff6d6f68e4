------------------------------- MODULE LoopBreak -------------------------------
(***************************************************************************)
(* BreakLoopTrap (pkg/pipeline/loopbreak.go): repeated scoldings of an     *)
(* automated client are dropped together with the model turn that follows, *)
(* and a scolding that ends the conversation gets a nudge.                 *)
(***************************************************************************)
EXTENDS PromptParts

Scoldings == {"noTool", "todo", "noToolTodo"}

\* A turn with a tool's output is never a scolding.
Scolds(turn, kinds) ==
    /\ IsUser(turn)
    /\ OfKind(turn, "response") = {}
    /\ \E j \in OfKind(turn, "text") : turn.parts[j].says \in kinds

IsNoTool(turn) == Scolds(turn, {"noTool", "noToolTodo"})
IsTodo(turn) == Scolds(turn, {"todo", "noToolTodo"})

\* Older than the last scolding of a kind that it is itself of.
IsOldScolding(contents, i) ==
    \/ IsNoTool(contents[i]) /\ \E k \in DOMAIN contents : k > i /\ IsNoTool(contents[k])
    \/ IsTodo(contents[i]) /\ \E k \in DOMAIN contents : k > i /\ IsTodo(contents[k])

\* The first turn stays, and so does a scolding the model answered with a
\* tool call.
IsDropped(contents, i) ==
    /\ i > 1
    /\ IsOldScolding(contents, i)
    /\ i < Len(contents) => OfKind(contents[i + 1], "call") = {}

IsKept(contents, i) ==
    /\ ~IsDropped(contents, i)
    /\ i > 1 => ~IsDropped(contents, i - 1)

DropRepeatedScoldings(contents) ==
    ElementsAt(contents, {i \in DOMAIN contents : IsKept(contents, i)})

\* A nudge is added to every attempt's text.
NudgeTextAgain(text) ==
    [text EXCEPT !.nudged = TRUE, !.says = IF text.nudged THEN "again" ELSE @]

NudgeText(text) == [text EXCEPT !.nudged = TRUE]

\* The parts are shared with the request, so the request itself is changed.
NudgeLastTurn(contents) ==
    LET n == Len(contents)
        texts == OfKind(contents[n], "text")
    IN IF IsNoTool(contents[n]) \/ IsTodo(contents[n])
       THEN [contents EXCEPT ![n].parts[Min(texts)] = NudgeText(@)]
       ELSE contents
===============================================================================
