----------------------------- MODULE ToolAlignment -----------------------------
(***************************************************************************)
(* AlignFunctionCallsAndResponses (pkg/pipeline/align.go): on the Gemini   *)
(* path the turn after a model turn with tool calls is rebuilt to hold one *)
(* response per call, in the calls' order.                                 *)
(***************************************************************************)
EXTENDS PromptParts

\* Text comes first; responses and placeholders follow the model's order.
Plain(turn) ==
    ElementsAt(turn.parts, {j \in DOMAIN turn.parts :
                               turn.parts[j].kind \notin {"response", "pruned"}})

\* Responses are handed out by position only.
CandidatesInOrder(call, available, ids) == DOMAIN available

\* The responses not yet given away that would do for the call: those with its
\* ID or, if there is none, those with its name.
Candidates(call, available, ids) ==
    LET own == {r \in DOMAIN available : ids /\ available[r].key = call.key}
    IN IF own # {} THEN own
       ELSE {r \in DOMAIN available : available[r].name = call.name}

\* Only the calls still there get a response.
AlignPartCallsOnly(acc, p, ids) ==
    LET fits == Candidates(p, acc.responses, ids)
    IN IF p.kind # "call" \/ fits = {} THEN acc
       ELSE [acc EXCEPT !.built = Append(@, acc.responses[Min(fits)]),
                        !.responses = RemoveAt(@, Min(fits))]

\* acc holds the parts built so far and what is left to give away.
AlignPart(acc, p, ids) ==
    CASE p.kind = "call" ->
            LET fits == Candidates(p, acc.responses, ids)
            IN IF fits = {} THEN [acc EXCEPT !.built = Append(@, Dummy(p))]
               ELSE [acc EXCEPT !.built = Append(@, acc.responses[Min(fits)]),
                                !.responses = RemoveAt(@, Min(fits))]
      [] p.kind = "pruned" ->
            IF acc.pruned = <<>>
            THEN [acc EXCEPT !.built = Append(@, Pruned("output", p.name))]
            ELSE [acc EXCEPT !.built = Append(@, Head(acc.pruned)),
                             !.pruned = Tail(@)]
      [] OTHER -> acc

\* What is left over at the end is dropped.
AlignedTurn(model, next, ids) ==
    LET start == [built |-> Plain(next),
                  responses |-> ElementsAt(next.parts, OfKind(next, "response")),
                  pruned |-> ElementsAt(next.parts, OfKind(next, "pruned"))]
    IN Turn(next.role,
            FoldLeft(LAMBDA acc, p : AlignPart(acc, p, ids), start, model.parts).built)

NeedsAlignment(contents, i) ==
    /\ i > 1
    /\ IsModel(contents[i - 1])
    /\ OfKind(contents[i - 1], "call") \union OfKind(contents[i - 1], "pruned") # {}
    /\ IsUser(contents[i])

AlignFunctionCallsAndResponses(contents, ids) ==
    Tabulate(Len(contents), LAMBDA i :
        IF NeedsAlignment(contents, i)
        THEN AlignedTurn(contents[i - 1], contents[i], ids)
        ELSE contents[i])
===============================================================================
