------------------------------ MODULE ToolPruning ------------------------------
(***************************************************************************)
(* PruneActiveTools (active_tool_pruning.go) takes tools that have gone    *)
(* cold off the request; PruneStaleTools (prune_tools.go) takes a          *)
(* read-only exchange out of the history when a later one repeats it.      *)
(***************************************************************************)
EXTENDS PromptParts

-------------------------------------------------------------------------------
(* The tools of a request: a sequence of declaration groups (genai.Tool).  *)
(* The handlers put all declarations of the client into one group.         *)

NamesUsed(contents, from) ==
    UNION {{contents[i].parts[j].name :
              j \in OfKind(contents[i], "call") \union OfKind(contents[i], "response")} :
           i \in {k \in DOMAIN contents : k >= from}}

\* Used before, not within the window, not on the whitelist.
IsCold(name, contents, window, immune) ==
    /\ name \notin immune
    /\ name \in NamesUsed(contents, 1)
    /\ name \notin NamesUsed(contents, Len(contents) - window + 1)

\* One cold declaration takes its whole group along.
PruneActiveTools(contents, tools, knobs) ==
    IF ~knobs.active \/ Len(contents) <= knobs.window
    THEN tools
    ELSE ElementsAt(tools, {g \in DOMAIN tools :
            ~\E name \in tools[g] : IsCold(name, contents, knobs.window, knobs.immune)})

-------------------------------------------------------------------------------
(* Superseded exchanges. *)

ReadOnlyTools == {ReadFile, ListFiles}

\* The response a call is paired with: the one with its ID or, where there
\* are no IDs, the first with its name.
PairedResponse(contents, i, j, ids) ==
    LET call == contents[i].parts[j]
        next == contents[i + 1]
        matching == {r \in OfKind(next, "response") :
                        IF ids THEN next.parts[r].key = call.key
                        ELSE next.parts[r].name = call.name}
    IN IF matching = {} THEN 0 ELSE Min(matching)

\* Part j of turn i is a read that was answered.
IsRead(contents, i, j, ids) ==
    /\ i \in 2..(Len(contents) - 1)
    /\ IsModel(contents[i])
    /\ contents[i].parts[j].kind = "call"
    /\ contents[i].parts[j].name \in ReadOnlyTools
    /\ PairedResponse(contents, i, j, ids) # 0

\* argsStableKey, appendValue: arrays and objects all leave the same mark.
ArgsStableKey(arg) == <<arg.scalars, arg.complex # NoComplex>>

SameCall(c, d) ==
    /\ c.kind = "call" /\ c.name = d.name
    /\ ArgsStableKey(c.arg) = ArgsStableKey(d.arg)

Superseded(contents, i, j, ids) ==
    /\ IsRead(contents, i, j, ids)
    /\ \E k \in i..Len(contents) : \E m \in DOMAIN contents[k].parts :
        /\ Before(<<i, j>>, <<k, m>>)
        /\ SameCall(contents[k].parts[m], contents[i].parts[j])
        /\ IsRead(contents, k, m, ids)

\* The superseded calls that part j of turn i is taken to answer.
Outdates(contents, i, j, ids) ==
    IF i = 1 THEN {}
    ELSE {m \in DOMAIN contents[i - 1].parts :
            /\ Superseded(contents, i - 1, m, ids)
            /\ PairedResponse(contents, i - 1, m, ids) = j}

\* Call and response are each replaced by a placeholder text.
PruneStaleTools(contents, knobs, ids) ==
    LET Replace(i, j) ==
            LET p == contents[i].parts[j]
                outdated == Outdates(contents, i, j, ids)
            IN IF p.kind = "call" /\ Superseded(contents, i, j, ids)
               THEN Pruned("call", p.name)
               ELSE IF p.kind = "response" /\ outdated # {}
               THEN Pruned("output", contents[i - 1].parts[Min(outdated)].name)
               ELSE p
    IN MapParts(contents, Replace, LAMBDA i : knobs.prune /\ Len(contents) >= 3)
===============================================================================
