--------------------------- MODULE MCPromptPipeline ---------------------------
(* Instances of PromptPipeline for TLC. *)
EXTENDS PromptPipeline

\* The profiles of config.go.  Windows are scaled to conversations of seven
\* turns (3, 2, 1 turns of tool results; 12 or 8 turns before deep compaction;
\* 20 or 10 for active tools), byte limits to the sizes of PromptParts.
Balanced ==
    [loopbreak |-> TRUE, nudge |-> TRUE, active |-> FALSE, window |-> 4,
     immune |-> {ReadFile, WriteFile}, prune |-> FALSE, env |-> TRUE,
     truncate |-> TRUE, retain |-> 3, resultMax |-> 6, crusher |-> TRUE,
     write |-> TRUE, writeRetain |-> 3, deep |-> FALSE, keep |-> 4, deepMax |-> 2,
     budget |-> 0, dedup |-> TRUE, dedupMin |-> 3, substring |-> FALSE]

Aggressive ==
    [Balanced EXCEPT !.active = TRUE, !.prune = TRUE, !.deep = TRUE,
                     !.substring = TRUE, !.retain = 2, !.writeRetain = 2]

Extreme ==
    [Aggressive EXCEPT !.retain = 1, !.writeRetain = 1, !.keep = 3, !.window = 3,
                       !.immune = {WriteFile}, !.budget = 14]

\* Surfaces: OpenAI clients send call IDs, Ollama clients do not.
Offered == <<{ReadFile, ListFiles, WriteFile}>>

Setting(knobs, ids, gemini) ==
    [knobs |-> knobs, ids |-> ids, gemini |-> gemini, disk |-> TRUE,
     opts |-> TRUE, offers |-> Offered, sysBytes |-> 2, skips |-> TRUE]

\* A client that answers every call.
Diligent(s) == [s EXCEPT !.skips = FALSE]

MCSettings ==
    {Setting(Balanced, TRUE, TRUE), Setting(Extreme, TRUE, TRUE),
     Diligent(Setting(Aggressive, TRUE, TRUE)), Diligent(Setting(Aggressive, FALSE, FALSE)),
     [Setting(Extreme, FALSE, TRUE) EXCEPT !.opts = FALSE, !.offers = <<>>, !.disk = FALSE]}

MCDefault == {Setting(Balanced, TRUE, TRUE)}
MCOllama == {Diligent(Setting(Aggressive, FALSE, FALSE))}

ByArray(names) == [scalars |-> "f", complex |-> names]

MCOpenings == {Text("task", NoBlock, "snapshot"), Text("nothing", "paste", "none")}

MCReplies ==
    {Text("ask", NoBlock, "snapshot"), Text("noTool", NoBlock, "none"),
     Text("noToolTodo", NoBlock, "none"), Text("ask", "paste", "none"),
     Text("nothing", "json", "none")}

\* The directories of two calls are named in arrays, "p" and "q".
MCModelTurns ==
    {<<>>, << <<ReadFile, Flat("a")>> >>,
     << <<ReadFile, Flat("b")>>, <<ReadFile, Flat("a")>> >>,
     << <<WriteFile, Flat("w")>>, <<ListFiles, ByArray("p")>>, <<ListFiles, ByArray("q")>> >>,
     << <<ReadFile, Flat("b")>>, <<ReadFile, Flat("a")>>, <<ReadFile, Flat("a")>> >>}
===============================================================================
