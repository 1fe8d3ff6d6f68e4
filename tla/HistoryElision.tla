---------------------------- MODULE HistoryElision ----------------------------
(***************************************************************************)
(* The stages that shorten older turns in place: CollapseEnvBlocks         *)
(* (envblocks.go), TruncateToolResults (toolresult.go),                    *)
(* ElideHistoricalWriteActions (write_elision.go) and                      *)
(* DeepCompactHistoricalTurns (deepcompact.go).  All but the first save    *)
(* what they cut under its hash and leave the hash in the prompt; a save   *)
(* that fails leaves the part as it is.                                    *)
(***************************************************************************)
EXTENDS PromptParts

\* disk: saves succeed.
Elide(part, form, disk) ==
    IF disk THEN [part EXCEPT !.shown = Append(@, form)] ELSE part

-------------------------------------------------------------------------------
(* Stale IDE snapshots. *)

LastUserTurn(contents) == SelectLastInSeq(contents, IsUser)

CollapseEnvBlocks(contents, knobs) ==
    MapParts(contents,
        LAMBDA i, j : LET p == contents[i].parts[j] IN
                      IF p.kind = "text" /\ p.env = "snapshot"
                      THEN [p EXCEPT !.env = "collapsed"] ELSE p,
        LAMBDA i : /\ knobs.env
                   /\ IsUser(contents[i])
                   /\ i # LastUserTurn(contents))

-------------------------------------------------------------------------------
(* Oversized tool results and texts. *)

\* elideString: the older the turn, the less is left.
ResultForm(part, aggressive, knobs) ==
    IF aggressive THEN "masked"
    ELSE IF knobs.crusher /\ IsJSON(part) THEN "crushed"
    ELSE "elided"

TruncateToolResults(contents, knobs, disk) ==
    LET last == Len(contents)
        Distance(i) == last - i
        Aggressive(i) == knobs.retain > 0 /\ Distance(i) >= knobs.retain + 2
        Oversized(p) ==
            \/ p.kind = "response" /\ OutputSize(p) > knobs.resultMax
            \/ p.kind = "text" /\ TextSize(p) > knobs.resultMax
    IN MapParts(contents,
        LAMBDA i, j : LET p == contents[i].parts[j] IN
                      IF Oversized(p)
                      THEN Elide(p, ResultForm(p, Aggressive(i), knobs), disk) ELSE p,
        LAMBDA i : knobs.truncate /\ i # last /\ Distance(i) >= knobs.retain)

-------------------------------------------------------------------------------
(* Payloads of old file writes. *)

ElideHistoricalWriteActions(contents, knobs, disk) ==
    LET last == Len(contents)
    IN MapParts(contents,
        LAMBDA i, j : LET p == contents[i].parts[j] IN
                      IF p.kind = "call" /\ p.name = WriteFile /\ p.shown = <<>>
                      THEN Elide(p, "elided", disk) ELSE p,
        LAMBDA i : /\ knobs.write
                   /\ knobs.writeRetain > 0
                   /\ last >= 3
                   /\ i # last
                   /\ last - i >= knobs.writeRetain)

-------------------------------------------------------------------------------
(* Cold turns. *)

\* The tools whose output is replaced by a summary, whatever its size.
SemanticTools == {ReadFile}

DeepCompact(part, knobs, disk) ==
    CASE part.kind = "response" /\ part.name \in SemanticTools ->
            Elide(part, "summary", disk)
      [] part.kind = "response" /\ OutputSize(part) > knobs.deepMax ->
            Elide(part, "deep", disk)
      [] part.kind = "text" /\ TextSize(part) > knobs.deepMax ->
            Elide(part, "deep", disk)
      [] OTHER -> part

DeepCompactHistoricalTurns(contents, knobs, disk) ==
    MapParts(contents,
        LAMBDA i, j : DeepCompact(contents[i].parts[j], knobs, disk),
        LAMBDA i : knobs.deep /\ i <= Len(contents) - knobs.keep)
===============================================================================
