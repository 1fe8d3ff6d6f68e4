---------------------------- MODULE EntityUnescaper ----------------------------
(***************************************************************************)
(* The selective HTML unescaper of pkg/api/unescape.go, which rewrites the *)
(* text of Google models while it streams.  A text is a sequence of        *)
(* symbols; a word of letters is one symbol, so the two length limits are  *)
(* counted in symbols.                                                     *)
(***************************************************************************)
EXTENDS Naturals, Sequences, SequencesExt

CONSTANTS
    MaxEntity,   \* longest entity kept back, 10 characters in the code
    MaxTag       \* longest tag name kept back, 40 characters in the code

\* What an entity of that name stands for.
Named == [lt |-> "<", gt |-> ">", amp |-> "&"]

\* One tag of toolBlockTags and one other tag of clineTags.
ToolBlockTags == {"thinking"}
ClineTags == ToolBlockTags \union {"path"}

Words == DOMAIN Named \union ClineTags \union {"word"}
IsEntityChar(r) == r \in Words
IsTagChar(r) == r \in Words \union {"/"}

\* html.UnescapeString: the old names are recognised as prefixes too.
Decoded(entity) ==
    IF Len(entity) > 2 /\ entity[2] \in DOMAIN Named
    THEN <<Named[entity[2]]>>
             \o (IF Len(entity) = 3 THEN <<>> ELSE SubSeq(entity, 3, Len(entity)))
    ELSE entity

\* mode: unescapeState.  entity: entityBuf or tagEntityBuf, of which one at a
\* time is in use.  raw, parsed: the tag as it arrived and as it reads.
\* blocks: toolBlockCount.  out: what this call has written.
NewEntityUnescaper ==
    [mode |-> "normal", entity |-> <<>>, raw |-> <<>>, parsed |-> <<>>,
     blocks |-> 0, out |-> <<>>]

Write(u, text) == [u EXCEPT !.out = @ \o text]

Normal(u) == [u EXCEPT !.mode = "normal", !.entity = <<>>, !.raw = <<>>, !.parsed = <<>>]

OpenTag(u, raw) == [Normal(u) EXCEPT !.mode = "tag", !.raw = raw, !.parsed = <<"<">>]

OpenEntity(u, mode) == [u EXCEPT !.mode = mode, !.entity = <<"&">>]

\* The raw and the parsed tag grow by the same text, or by two readings of it.
GrowTag(u, raw, parsed) ==
    [u EXCEPT !.mode = "tag", !.entity = <<>>, !.raw = @ \o raw, !.parsed = @ \o parsed]

IsClose(tag) == Len(tag) = 4 /\ tag[2] = "/"
TagName(tag) == IF IsClose(tag) THEN tag[3] ELSE tag[2]
IsClineTag(tag) ==
    /\ Len(tag) = 3 \/ IsClose(tag)
    /\ TagName(tag) \in ClineTags

BlocksAfter(blocks, tag) ==
    IF TagName(tag) \notin ToolBlockTags THEN blocks
    ELSE IF ~IsClose(tag) THEN blocks + 1
    ELSE IF blocks = 0 THEN 0 ELSE blocks - 1

\* resolveBufferedTag, with the closing ">" appended to both readings.
ResolveTag(u) ==
    IF IsClineTag(u.parsed)
    THEN [Write(Normal(u), u.parsed) EXCEPT !.blocks = BlocksAfter(@, u.parsed)]
    ELSE Write(Normal(u), u.raw)

InNormal(u, r) ==
    CASE r = "&" -> OpenEntity(u, "entity")
      [] r = "<" -> OpenTag(u, <<"<">>)
      [] OTHER -> Write(u, <<r>>)

CloseEntity(u, entity) ==
    LET read == Decoded(entity)
    IN CASE read = <<"<">> -> OpenTag(u, entity)
         [] read = <<">">> -> Write(Normal(u), entity)
         [] OTHER -> Write(Normal(u), IF u.blocks > 0 THEN read ELSE entity)

InEntity(u, r) ==
    CASE r = "&" -> OpenEntity(Write(u, u.entity), "entity")
      [] r = ";" -> CloseEntity(u, Append(u.entity, r))
      [] IsEntityChar(r) /\ Len(u.entity) < MaxEntity -> [u EXCEPT !.entity = Append(@, r)]
      [] OTHER -> Write(Normal(u), Append(u.entity, r))

InTag(u, r) ==
    CASE r = ">" -> ResolveTag(GrowTag(u, <<r>>, <<r>>))
      [] r = "&" -> OpenEntity(u, "tagEntity")
      [] IsTagChar(r) /\ Len(u.raw) < MaxTag -> GrowTag(u, <<r>>, <<r>>)
      [] OTHER -> Write(Normal(u), Append(u.raw, r))

\* An entity that is not ">" joins the tag as it is, whatever its length.
InTagEntity(u, r) ==
    LET closed == Append(u.entity, r)
    IN CASE r = "&" -> OpenEntity(GrowTag(u, u.entity, u.entity), "tagEntity")
         [] r = ";" /\ Decoded(closed) = <<">">> -> ResolveTag(GrowTag(u, closed, <<">">>))
         [] r # ";" /\ IsEntityChar(r) /\ Len(u.entity) < MaxEntity ->
                [u EXCEPT !.entity = closed]
         [] OTHER -> GrowTag(u, closed, closed)

ProcessRune(u, r) ==
    CASE u.mode = "normal" -> InNormal(u, r)
      [] u.mode = "entity" -> InEntity(u, r)
      [] u.mode = "tag" -> InTag(u, r)
      [] u.mode = "tagEntity" -> InTagEntity(u, r)

\* Process returns the output in "out".
Process(u, text) == FoldLeft(ProcessRune, [u EXCEPT !.out = <<>>], text)

Held(u) == u.raw \o u.entity

\* What is still held is forgotten.
FlushForgets(u) == [Normal(u) EXCEPT !.out = <<>>]

\* Flush: what was kept back is given out as it arrived.
Flush(u) == Write([Normal(u) EXCEPT !.out = <<>>], Held(u))
================================================================================
