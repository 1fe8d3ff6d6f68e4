----------------------------- MODULE ClientMessages -----------------------------
(***************************************************************************)
(* What the gateway makes of the messages of a client: buildContentsOAI    *)
(* (pkg/api/openai_handlers.go) and buildContents (helpers.go), which turn *)
(* them into contents with roles that alternate, and the identifiers of    *)
(* tool calls on their way to the client and back (tools.go).              *)
(*                                                                         *)
(* A text is known by a number, 0 for nothing but whitespace, and by what  *)
(* is left of it.  An identifier is written "base|signature" to the        *)
(* client: here a pair.                                                    *)
(***************************************************************************)
EXTENDS Naturals, Sequences, SequencesExt

CONSTANTS
    ResultMax,     \* GW_TOOL_RESULT_MAX_BYTES
    ElidedBytes    \* what is left of a longer text

ASSUME ClientMessagesAssumption ==
    /\ ResultMax \in Nat
    /\ ElidedBytes \in 1..ResultMax

NoID == <<>>
NoSignature == "none"
SkipValidator == "skip_thought_signature_validator"

\* What a text says: its number, and "whole", "cut" in the middle or "masked".
Said(n) == <<n, "whole">>
Shorten(says, form) == <<says[1], form>>

Text(n, bytes) == [kind |-> "text", says |-> Said(n), bytes |-> bytes]
Media(n, bytes) == [kind |-> "media", says |-> Said(n), bytes |-> bytes]
Call(id, name, signature) ==
    [kind |-> "call", id |-> id, name |-> name, signature |-> signature]
Response(id, name, text, bytes) ==
    [kind |-> "response", id |-> id, name |-> name, text |-> text, bytes |-> bytes]

Message(role, parts, calls, id, name) ==
    [role |-> role, parts |-> parts, calls |-> calls, id |-> id, name |-> name]
WireCall(id, name) == [id |-> id, name |-> name]
Content(role, parts) == [role |-> role, parts |-> parts]

\* What the texts among the parts say, and how long they are together.
TextOf(parts) ==
    LET texts == SelectSeq(parts, LAMBDA p : p.kind = "text")
    IN [i \in DOMAIN texts |-> texts[i].says]

TextBytes(parts) ==
    FoldLeft(LAMBDA sum, p : IF p.kind = "text" THEN sum + p.bytes ELSE sum, 0, parts)

-------------------------------------------------------------------------------
(* Identifiers. *)

\* A call without an ID stays without.
ToolCallFromGenaiUnnamed(call, fresh) ==
    WireCall([base |-> call.id, signature |-> call.signature], call.name)

\* The call the client is shown; fresh is newToolCallID.
ToolCallFromGenai(call, fresh) ==
    WireCall([base |-> IF call.id = NoID THEN fresh ELSE call.id,
              signature |-> call.signature], call.name)

\* A call the client replays.
ToolCallToGenaiPart(tc) ==
    Call(tc.id.base, tc.name,
         IF tc.id.signature = NoSignature THEN SkipValidator ELSE tc.id.signature)

\* The ID is dropped together with the signature on it.
ToolResultPartCut(id, name, parts) ==
    Response(IF id.signature = NoSignature THEN id.base ELSE NoID,
             IF name = "" THEN "tool" ELSE name, TextOf(parts), TextBytes(parts))

\* The result the client sends for it: of its parts, the text.
ToolResultPart(id, name, parts) ==
    Response(id.base, IF name = "" THEN "tool" ELSE name, TextOf(parts), TextBytes(parts))

-------------------------------------------------------------------------------
(* Messages. *)

MapRole(role) == IF role = "assistant" THEN "model" ELSE "user"

\* A tool's answer keeps only its text, an assistant's nameless calls are
\* skipped.
MessageParts(msg) ==
    CASE msg.role = "tool" -> <<ToolResultPart(msg.id, msg.name, msg.parts)>>
      [] msg.role = "assistant" ->
            LET named == SelectSeq(msg.calls, LAMBDA tc : tc.name # "")
            IN msg.parts \o [i \in DOMAIN named |-> ToolCallToGenaiPart(named[i])]
      [] OTHER -> msg.parts

\* Messages without parts vanish, neighbours of one role become one turn.
AddMessage(contents, msg) ==
    LET parts == MessageParts(msg)
        role == MapRole(msg.role)
    IN IF msg.role = "system" \/ parts = <<>> THEN contents
       ELSE IF contents # <<>> /\ Last(contents).role = role
       THEN [contents EXCEPT ![Len(contents)].parts = @ \o parts]
       ELSE Append(contents, Content(role, parts))

BuildContents(messages) == FoldLeft(AddMessage, <<>>, messages)

SystemPrompt(messages) ==
    LET system == SelectSeq(messages, LAMBDA m : m.role = "system")
    IN FlattenSeq([i \in DOMAIN system |-> system[i].parts])

-------------------------------------------------------------------------------
(* The stages of the prompt pipeline at work here. *)

\* NormalizeWhitespace leaves "" of a text of blanks, and the part stays.
NormalizePart(part) ==
    IF part.kind = "text" /\ part.says = Said(0) THEN [part EXCEPT !.bytes = 0] ELSE part

NormalizeWhitespace(contents) ==
    [i \in DOMAIN contents |->
        [contents[i] EXCEPT !.parts = [j \in DOMAIN @ |-> NormalizePart(@[j])]]]

\* elideString; a block is always saved under its hash first.
ElidePart(part, form) ==
    IF part.kind = "text" /\ part.bytes > ResultMax
    THEN [part EXCEPT !.says = Shorten(@, form), !.bytes = ElidedBytes]
    ELSE IF part.kind = "response" /\ part.bytes > ResultMax
    THEN [part EXCEPT !.text = [i \in DOMAIN @ |-> Shorten(@[i], form)], !.bytes = ElidedBytes]
    ELSE part

\* TruncateToolResults: how much is left of a long text goes by its distance
\* from the last turn, which is left alone.  retain = 0 is no window.
TruncateToolResults(contents, settings) ==
    LET last == Len(contents)
        Form(i) == IF settings.retain > 0 /\ last - i >= settings.retain + 2
                   THEN "masked" ELSE "cut"
        Eligible(i) == settings.truncate /\ i # last /\ last - i >= settings.retain
    IN [i \in DOMAIN contents |->
            IF Eligible(i)
            THEN [contents[i] EXCEPT !.parts = [j \in DOMAIN @ |-> ElidePart(@[j], Form(i))]]
            ELSE contents[i]]

\* InjectElisionPromptHint: the notice that goes with placeholders.
Hint == [kind |-> "text", says |-> <<0, "hint">>, bytes |-> 1]

Elided(says) == says[2] \in {"cut", "masked"}

HasElided(contents) ==
    \E i \in DOMAIN contents : \E j \in DOMAIN contents[i].parts :
        LET part == contents[i].parts[j]
        IN \/ part.kind = "text" /\ Elided(part.says)
           \/ part.kind = "response" /\ \E k \in DOMAIN part.text : Elided(part.text[k])

InjectElisionPromptHint(system, contents) ==
    IF HasElided(contents) THEN Append(system, Hint) ELSE system
===============================================================================
