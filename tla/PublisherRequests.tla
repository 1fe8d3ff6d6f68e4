---------------------------- MODULE PublisherRequests ---------------------------
(***************************************************************************)
(* The conversation as each publisher's API takes it: buildAnthropicRequest *)
(* (pkg/provider/anthropic.go), buildOpenAIRequest (openai_vertex.go) and  *)
(* buildCohereRequest (cohere_vertex.go).  The SDK takes the contents for  *)
(* Google as they are, after an alignment that ToolAlignment models.       *)
(*                                                                         *)
(* Sampling options, tool schemas and the arguments of calls are left out. *)
(***************************************************************************)
EXTENDS CachePlan

\* A wire role: "assistant" for the model's turns, `user` for the others.
WireRole(content, user, model) == IF content.role = "model" THEN model ELSE user

\* Texts of blanks have become "", which every adapter skips.
Payload(content) ==
    SelectSeq(content.parts, LAMBDA p : p.kind = "text" => p.bytes > 0)

PickKind(parts, kind) == SelectSeq(parts, LAMBDA p : p.kind = kind)

-------------------------------------------------------------------------------
(* Anthropic: one message for a turn, made of blocks. *)

TextBlock(text) == [type |-> "text", text |-> text]

Block(part) ==
    CASE part.kind = "text" -> TextBlock(<<part.says>>)
      [] part.kind = "media" -> [type |-> "image", media |-> part.says]
      [] part.kind = "call" -> [type |-> "tool_use", id |-> part.id, name |-> part.name]
      [] part.kind = "response" ->
            [type |-> "tool_result", toolUseID |-> part.id, text |-> part.text]

ExtractBlocks(content) ==
    LET payload == Payload(content) IN [i \in DOMAIN payload |-> Block(payload[i])]

BlocksAreTextOnly(blocks) == \A i \in DOMAIN blocks : blocks[i].type = "text"

\* A message of texts is one string.
Plain(blocks) ==
    IF BlocksAreTextOnly(blocks)
    THEN <<TextBlock(FlattenSeq([i \in DOMAIN blocks |-> blocks[i].text]))>>
    ELSE blocks

JoinBlocks(before, blocks) ==
    IF BlocksAreTextOnly(before) /\ BlocksAreTextOnly(blocks)
    THEN Plain(before \o blocks)
    ELSE before \o blocks

StageMessage(raws, content) ==
    LET blocks == ExtractBlocks(content)
        role == WireRole(content, "user", "assistant")
    IN IF blocks = <<>> THEN raws
       ELSE IF raws # <<>> /\ Last(raws).role = role
       THEN [raws EXCEPT ![Len(raws)].blocks = JoinBlocks(@, blocks)]
       ELSE Append(raws, [role |-> role, blocks |-> Plain(blocks)])

BuildAnthropicRequest(system, systemBytes, contents) ==
    LET raws == FoldLeft(StageMessage, <<>>, contents)
        plan == PlanCache(contents, systemBytes, "anthropic")
    IN [system |-> system,
        cachedSystem |-> plan.cacheSystem,
        messages |->
            [i \in DOMAIN raws |->
                [role |-> raws[i].role, blocks |-> raws[i].blocks,
                 cached |-> i \in {plan.firstUserTurn, plan.tailTurn}]]]

-------------------------------------------------------------------------------
(* OpenAI-compatible publishers: one message for each result. *)

OpenAIMessage(role, content, calls, id) ==
    [role |-> role, content |-> content, calls |-> calls, id |-> id]

FlushMessage(st, role) ==
    IF st.content = <<>> /\ st.calls = <<>> THEN st
    ELSE [out |-> Append(st.out, OpenAIMessage(role, st.content, st.calls, <<>>)),
          content |-> <<>>, calls |-> <<>>]

AddOpenAIPart(st, part, role) ==
    CASE part.kind = "response" ->
            [FlushMessage(st, role) EXCEPT
                !.out = Append(@, OpenAIMessage("tool", part.text, <<>>, part.id))]
      [] part.kind = "call" -> [st EXCEPT !.calls = Append(@, part.id)]
      [] OTHER -> [st EXCEPT !.content = Append(@, part.says)]

GenaiPartsToOpenAIMessages(content) ==
    LET role == WireRole(content, "user", "assistant")
        start == [out |-> <<>>, content |-> <<>>, calls |-> <<>>]
    IN FlushMessage(FoldLeft(LAMBDA st, part : AddOpenAIPart(st, part, role),
                             start, Payload(content)), role).out

BuildOpenAIRequest(system, contents) ==
    [messages |->
        (IF system = <<>> THEN <<>> ELSE <<OpenAIMessage("system", system, <<>>, <<>>)>>)
        \o FlattenSeq([i \in DOMAIN contents |-> GenaiPartsToOpenAIMessages(contents[i])])]

-------------------------------------------------------------------------------
(* Cohere: a history, and the current turn apart; no identifiers. *)

\* Media are dropped: CheckVisionSupport has refused the request before.
CohereTurn(content) ==
    LET payload == Payload(content)
        texts == PickKind(payload, "text")
        calls == PickKind(payload, "call")
        results == PickKind(payload, "response")
    IN [role |-> IF results # <<>> /\ texts = <<>> /\ calls = <<>> THEN "TOOL"
                 ELSE WireRole(content, "USER", "CHATBOT"),
        message |-> [i \in DOMAIN texts |-> texts[i].says],
        calls |-> [i \in DOMAIN calls |-> calls[i].name],
        results |-> [i \in DOMAIN results |->
                        [name |-> results[i].name, text |-> results[i].text]]]

CarriesPayload(turn) == turn.message # <<>> \/ turn.calls # <<>> \/ turn.results # <<>>

\* A turn of results and text taken for a text.
IsMessageMixedToo(turn) == turn.role = "USER" /\ turn.calls = <<>>

\* What is stripped off the history: a user's text or a tool's results.
IsMessage(turn) == turn.role = "USER" /\ turn.calls = <<>> /\ turn.results = <<>>
IsToolResults(turn) == turn.role = "TOOL"

BuildCohereRequest(contents) ==
    LET flat == SelectSeq([i \in DOMAIN contents |-> CohereTurn(contents[i])], CarriesPayload)
        last == Last(flat)
        History(n) == SubSeq(flat, 1, n)
    IN IF flat = <<>> THEN [history |-> <<>>, message |-> <<>>, results |-> <<>>]
       ELSE IF IsMessage(last)
       THEN [history |-> History(Len(flat) - 1), message |-> last.message, results |-> <<>>]
       ELSE IF IsToolResults(last)
       THEN [history |-> History(Len(flat) - 1), message |-> <<>>, results |-> last.results]
       ELSE [history |-> flat, message |-> <<>>, results |-> <<>>]
===============================================================================
