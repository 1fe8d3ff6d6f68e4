------------------------------- MODULE ToolSession ------------------------------
(***************************************************************************)
(* A conversation with tools, over several requests: the client sends all  *)
(* its messages each time, possibly to another publisher, and the answer   *)
(* becomes messages of the client.                                         *)
(*                                                                         *)
(* The gateway keeps nothing between requests.  What a call was named and  *)
(* signed travels through the client, in the identifier it was given.      *)
(*                                                                         *)
(* Of the prompt pipeline two stages are here: that of whitespace, which   *)
(* leaves texts of nothing, and the truncation of long texts by their      *)
(* distance from the last turn, which gives one text another form in each  *)
(* request, with the notice that follows from it.  PromptPipeline has all. *)
(***************************************************************************)
EXTENDS ClientMessages, PublisherRequests

CONSTANTS
    Publishers,   \* subset of anthropic, google, openai, cohere
    UserMessages, \* the parts a user's message can have, each a set of kinds
    ResultTexts,  \* the parts a tool's result can have
    Answers,      \* an answer's text, as kinds of parts, and the names it calls
    Settings,     \* GW_TOOL_RESULT_TRUNCATE and GW_TOOL_RESULT_RETAIN_WINDOW
    MaxMessages   \* bound: messages of the client

ASSUME ToolSessionAssumption ==
    /\ Publishers \subseteq {"anthropic", "google", "openai", "cohere"}
    /\ Settings \subseteq [truncate : BOOLEAN, retain : Nat]
    /\ MaxMessages \in Nat

VARIABLES
    settings,  \* of the gateway
    surface,   \* "chat" or "ollama"
    messages,  \* the client's
    pending,   \* calls of the last answer the client has not answered
    waiting,   \* a request is at the upstream
    sent,      \* the last request
    given      \* history: the calls as the upstream made them, IDs filled in

vars == <<settings, surface, messages, pending, waiting, sent, given>>

NoRequest == [publisher |-> "none"]
SystemMessage == Message("system", <<Text(1, 3)>>, <<>>, NoID, "")

\* A number no text of the conversation has; images are numbered after texts.
Fresh == Len(messages) + 1

PartOf(kind) ==
    CASE kind = "blank" -> Text(0, 1)
      [] kind = "long" -> Text(Fresh, 3)
      [] kind = "short" -> Text(Fresh, 1)
      [] kind = "media" -> Media(MaxMessages + Fresh, 2)

CallNames == UNION {ToSet(answer[2]) : answer \in Answers}
WireIDs == [base : (1..MaxMessages) \X Nat, signature : {NoSignature, "sig"}]

TypeOK ==
    /\ settings \in Settings
    /\ surface \in {"chat", "ollama"}
    /\ Len(messages) <= MaxMessages
    /\ \A i \in DOMAIN messages :
        messages[i].role \in {"system", "user", "assistant", "tool"}
    /\ \A i \in DOMAIN pending :
        pending[i].id \in WireIDs /\ pending[i].name \in CallNames
    /\ waiting \in BOOLEAN
    /\ sent.publisher \in Publishers \union {"none"}
    /\ given \subseteq [id : WireIDs, name : CallNames]

Init ==
    /\ settings \in Settings
    /\ surface \in {"chat", "ollama"}
    /\ messages \in {<<>>, <<SystemMessage>>}
    /\ pending = <<>>
    /\ waiting = FALSE
    /\ sent = NoRequest
    /\ given = {}

-------------------------------------------------------------------------------
(* The gateway. *)

Contents == TruncateToolResults(NormalizeWhitespace(BuildContents(messages)), settings)

System == InjectElisionPromptHint(SystemPrompt(messages), Contents)

\* CheckVisionSupport; the OpenAI-compatible model at hand takes no media.
VisionSupported(publisher) ==
    \/ publisher \in {"anthropic", "google"}
    \/ \A i \in DOMAIN messages : PickKind(messages[i].parts, "media") = <<>>

Body(publisher) ==
    CASE publisher = "anthropic" -> BuildAnthropicRequest(TextOf(System), TextBytes(System), Contents)
      [] publisher = "openai" -> BuildOpenAIRequest(TextOf(System), Contents)
      [] publisher = "cohere" -> BuildCohereRequest(Contents)
      [] publisher = "google" -> [contents |-> Contents]

SendRequest(publisher) ==
    /\ ~waiting /\ pending = <<>>
    /\ messages # <<>> /\ Last(messages).role \in {"user", "tool"}
    /\ VisionSupported(publisher)
    /\ waiting' = TRUE
    /\ sent' = [publisher |-> publisher, body |-> Body(publisher)]
    /\ UNCHANGED <<settings, surface, messages, pending, given>>

\* Gemini and Cohere name no calls; only Gemini signs them.
UpstreamCalls(names) ==
    [i \in DOMAIN names |->
        Call(IF sent.publisher \in {"google", "cohere"} THEN NoID ELSE <<Fresh, i>>,
             names[i],
             IF sent.publisher = "google" /\ i = 1 THEN "sig" ELSE NoSignature)]

\* The answer, as the client keeps it.
Answer(kinds, names) ==
    LET upstream == UpstreamCalls(names)
        shown == [i \in DOMAIN upstream |-> ToolCallFromGenai(upstream[i], <<Fresh, i>>)]
    IN /\ waiting
       /\ Len(messages) < MaxMessages
       /\ messages' = Append(messages, Message("assistant",
                        [i \in DOMAIN kinds |-> PartOf(kinds[i])], shown, NoID, ""))
       /\ pending' = shown
       /\ given' = given \union
            {WireCall([base |-> <<Fresh, i>>, signature |-> upstream[i].signature], names[i]) :
                i \in DOMAIN upstream}
       /\ waiting' = FALSE
       /\ UNCHANGED <<settings, surface, sent>>

\* An error, or an answer the client did not keep: it may send the same again
\* or say more.
AnswerLost ==
    /\ waiting
    /\ waiting' = FALSE
    /\ UNCHANGED <<settings, surface, messages, pending, sent, given>>

-------------------------------------------------------------------------------
(* The client. *)

\* Ollama has images in a field of their own, after the text.
InOrder(kinds) ==
    IF surface = "ollama"
    THEN SelectSeq(kinds, LAMBDA k : k # "media") \o SelectSeq(kinds, LAMBDA k : k = "media")
    ELSE kinds

UserMessage(kinds) ==
    /\ ~waiting /\ pending = <<>> /\ Len(messages) < MaxMessages
    /\ messages' = Append(messages,
            Message("user", [i \in DOMAIN kinds |-> PartOf(InOrder(kinds)[i])], <<>>, NoID, ""))
    /\ UNCHANGED <<settings, surface, pending, waiting, sent, given>>

\* In any order; OpenAI's result has no name, and its text may be empty.
ToolMessage(i, kinds) ==
    /\ Len(messages) < MaxMessages
    /\ messages' = Append(messages,
            Message("tool", [j \in DOMAIN kinds |-> PartOf(kinds[j])], <<>>, pending[i].id,
                    IF surface = "ollama" THEN pending[i].name ELSE ""))
    /\ pending' = SubSeq(pending, 1, i - 1) \o SubSeq(pending, i + 1, Len(pending))
    /\ UNCHANGED <<settings, surface, waiting, sent, given>>

Next ==
    \/ \E publisher \in Publishers : SendRequest(publisher)
    \/ \E answer \in Answers : Answer(answer[1], answer[2])
    \/ AnswerLost
    \/ \E kinds \in UserMessages : UserMessage(kinds)
    \/ \E i \in DOMAIN pending, kinds \in ResultTexts : ToolMessage(i, kinds)

Spec == Init /\ [][Next]_vars

-------------------------------------------------------------------------------
(* Every call meets its answer.  In the request, as its publisher reads it. *)

IDsOf(blocks, type, Field(_)) ==
    LET picked == SelectSeq(blocks, LAMBDA b : b.type = type)
    IN [i \in DOMAIN picked |-> Field(picked[i])]

\* Anthropic: the results of a call are in the next message, before its text,
\* and nowhere else; the roles alternate.
AnthropicExchangesResolve(msgs) ==
    LET Uses(i) == IDsOf(msgs[i].blocks, "tool_use", LAMBDA b : b.id)
        Results(i) == IDsOf(msgs[i].blocks, "tool_result", LAMBDA b : b.toolUseID)
        ResultsFirst(blocks) ==
            \A j \in DOMAIN blocks : blocks[j].type = "tool_result" =>
                \A k \in 1..(j - 1) : blocks[k].type = "tool_result"
    IN \A i \in DOMAIN msgs :
        /\ i > 1 => msgs[i].role # msgs[i - 1].role
        /\ Uses(i) # <<>> =>
            /\ msgs[i].role = "assistant"
            /\ i < Len(msgs) /\ Len(Results(i + 1)) = Len(Uses(i))
            /\ ToSet(Results(i + 1)) = ToSet(Uses(i))
        /\ Results(i) # <<>> =>
            /\ msgs[i].role = "user"
            /\ i > 1 /\ Uses(i - 1) # <<>>
            /\ ResultsFirst(msgs[i].blocks)

\* OpenAI: the messages right after one with n calls are its n results.
OpenAIExchangesResolve(msgs) ==
    \A i \in DOMAIN msgs :
        LET n == Len(msgs[i].calls)
            after == SelectSeq(SubSeq(msgs, i + 1, i + n), LAMBDA m : m.role = "tool")
        IN /\ n > 0 =>
                /\ i + n <= Len(msgs)
                /\ Len(after) = n
                /\ {after[j].id : j \in DOMAIN after} = ToSet(msgs[i].calls)
           /\ msgs[i].role = "tool" =>
                \E j \in 1..(i - 1) : i - j <= Len(msgs[j].calls)

\* Cohere: the results are told by name; the client must have named them.
CohereExchangesResolve(body) ==
    LET turns == Append(body.history, [role |-> "CURRENT", message |-> body.message,
                                       calls |-> <<>>, results |-> body.results])
        Names(i) == [j \in DOMAIN turns[i].results |-> turns[i].results[j].name]
        Times(name, s) == Len(SelectSeq(s, LAMBDA n : n = name))
    IN \A i \in DOMAIN turns : turns[i].calls # <<>> =>
        /\ i < Len(turns)
        /\ \A name \in CallNames : Times(name, Names(i + 1)) = Times(name, turns[i].calls)

\* Google: a result has its call in the turn before, and a call the signature
\* it was made with, or the word that asks for none.
GoogleExchangesResolve(contents) ==
    \A i \in DOMAIN contents :
        LET calls == PickKind(contents[i].parts, "call")
            results == PickKind(contents[i].parts, "response")
        IN /\ \A j \in DOMAIN calls : \E g \in given :
                /\ calls[j].id = g.id.base /\ calls[j].name = g.name
                /\ calls[j].signature =
                    (IF g.id.signature = NoSignature THEN SkipValidator ELSE g.id.signature)
           /\ \A j \in DOMAIN results :
                /\ i > 1
                /\ \E k \in DOMAIN contents[i - 1].parts :
                        LET p == contents[i - 1].parts[k]
                        IN p.kind = "call" /\ p.id = results[j].id

\* A client that answers every call and gives back the identifiers it was
\* shown has its exchanges intact in every request, whichever publisher made
\* the calls and whichever reads them: through the identifiers the gateway
\* invents, the signatures it hides in them, merged turns, blank messages,
\* lost answers and results out of order (tools.go, buildContents, adapters).
ExchangesResolve ==
    waiting =>
        CASE sent.publisher = "anthropic" -> AnthropicExchangesResolve(sent.body.messages)
          [] sent.publisher = "openai" -> OpenAIExchangesResolve(sent.body.messages)
          [] sent.publisher = "cohere" ->
                surface = "ollama" => CohereExchangesResolve(sent.body)
          [] sent.publisher = "google" -> GoogleExchangesResolve(sent.body.contents)

-------------------------------------------------------------------------------
(* Nothing is lost on the way. *)

TextsTold(publisher, body) ==
    LET BlockTexts(blocks) ==
            FlattenSeq([i \in DOMAIN blocks |->
                IF blocks[i].type \in {"text", "tool_result"} THEN blocks[i].text
                ELSE IF blocks[i].type = "image" THEN <<blocks[i].media>>
                ELSE <<>>])
        TextsOf(results) == FlattenSeq([i \in DOMAIN results |-> results[i].text])
        TurnTexts(turn) == TextsOf(turn.results) \o turn.message
        PartTexts(part) ==
            CASE part.kind = "response" -> part.text
              [] part.kind = "call" \/ (part.kind = "text" /\ part.bytes = 0) -> <<>>
              [] OTHER -> <<part.says>>
    IN CASE publisher = "anthropic" ->
                FlattenSeq([i \in DOMAIN body.messages |-> BlockTexts(body.messages[i].blocks)])
         [] publisher = "openai" ->
                FlattenSeq([i \in DOMAIN body.messages |->
                    IF body.messages[i].role = "system" THEN <<>> ELSE body.messages[i].content])
         [] publisher = "cohere" ->
                FlattenSeq([i \in DOMAIN body.history |-> TurnTexts(body.history[i])])
                \o body.message \o TextsOf(body.results)
         [] publisher = "google" ->
                FlattenSeq([i \in DOMAIN body.contents |->
                    FlattenSeq([j \in DOMAIN body.contents[i].parts |->
                        PartTexts(body.contents[i].parts[j])])])

SaidBy(msg) ==
    IF msg.role = "system" THEN <<>>
    ELSE [i \in DOMAIN msg.parts |-> msg.parts[i].says]

\* The numbers of texts, without those of nothing.
Numbers(texts) ==
    SelectSeq([i \in DOMAIN texts |-> texts[i][1]], LAMBDA n : n # 0)

\* Every text, image and result the client sent reaches the publisher, whole or
\* shortened, once and in the client's order, however turns are merged, split
\* into messages or stripped off the history (StageMessage, FlushMessage,
\* BuildCohereRequest).
EverythingTold ==
    waiting =>
        Numbers(TextsTold(sent.publisher, sent.body))
            = Numbers(FlattenSeq([i \in DOMAIN messages |-> SaidBy(messages[i])]))

-------------------------------------------------------------------------------
(* Caching. *)

\* What is paid for: the system prompt alone, or with messages up to one.
Anchors(body) ==
    {i \in DOMAIN body.messages : body.messages[i].cached}
        \union (IF body.cachedSystem THEN {0} ELSE {})

\* A prefix as it is written, and what it tells whatever is left of its texts.
Written(body, i) ==
    <<body.system,
      [j \in 1..i |-> [role |-> body.messages[j].role, blocks |-> body.messages[j].blocks]]>>

ToldBy(body, i) ==
    [j \in 1..i |-> <<body.messages[j].role,
        Numbers(TextsTold("anthropic", [messages |-> <<body.messages[j]>>])),
        IDsOf(body.messages[j].blocks, "tool_use", LAMBDA b : b.id)>>]

\* The truncation gives a text the same form as long as it is not the newest.
Steady == ~settings.truncate \/ settings.retain = 0

\* A prefix that one request pays to write is a prefix of the next request to
\* Anthropic, in its turns, calls and texts.  The planner and the adapter merge
\* the turns each in its own way: an anchor that lands on another message, or
\* on the newest one, which the next message of the client may still grow,
\* is a write nobody reads (cache.go:20-29, anthropic.go:476-484).  It can be
\* read back, being the same text for text and system prompt for system
\* prompt, if long texts are not truncated or are truncated without a window,
\* and the notice of placeholders is in both requests or in none.
\*
\* That is the extent of what the code keeps.  Under the default profile
\* (config.go:310-326) the truncation has a window of three turns
\* (toolresult.go:84-96): a long text before the tail anchor is whole when the
\* prefix is written and cut in the next request, and the first placeholder of
\* a conversation changes the system prompt of all that is cached.  The rule
\* that a breakpoint needs high confidence to be read back (cache.go:21-27) and
\* overview.md:59 do not hold there.  Stages left out here (write elision,
\* deep compaction, pruning, the budget) can break a prefix in the same way.
CachedPrefixReadBack ==
    [][(~waiting /\ waiting' /\ sent.publisher = "anthropic" /\ sent'.publisher = "anthropic")
        => LET old == sent.body
               new == sent'.body
               noted == Hint.says \in ToSet(old.system) <=> Hint.says \in ToSet(new.system)
           IN /\ \A i \in Anchors(old) :
                    /\ i <= Len(new.messages)
                    /\ ToldBy(old, i) = ToldBy(new, i)
                    /\ (Steady /\ noted) => Written(old, i) = Written(new, i)
              /\ \A i \in Anchors(new) : i < Len(new.messages)]_vars
===============================================================================
