---------------------------- MODULE PromptPipeline ----------------------------
(***************************************************************************)
(* From the client's conversation to the prompt the upstream model sees    *)
(* (ApplyCompressionPipeline of pkg/pipeline/pipeline.go), attempt after   *)
(* attempt and request after request.                                      *)
(*                                                                         *)
(* The client sends its whole conversation with every request.  Every      *)
(* attempt to serve the request runs the pipeline again, on the request's  *)
(* contents and on the same options; a retrieval round adds a call and its *)
(* answer to the contents.  Nothing of this reaches the client's copy.     *)
(***************************************************************************)
EXTENDS LoopBreak, ToolPruning, HistoryElision, PromptBudget, ToolAlignment

CONSTANTS
    Settings,       \* how the gateway runs and how the client uses it
    Openings,       \* first texts of a conversation
    Replies,        \* later texts of the client
    ModelTurns,     \* what the model may answer: sequences of <<tool, arguments>>
    MaxTurns,       \* bound: turns of a conversation
    MaxRetrievals,  \* retrievals answered per request
    MaxFailures     \* bound: failed attempts per request

ToolNames == {ReadFile, ListFiles, WriteFile, Retrieve}

\* What a client writes: nothing of it has been compressed yet.
ClientTexts ==
    [kind : {"text"}, says : STRING, block : Blocks \union {NoBlock}, at : {0},
     env : {"none", "snapshot"}, nudged : {FALSE}, shown : {<<>>}]

\* The profile's values, each of which the environment may replace; numbers are
\* not negative.
Knobs ==
    [loopbreak : BOOLEAN, nudge : BOOLEAN, active : BOOLEAN, window : Nat,
     immune : SUBSET ToolNames, prune : BOOLEAN, env : BOOLEAN,
     truncate : BOOLEAN, retain : Nat, resultMax : Nat, crusher : BOOLEAN,
     write : BOOLEAN, writeRetain : Nat, deep : BOOLEAN, keep : Nat, deepMax : Nat,
     budget : Nat, dedup : BOOLEAN, dedupMin : Nat, substring : BOOLEAN]

\* The handlers put all declarations of a client into one group.  No tool has
\* the name that results without a name are given (toolResultPart).
ASSUME PipelineAssumption ==
    /\ {MaxTurns, MaxRetrievals, MaxFailures} \subseteq Nat
    /\ \A s \in Settings :
        /\ s.knobs \in Knobs
        /\ {s.ids, s.gemini, s.disk, s.opts, s.skips} \subseteq BOOLEAN
        /\ s.offers \in Seq(SUBSET ToolNames) /\ Len(s.offers) <= 1
        /\ s.sysBytes \in Nat
    /\ Openings \union Replies \subseteq ClientTexts
    /\ ModelTurns \subseteq Seq((STRING \ {"tool"}) \X Arguments)

VARIABLES
    setting,      \* the knobs, the client's surface and habits, the disk
    history,      \* the conversation as the client has it
    pc,           \* who moves: the client, the gateway, the upstream model
    contents,     \* the request's contents
    tools,        \* opts.Tools
    prompt,       \* what the last attempt sent
    hinted,       \* its system prompt explains the placeholders
    retrievals,   \* rounds of this request
    failures      \* failed attempts of this request

request == <<contents, tools, retrievals, failures>>
sent == <<prompt, hinted>>
vars == <<setting, history, pc, request, sent>>

Roles == {"user", "model"}

TypeOK ==
    /\ setting \in Settings
    /\ pc \in {"client", "gateway", "upstream"}
    /\ Len(history) <= MaxTurns
    /\ \A c \in {history, contents, prompt} :
        \A i \in DOMAIN c : c[i].role \in Roles /\ c[i].parts # <<>>
    /\ tools \in Seq(SUBSET ToolNames)
    /\ hinted \in BOOLEAN
    /\ retrievals \in 0..MaxRetrievals
    /\ failures \in 0..MaxFailures

Init ==
    /\ setting \in Settings
    /\ history = <<>>
    /\ pc = "client"
    /\ contents = <<>>
    /\ tools = <<>>
    /\ prompt = <<>>
    /\ hinted = FALSE
    /\ retrievals = 0
    /\ failures = 0

-------------------------------------------------------------------------------
(* The client. *)

\* The calls of the model's last turn.
OpenCalls ==
    IF history = <<>> THEN <<>>
    ELSE ElementsAt(Last(history).parts, OfKind(Last(history), "call"))

\* toolResultPart: OpenAI tool messages carry no name.
ResponseName(call) == IF setting.ids THEN "tool" ELSE call.name

\* The client answers all calls or leaves one out and writes instead.
UserParts ==
    LET Answers(S) == [k \in 1..Len(S) |-> Response(ResponseName(S[k]), S[k])]
    IN IF history = <<>> THEN {<<t>> : t \in Openings}
       ELSE IF OpenCalls = <<>> THEN {<<t>> : t \in Replies}
       ELSE {Answers(OpenCalls)}
            \union {Append(Answers(ElementsAt(OpenCalls, DOMAIN OpenCalls \ {left})),
                           Text("ask", NoBlock, "snapshot")) :
                      left \in IF setting.skips THEN DOMAIN OpenCalls ELSE {}}

\* A new request: buildContents and genOptions.
Ask ==
    /\ pc = "client"
    /\ Len(history) < MaxTurns
    /\ \E parts \in UserParts :
        /\ history' = Append(history, Turn("user", parts))
        /\ contents' = history'
    /\ tools' = setting.offers
    /\ pc' = "gateway"
    /\ UNCHANGED <<setting, retrievals, failures, sent>>

-------------------------------------------------------------------------------
(* The gateway: the stages, in the code's order. *)

\* The stages that keep the turns where they are.
Shaped(c) ==
    LET k == setting.knobs
        unlooped == IF k.loopbreak THEN DropRepeatedScoldings(c) ELSE c
        pruned == IF HasRetrievalToolCall(unlooped) THEN unlooped
                  ELSE PruneStaleTools(unlooped, k, setting.ids)
        current == CollapseEnvBlocks(pruned, k)
        short == ElideHistoricalWriteActions(
                    TruncateToolResults(current, k, setting.disk), k, setting.disk)
    IN IF HasRetrievalToolCall(current) THEN current
       ELSE DeepCompactHistoricalTurns(short, k, setting.disk)

\* Duplicates are looked for before the conversation is cut.
FinishedDedupFirst(c) ==
    LET k == setting.knobs
        once == DedupSubstringBlocks(DedupReplayedBlocks(c, k), k)
        kept == TrimContents(once, setting.sysBytes, k)
    IN IF setting.gemini THEN AlignFunctionCallsAndResponses(kept, setting.ids)
       ELSE kept

\* The stages that cut, deduplicate and align.
Finished(c) ==
    LET k == setting.knobs
        kept == TrimContents(c, setting.sysBytes, k)
        once == DedupSubstringBlocks(DedupReplayedBlocks(kept, k), k)
    IN IF setting.gemini THEN AlignFunctionCallsAndResponses(once, setting.ids)
       ELSE once

HasRetrievalTool(groups) == \E g \in DOMAIN groups : Retrieve \in groups[g]

\* The tool is added by every attempt.
InjectToolAgain(c, groups) ==
    IF setting.opts /\ HasElided(c) THEN Append(groups, {Retrieve}) ELSE groups

\* Without options there is nothing to add the tool to.
InjectTool(c, groups) ==
    IF setting.opts /\ HasElided(c) /\ ~HasRetrievalTool(groups)
    THEN Append(groups, {Retrieve}) ELSE groups

\* One attempt: the pipeline, then the upstream call.
Attempt ==
    /\ pc = "gateway"
    /\ LET c == IF setting.knobs.loopbreak /\ setting.knobs.nudge
                THEN NudgeLastTurn(contents) ELSE contents
           warm == IF setting.knobs.loopbreak THEN DropRepeatedScoldings(c) ELSE c
           final == Finished(Shaped(c))
       IN /\ contents' = c
          /\ prompt' = final
          /\ tools' = InjectTool(final, PruneActiveTools(warm, tools, setting.knobs))
          /\ hinted' = HasElided(final)
    /\ pc' = "upstream"
    /\ UNCHANGED <<setting, history, retrievals, failures>>

-------------------------------------------------------------------------------
(* The upstream model. *)

\* A retryable error before any output.
AttemptFails ==
    /\ pc = "upstream"
    /\ failures < MaxFailures
    /\ failures' = failures + 1
    /\ pc' = "gateway"
    /\ UNCHANGED <<setting, history, contents, tools, retrievals, sent>>

\* The model asks for elided content; the gateway appends the exchange.
Retrieval ==
    /\ pc = "upstream"
    /\ HasRetrievalTool(tools)
    /\ retrievals < MaxRetrievals
    /\ retrievals' = retrievals + 1
    /\ LET call == Call(Retrieve, Flat("hash"), <<Len(contents) + 1, 1>>)
       IN contents' = contents \o <<Turn("model", <<call>>),
                                    Turn("user", <<Response(Retrieve, call)>>)>>
    /\ prompt' = <<>>
    /\ pc' = "gateway"
    /\ UNCHANGED <<setting, history, tools, failures, hinted>>

\* The model answers the client; the request is over.
Answer ==
    /\ pc = "upstream"
    /\ Len(history) + 1 < MaxTurns
    /\ \E calls \in ModelTurns :
        LET n == Len(history) + 1
        IN history' = Append(history, Turn("model",
             IF calls = <<>> THEN <<Text("answer", NoBlock, "none")>>
             ELSE [k \in DOMAIN calls |-> Call(calls[k][1], calls[k][2], <<n, k>>)]))
    /\ contents' = <<>>
    /\ tools' = <<>>
    /\ prompt' = <<>>
    /\ hinted' = FALSE
    /\ retrievals' = 0
    /\ failures' = 0
    /\ pc' = "client"
    /\ UNCHANGED setting

\* Bound: the conversation ends here.
Over ==
    /\ pc = "upstream"
    /\ Len(history) + 1 >= MaxTurns
    /\ UNCHANGED vars

Next == Ask \/ Attempt \/ AttemptFails \/ Retrieval \/ Answer \/ Over

Spec == Init /\ [][Next]_vars

-------------------------------------------------------------------------------
(* Properties.  They are about the prompt that has just been sent. *)

Sent == pc = "upstream"

PartsAt(i) == ToSet(prompt[i].parts)

BlockStandsAt(i, block) ==
    \E q \in PartsAt(i) : IsBareBlock(q) /\ q.at = 0 /\ q.block = block

\* The part can be read at turn i, its block perhaps at an earlier one.
StandsAt(i, part) ==
    \E q \in PartsAt(i) :
        \/ q = part
        \/ /\ part.kind = "text"
           /\ q.kind = "text"
           /\ q.at \in 1..i
           /\ [q EXCEPT !.at = 0] = part
           /\ BlockStandsAt(q.at, part.block)

Resolves(i, q) ==
    /\ q.to \in 1..i
    /\ prompt[q.to].role = prompt[i].role
    /\ StandsAt(q.to, q.text)

\* "First occurrences are always kept verbatim ... placeholders always point
\* BACKWARD" (dedup.go, dedup_substring.go), after trimming, nested
\* replacements and realignment too: whatever the prompt points at is there.
BackReferencesResolve ==
    Sent => \A i \in DOMAIN prompt : \A q \in PartsAt(i) :
        /\ q.kind = "pointer" => Resolves(i, q)
        /\ q.kind = "text" /\ q.at # 0 => BlockStandsAt(q.at, q.block)

\* The calls that the client, or a retrieval, has just answered.
LastCalls ==
    IF Len(contents) < 2 THEN {}
    ELSE {c \in ToSet(contents[Len(contents) - 1].parts) : c.kind = "call"}

\* The second response answers a later call with the same key of arguments.
AnsweredAgain(part, other) ==
    /\ part.kind = "response" /\ other.kind = "response"
    /\ \E c, d \in LastCalls :
        /\ c.key = part.key /\ d.key = other.key
        /\ c.name \in ReadOnlyTools /\ SameCall(d, c) /\ Before(c.key, d.key)

ReadTwice == \E c, d \in LastCalls : c # d /\ c.name \in ReadOnlyTools /\ SameCall(d, c)

\* "The LATEST turn is always left intact" (toolresult.go), whichever stages
\* are on: what the client, or a retrieval, has just said is in the last turn
\* of the prompt, as it was said or as a pointer to where it stands.  Of reads
\* with one key in a turn (SameCall) the later answer is enough.
LatestTurnReadable ==
    Sent => LET n == Len(prompt)
                said == ToSet(Last(contents).parts)
                Readable(part) ==
                    \/ StandsAt(n, part)
                    \/ \E q \in PartsAt(n) : q.kind = "pointer" /\ q.text = part /\ Resolves(n, q)
            IN \A part \in said : \/ Readable(part)
                                  \/ \E other \in said : AnsweredAgain(part, other) /\ Readable(other)

\* Dropping scoldings, cutting the history and answering retrievals keep
\* user and model turns alternating up to a final user turn, as Vertex
\* requires of a conversation.
RolesAlternate ==
    Sent => /\ prompt # <<>>
            /\ IsUser(Last(prompt))
            /\ \A i \in 1..(Len(prompt) - 1) : prompt[i].role # prompt[i + 1].role

Answers(i) == {j \in DOMAIN prompt[i].parts : prompt[i].parts[j].kind \in {"response", "dummy"}}

WasAnswered(call) ==
    \E i \in DOMAIN contents : \E p \in ToSet(contents[i].parts) :
        p.kind = "response" /\ p.key = call.key

\* Each call of turn i is followed by its own answer, once, and by a dummy
\* only if the client gave none; nothing else answers.
AnsweredInKind(i) ==
    LET calls == {p \in PartsAt(i) : p.kind = "call"}
        By(c) == {j \in Answers(i + 1) : prompt[i + 1].parts[j].key = c.key}
    IN /\ \A c \in calls :
           /\ Cardinality(By(c)) = 1
           /\ \A j \in By(c) : prompt[i + 1].parts[j].kind = "dummy" => ~WasAnswered(c)
       /\ \A j \in Answers(i + 1) : \E c \in calls : j \in By(c)

OwnAnswers ==
    (Sent /\ setting.gemini) =>
        \A i \in 1..(Len(prompt) - 1) : IsModel(prompt[i]) => AnsweredInKind(i)

\* Where nothing is cut, the client's own opening, and no answer, comes first.
StartsWithUser ==
    (Sent /\ setting.knobs.budget = 0) => IsUser(prompt[1]) /\ Answers(1) = {}

\* Dropping, pruning and aligning keep the conversation one the API accepts:
\* the roles alternate, from the user's opening to the user's last turn, and
\* where calls have IDs no turn leaves the model with another call's answer,
\* with two, or with none (a "400 INVALID_ARGUMENT error if the number of
\* function responses doesn't match", align.go).
\*
\* With a budget all but the first turn is so.  TrimContents cuts turn by turn
\* and not "in pairs to keep user/assistant alternation valid" (budget.go:20):
\* the prompt may start with a turn of the model, or with one that answers
\* calls that were cut, and the alignment, which looks at the turn before,
\* does not drop those answers (align.go:24, 55; docs/optimization/align.md:37).
StillAConversation ==
    RolesAlternate /\ StartsWithUser /\ (setting.ids => OwnAnswers)

ReadsOf(c) ==
    UNION {{<<i, j>> : j \in {k \in OfKind(c[i], "call") :
                                 /\ c[i].parts[k].name \in ReadOnlyTools
                                 /\ WasAnswered(c[i].parts[k])}} : i \in DOMAIN c}

IsNewestRead(a) ==
    LET Read(b) == contents[b[1]].parts[b[2]]
    IN ~\E b \in ReadsOf(contents) :
           Before(a, b) /\ SameCall(Read(b), Read(a))

\* Documented (prune_tools.go): "the latest read is authoritative", and a call
\* goes "TOGETHER" with "its paired" response: of all reads with one key the
\* newest that was answered reaches the model, call and answer.
NewestRead ==
    (Sent /\ setting.knobs.budget = 0) =>
        \A a \in ReadsOf(contents) : IsNewestRead(a) =>
            \A kind \in {"call", "response"} :
                \E i \in DOMAIN prompt : \E p \in PartsAt(i) :
                    p.kind = kind /\ p.key = contents[a[1]].parts[a[2]].key

\* GW_DEEP_COMPACT_KEEP_TURNS may be 0; the latest turn is then cold as well.
KeepsWarm == setting.knobs.deep => setting.knobs.keep > 0

\* Whatever the stages shorten, point back for and prune, the model can read
\* what placeholders point to, what was just said and, where calls have IDs,
\* the newest answer under each key.  Without IDs a read made twice in the last
\* turn can take another call's answer with it.
\*
\* A key is a file only where the arguments are strings and numbers.  All reads
\* by an array or an object, the rest being equal, have one key, so that the
\* newest content of one file goes when another is read, of the latest turn
\* too: "so distinct complex args don't collide" and "prevents an unsafe
\* collapse" (prune_tools.go:288-291, 306-307) are not what the code does.
ContentReadable ==
    /\ BackReferencesResolve
    /\ (setting.ids \/ ~ReadTwice) /\ KeepsWarm => LatestTurnReadable
    /\ setting.ids => NewestRead

\* The model can redeem the placeholders it is told of: with a marker in the
\* prompt the retrieval tool is on offer, exactly once, however many
\* attempts have added it to the same options.
RetrievalOffered ==
    (Sent /\ setting.opts) =>
        LET offers == {g \in DOMAIN tools : Retrieve \in tools[g]}
        IN /\ Cardinality(offers) <= 1
           /\ hinted => offers # {}

\* Documented (pipeline.go): the tool is injected "if any elided hashes exist
\* in context".
HashesRedeemable ==
    (Sent /\ setting.opts) =>
        \A i \in DOMAIN prompt : \A p \in PartsAt(i) :
            IsElided(p) => HasRetrievalTool(tools)

\* A retry asks the model the same thing again, although the attempts share
\* the request's parts and options and change both.
RetrySamePrompt ==
    [][pc = "gateway" /\ pc' = "upstream" /\ prompt # <<>> => prompt' = prompt /\ tools' = tools]_vars
===============================================================================
