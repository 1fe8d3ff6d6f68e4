# TLA+ specifications of cline-vertex-gw

The gateway sits between a coding client (Cline, or anything that speaks the
Ollama or OpenAI API) and Vertex AI.  It rewrites the conversation to make it
smaller, translates it for one of four kinds of publishers, retries upstream
failures, answers the model's requests for content it has cut away, translates
the publisher's stream back, and keeps several caches.  These modules model that
logic; TLC checks them on small instances.  TLAPS proves, for every instance,
the safety of the retry loops, of the streams they deliver, of the prompt
pipeline, of the elided-content store, of the model list and of the Gemini
caches.

    tlc -workers 2 -config StreamRetry.cfg MCStreamRetry.tla
    tlapm StreamRetryProofs.tla

## The system

| component | code | state it keeps | operations | modules |
|---|---|---|---|---|
| streaming retry loop | `pkg/api/helpers.go` `runStreamWithRetry`, `retry.go` | per request: attempt, retrievals, contents | open stream, forward parts, withhold retrieval calls, retry, resolve, give up | `StreamRetry` |
| non-streaming retry loop | `helpers.go` `runNonStreamWithRetry` | the same | the same, one answer at a time | `NonStreamRetry` |
| elided-content store | `pkg/cache/fs_cache.go`, `pkg/pipeline/ccr_helpers.go` | `elided_<hash>.json` files | save, retrieve, periodic cleaning | `ElidedStore` |
| model list cache | `pkg/provider/tags_cache.go`, `discovery.go` | memory entry, disk copy | poll, discover, warm up | `TagsCache` |
| price table | `pkg/provider/pricing_cache.go` | table, time of the last attempt, disk copy | warm up, detached refresh | `PricingRefresh` |
| Gemini explicit caches | `pkg/provider/gemini_cache.go` | prefix hash to resource name and expiry | look up, create, apply | `GeminiCache` |
| prompt pipeline | `pkg/pipeline/*.go` | none of its own; the request's contents and options | the stages of `ApplyCompressionPipeline` | `PromptPipeline` and the stage modules |
| cache planner | `pkg/provider/cache.go` | none | choose breakpoints | `CachePlan`, `ToolSession` |
| stream emission | `pkg/api/openai_stream.go`, `openai_handlers.go`, `handlers.go` | per stream: first delta, tool index, unescaper, collected calls | events to the client | `StreamDelivery` |
| loop detector | `pkg/api/stopdetect.go` | rolling window | observe, cancel the attempt | `LoopDetector`, `StreamDelivery` |
| unescaper | `pkg/api/unescape.go` | held-back characters | process, flush | `EntityUnescaper`, `StreamDelivery` |
| client messages, tool identifiers | `pkg/api/tools.go`, `openai_handlers.go`, `helpers.go`, `multimodal.go` | none; the client keeps the conversation | build contents, invent and read identifiers | `ClientMessages`, `ToolSession` |
| publisher adapters, requests | `pkg/provider/{anthropic,openai_vertex,cohere_vertex,vertex}.go` | none | translate contents | `PublisherRequests`, `ToolSession` |
| publisher adapters, streams | the same | per stream: the calls being assembled, the reason | translate events | `StreamDelivery` |
| MCP server, shared context | `pkg/api/mcp_server.go`, `pkg/cache/shared_context.go` | a map | line protocol | not modelled |
| start-up and shutdown | `cmd/cline-vertex-gw/main.go` | | warm-ups, cleaner, drain | restarts, canceled context |
| middleware, health, metrics, logging, text compressors, HTML price scraper | | | | not modelled |

How they interact.  A handler turns the request into contents and options and
calls one of the retry loops.  Each attempt calls `GenerateStream` or `Generate`
of the adapter, which runs the pipeline on the contents *and* on the options,
then the cache planner and, for Gemini, the explicit cache.  Pipeline stages
save what they cut in the elided-content store; when the model asks for it, the
retry loop reads the store, appends the exchange to the contents and starts
over.  The warm-ups and the cleaner are goroutines of `main`; polls and chat
requests share the model list and the price table with them.

What is hard here: output that cannot be taken back meets retries; one counter
is set back by another; one error value (`context.Canceled`) has two causes;
files are renamed, read and removed by name without a lock; caches are layered
and dated twice; stages rewrite what later stages count, compare, point at and
pair up; and they run again on each attempt over shared parts.  Text is held back
while calls overtake it; the emitter outlives the attempt whose output it wrote;
one conversation is merged into turns by four pieces of code, each by a rule of
its own, and its calls are matched by identifiers that travel through the client.

What makes each component correct:

- *Retry loops.*  No output twice, bounded cost, no false success or failure,
  retrievals that answer what was asked, an answer to every request.
- *Store.*  What a prompt refers to can be read, whole, for its time to live.
- *Model list, prices.*  Bounded staleness, no stampede, no blocking, recovery.
- *Gemini caches.*  The resource named is alive and is this request's prefix.
- *Stream delivery.*  An answer reported as good is all there, once and in order;
  each call the model made appears once, none of a retried attempt; the event
  stream is well formed; every stream is closed to a client that is there.
- *Loop detector.*  A repetition the window can hold is stopped.
- *Client messages, adapters.*  Every call meets its result at every publisher,
  and everything the client said is told.
- *Cache planner.*  A prefix that is paid for is a prefix of the next request.
- *Pipeline.*  The prompt is still a conversation: roles alternate, answers
  belong to their calls, a user opens, pointers resolve, the latest turn and the
  newest reads are there, placeholders can be redeemed, and a retry says the same again.

## The modules

### Retry loops

`UpstreamExchange` is the promise both loops make, without the loops: a request
is a series of rounds, a round a bounded series of calls of which only the last
delivers anything, and each result has its cause.

`StreamRetry` takes one step per thing another actor can fall between: opening a
call, each part of the stream, its end, the decision after it, the end of a
back-off.  `pc` is the place in the loop; `attempt`, `retrievals`, `gotChunk`,
`loopFired`, `retrievalCall` and `iterErr` are the code's variables; `calls`,
`delivered` and `asked` (what the latest upstream call asked to retrieve) are
history.  `RetrievalsAsAsked` says what of `asked` is answered and in which cases
a call is lost: overwritten in its stream, withheld when the stream fails or the
detector stops it, or past the limit.  The upstream, the loop detector's verdict, the
client's connection and the request context are the environment.  `AttemptsLeft`,
`MustResolve`, `EndedWell` and `OutputShown` are the conditions of the code, each
an operator of its own.  `NonStreamRetry` is the same for a single answer,
where past the limit the retrieval call goes to the client as it is.  Both
implement `UpstreamExchange` (`ImplementsExchange`); the mapping counts a call
as in flight from its opening to the decision.

### Elided-content store

`ElidedStore` interleaves at every file system call: create, write, close,
rename, read, stat, remove.  Requests elide and later retrieve a block, the
cleaner examines and removes, the process may restart, and every file operation
may fail: a save is given up, an entry that cannot be looked at or removed is left
for the next pass.  `ContentWithinTTL` is
stated for saves after which no cleaning pass was under way: the cleaner
examines a file and then removes *by name* (`fs_cache.go:188-196`), so a pass
that examined the old file removes the renewed one.  The pipeline's "completely
lossless" comment (`pipeline.go:147`) holds up to that window.

### Caches

`TagsCache`, `PricingRefresh` and `GeminiCache` have the critical sections of a
mutex as single steps, and everything the code does outside one as further
steps.  Time is kept as ages or remaining lifetimes, so no clock has to be
bounded.  Steps that only touch memory or disk are urgent (time waits for
them); calls to an upstream are not.

### Prompt pipeline

`PromptParts` is the conversation: turns of parts (text, call, response, and
what the stages make of them), with sizes that keep the order of the thresholds.
One module per group of stages: `LoopBreak`, `ToolPruning` (both prunings),
`HistoryElision` (snapshots, tool results, write payloads, cold turns),
`PromptBudget` (cutting and both dedups), `ToolAlignment`.  `PromptPipeline`
composes them: the client extends its history and sends it, `Attempt` runs all
stages in the code's order and sends the prompt, the upstream fails, asks for
elided content, or answers.  The request's contents and options are variables
because attempts change them (`NudgeLastTurn`, `InjectTool`, `PruneActiveTools`).
Keys identify calls and responses; where the client sends no IDs they are
history, and the operators decide by name as the code does.  The arguments of a
call are its scalars and, apart from them, its arrays and objects: reads repeat
one another if their `ArgsStableKey` is the same, which has one mark for all arrays
and objects.  Stages that append
the turns, parts or tools they keep to a new slice are `ElementsAt`: the elements
at a set of places, in order.  `PipelineAssumption` says what settings, clients and
models are; of the client it asks that what it writes has not been compressed
before, and of the model that no tool is called "tool", the name `toolResultPart`
gives to results without one (`align.go` would take such a result for the tool's).

### Stream delivery

`StreamDelivery` is a streamed answer from end to end.  Each step of the loop is
the step of `StreamRetry` (`Loop == INSTANCE StreamRetry` on the same variables)
joined with what the decoder makes of the event and what the emitter writes.
The lifetimes are the code's: `inflight`, `reason` and `window` belong to an
attempt (`OpenDecoder`), `unescaper`, `collected` and `sent` to the request,
`finish` (`metrics.finishReason`) to the request as well.  The four dialects
differ in when a call is yielded: Gemini and Cohere send it in one piece,
Anthropic closes it by index or leaves it to the flush after a cut, OpenAI keeps
all to the end.  The three surfaces differ in what they do with a call: an event
(`chat`), kept for the last message (`ollama`), dropped (`generate`).  An answer
that has ended is closed (`CloseWell`, `CloseWithError`) or, on the chat surface,
if nothing was written and the client is gone, abandoned (`AbandonAnswer`).

`EntityUnescaper` and `LoopDetector` are the two automata, as operators over
sequences of symbols: a symbol is a letter, a punctuation mark of the markup, or
a word such as `lt` or `thinking`.  The detector compares chunks themselves where
the code compares their hashes.  `Tolerated` and `EndsInRepetition` are the
reference: after how many symbols of a repetition of period p it must have been
noticed, and what a repetition is.

### Tool sessions

`ToolSession` is a client that keeps its conversation, sends it whole with every
request, and may change the model between two requests.  `ClientMessages` is
what `buildContentsOAI` and `buildContents` make of the messages, with the
identifiers `base|signature` as pairs; `CachePlan` is `PlanCache`;
`PublisherRequests` is what the Anthropic, OpenAI and Cohere adapters send.  Of
the pipeline two stages run here.  The whitespace stage empties a text of blanks
and leaves the part, which the planner and three adapters have to skip (for Google
it stays in the contents).  `TruncateToolResults` shortens a long text by its
distance from the last turn, so that one text has another form in each request,
and brings the notice of placeholders into the system prompt.  A text is a number,
what is left of it (whole, cut, masked) and a size, so that it can be followed.
`CachedPrefixReadBack` claims turns, calls and texts of an anchored prefix always,
and the same form of each text and the same system prompt where truncation is off or
has no window and the notice is in both requests or in none.  Assumed of the client: it answers every call of an answer before it
goes on, and gives back the identifiers it was shown.  Assumed of publishers that
send identifiers: they are unique in a conversation, and names are not empty.
Cohere matches results by name only, and only Ollama's clients send one, so
`ExchangesResolve` claims nothing for Cohere on the other surface.

## Runs

| run | instance | shows |
|---|---|---|
| `StreamRetry.cfg` | 3 attempts, 2 retrievals, 2 hashes | no duplicated output, bounded cost, causes of endings, answers to what was asked, termination, refinement |
| `NonStreamRetry.cfg` | 3 attempts, 3 retrievals, 2 hashes | the same for single answers; no call after a cancellation |
| `ElidedStore.cfg` | 2 requests on one block, TTL 1, clock 4, 1 restart | no torn file, content for its TTL, expired files go although operations fail |
| `TagsCache.cfg` | a client and the warm-up, 2 publishers, TTLs 1 and 2, 1 hang-up, 1 restart | bounded staleness, one burst per window, the list heals |
| `PricingRefresh.cfg` | 2 requests and the warm-up, TTL 2, scrape 1 | requests proceed past a warm-up that holds the lock, estimates appear |
| `GeminiCache.cfg` | 2 requests, 2 tool sets, 2 resources, life 4, margin 2 | alive when used, own prefix |
| `PromptPipeline.cfg` | conversations of up to 7 turns, 5 settings, 1 failure and 1 retrieval per request | still a conversation, content readable, retrieval offered, a retry says the same |
| `StreamDelivery.cfg` | 2 attempts, 1 retrieval, 6 pairs of dialect and surface | whole answer, calls as made, well-formed events, repetitions caught, streams close |
| `ToolSession.cfg` | conversations of up to 6 messages, 4 publishers, 2 surfaces, truncation with a window of 2 turns and without | exchanges resolve, everything told, cached prefixes are prefixes again |
| `GeminiCacheChoice.cfg` | | **violated**: `OwnToolChoice` |
| `PromptPipelineHashes.cfg` | default profile | **violated**: `HashesRedeemable` |
| `PromptPipelineOllama.cfg` | calls without IDs | **violated**: `NewestRead` |

Bounds.  The loops compare their counters only with the limits and with zero, so
a first, a middle and a last attempt and retrieval cover the code's 4 and 5 (and
the proofs need no bound).  Two requests on one block or key are what it takes
to race; a third only repeats one of them.  The TTLs are chosen so that either
of two layers can lapse first.  Seven turns let a read be superseded twice, a
scolding recur around a tool call, a block be pasted, embedded and cut away, and
a result age from whole through elided to masked with the windows of
`MCPromptPipeline` (windows and sizes of `config.go` scaled down, in the same
order).  A model turn may read one file, two, or one file twice beside another:
pruning then takes the earlier of the two out of the turn that has just been
answered, and with IDs the later answer stays.  It may also write a file and list
two directories named in arrays, whose keys are the same.  In the two settings of
the aggressive profile the client answers every call; in the others it may leave
answers out.

In `StreamDelivery.cfg` the bounds go where each dialect is interesting: Gemini
has eight symbols of markup, cut inside entities and tags, and one call, for text
that a call overtakes; Anthropic and OpenAI have two calls in flight at once, and
the gateway's own among them, OpenAI once more on the Ollama surface, which collects
them for its last message; Cohere has no calls but enough text to fill the
detector's window of six (chunk 2, threshold 2), which is long enough for periods
1 and 2 and for a repetition that starts in the middle.  Two attempts and one
retrieval round are what it takes for an emitter to outlive a decoder in both
ways.  In `ToolSession.cfg` six messages hold a system prompt, a question, an
answer with two calls, both results in either order, and the message after them;
results are long or empty, and a window of 2 turns lets one be whole, cut and masked;
`CacheMinBytes` 2 and a tail of 4 turns and 5 units let every anchor be set and
left out.  Deadlock is not checked there: a conversation of `MaxMessages` is over.

`MaxWritten`, `MaxCalls`, `MaxMessages`, `MaxTime`, `MaxRestarts`, `MaxHangUps`, `MaxDrops`, `MaxDelay`, `Names`,
`MaxTurns` and `MaxFailures` are bounds of the models, not of the code.

Where a run has liveness properties there is no symmetry reduction.

## Fairness

- `StreamRetry`, `NonStreamRetry`: weak fairness of the loop's own steps (one
  goroutine that runs while it can, and timers that fire) and of the end of an
  upstream call (an answer's end or an error; output is bounded by the model's
  token limit).  Nothing is assumed of the client.
- `ElidedStore`: weak fairness of the cleaner, which a ticker in `main` drives, and
  strong fairness of looking at a file and removing it: each may fail, and not each
  time.  Requests may stop anywhere, and the clock may stand.
- `TagsCache`: weak fairness of each goroutine's work (a lookup ends, the HTTP
  client times out after 15 s), of the responses and of time.  None of clients,
  publishers or restarts: `CatalogHeals` has the recovery of the publishers as
  its premise.
- `PricingRefresh`: a scrape ends, at its deadline at the latest; time passes;
  strong fairness where a goroutine waits for the mutex, because `sync.Mutex`
  hands over to a waiter after a millisecond.
- `StreamDelivery`: weak fairness of the gateway's goroutine and of the end of a
  stream (its body ends, fails, or the client's write does).  Nothing of the
  client, the signal or what the model says: a stream that goes on is bounded by
  `MaxWritten` and `MaxCalls`, as the model's token limit bounds it.
- `GeminiCache`, `PromptPipeline`, `ToolSession`: safety only, no fairness.

## Proofs

`StreamRetryProofs` proves, for all `MaxAttempts`, `MaxRetrievals` and `Hashes`
that satisfy the named assumptions of `StreamRetry`:

1. `TypeCorrect`, the type invariant.
2. `Invariance`: `IInv` is inductive.  The safety properties are not inductive
   by themselves.  For the cost, one must know that the calls made so far are at
   most `MaxAttempts` for each finished round plus those of the present one; for
   duplicates, that what was delivered in this round came from this attempt and
   that `gotChunk` says so; for the cancellation, that a canceled stream has one
   of the two causes; for retrievals, that the answered ones are counted and that
   the call at hand is one this attempt asked for.  `IInv`
   is the conjunction of these, named one by one, with the type invariant.
3. `CostBounded`, `NoDuplicates`, `OwnCancelNeverSurfaces`, `RetrievalsAnswered`
   follow from it.
4. `Refinement`: the initial state maps to an initial state of
   `UpstreamExchange` and each step, under `IInv`, to a step or a stutter.

The proof that a step preserves `IInv` has one step per action.

`NonStreamRetryProofs` proves the same of the other loop: the type invariant, an
inductive invariant that contains the bound on the cost (`Invariance`),
`CancelEndsTheCalls` and `Refinement`.  For `NoCallAfterCancel` the invariant has
to say what error stands at the head of a later attempt: a retryable one, because
`AbortNonRetryable` takes the others to the end (`RetriedInv`).

`StreamDeliveryProofs` first carries the theorems of `StreamRetry` over to whole
streams.
`DeliveryIsTheLoop`: each step of `StreamDelivery` contains one step of
`StreamRetry` or changes none of its variables, so decoders, detector and
emitters add behaviour to the loop and take no freedom it does not have.
`LoopPromises`: therefore the cost bound, no duplicates, the hidden cancel and
`RetrievalsAsAsked` hold of every delivered stream, for every publisher,
surface and input, under `StreamDeliveryAssumption`.

Then it proves the five invariants of `StreamDelivery` itself, for all windows,
chunks and thresholds of the detector, all fragments, names and bounds.
`DeliveryInvariant` is the induction; the invariant `DeliveryInv` has seven
parts, because none of the five is inductive:

- `Loop!TypeOK`, from the proofs of the loop, and `WireTypes`, the types with
  calls as records: that what is sent names calls the model *made* is not a
  matter of types and follows from `ShownInv` at the end (`TypeCorrect`).
- `DetectorInv`: `window` is the last `LoopWindow` symbols of this attempt's text
  and the detector has not fired on it; trimming after each fragment loses
  nothing, since the end of a long text is the end of its end.  Then a
  repetition as long as `Tolerated` is all in the window, and the chunks that
  start a period apart are equal and more than `LoopThreshold`
  (`NoRepetitionMissed`).
- `ShapeInv`: a stream that goes on or was abandoned is an open chat stream (the role first, texts
  and calls after it, calls numbered from 0 in order), a finished one is closed
  by an error or by the last message, then `[DONE]` (`StreamsWellFormed`).  The
  tool index is the number of call events, so the numbering can only be kept
  together with the shape.
- `TextInv`: until the stream is closed, what the client has read and what the
  unescaper holds back are those of *one* unescaper that read the whole text at
  once; publishers without an unescaper pass the text on as it is
  (`AnswersWhole`).  Two facts carry it: text read in pieces is text read
  as a whole (`FoldConcat`), and what a symbol does depends on what is held
  and not on what was written (`LaterRune`, one lemma for each branch of the
  automaton).
- `MadeInv`: calls of one round differ in their index and no index reaches
  their number, so that `CallOf` never invents one that exists; what is in
  assembly was begun in this round.
- `ShownInv`: no call is shown twice, none of a failed attempt, and until
  the stream ends each call of the round is either shown, collected for the last
  message, or in assembly (`CallsShownOnce`).

One proof step per action and part would be unreadable; lemma `Steps` sorts the
steps by what they do to the wire into nine kinds (quiet, a new attempt, a text,
a call in one piece, begun, completed, handed over, an error, the last
message), and each part is shown to be kept by each kind.  TLC agreed with every
part on the instance of `StreamDelivery.cfg` (over a million distinct states)
before it was proved.

`FoldLemmas` has what these proofs need of `FoldLeft`, which the library defines
by recursion over sets of indexes: the recursion has a solution (`FoldExists`),
the fold of an appended element is one more application (`FoldAppend`), of a
concatenation two folds (`FoldConcat`), and a set that each application keeps
has the result (`FoldKeeps`).  They are proved by induction over the natural
numbers, stated for sets (`SetInduction`) and derived from the well-foundedness
of `<`, since the library's own induction rule takes a predicate that no
backend can instantiate.  The operator folded is a CONSTANT of the module, and
`StreamDeliveryProofs` instantiates it three times: for the text of events,
for their calls, and for the symbols the unescaper reads.

`ElidedStoreProofs` proves the store for every set of requests and hashes and
every time to live: `TypeCorrect`, `FilesWhole` (`NeverTorn`) and `Redeemable`
(`ContentWithinTTL`).  That a reader is refused only after the time to live is
not inductive: one has to know, at each point of a cleaning pass, what the pass
may still do to the file.  `PlacedInv` says it: a block saved while no pass was
under way is on disk until its time is over, its file is no older than the save
(a second save of the same block only makes it younger), and it is not the one
the pass has picked.  That needs two facts about time: a temporary file is as old
as the present moment, because time waits for a save (`TempInv`), and passes
began in the past (`TimeInv`).

`GeminiCacheProofs` proves the registry for every set of requests, prompts and
names, every lifetime and every margin above the delay of a call:
`TypeCorrect`, `PrefixesKept` (`OwnPrefix`) and `NeverLapsed`
(`AliveWhenUsed`).  `NamesInv` ties the names that the registry and the requests
hold to existing resources with the prefix of the key.  `LifeInv` is the
argument about time: an entry lapses no later than its resource, whichever of the
two expiries was stored; a request that waits for its creation has lost at most
what it waited; a request about to call the model has more life left than the
call may still take.  A resource the upstream loses is excepted by name.

`TagsCacheProofs` proves the model list for every set of clients and publishers
and any two windows: `TypeCorrect`, `NeverStaler` (`StalenessBounded`) and
`OneBurst` (`OneBurstPerWindow`).  `MemInv`: a fresh entry's list is older than
the entry by less than the window on disk.  `BurstInv`: the entry in memory is at
most as old as a client's own last discovery, because whoever replaces it
makes it new; so a client that misses it has discovered nothing within the
window.

`PromptPipelineProofs` proves the pipeline for every setting of its stages, every
client and every model, conversations of any length, and any number of failures
and retrievals: `TypeCorrect`, `ConversationSent` (`StillAConversation`),
`ToolOffered` (`RetrievalOffered`), `RetriesAsk` (`RetrySamePrompt`) and
`ContentSent` (`ContentReadable`).  The invariant `PipelineInv` is about what the
stages start from, since each attempt starts from the contents again:
`Conversation`, kept by client, model and retrieval rounds, says that roles
alternate, that a call has the key of its place, that responses answer calls of
the turn before, each once, and that a turn after calls is no scolding.  The
nudge is the one change an attempt makes to the contents, and it keeps that.

What an attempt sends follows in two steps.  `Talk` (alternating roles, up to a
user turn) and `AllPaired` (a model turn and the next one tell of the same calls,
those that were answered) hold of the contents and are kept by each stage on its
own grounds:

- stages that change parts in place put text for text and keep names and keys
  (`Follows`; `WritesFollow`, `CompactFollows`, `ReplayedFollow` and so on);
- `DropRepeatedScoldings` takes turns out in pairs of user and model, so what is
  left alternates (`KeptNext`), and never a turn with responses, nor a model turn
  with calls;
- `PruneStaleTools` takes a call together with the response it is paired with,
  which is the call's own where there are IDs (`PairedByKey`, `PruneTalk`);
- `TrimContents` keeps a suffix (`SuffixTalk`);
- `AlignFunctionCallsAndResponses` is a fold over the model turn's parts.  Its
  invariant `Handed` says which calls have been given their answer and which
  responses are left; at the end each call has one answer, a dummy only if there
  was none, and nothing else answers (`HandedAll`, `AlignTalk`).

Without IDs pruning and alignment decide by name, and two calls of one tool can trade
answers: `OwnAnswers` is claimed with IDs only, and `NewestRead` is violated
without them.  The tool's half of the invariant, `OneOffer`, holds because
`InjectTool` looks before it adds, and dropping cold groups (`SomeGroups`) adds
none.

Who opens the prompt has an invariant of its own, `OpensInv`: the first turn of the
contents is the user's and answers nothing.  The stages before the cut keep it:
dropping scoldings never takes the first turn (`Picked`), and what is put for a
part answers nothing (`FollowsOpens`).  A suffix need not open so, hence the claim
is made where no budget is set (`OpeningSent`).

`RetriesAsk` needs its own invariant, `RetryInv`: once a prompt has been sent, the
attempt that sent it would, run again, send it again.  An attempt changes the contents only by the
nudge, which is not added twice (`NudgeTwice`), and the options only by `Offer`,
which after itself changes nothing: the groups left are warm or the retrieval
tool's, and the tool is there (`OfferTwice`).  A retrieval forgets the prompt,
since what it asks next is a new one.

`ContentSent` (`ContentReadable`) is about parts, and the stages treat parts one by
one, so its argument follows a part through the stages:

- a stage that shortens leaves every part what it was and every text where it was
  said (`Stays`); dropping scoldings picks turns in order and keeps calls with their
  answers (`Picked`); pruning takes a call or response only if a later call has
  the same key (`PrunedWhere`);
- duplicates are looked for in what the cut has left, so that no pointer leads into
  what was cut; one is put where the same text or block stands in this turn or an
  earlier one (`RefersIn`);
- the alignment moves answers within a turn: nothing is in the aligned turn that
  was not in the old one but dummies and placeholders (`Hands`), and an answer that
  fits a call of the turn before is not lost.  So a pointer that
  resolved before resolves after it, in the turn it names;
- a call is superseded only by a later one with the same key, also after
  scoldings were dropped, hence the newest read by none (`NewestStands`,
  `SentNewest`).

The two invariants above are not enough.  It has to be known that client and model
themselves send no pointer or reference, and that without IDs a response has the
name of its call; otherwise pruning by name could take an answer whose call stays.
That is `SaidInv`, of the history and of the contents, kept by every way a turn is
added (the client's next request, the model's reply, a retrieval, the nudge).  TLC
agreed with it on the instance of `PromptPipeline.cfg` before it was proved.  The
proof also asked two things of the model.  A block counts as standing only in a text
that is itself no reference (`BlockStandsAt`), and `LatestTurnReadable` needs
`KeepsWarm`: nothing in `config.go:129` keeps `GW_DEEP_COMPACT_KEEP_TURNS` above 0,
and with 0 deep compaction makes the latest turn cold, too.

The assumptions are those named in the modules that declare the constants.

Model-checked only: all liveness and `CachedPrefixReadBack`; of the invariants, the
types of `PricingRefresh`, whose other properties are liveness, and the three of
`ToolSession` (`TypeOK`, `ExchangesResolve`, `EverythingTold`), whose requests are
built by folds over client messages that nest folds over their parts.

## Where code and comments differ

Three disagreements have a run (see `findings` in `PROJECT.json`).  Others, found
while modelling and not turned into runs:

- `active_tool_pruning.go:23` "Essential core tools are whitelisted and never
  pruned": a tool group is dropped as a whole, and the handlers put all
  declarations of a client into one group, so one cold tool takes the core tools
  with it.
- `budget.go` speaks of cutting until the body fits; responses count 64 bytes
  whatever they hold and the last turn is kept, so the body may exceed the
  budget.
- `budget.go:20-21` says turns are dropped "in pairs to keep user/assistant
  alternation valid"; `TrimContents` (`:88-101`) cuts turn by turn, so the prompt may
  start with a turn of the model, or with responses to calls that were cut.
  `align.go:24`, `:55` and `docs/optimization/align.md:37` say extra responses are
  dropped; the alignment looks at a model turn and the next, so those of a first turn
  stay.  `StillAConversation` leaves the first turn of a cut prompt out for both
  reasons.
- `prune_tools.go:288-291` and `:306-307` say the mark of an argument that is no
  scalar never equals another's; it is a constant (`:308`), so of two `list_files`
  with different arrays the earlier is pruned as superseded.  `ContentReadable`
  speaks of the newest read of each key.
- `cache.go:21-27` wants high confidence that a cached prefix is read back, and
  `docs/optimization/overview.md:59` has anchors set on the final layout.  In the
  default profile (`config.go:310-326`) truncation has a window of three turns
  (`toolresult.go:84-96`): a long result inside the tail anchor is whole when it is
  written and cut in the next request, and the first placeholder changes the system
  prompt under every anchor.  `CachedPrefixReadBack` says how far prefixes agree.
- `openai_stream.go:122-124` announces a chunk with the reason and a separate one
  with the usage before `[DONE]`; the code sends one chunk with both (`:336-352`).
- `openai_stream.go:322-326`: an answer that ended well without output, to a client
  that cannot be written to, ends without last chunk and `[DONE]`.
- After a retrieval call has reached the client (past five retrievals on the
  non-streaming path), `HasRetrievalToolCall` switches pruning, elision and
  compaction off for the rest of that conversation.
- `helpers.go` resolves the last of several retrieval calls in a stream (`:119`) and
  the first in a single answer (`:452`).  The others, and one withheld before the
  detector stopped the stream (`:208`), are lost with retrievals left.
- `tags_cache.go:165` falls back to a stale list "better than an empty picker"
  on an error that `ListModels` never returns; `:82` says the mutex serializes
  the upstream call, which is made after it is released.
- `pricing_cache.go:97` overwrites the table with what was read before the
  scrape; `:144` persists "the fresh table" from a snapshot taken after the lock
  is released.
- `gemini_cache.go:32` promises that a cache miss never breaks generation; a
  resource the upstream lost is named until its local expiry.
- `prune_tools.go:42` says a turn that mixes a prunable call with another part
  is left intact; the code replaces the single part.  `:36` wants "a STRICTLY LATER
  call"; a call later in the same turn counts, so the latest turn can lose a
  response to its neighbour.  Without IDs it can lose the wrong one (three
  parallel reads, the last two of one file), which is why `LatestTurnReadable`
  leaves that case out.
- A scolding of both kinds is dropped if it is old for one of them, although it
  is the last of the other.
- `tags_cache.go:119` stores whatever `ListModels` returns as a good list for the
  whole TTL, although a discovery in which every publisher failed
  (`discovery.go:74-117`) returns what little there is, and no error.
- `handlers.go:93` calls `MaybeRefreshPricing` "Non-blocking"; it takes the mutex
  that `WarmPricing` holds over its scrape (`pricing_cache.go:75-92`, `:120`).
- `metrics.finishReason` survives a retrieval round: if the last attempt reports
  no reason of its own, the client gets that of the round before, such as
  "tool_calls" without a call, where `openai_types.go:17` says "when the model
  invoked a tool".
- An Anthropic stream that is cut without an error still shows the calls in
  assembly, with "{}" for arguments that did not arrive whole, and ends well
  (`anthropic.go:962-966`).
- The loop detector is described as catching runaway repetition
  (`stopdetect.go:10-13`).  With the defaults it catches periods of up to 74
  characters: a longer block has to be repeated more often than the window can
  hold.  Where chunk times threshold exceeds the window it never fires; settings
  it rejects reset window and chunk and keep the threshold.
- An entity inside a tag has no bound of its own on what is held back
  (`unescape.go:202`, `:233-242`); the flush at the end still sends it.
- A detected repetition ends an OpenAI stream before its accumulated calls are
  yielded: they are lost, and the reason is "length".
- The chat surface reports "tool_calls" whenever a call was sent, also for an
  answer the token limit cut off.
- `tool_calling.md:26` says Ollama reports "stop" after a call and
  `provider/tools.go:29` says "tool_use"; the code reports "tool_calls".
- OpenAI tool results carry no name and become "tool" (`tools.go:276-279`);
  `cohere_vertex.go:416` keys results on the tool's name, so that on the chat
  surface no result of a Cohere model matches its call, while `tool_calling.md:3`
  speaks of all publishers.
- A client that sends no `tool_call_id` leaves Anthropic's `tool_use_id` empty;
  `tool_choice` "none" drops the tools while the history still has their calls.
- `NormalizeWhitespace` leaves a text part of nothing, which Google is sent.
- The signal that starts the drain in `main.go` also cancels the base context of
  the requests to be drained.

## Not modelled

Text algorithms (whitespace inside a text, prefix alignment, code-block and log
compression), image data and its size caps, tool schemas and, outside the pipeline,
the arguments of calls, sampling options, output caps and routing tiers, usage counts and cost
formulas, the learning loop's file, the scrapers' parsing, middleware, health,
metrics and logging: data without a state that later steps depend on.  Their
effect on the modelled state, where there is one, is a choice of the environment
or a size.  Temporary files a crash leaves behind are in `ElidedStore` only as
files nobody reads.  The non-streaming handlers write one answer after
`NonStreamRetry` has ended.  The MCP server answers one line at a time over a map
under one mutex.  The drain with its timeout is net/http; what it does to
requests is the canceled context of `StreamRetry` and `StreamDelivery`, and a
kill is the restart of `ElidedStore` and `TagsCache`.  A stalled upstream has no
timeout in this code; liveness assumes that calls end.

## Plan

1. Retry loops, store, caches, pipeline: done.
2. Stream emission, unescaper, loop detector, adapters' streams: done
   (`StreamDelivery`).
3. Client messages, cache planner, adapters' requests: done (`ToolSession`).
4. Proofs of both loops and of their composition into streams: done.
5. Proofs of the elided-content store, the model list and the Gemini caches:
   done.
6. Proofs of the delivered stream: detector, unescaper, events and calls: done.
7. Proofs of the prompt pipeline: the conversation that is sent, the tool on
   offer, retries, and what can be read: done.
8. Proofs to come: what `BuildContents` keeps of a client's messages
   (`ToolSession`).
