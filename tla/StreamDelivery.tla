----------------------------- MODULE StreamDelivery -----------------------------
(***************************************************************************)
(* A streamed answer from the publisher's events to the client's: the      *)
(* decoder of the publisher's stream (pkg/provider), the retry loop        *)
(* (StreamRetry), the loop detector, the unescaper and the emitter of the  *)
(* surface the client uses (pkg/api/openai_stream.go, handlers.go).        *)
(*                                                                         *)
(* Every step of the loop is the step of StreamRetry, joined with what the *)
(* decoder makes of the event and what the emitter writes.  The decoder is *)
(* new with each attempt; the emitter lives as long as the request, across *)
(* retries and retrieval rounds.                                           *)
(***************************************************************************)
EXTENDS EntityUnescaper, LoopDetector, FiniteSetsExt

CONSTANTS
    MaxAttempts, MaxRetrievals, Hashes, NoCall, NoHash,   \* of StreamRetry
    Routes,      \* pairs of a publisher dialect and a client surface
    Fragments,   \* for each dialect, the texts an event can carry
    CallNames,   \* names of the functions the model may call
    MaxWritten,  \* bound, by dialect: symbols of text in a request
    MaxCalls     \* bound, by dialect: calls in the rounds of a request

Dialects == {"google", "anthropic", "openai", "cohere"}
Surfaces == {"chat", "ollama", "generate"}
RetrieveName == "retrieve_elided_content"

\* What a text can consist of: the model's symbols and what they decode to.
Symbols ==
    {Named[name] : name \in DOMAIN Named}
        \union UNION {ToSet(text) : text \in UNION {Fragments[d] : d \in Dialects}}

ASSUME StreamDeliveryAssumption ==
    /\ Routes \subseteq Dialects \X Surfaces
    /\ Fragments \in [Dialects -> SUBSET Seq(Symbols)]
    /\ {MaxWritten, MaxCalls} \subseteq [Dialects -> Nat]
    /\ MaxAttempts \in Nat \ {0}
    /\ MaxRetrievals \in Nat
    /\ NoCall \notin Hashes /\ NoHash \notin Hashes /\ NoCall # NoHash

VARIABLES
    pc, attempt, retrievals, resolved, gotChunk, loopFired, retrievalCall,
    iterErr, outcome, ctxDone, client, calls, delivered, asked

Loop == INSTANCE StreamRetry

loop == <<pc, attempt, retrievals, resolved, gotChunk, loopFired, retrievalCall,
          iterErr, outcome, ctxDone, client, calls, delivered, asked>>

VARIABLES
    route,      \* the request's publisher and surface
    phase,      \* the decoder is "reading" the body, or "flushing" after its
                \* end; the handler has "abandoned" an answer it cannot write
    inflight,   \* inflightTools: the calls being assembled, by index
    reason,     \* stopReason or finishR: what this stream gave as its reason
    window,     \* the detector's buffer
    finish,     \* metrics.finishReason
    unescaper,  \* the emitter's EntityUnescaper
    collected,  \* collectedToolCalls of the Ollama chat surface
    sent,       \* the events written to the client, adjacent texts joined
    written,    \* history: the text the model wrote
    start,      \* history: what of it is older than this attempt
    made        \* history: the calls the model began, of rounds that count

decoder == <<phase, inflight, reason, window>>
emitter == <<unescaper, collected, sent>>
record == <<written, start, made>>
vars == <<loop, route, decoder, finish, emitter, record>>

dialect == route[1]
surface == route[2]

\* whole: the arguments have arrived completely.
CallOf(name, whole) ==
    [round |-> retrievals, index |-> Cardinality({c \in made : c.round = retrievals}),
     name |-> name, whole |-> whole]

Reasons == {"", "stop", "length", "tool"}

Events ==
    [type : {"role", "error", "done"}]
        \union [type : {"text"}, text : Seq(Symbols)]
        \union [type : {"call"}, index : Nat, call : made]
        \union [type : {"final"}, reason : {"stop", "length", "tool_calls"}, calls : Seq(made)]

TypeOK ==
    /\ Loop!TypeOK
    /\ route \in Routes
    /\ phase \in {"reading", "flushing", "abandoned"}
    /\ DOMAIN inflight \subseteq 0..(MaxCalls[dialect] - 1)
    /\ \A i \in DOMAIN inflight : inflight[i] \in made /\ inflight[i].index = i
    /\ reason \in Reasons
    /\ Len(window) <= LoopWindow
    /\ finish \in Reasons
    /\ unescaper.mode \in {"normal", "entity", "tag", "tagEntity"}
    /\ collected \in Seq(made)
    /\ \A i \in DOMAIN sent : sent[i] \in Events
    /\ start \in 0..Len(written)

Init ==
    /\ Loop!Init
    /\ route \in Routes
    /\ phase = "reading"
    /\ inflight = <<>>
    /\ reason = ""
    /\ window = <<>>
    /\ finish = ""
    /\ unescaper = NewEntityUnescaper
    /\ collected = <<>>
    /\ sent = <<>>
    /\ written = <<>>
    /\ start = 0
    /\ made = {}

-------------------------------------------------------------------------------
(* The emitters. *)

EmittedAny == sent # <<>>

FirstDeltaAlways == IF surface = "chat" THEN <<[type |-> "role"]>> ELSE <<>>

\* emitFirstDelta, which only the chat surface has.
FirstDelta == IF surface = "chat" /\ ~EmittedAny THEN <<[type |-> "role"]>> ELSE <<>>

AppendText(events, text) ==
    IF events # <<>> /\ Last(events).type = "text"
    THEN [events EXCEPT ![Len(events)].text = @ \o text]
    ELSE Append(events, [type |-> "text", text |-> text])

TextDelta(text) ==
    IF text = <<>> THEN sent ELSE AppendText(sent \o FirstDelta, text)

\* onDelta with a text.
EmitText(text) ==
    /\ IF dialect = "google"
       THEN LET u == Process(unescaper, text)
            IN /\ unescaper' = [u EXCEPT !.out = <<>>]
               /\ sent' = TextDelta(u.out)
       ELSE /\ sent' = TextDelta(text)
            /\ UNCHANGED unescaper
    /\ UNCHANGED collected

\* The number of call deltas the client has had.
ToolCallIndex == Cardinality({i \in DOMAIN sent : sent[i].type = "call"})

CallDelta(call) == [type |-> "call", index |-> ToolCallIndex, call |-> call]

\* onDelta with a function call: an event of its own, kept for the last
\* message, or dropped where the surface has no slot for it.
EmitCall(call) ==
    /\ sent' = IF surface = "chat" THEN sent \o FirstDelta \o <<CallDelta(call)>> ELSE sent
    /\ collected' = IF surface = "ollama" THEN Append(collected, call) ELSE collected
    /\ UNCHANGED unescaper

\* finishReasonOAI and doneReason, with the upgrade of the chat surface.
WireReason ==
    IF surface = "chat" /\ ToolCallIndex > 0 THEN "tool_calls"
    ELSE CASE finish = "tool" -> "tool_calls"
           [] finish = "length" -> "length"
           [] OTHER -> "stop"

Closed == sent # <<>> /\ Last(sent).type \in (IF surface = "chat" THEN {"done"} ELSE {"error", "final"})

Terminator == IF surface = "chat" THEN <<[type |-> "done"]>> ELSE <<>>

\* Only a stream that has begun is closed.
CloseWithErrorIfBegun ==
    /\ pc = "done"
    /\ EmittedAny
    /\ ~Closed
    /\ outcome \notin {"success", "loop_stop"}
    /\ sent' = sent \o <<[type |-> "error"]>> \o Terminator
    /\ UNCHANGED <<loop, route, decoder, finish, unescaper, collected, record>>

\* The handler after runStreamWithRetry has returned an error.
CloseWithError ==
    /\ pc = "done"
    /\ ~Closed
    /\ outcome \notin {"success", "loop_stop"}
    /\ sent' = sent \o <<[type |-> "error"]>> \o Terminator
    /\ UNCHANGED <<loop, route, decoder, finish, unescaper, collected, record>>

\* A stream that ended well: the leftover, the role if nothing went before,
\* the last message with its reason.
CloseWell ==
    /\ pc = "done"
    /\ ~Closed
    /\ phase # "abandoned"
    /\ outcome \in {"success", "loop_stop"}
    /\ LET rest == Flush(unescaper)
           flushed == TextDelta(rest.out)
           opened == IF flushed = <<>> THEN FirstDelta ELSE flushed
       IN /\ sent' = opened \o <<[type |-> "final", reason |-> WireReason, calls |-> collected]>>
                            \o Terminator
          /\ unescaper' = [rest EXCEPT !.out = <<>>]
    /\ UNCHANGED <<loop, route, decoder, finish, collected, record>>

\* Nothing was written yet and the role cannot be written either: the handler
\* returns, without the last message and without [DONE].  Only the chat surface
\* looks at this write.
AbandonAnswer ==
    /\ pc = "done"
    /\ ~EmittedAny
    /\ phase # "abandoned"
    /\ outcome \in {"success", "loop_stop"}
    /\ surface = "chat"
    /\ client = "gone"
    /\ phase' = "abandoned"
    /\ UNCHANGED <<loop, route, inflight, reason, window, finish, emitter, record>>

-------------------------------------------------------------------------------
(* Attempts. *)

\* The calls of a failed attempt are still there in the next one.
OpenDecoderKeepsCalls ==
    /\ phase' = "reading"
    /\ reason' = ""
    /\ window' = <<>>
    /\ start' = Len(written)
    /\ made' = {c \in made : c.round # retrievals}
    /\ UNCHANGED <<route, inflight, finish, emitter, written>>

\* A fresh decoder and detector.  The emitter stays as the last attempt left
\* it, and so does metrics.finishReason.
OpenDecoder ==
    /\ phase' = "reading"
    /\ inflight' = <<>>
    /\ reason' = ""
    /\ window' = <<>>
    /\ start' = Len(written)
    /\ made' = {c \in made : c.round # retrievals}
    /\ UNCHANGED <<route, finish, emitter, written>>

OpenAttempt ==
    /\ Loop!FirstAttempt \/ Loop!BackoffElapsed
    /\ OpenDecoder

\* The steps of the loop between two streams.
BetweenAttempts ==
    /\ \/ Loop!StartBackoff \/ Loop!BackoffCanceled \/ Loop!GiveUp
       \/ Loop!ResolveRetrieval \/ Loop!ScheduleRetry
       \/ Loop!AbortAfterOutput \/ Loop!AbortNonRetryable
    /\ UNCHANGED <<route, decoder, finish, emitter, record>>

\* A detected loop is reported as an exhausted budget of tokens.
Complete ==
    /\ Loop!Complete
    /\ finish' = IF loopFired THEN "length" ELSE finish
    /\ UNCHANGED <<route, decoder, emitter, record>>

-------------------------------------------------------------------------------
(* The publishers' events.  The adapters look at the context before each   *)
(* line; the Gemini SDK may yield what it has buffered.                    *)

MayRead ==
    /\ pc = "streaming"
    /\ phase = "reading"
    /\ reason = ""
    /\ dialect = "google" \/ ~(ctxDone \/ loopFired)

\* The detector sees the text as it arrived, after it was delivered.
UpstreamText ==
    /\ MayRead
    /\ \E text \in Fragments[dialect] :
        /\ Len(written) + Len(text) <= MaxWritten[dialect]
        /\ written' = written \o text
        /\ EmitText(text)
        /\ window' = Observe(window, text)
        /\ Loop!DeliverText
        /\ loopFired' = (loopFired \/ LoopDetected(window'))
    /\ UNCHANGED <<route, phase, inflight, reason, finish, start, made>>

\* A decoded call goes to the loop, which keeps the gateway's own function to
\* itself.  Without whole arguments there is no hash.
YieldCall(call) ==
    IF call.name = RetrieveName
    THEN /\ Loop!WithholdRetrieval
         /\ ~call.whole => retrievalCall' = NoHash
         /\ UNCHANGED emitter
    ELSE /\ Loop!DeliverToolCall
         /\ EmitCall(call)

MayBegin == MayRead /\ Cardinality(made) < MaxCalls[dialect]

\* Gemini and Cohere send a call in one piece.
UpstreamCall ==
    /\ dialect \in {"google", "cohere"}
    /\ MayBegin
    /\ \E name \in CallNames :
        LET call == CallOf(name, TRUE)
        IN made' = made \union {call} /\ YieldCall(call)
    /\ UNCHANGED <<route, decoder, finish, written, start>>

\* content_block_start, or the first delta of an index.
UpstreamCallStart ==
    /\ dialect \in {"anthropic", "openai"}
    /\ MayBegin
    /\ \E name \in CallNames, whole \in BOOLEAN :
        LET call == CallOf(name, whole)
        IN /\ made' = made \union {call}
           /\ inflight' = [i \in DOMAIN inflight \union {call.index} |->
                              IF i = call.index THEN call ELSE inflight[i]]
    /\ UNCHANGED <<loop, route, phase, reason, window, finish, emitter, written, start>>

\* The last of the argument deltas.
UpstreamCallArgs ==
    /\ MayRead
    /\ \E i \in DOMAIN inflight :
        LET call == [inflight[i] EXCEPT !.whole = TRUE]
        IN /\ ~inflight[i].whole
           /\ inflight' = [inflight EXCEPT ![i] = call]
           /\ made' = (made \ {inflight[i]}) \union {call}
    /\ UNCHANGED <<loop, route, phase, reason, window, finish, emitter, written, start>>

Without(f, i) == [j \in DOMAIN f \ {i} |-> f[j]]

\* content_block_stop.
UpstreamCallStop ==
    /\ dialect = "anthropic"
    /\ MayRead
    /\ \E i \in DOMAIN inflight :
        /\ inflight[i].whole
        /\ YieldCall(inflight[i])
        /\ inflight' = Without(inflight, i)
    /\ UNCHANGED <<route, phase, reason, window, finish, record>>

\* Some publishers report "stop" although they have called a function; Gemini
\* and Cohere always do.  Gemini's reason reaches the loop with its chunk.
UpstreamReason ==
    /\ MayRead
    /\ dialect = "anthropic" => inflight = <<>>
    /\ \E r \in {"stop", "length", "tool"} :
        /\ r = "tool" => dialect \in {"anthropic", "openai"} /\ \E c \in made : c.round = retrievals
        /\ reason' = r
        /\ finish' = IF dialect = "google" THEN r ELSE finish
    /\ UNCHANGED <<loop, route, phase, inflight, window, emitter, record>>

-------------------------------------------------------------------------------
(* The end of a stream. *)

\* The body ends, with or without the reason.
UpstreamCloses ==
    /\ pc = "streaming"
    /\ phase = "reading"
    /\ phase' = "flushing"
    /\ UNCHANGED <<loop, route, inflight, reason, window, finish, emitter, record>>

\* Calls still being assembled: those of an Anthropic stream that was cut, in
\* the order of a map; all calls of an OpenAI stream, in the order of indexes.
FlushCall ==
    /\ pc = "streaming"
    /\ phase = "flushing"
    /\ \E i \in DOMAIN inflight :
        /\ dialect = "openai" => i = Min(DOMAIN inflight)
        /\ YieldCall(inflight[i])
        /\ inflight' = Without(inflight, i)
    /\ UNCHANGED <<route, phase, reason, window, finish, record>>

CalledThisTime == \E c \in made : c.round = retrievals

\* The synthetic last chunk; OpenAI and Cohere put the calls before the reason.
FinalReason ==
    IF dialect \in {"openai", "cohere"} /\ CalledThisTime THEN "tool" ELSE reason

EndOfStream ==
    /\ phase = "flushing"
    /\ inflight = <<>>
    /\ Loop!StreamEnds
    /\ finish' = IF FinalReason # "" /\ dialect # "google" THEN FinalReason ELSE finish
    /\ UNCHANGED <<route, decoder, emitter, record>>

\* A transport or publisher error.  What is being assembled is lost.
UpstreamFails ==
    /\ phase = "reading"
    /\ Loop!StreamFails
    /\ UNCHANGED <<route, decoder, finish, emitter, record>>

\* The client is gone and a write to it fails.
WriteFails ==
    /\ Loop!ClientWriteFails
    /\ UNCHANGED <<route, decoder, finish, emitter, record>>

Environment ==
    /\ Loop!ClientDisconnects \/ Loop!ContextCanceled
    /\ UNCHANGED <<route, decoder, finish, emitter, record>>

\* The handler has returned.
Finished ==
    /\ pc = "done"
    /\ Closed \/ phase = "abandoned"
    /\ UNCHANGED vars

Gateway == OpenAttempt \/ BetweenAttempts \/ Complete \/ FlushCall \/ EndOfStream
               \/ CloseWithError \/ CloseWell \/ AbandonAnswer

Publisher == UpstreamText \/ UpstreamCall \/ UpstreamCallStart \/ UpstreamCallArgs
                 \/ UpstreamCallStop \/ UpstreamReason

StreamOver == UpstreamCloses \/ UpstreamFails \/ WriteFails

Next == Gateway \/ Publisher \/ StreamOver \/ Environment \/ Finished

Spec == Init /\ [][Next]_vars

\* One goroutine that runs while it can, and a body that ends or fails.
\* Nothing is assumed of the client, the signal or what the model says.
FairSpec == Spec /\ WF_vars(Gateway) /\ WF_vars(StreamOver)

-------------------------------------------------------------------------------
(* Properties. *)

AddText(text, e) == IF e.type = "text" THEN text \o e.text ELSE text

AddCalls(found, e) ==
    CASE e.type = "call" -> Append(found, e.call)
      [] e.type = "final" -> found \o e.calls
      [] OTHER -> found

\* What a client has received of the answer.
TextsOf(events) == FoldLeft(AddText, <<>>, events)
CallsOf(events) == FoldLeft(AddCalls, <<>>, events)

\* The client has been told that the answer is all there.
AnsweredWell == Closed /\ outcome = "success"

\* All that the model wrote, read at once instead of in pieces.
WholeText ==
    IF dialect = "google"
    THEN LET u == Process(NewEntityUnescaper, written) IN u.out \o Held(u)
    ELSE written

\* An answer that ends well is complete: the client has the whole text, in
\* order and once, whatever was held back by the unescaper at the end of a
\* fragment, overtaken by a call, or carried into another retrieval round.
WholeAnswer == AnsweredWell => TextsOf(sent) = WholeText

\* An answer that ends well shows each call the model began exactly once,
\* however its pieces were interleaved, whether it was closed or cut off, and
\* none of an attempt that was retried; the gateway's own function never shows.
CallsAsMade ==
    (AnsweredWell /\ surface # "generate") =>
        LET shown == CallsOf(sent)
        IN /\ ToSet(shown) = {c \in made : c.name # RetrieveName}
           /\ Len(shown) = Cardinality(ToSet(shown))

\* What an SSE client sees of openaiChatStream: the role first and once, calls
\* numbered from 0, one last message or error, then [DONE] and nothing after
\* it, and "tool_calls" as the reason if there are calls.  The last message is
\* one chunk with reason and usage (openai_stream.go:336-352); the comment
\* above the function (122-124) says of the usage that it is a chunk of its
\* own after the one with the reason, which the code never sends.
WellFormedStream ==
    surface = "chat" =>
        LET Is(type) == {i \in DOMAIN sent : sent[i].type = type}
            indexes == {sent[i].index : i \in Is("call")}
            ends == Is("final") \union Is("error")
        IN /\ Is("role") \subseteq {1}
           /\ Is("text") \union Is("call") \union Is("final") # {} => Is("role") = {1}
           /\ indexes = {n \in 0..Len(sent) : n < Cardinality(Is("call"))}
           /\ \A i, j \in Is("call") : i < j => sent[i].index < sent[j].index
           /\ Cardinality(ends) = Cardinality(Is("done"))
           /\ \A i \in ends : i = Len(sent) - 1 /\ i + 1 \in Is("done")
           /\ \A i \in Is("final") : Is("call") # {} => sent[i].reason = "tool_calls"

\* A repetition the window can hold is stopped as soon as it is long enough,
\* in whatever fragments it arrives and whatever went before it.
RepetitionCaught ==
    (pc = "streaming" /\ ~loopFired) =>
        \A p \in 1..LoopWindow :
            Tolerated(p) <= LoopWindow =>
                ~EndsInRepetition(SubSeq(written, start + 1, Len(written)), p, Tolerated(p))

\* Every streamed request is brought to its terminator: retries, retrieval
\* rounds, a cancellation by the shutdown or the detector all lead there.  The
\* one other end is a chat client that left before anything was written to it.
EveryStreamCloses ==
    <>[](Closed \/ (phase = "abandoned" /\ client = "gone" /\ sent = <<>>))
================================================================================
