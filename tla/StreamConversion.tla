-------------------------- MODULE StreamConversion ---------------------------
(***************************************************************************)
(* A streamed response on its way through the gateway when the client and  *)
(* the upstream speak different formats (llm_gateway, stream_context.rs,   *)
(* over hermesllm): the upstream's bytes arrive in chunks that end         *)
(* anywhere, complete events are converted one by one, and the buffer of   *)
(* the client's format turns them into the stream the client reads.        *)
(*                                                                         *)
(* A chunk may end inside an event: where what came of it is held, as in   *)
(* its JSON ("payload"), where it is not, as in the "data: " before it     *)
(* ("prefix"), or inside a character of several bytes ("character").  A    *)
(* Bedrock stream can become unreadable at a frame that cannot be decoded  *)
(* ("corrupt").  An event is cut at most once.                             *)
(***************************************************************************)
EXTENDS AnthropicStreamBuffer, ResponsesStreamBuffer

CONSTANTS
    MaxEvents,   \* bound: events of a stream that keeps to its protocol
    MaxOdd,      \* bound: events of one that does not
    Ahead,       \* bound: events under way to the gateway
    Cuts         \* where a chunk can end, beside between two events

ASSUME ConversionAssumption ==
    /\ MaxEvents \in Nat /\ MaxOdd \in Nat /\ Ahead \in Nat
    /\ Cuts \subseteq {"payload", "prefix", "character"}

VARIABLES
    client,    \* client_api: "messages", "responses" or "chat"
    upstream,  \* upstream_api: "openai" or "bedrock"
    course,    \* "text" or "tool": a stream as the provider documents it; or "any"
    at,        \* where in that course the upstream is
    emitted,   \* events and pieces the upstream has sent
    inflight,  \* events not yet all read, the first one maybe cut
    cut,       \* where the latest chunk ended; "corrupt" once a frame was
    buffer,    \* sse_buffer
    wire,      \* events the client has not read
    seen,      \* the client's state machine
    pieces,    \* the pieces the client has read
    clean      \* history. no chunk was passed on as it came, no line lost

gateway == <<cut, buffer>>
vars == <<client, upstream, course, at, emitted, inflight, cut, buffer, wire,
          seen, pieces, clean>>

Done == [type |-> "[DONE]"]

\* A stream of chat chunks as OpenAI sends it, n being the next piece: from,
\* to, event.
ChatCourse(n) ==
    [text |-> {<<"start", "body", Chunk(TRUE, 0, <<>>, FALSE, FALSE)>>,
               <<"start", "body", Chunk(TRUE, n, <<>>, FALSE, FALSE)>>,
               <<"body", "body", Chunk(FALSE, n, <<>>, FALSE, FALSE)>>,
               <<"body", "finished", Chunk(FALSE, -1, <<>>, TRUE, FALSE)>>,
               <<"body", "finished", Chunk(FALSE, n, <<>>, TRUE, FALSE)>>,
               <<"body", "closing", Chunk(FALSE, -1, <<>>, TRUE, TRUE)>>,
               <<"finished", "closing", UsageChunk>>,
               <<"finished", "over", Done>>, <<"closing", "over", Done>>},
     tool |-> {<<"start", "body", Chunk(TRUE, -1, <<ToolCall(0, TRUE, 0)>>, FALSE, FALSE)>>,
               <<"body", "body", Chunk(FALSE, -1, <<ToolCall(0, FALSE, n)>>, FALSE, FALSE)>>,
               <<"body", "closing", Chunk(FALSE, -1, <<>>, TRUE, FALSE)>>,
               <<"closing", "over", Done>>},
     any  |-> {<<"start", "start", e>> : e \in
               {Chunk(TRUE, -1, <<>>, FALSE, FALSE), UsageChunk, EmptyChunk, Done,
                Chunk(FALSE, -1, <<ToolCall(0, TRUE, 0)>>, FALSE, FALSE)}
               \cup {Chunk(FALSE, n, <<>>, f, f) : f \in BOOLEAN}
               \cup {Chunk(FALSE, -1, <<>>, TRUE, u) : u \in BOOLEAN}
               \cup {Chunk(FALSE, -1, <<ToolCall(1, FALSE, n)>>, f, FALSE) : f \in BOOLEAN}}]

\* A ConverseStream, whose text blocks have no start event.
ConverseCourse(n) ==
    [text |-> {<<"start", "body", Frame("messageStart", -1, FALSE, 0)>>,
               <<"body", "block", Frame("contentBlockDelta", 0, FALSE, n)>>,
               <<"block", "block", Frame("contentBlockDelta", 0, FALSE, n)>>,
               <<"block", "body2", Frame("contentBlockStop", 0, FALSE, 0)>>,
               <<"body2", "closing", Frame("messageStop", -1, FALSE, 0)>>,
               <<"closing", "over", Frame("metadata", -1, FALSE, 0)>>},
     tool |-> {<<"start", "body", Frame("messageStart", -1, FALSE, 0)>>,
               <<"body", "block", Frame("contentBlockStart", 0, TRUE, 0)>>,
               <<"block", "block", Frame("contentBlockDelta", 0, TRUE, n)>>,
               <<"block", "body2", Frame("contentBlockStop", 0, TRUE, 0)>>,
               <<"body2", "closing", Frame("messageStop", -1, FALSE, 0)>>,
               <<"closing", "over", Frame("metadata", -1, FALSE, 0)>>},
     any  |-> {<<"start", "start", e>> : e \in
               {Frame(t, -1, FALSE, 0) : t \in {"messageStart", "messageStop", "metadata", "exception"}}
               \cup {Frame("contentBlockStart", 1, TRUE, 0), Frame("contentBlockStop", 1, TRUE, 0),
                     Frame("contentBlockDelta", 0, FALSE, n), Frame("contentBlockDelta", 1, TRUE, n)}}]

Course(n) == IF upstream = "openai" THEN ChatCourse(n)[course] ELSE ConverseCourse(n)[course]

\* Whether an event has a piece of content.
HasPiece(e) ==
    CASE e = Done               -> FALSE
      [] e # Done /\ upstream = "bedrock" -> e.piece > 0
      [] e # Done /\ upstream = "openai"  ->
            e.text > 0 \/ (\E i \in DOMAIN e.tools : e.tools[i].args > 0)

-----------------------------------------------------------------------------
\* SseStreamBuffer::try_from
NewBuffer ==
    CASE client = "messages"  -> EmptyMessagesBuffer
      [] client = "responses" -> EmptyResponseBuffer
      [] client = "chat"      -> [out |-> <<>>]

\* SseEvent::try_from and ProviderStreamResponseType::try_from: the event for
\* the client, in a sequence that is empty when it cannot be converted.
Convert(e) ==
    LET chat == IF upstream = "bedrock" THEN ConverseToChat(e) ELSE e
    IN  CASE e = Done /\ client = "messages"  -> <<MessageStop>>
          [] e = Done /\ client = "responses" -> <<Response("done", 0, 0, FALSE)>>
          [] e = Done /\ client = "chat"      -> <<Done>>
          [] e # Done /\ client = "messages"  ->
                <<IF upstream = "bedrock" THEN ConverseToMessages(e) ELSE ChatToMessages(e)>>
          [] e # Done /\ client = "responses" ->
                LET r == ChatToResponses(chat) IN IF r = Unconvertible THEN <<>> ELSE <<r>>
          [] e # Done /\ client = "chat"      -> <<chat>>

\* add_transformed_event of the buffer in use.
Add(b, e) ==
    CASE client = "messages"  -> AddToMessages(b, e)
      [] client = "responses" -> AddToResponse(b, e)
      [] client = "chat"      -> Push(b, e)

\* to_bytes of the buffer in use: what it writes and what it becomes.
ToBytes(b) == IF client = "messages" THEN FinishMessages(b).out ELSE b.out

Flushed(b) ==
    CASE client = "messages"  -> FlushedMessages(b)
      [] client = "responses" -> FlushedResponse(b)
      [] client = "chat"      -> [b EXCEPT !.out = <<>>]

\* SseStreamIter: nothing of a chunk is read after [DONE].
UpToDone(events) ==
    LET dones == {i \in DOMAIN events : events[i] = Done}
    IN  IF dones = {} THEN events
        ELSE SubSeq(events, 1, CHOOSE i \in dones : \A j \in dones : i <= j)

\* Fault: what is held of an event is dropped when its rest arrives.
ProcessChunkUnbuffered(events) ==
    UpToDone(IF cut # "none" THEN SubSeq(events, 2, Len(events)) ELSE events)

\* SseChunkProcessor::process_chunk, and decode_frame as often as there is a
\* frame, of a chunk that completes `events`: what is held of an event cut in
\* its payload is put before its rest; of one cut in its prefix neither part is
\* a line that can be parsed; and no frame is decoded after a corrupt one.
ProcessChunk(events) ==
    CASE cut = "prefix"  -> UpToDone(Tail(events))
      [] cut = "corrupt" -> <<>>
      [] OTHER           -> UpToDone(events)

\* How the event is cut that a chunk breaks off, the one after the first k: only
\* JSON that has not ended is held, and of "[DONE]" its bracket alone is read as
\* such; "[D" and what follows it are errors that are skipped.
CutOff(k, end) ==
    CASE cut = "corrupt" -> {"corrupt"}
      [] cut # "corrupt" /\ end = "payload" /\ upstream = "openai"
            /\ inflight[k + 1] = Done -> {"payload", "prefix"}
      [] OTHER -> {end}

\* What is converted is added, event by event.
AddConverted(b, e) == IF Convert(e) = <<>> THEN b ELSE Add(b, Convert(e)[1])

AddAll(events) ==
    LET after[n \in 0..Len(events)] ==
            IF n = 0 THEN buffer ELSE AddConverted(after[n - 1], events[n])
    IN  after[Len(events)]

-----------------------------------------------------------------------------
Init ==
    /\ client \in {"messages", "responses", "chat"}
    /\ upstream \in {"openai", "bedrock"}
    /\ course \in {"text", "tool", "any"}
    /\ at = "start" /\ emitted = [events |-> 0, pieces |-> 0]
    /\ inflight = <<>> /\ cut = "none" /\ wire = <<>>
    /\ buffer = NewBuffer
    /\ seen = [phase |-> "none", block |-> -1, filled |-> -1,
               added |-> <<>>, done |-> <<>>]
    /\ pieces = <<>> /\ clean = TRUE

\* The upstream sends its next event.  (Here and below, that the client has
\* read what was written before is a reduction: it only takes from the wire.)
Emit ==
    /\ wire = <<>>
    /\ emitted.events < (IF course = "any" THEN MaxOdd ELSE MaxEvents)
    /\ Len(inflight) < Ahead
    /\ \E t \in Course(emitted.pieces + 1) :
          /\ t[1] = at /\ at' = t[2]
          /\ inflight' = Append(inflight, t[3])
          /\ emitted' = [events |-> emitted.events + 1,
                         pieces |-> emitted.pieces + (IF HasPiece(t[3]) THEN 1 ELSE 0)]
    /\ UNCHANGED <<client, upstream, course, gateway, wire, seen, pieces, clean>>

\* A chunk that completes the first k events and ends in the next, or after
\* them ("none").
IsChunk(k, end) ==
    /\ wire = <<>>
    /\ k \in 0 .. Len(inflight)
    /\ end # "none" => k < Len(inflight) /\ end \in Cuts
    /\ upstream = "bedrock" => end \in {"none", "payload"}
    /\ k > 0 \/ (cut = "none" /\ end # "none")
    /\ cut = "corrupt" => end = "none"

\* on_http_response_body with a chunk of whole characters: what is converted
\* is written.
ChunkArrives(k, end) ==
    LET read   == SubSeq(inflight, 1, k)
        events == ProcessChunk(read)
    IN  /\ IsChunk(k, end)
        /\ cut # "character" /\ end # "character"
        /\ wire' = ToBytes(AddAll(events))
        /\ buffer' = Flushed(AddAll(events))
        /\ cut' \in CutOff(k, end)
        /\ inflight' = SubSeq(inflight, k + 1, Len(inflight))
        /\ clean' = (clean /\ cut \notin {"prefix", "corrupt"})
        /\ UNCHANGED <<client, upstream, course, at, emitted, seen, pieces>>

\* The same with a chunk that is not valid UTF-8: it goes to the client as it
\* is, and neither it nor what was held of an event is converted.
ChunkPassesUnconverted(k, end) ==
    /\ IsChunk(k, end)
    /\ cut = "character" \/ end = "character"
    /\ cut' = IF end = "payload" THEN "prefix" ELSE end
    /\ inflight' = SubSeq(inflight, k + 1, Len(inflight))
    /\ clean' = FALSE
    /\ UNCHANGED <<client, upstream, course, at, emitted, buffer, wire, seen, pieces>>

\* handle_bedrock_binary_stream with a chunk of k frames of which only the first
\* j can be decoded: they are added to the buffer, but nothing is written, and
\* the chunk goes to the client as it is.  The decoder (not under src/) does not
\* get past the frame: it goes on refusing, or waits for more of it.
FrameUnreadable(j, k) ==
    /\ upstream = "bedrock" /\ IsChunk(k, "none")
    /\ j \in 0 .. k - 1
    /\ buffer' = AddAll(ProcessChunk(SubSeq(inflight, 1, j)))
    /\ cut' = "corrupt"
    /\ inflight' = SubSeq(inflight, k + 1, Len(inflight))
    /\ clean' = FALSE
    /\ UNCHANGED <<client, upstream, course, at, emitted, wire, seen, pieces>>

-----------------------------------------------------------------------------
\* The clients.

ReadMessage(s, e) ==
    CASE e.type = "message_start" -> [s EXCEPT !.phase = IF @ = "none" THEN "open" ELSE @]
      [] e.type = "content_block_start" -> [s EXCEPT !.block = e.index, !.filled = -1]
      [] e.type = "content_block_delta" -> [s EXCEPT !.filled = e.index]
      [] e.type = "content_block_stop"  -> [s EXCEPT !.block = -1, !.filled = -1]
      [] e.type = "message_delta" -> [s EXCEPT !.phase = "ended"]
      [] e.type = "message_stop"  -> [s EXCEPT !.phase = "stopped"]
      [] e.type = "ping"          -> s

ReadResponse(s, e) ==
    CASE e.type = "created"     -> [s EXCEPT !.phase = "created"]
      [] e.type = "in_progress" -> [s EXCEPT !.phase = "open"]
      [] e.type = "item_added"  -> [s EXCEPT !.added = Append(@, e.item)]
      [] e.type \in {"text_delta", "args_delta"} -> [s EXCEPT !.filled = e.item]
      [] e.type \in {"text_done", "args_done"}   -> s
      [] e.type = "item_done"   -> [s EXCEPT !.done = Append(@, e.item), !.filled = -1]
      [] e.type = "completed"   -> [s EXCEPT !.phase = "completed"]

ReadChat(s, e) == IF e = Done THEN [s EXCEPT !.phase = "completed"] ELSE s

Read(format, s, e) ==
    CASE format = "messages"  -> ReadMessage(s, e)
      [] format = "responses" -> ReadResponse(s, e)
      [] format = "chat"      -> ReadChat(s, e)

\* The pieces an event has for its client.
PiecesIn(format, e) ==
    CASE format = "messages" /\ e.type = "content_block_delta" -> {e.piece}
      [] format = "responses" /\ e.type \in {"text_delta", "args_delta"} -> {e.piece}
      [] format = "chat" /\ e # Done -> {e.text} \cup {e.tools[i].args : i \in DOMAIN e.tools}
      [] OTHER -> {}

\* The client reads the next event.
Deliver ==
    /\ wire # <<>>
    /\ seen' = Read(client, seen, Head(wire))
    /\ pieces' = pieces \o Ascending(PiecesIn(client, Head(wire)) \ {-1, 0})
    /\ wire' = Tail(wire)
    /\ UNCHANGED <<client, upstream, course, at, emitted, inflight, gateway, clean>>

Next ==
    \/ Emit
    \/ \E k \in 0 .. Ahead, end \in Cuts \cup {"none"} :
          ChunkArrives(k, end) \/ ChunkPassesUnconverted(k, end)
    \/ \E j, k \in 0 .. Ahead : FrameUnreadable(j, k)
    \/ Deliver

Spec == Init /\ [][Next]_vars

-----------------------------------------------------------------------------
\* A Messages client is sent an envelope, however the upstream's events come
\* and wherever its chunks end: this is what AnthropicMessagesStreamBuffer is
\* for (anthropic_streaming_buffer.rs 10-23).
Envelope ==
    INSTANCE MessagesEnvelope WITH
        strict <- course # "any" /\ clean /\ client = "messages",
        phase  <- IF client = "messages" THEN seen.phase ELSE "none",
        block  <- IF client = "messages" THEN seen.block ELSE -1,
        filled <- IF client = "messages" THEN seen.filled ELSE -1

EnvelopeKept == Envelope!Spec

\* A Responses client is sent the life of a response: created, its items each
\* added once, before their content, and done once, and completed once.
Lifecycle ==
    INSTANCE ResponseLifecycle WITH
        strict <- /\ course = "text" \/ (course = "tool" /\ upstream = "openai")
                  /\ clean /\ client = "responses",
        phase  <- IF client = "responses" THEN seen.phase ELSE "none",
        added  <- IF client = "responses" THEN seen.added ELSE <<>>,
        filled <- IF client = "responses" THEN seen.filled ELSE -1,
        done   <- IF client = "responses" THEN seen.done ELSE <<>>

LifecycleKept == Lifecycle!Spec

\* No piece of content comes twice or out of order, whatever the upstream
\* sends and however it is cut.
PiecesOnceInOrder == \A i, j \in DOMAIN pieces : i < j => pieces[i] < pieces[j]

\* When an upstream keeps to its protocol and no bytes were unreadable, every
\* piece it sent arrives (process_chunk 25-27: "incomplete events are buffered
\* internally and will be retried").
AllPiecesArrive ==
    course # "any" /\ clean /\ inflight = <<>> /\ wire = <<>> =>
        Len(pieces) = emitted.pieces

\* The completed response holds what was streamed until then, in the item that
\* was announced for it; it is what the conversation is stored with.
CompletedMatchesStream ==
    client = "responses" /\ course # "any" /\ seen.phase = "completed" =>
        LET out == buffer.completed
        IN  /\ [i \in DOMAIN out |-> out[i][2]] = seen.added
            /\ Len(out) <= 1
            /\ pieces = IF out = <<>> THEN <<>> ELSE out[1][3]

=============================================================================
