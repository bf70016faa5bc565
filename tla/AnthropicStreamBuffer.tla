------------------------ MODULE AnthropicStreamBuffer ------------------------
(***************************************************************************)
(* AnthropicMessagesStreamBuffer (hermesllm, anthropic_streaming_buffer.rs)*)
(* as operators on its state: it turns events in the Messages format, in   *)
(* whatever order they come, into the envelope a Messages client expects.  *)
(***************************************************************************)
EXTENDS StreamTransforms, FiniteSets

EmptyMessagesBuffer ==
    [out     |-> <<>>,     \* buffered_events
     started |-> FALSE,    \* message_started
     stopped |-> FALSE,    \* message_stopped
     blocks  |-> {},       \* content_block_start_indices
     open    |-> FALSE,    \* needs_content_block_stop
     delta   |-> FALSE]    \* seen_message_delta

Push(b, e) == [b EXCEPT !.out = Append(@, e)]

\* Fault: a message is taken to have been opened by whoever came before.
EnsureMessageStartedNever(b) == b

EnsureMessageStarted(b) ==
    IF b.started THEN b ELSE [Push(b, MessageStart) EXCEPT !.started = TRUE]

\* The start of block `index`, of which `e` tells the client.
PushBlockStart(b, e, index) ==
    [Push(b, e) EXCEPT !.blocks = @ \cup {index}, !.open = TRUE]

\* create_content_block_stop_event, if a block was opened: always of index 0.
CloseBlock(b) ==
    IF b.open THEN [Push(b, BlockStop(0)) EXCEPT !.open = FALSE] ELSE b

PushMessageStop(b) ==
    IF b.stopped THEN b
    ELSE [Push(b, MessageStop) EXCEPT !.stopped = TRUE, !.delta = FALSE]

AddBlockDelta(b, e) ==
    LET s == EnsureMessageStarted(b)
    IN  IF e.index \in s.blocks THEN Push(s, e)
        ELSE Push(PushBlockStart(s, BlockStart(0), e.index), e)

\* A second delta right after the first, both unflushed, is merged into it
\* (Bedrock's stop reason and usage).
AddMessageDelta(b, e) ==
    LET s == CloseBlock(EnsureMessageStarted(b))
        n == Len(s.out)
    IN  IF n > 0 /\ s.out[n].type = "message_delta"
        THEN [s EXCEPT !.out[n].usage = @ \/ e.usage, !.delta = TRUE]
        ELSE [Push(s, e) EXCEPT !.delta = TRUE]

\* push_synthetic_message_delta, and a block if there has not been one.
Complete(b) ==
    LET s == IF b.blocks # {} THEN b
             ELSE Push([Push(b, BlockStart(0)) EXCEPT !.blocks = @ \cup {0}], BlockStop(0))
    IN  IF b.delta THEN b
        ELSE [Push(s, MessageDelta(FALSE)) EXCEPT !.delta = TRUE]

AddMessageStop(b, e) ==
    [Push(Complete(CloseBlock(EnsureMessageStarted(b))), e) EXCEPT
        !.stopped = TRUE, !.delta = FALSE]

\* add_transformed_event
AddToMessages(b, e) ==
    CASE b.stopped -> b
      [] ~b.stopped /\ e.type = "message_start" -> [Push(b, e) EXCEPT !.started = TRUE]
      [] ~b.stopped /\ e.type = "content_block_start" ->
            PushBlockStart(EnsureMessageStarted(b), e, e.index)
      [] ~b.stopped /\ e.type = "content_block_delta" -> AddBlockDelta(b, e)
      [] ~b.stopped /\ e.type = "message_delta" -> AddMessageDelta(b, e)
      [] ~b.stopped /\ e.type = "content_block_stop" ->
            [Push(EnsureMessageStarted(b), e) EXCEPT !.open = FALSE]
      [] ~b.stopped /\ e.type = "message_stop" -> AddMessageStop(b, e)
      [] ~b.stopped /\ e.type = "ping" -> Push(b, e)

\* to_bytes: what is written is FinishMessages(b).out, and what stays behind
\* FlushedMessages(b).
FinishMessages(b) == IF b.delta /\ ~b.stopped THEN PushMessageStop(b) ELSE b

\* Fault: what was written stays in the buffer.
FlushedMessagesKept(b) == FinishMessages(b)

FlushedMessages(b) == [FinishMessages(b) EXCEPT !.out = <<>>]

=============================================================================
