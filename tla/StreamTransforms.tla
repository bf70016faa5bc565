--------------------------- MODULE StreamTransforms --------------------------
(***************************************************************************)
(* The conversions of one streamed event between the formats of providers  *)
(* and clients (hermesllm, transforms/response_streaming).  Each takes one *)
(* event and returns one, so what a chunk holds beside the part that is    *)
(* chosen is lost.                                                         *)
(*                                                                         *)
(* A piece is a nonempty fragment of content (text or the arguments of a   *)
(* tool call), numbered in the order the model produced them; 0 is the     *)
(* empty string and -1 no string at all.  Names, ids and reasons are left  *)
(* out.                                                                    *)
(***************************************************************************)
EXTENDS Integers, Sequences

\* ChatCompletionsStreamResponse with its only choice, which a chunk that
\* carries just the usage has not.
Chunk(role, text, tools, finish, usage) ==
    [choice |-> TRUE, role |-> role, text |-> text, tools |-> tools,
     finish |-> finish, usage |-> usage]

UsageChunk ==
    [choice |-> FALSE, role |-> FALSE, text |-> -1, tools |-> <<>>,
     finish |-> FALSE, usage |-> TRUE]

\* create_empty_openai_chunk
EmptyChunk == Chunk(FALSE, -1, <<>>, FALSE, FALSE)

\* ToolCallDelta: the first one of a call carries its id and name.
ToolCall(index, start, args) == [index |-> index, start |-> start, args |-> args]

\* MessagesStreamEvent; `usage`: the event tells how many tokens were used.
Message(type, index, piece, usage) ==
    [type |-> type, index |-> index, piece |-> piece, usage |-> usage]

Ping              == Message("ping", -1, 0, FALSE)
MessageStart      == Message("message_start", -1, 0, FALSE)
BlockStart(index) == Message("content_block_start", index, 0, FALSE)
BlockDelta(index, piece) == Message("content_block_delta", index, piece, FALSE)
BlockStop(index)  == Message("content_block_stop", index, 0, FALSE)
MessageDelta(usage) == Message("message_delta", -1, 0, usage)
MessageStop       == Message("message_stop", -1, 0, FALSE)

\* ConverseStreamEvent
Frame(type, index, tool, piece) ==
    [type |-> type, index |-> index, tool |-> tool, piece |-> piece]

\* ResponsesAPIStreamEvent as the transform makes it.  The conversion can also
\* refuse a chunk.
Response(type, index, piece, start) ==
    [type |-> type, index |-> index, piece |-> piece, start |-> start]

Unconvertible == Response("error", 0, 0, FALSE)

-----------------------------------------------------------------------------
\* convert_tool_call_deltas: the first call that says something is taken.
ConvertToolCallDeltas(tools) ==
    LET speaks == {i \in DOMAIN tools : tools[i].start \/ tools[i].args >= 0}
    IN  IF speaks = {} THEN Ping
        ELSE LET first == tools[CHOOSE i \in speaks : \A j \in speaks : i <= j]
             IN  IF first.start THEN BlockStart(first.index)
                                ELSE BlockDelta(first.index, first.args)

\* TryFrom<ChatCompletionsStreamResponse> for MessagesStreamEvent
ChatToMessages(c) ==
    CASE ~c.choice             -> Ping
      [] c.choice /\ c.usage /\ c.finish -> MessageDelta(TRUE)
      [] c.choice /\ ~(c.usage /\ c.finish) /\ c.text > 0 -> BlockDelta(0, c.text)
      [] c.choice /\ ~(c.usage /\ c.finish) /\ c.text <= 0 /\ c.tools # <<>> ->
            ConvertToolCallDeltas(c.tools)
      [] c.choice /\ ~c.usage /\ c.finish /\ c.text <= 0 /\ c.tools = <<>> ->
            MessageDelta(FALSE)
      [] OTHER -> Ping

\* TryFrom<ConverseStreamEvent> for MessagesStreamEvent
ConverseToMessages(f) ==
    CASE f.type = "messageStart"      -> MessageStart
      [] f.type = "contentBlockStart" -> BlockStart(f.index)
      [] f.type = "contentBlockDelta" -> BlockDelta(f.index, f.piece)
      [] f.type = "contentBlockStop"  -> BlockStop(f.index)
      [] f.type = "messageStop"       -> MessageDelta(FALSE)
      [] f.type = "metadata"          -> MessageDelta(TRUE)
      [] f.type = "exception"         -> Ping

\* TryFrom<ConverseStreamEvent> for ChatCompletionsStreamResponse
ConverseToChat(f) ==
    CASE f.type = "messageStart"      -> Chunk(TRUE, -1, <<>>, FALSE, FALSE)
      [] f.type = "contentBlockStart" ->
            Chunk(FALSE, -1, <<ToolCall(f.index, TRUE, 0)>>, FALSE, FALSE)
      [] f.type = "contentBlockDelta" /\ ~f.tool ->
            Chunk(FALSE, f.piece, <<>>, FALSE, FALSE)
      [] f.type = "contentBlockDelta" /\ f.tool ->
            Chunk(FALSE, -1, <<ToolCall(f.index, FALSE, f.piece)>>, FALSE, FALSE)
      [] f.type = "messageStop"       -> Chunk(FALSE, -1, <<>>, TRUE, FALSE)
      [] f.type = "metadata"          -> Chunk(FALSE, -1, <<>>, FALSE, TRUE)
      [] f.type \in {"contentBlockStop", "exception"} -> EmptyChunk

\* TryFrom<ChatCompletionsStreamResponse> for ResponsesAPIStreamEvent: tool
\* calls, content, the end and the role, in this order.  The output index is
\* that of the choice, whichever tool call it is.
ChatToResponses(c) ==
    LET speaks == c.tools # <<>> /\ (c.tools[1].start \/ c.tools[1].args >= 0)
        args   == IF c.tools[1].args >= 0 THEN c.tools[1].args ELSE 0
    IN  CASE c.choice /\ speaks -> Response("args_delta", 0, args, c.tools[1].start)
          [] c.choice /\ ~speaks /\ c.text > 0 -> Response("text_delta", 0, c.text, FALSE)
          [] c.choice /\ ~speaks /\ c.text <= 0 /\ c.finish -> Response("done", 0, 0, FALSE)
          [] c.choice /\ ~speaks /\ c.text <= 0 /\ ~c.finish /\ c.role ->
                Response("text_delta", 0, 0, FALSE)
          [] OTHER -> Unconvertible

=============================================================================
