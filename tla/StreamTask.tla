----------------------------- MODULE StreamTask -----------------------------
(***************************************************************************)
(* The task that carries a response from an upstream to a client           *)
(* (brightstaff, streaming.rs): it takes chunks off the upstream's body,   *)
(* passes each through the output filters, if any, and the processor, and  *)
(* puts what is left of it into a bounded channel, which the client's      *)
(* connection drains.  Upstream, task and client run concurrently; an      *)
(* action is what the task does between two awaits.                        *)
(*                                                                         *)
(* A chunk is its number in the upstream's body.  Of its content the model *)
(* keeps which part of the `response.completed` event it carries, for      *)
(* ResponsesStateProcessor looks for that event chunk by chunk.            *)
(***************************************************************************)
EXTENDS Integers, FiniteSets, Sequences, SequencesExt

CONSTANTS
    BufferSize,     \* STREAM_BUFFER_SIZE
    MaxChunks,      \* bound: the longest body
    Verdicts        \* what process_chunk can return: "pass", "skip", "fail"

ASSUME StreamAssumption ==
    /\ BufferSize \in Nat \ {0}
    /\ MaxChunks \in Nat
    /\ Verdicts \subseteq {"pass", "skip", "fail"}

VARIABLES
    pc,        \* where the task waits: next(), the filter, send(), or done
    read,      \* chunks taken off the upstream
    withheld,  \* history. chunks the processor kept for itself or failed on
    channel,   \* chunks sent and not yet received
    got,       \* history. chunks the client received
    client,    \* "reading", "gone" (connection closed) or "ended" (body over)
    calls,     \* history. the processor's callbacks, in order
    part,      \* what the latest chunk carries of response.completed
    seen,      \* history. the parts of that event read so far
    captured   \* the state processor has the response id and its output

taskVars == <<pc, read, withheld, channel, got, client, calls, part, seen, captured>>

TaskInit ==
    /\ pc = "next" /\ read = 0 /\ withheld = {}
    /\ channel = <<>> /\ got = <<>> /\ client = "reading"
    /\ calls = <<>> /\ part = "delta" /\ seen = {} /\ captured = FALSE

\* The loop is over, after callbacks `called`: on_complete is called whatever
\* ended it, and the sender is dropped.
Break(called) ==
    /\ pc' = "done"
    /\ calls' = Append(called, "complete")

\* processor.process_chunk of the latest chunk, and what the loop makes of it.
ProcessChunk ==
    \/ /\ "pass" \in Verdicts
       /\ pc' = "send" /\ captured' = (captured \/ part = "whole")
       /\ UNCHANGED <<withheld, calls>>
    \/ /\ "skip" \in Verdicts
       /\ pc' = "next" /\ withheld' = withheld \cup {read}
       /\ UNCHANGED <<calls, captured>>
    \/ /\ "fail" \in Verdicts
       /\ Break(Append(calls, "error")) /\ withheld' = withheld \cup {read}
       /\ UNCHANGED captured

\* What the next chunk may carry of the event: all of it, or its first part,
\* which the rest then follows.
NextParts ==
    IF seen = {} THEN {"delta", "whole", "head"}
    ELSE IF seen = {"head"} THEN {"tail"}
    ELSE {"delta"}

\* byte_stream.next() yields a chunk; the first one is announced.
ReadChunk ==
    /\ pc = "next"
    /\ read < MaxChunks
    /\ read' = read + 1
    /\ part' \in NextParts
    /\ seen' = seen \cup ({part'} \ {"delta"})
    /\ calls' = IF read = 0 THEN Append(calls, "first") ELSE calls
    /\ pc' = "filter"
    /\ UNCHANGED <<withheld, channel, got, client, captured>>

\* Fault: a chunk the filters reject is dropped.
FilterAnswersOrDrops ==
    /\ pc = "filter"
    /\ \/ ProcessChunk
       \/ pc' = "next" /\ UNCHANGED <<withheld, calls, captured>>
    /\ UNCHANGED <<read, channel, got, client, part, seen>>

\* The output filters have rewritten the chunk, or failed, and then the chunk
\* stands as it was; either way it goes to the processor.  Without filters the
\* processor gets it at once.
FilterAnswers ==
    /\ pc = "filter"
    /\ ProcessChunk
    /\ UNCHANGED <<read, channel, got, client, part, seen>>

\* The upstream's body is over.
ReadEnd ==
    /\ pc = "next"
    /\ Break(calls)
    /\ UNCHANGED <<read, withheld, channel, got, client, part, seen, captured>>

\* The upstream's body breaks off.
ReadError ==
    /\ pc = "next"
    /\ Break(Append(calls, "error"))
    /\ UNCHANGED <<read, withheld, channel, got, client, part, seen, captured>>

\* tx.send completes: there is room in the channel.
SendChunk ==
    /\ pc = "send"
    /\ client = "reading"
    /\ Len(channel) < BufferSize
    /\ channel' = Append(channel, read)
    /\ pc' = "next"
    /\ UNCHANGED <<read, withheld, got, client, calls, part, seen, captured>>

\* Fault: without a receiver the task returns at once.
ReceiverDroppedReturns ==
    /\ pc = "send"
    /\ client = "gone"
    /\ pc' = "done"
    /\ UNCHANGED <<read, withheld, channel, got, client, calls, part, seen, captured>>

\* Fault: a chunk that cannot be sent is dropped, and the next one read.
ReceiverDroppedGoesOn ==
    /\ pc = "send"
    /\ client = "gone"
    /\ pc' = "next"
    /\ UNCHANGED <<read, withheld, channel, got, client, calls, part, seen, captured>>

\* tx.send fails: there is no receiver any more.
ReceiverDropped ==
    /\ pc = "send"
    /\ client = "gone"
    /\ Break(calls)
    /\ UNCHANGED <<read, withheld, channel, got, client, part, seen, captured>>

-----------------------------------------------------------------------------
(* The client's connection *)

Receive ==
    /\ client = "reading"
    /\ channel # <<>>
    /\ got' = Append(got, Head(channel))
    /\ channel' = Tail(channel)
    /\ UNCHANGED <<pc, read, withheld, client, calls, part, seen, captured>>

\* The channel is drained and its sender dropped: the body is over.
BodyEnds ==
    /\ client = "reading"
    /\ channel = <<>>
    /\ pc = "done"
    /\ client' = "ended"
    /\ UNCHANGED <<pc, read, withheld, channel, got, calls, part, seen, captured>>

\* The client disconnects: the receiver is dropped with what it holds.
Disconnect ==
    /\ client = "reading"
    /\ client' = "gone"
    /\ channel' = <<>>
    /\ UNCHANGED <<pc, read, withheld, got, calls, part, seen, captured>>

\* Task and client are both through.
Over == pc = "done" /\ client # "reading" /\ UNCHANGED taskVars

Upstream == ReadChunk \/ ReadEnd \/ ReadError
Connection == Receive \/ BodyEnds \/ Disconnect

TaskNext ==
    \/ ReadChunk \/ ReadEnd \/ ReadError
    \/ FilterAnswers \/ SendChunk \/ ReceiverDropped
    \/ Receive \/ BodyEnds \/ Disconnect
    \/ Over

TaskSpec == TaskInit /\ [][TaskNext]_taskVars

FairTaskSpec ==
    /\ TaskSpec
    /\ WF_taskVars(Upstream) /\ WF_taskVars(Connection)
    /\ WF_taskVars(FilterAnswers) /\ WF_taskVars(SendChunk \/ ReceiverDropped)

-----------------------------------------------------------------------------
(* Properties *)

\* The channel never holds more than STREAM_BUFFER_SIZE chunks.
TaskTypeOK ==
    /\ pc \in {"next", "filter", "send", "done"}
    /\ read \in 0..MaxChunks
    /\ withheld \subseteq 1..MaxChunks
    /\ channel \in Seq(1..MaxChunks) /\ Len(channel) <= BufferSize
    /\ got \in Seq(1..MaxChunks)
    /\ client \in {"reading", "gone", "ended"}
    /\ calls \in Seq({"first", "error", "complete"})
    /\ part \in {"delta", "whole", "head", "tail"}
    /\ seen \subseteq {"whole", "head", "tail"}
    /\ captured \in BOOLEAN

\* What the client has, and what is on its way to it.
Delivered == got \o channel

\* The chunks the task is done with: all it read but the one in its hands.
Forwarded == (1..read) \ (withheld \cup (IF pc \in {"filter", "send"} THEN {read} ELSE {}))

\* Every chunk reaches the client once and in order, unless the processor
\* withholds it: none is lost, doubled or overtaken by the filters, the full
\* channel or the end of the stream, as long as the client stays.
EveryChunkOnceInOrder ==
    client # "gone" =>
        /\ {Delivered[i] : i \in 1..Len(Delivered)} = Forwarded
        /\ \A i, j \in 1..Len(Delivered) : i < j => Delivered[i] < Delivered[j]

\* The task is never further ahead of the client than the channel and the one
\* chunk in its hands, whatever the client does: a slow client slows down the
\* reading, and one that has left, with all the channel held, ends it.
BoundedReadAhead ==
    read - Cardinality(withheld) - Len(got) <= BufferSize + 1

\* Whatever ended the stream, on_complete is called once, as the last callback,
\* after at most one on_first_bytes and at most one on_error.
CallbackOrder ==
    /\ \A i, j \in DOMAIN calls : calls[i] = calls[j] => i = j
    /\ \A i \in DOMAIN calls : calls[i] = "complete" => i = Len(calls)
    /\ \A i \in DOMAIN calls : calls[i] = "first" => i = 1

\* on_complete is called in the end, even where the client leaves midway: the
\* usage of the response is recorded and its conversation state stored.
AlwaysCompleted == <>("complete" \in ToSet(calls))

=============================================================================
