------------------------ MODULE ResponsesStreamBuffer ------------------------
(***************************************************************************)
(* ResponsesAPIStreamBuffer (hermesllm, responses_api_streaming_buffer.rs) *)
(* as operators on its state: it makes of deltas the whole life of a       *)
(* response, with an item for every output index, and keeps the completed  *)
(* response.  Metadata an upstream of the same format would send is left   *)
(* out, for that format is passed through.                                 *)
(*                                                                         *)
(* An item is known by its output index, for its id is made once for each; *)
(* the content accumulated for it is the nonempty pieces it was given.     *)
(***************************************************************************)
EXTENDS StreamTransforms, FiniteSets

\* The members of a finite set of integers, the least first.
Ascending(S) ==
    CHOOSE s \in [1..Cardinality(S) -> S] : \A i, j \in DOMAIN s : i < j => s[i] < s[j]

\* text_content or function_arguments: of each item that has any, the pieces.
NoContent == [i \in {} |-> <<>>]

EmptyResponseBuffer ==
    [out       |-> <<>>,    \* buffered_events
     seq       |-> 0,       \* sequence_number
     created   |-> FALSE,   \* created_emitted and in_progress_emitted
     finalized |-> FALSE,
     added     |-> {},      \* output_items_added
     text      |-> NoContent,    \* text_content
     args      |-> NoContent,    \* function_arguments
     named     |-> {},      \* tool_call_metadata
     completed |-> <<>>]    \* output of completed_response: <<kind, index, pieces>>

\* An event as it is written: `item` is its output index.
Written(type, item, piece, seq) == [type |-> type, item |-> item, piece |-> piece, seq |-> seq]

\* event_to_sse with the next sequence number.
Write(b, type, item, piece) ==
    [b EXCEPT !.out = Append(@, Written(type, item, piece, b.seq)), !.seq = @ + 1]

\* response.created and response.in_progress, if not yet emitted.
Prelude(b) ==
    IF b.created THEN b
    ELSE [Write(Write(b, "created", 0, 0), "in_progress", 0, 0) EXCEPT !.created = TRUE]

\* What is held of an item is made longer, by nothing if the piece is empty.
AddPiece(content, index, piece) ==
    [i \in DOMAIN content \cup {index} |->
        LET held == IF i \in DOMAIN content THEN content[i] ELSE <<>>
        IN  IF i = index /\ piece > 0 THEN Append(held, piece) ELSE held]

\* response.output_item.added, with the first delta of the index.
Announce(b, index) ==
    IF index \in b.added THEN b
    ELSE [Write(b, "item_added", index, 0) EXCEPT !.added = @ \cup {index}]

\* Fault: the text of an item is replaced by its latest delta.
AddTextDeltaLatest(b, e) ==
    [Write(Announce(b, e.index), "text_delta", e.index, e.piece) EXCEPT
        !.text = AddPiece(NoContent, e.index, e.piece)]

AddTextDelta(b, e) ==
    [Write(Announce(b, e.index), "text_delta", e.index, e.piece) EXCEPT
        !.text = AddPiece(@, e.index, e.piece)]

AddArgumentsDelta(b, e) ==
    LET n == IF e.start THEN [b EXCEPT !.named = @ \cup {e.index}] ELSE b
    IN  [Write(Announce(n, e.index), "args_delta", e.index, e.piece) EXCEPT
            !.args = AddPiece(@, e.index, e.piece)]

\* The done events of the items of one kind, two for each; a HashMap yields
\* them in any order, of which the model takes the ascending one.
WriteDone(b, content, type) ==
    LET items == Ascending(DOMAIN content)
        count == 2 * Len(items)
    IN  [b EXCEPT
            !.out = @ \o [k \in 1..count |->
                Written(IF k % 2 = 1 THEN type ELSE "item_done",
                        items[(k + 1) \div 2], 0, b.seq + k - 1)],
            !.seq = @ + count]

\* The output of the completed response: an item with arguments is a call.
Output(b) ==
    LET items == Ascending(b.added)
    IN  [n \in DOMAIN items |->
            IF items[n] \in DOMAIN b.args
            THEN <<"function_call", items[n], b.args[items[n]]>>
            ELSE <<"message", items[n], b.text[items[n]]>>]

\* Fault: the finish reason and [DONE] both complete the response.
FinalizeAgain(b) ==
    LET d == WriteDone(WriteDone(Prelude(b), b.text, "text_done"), b.args, "args_done")
    IN  [Write(d, "completed", 0, 0) EXCEPT !.finalized = TRUE, !.completed = Output(b)]

Finalize(b) ==
    IF b.finalized THEN b
    ELSE LET d == WriteDone(WriteDone(Prelude(b), b.text, "text_done"), b.args, "args_done")
         IN  [Write(d, "completed", 0, 0) EXCEPT !.finalized = TRUE, !.completed = Output(b)]

\* add_transformed_event: it does not ask whether the response was completed.
AddToResponse(b, e) ==
    CASE e.type = "done"       -> Finalize(b)
      [] e.type = "text_delta" -> AddTextDelta(Prelude(b), e)
      [] e.type = "args_delta" -> AddArgumentsDelta(Prelude(b), e)

\* to_bytes
FlushedResponse(b) == [b EXCEPT !.out = <<>>]

=============================================================================
