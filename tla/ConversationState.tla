------------------------- MODULE ConversationState -------------------------
(***************************************************************************)
(* The conversation state brightstaff keeps for the Responses API          *)
(* (handlers/llm/mod.rs, resolve_conversation_state; state/): what a turn  *)
(* finds under its previous_response_id, what it sends upstream, and what  *)
(* it stores once its response is complete.  Turns of several clients run  *)
(* concurrently, and a turn may branch off any earlier one.                *)
(*                                                                         *)
(* A turn is its response id.  The streaming of a response is the step     *)
(* that passes its response.completed event on; StreamTask has the detail. *)
(***************************************************************************)
EXTENDS Naturals, FiniteSets, Sequences, SequencesExt

CONSTANTS
    MaxTurns,     \* bound: turns asked
    MaxRestarts,  \* bound: restarts of brightstaff
    Postgres,     \* TRUE: the PostgreSQL storage, FALSE: the one in memory
    Upstreams,    \* kinds of upstream that may answer: "native", "other"
    ItemCounts,   \* bound: how many items an input, or an output, may be
    Nothing       \* a turn without stored state

ASSUME ConversationAssumption ==
    /\ MaxTurns \in Nat
    /\ MaxRestarts \in Nat
    /\ Postgres \in BOOLEAN
    /\ Upstreams \subseteq {"native", "other"}
    /\ ItemCounts \subseteq {0, 1}

Turn == 1..MaxTurns

\* One item of a conversation: what the client or the model said in a turn.
Item == [turn : Turn, by : {"client", "model"}]

\* What may be said in turn t: an input may be empty, and a refusal of the
\* model converts to no item.
Said(t, who) == {SubSeq(<<[turn |-> t, by |-> who]>>, 1, n) : n \in ItemCounts}

ASSUME NothingAssumption == Nothing \notin Seq(Item)

VARIABLES
    phase,     \* phase[t]: where turn t is
    prev,      \* prev[t]: its previous_response_id, 0 for none
    input,     \* input[t]: the items of its request
    managed,   \* managed[t]: should_manage_state
    sent,      \* sent[t]: original_input_items, which are what is sent upstream
    served,    \* served[t]: history. the kind of upstream that answered
    reply,     \* reply[t]: the items its output converts to
    captured,  \* captured[t]: response.completed passed, and was recognised
    known,     \* the turns whose response id their client has
    pending,   \* the turns whose put is spawned and not yet done
    store,     \* store[t]: the input_items stored under t
    full,      \* full[t]: history. the conversation up to the input of t
    restarts

vars == <<phase, prev, input, managed, sent, served, reply, captured,
          known, pending, store, full, restarts>>

Phases == {"unasked", "asked", "sent", "streaming", "completed", "done", "refused", "lost"}
Final == {"done", "refused", "lost"}

Init ==
    /\ phase = [t \in Turn |-> "unasked"]
    /\ prev = [t \in Turn |-> 0]
    /\ input = [t \in Turn |-> <<>>]
    /\ managed = [t \in Turn |-> FALSE]
    /\ sent = [t \in Turn |-> <<>>]
    /\ served = [t \in Turn |-> "none"]
    /\ reply = [t \in Turn |-> <<>>]
    /\ captured = [t \in Turn |-> "no"]
    /\ known = {} /\ pending = {}
    /\ store = [t \in Turn |-> Nothing]
    /\ full = [t \in Turn |-> <<>>]
    /\ restarts = 0

-----------------------------------------------------------------------------
(* A turn *)

\* A client asks turn t, after a turn p whose response id it has, or to begin
\* a conversation.
Ask(t, p) ==
    /\ phase[t] = "unasked" /\ \A u \in 1..(t - 1) : phase[u] # "unasked"
    /\ phase' = [phase EXCEPT ![t] = "asked"]
    /\ prev' = [prev EXCEPT ![t] = p]
    /\ \E items \in Said(t, "client") :
          /\ input' = [input EXCEPT ![t] = items]
          /\ full' = [full EXCEPT ![t] =
                        (IF p = 0 THEN <<>> ELSE full[p] \o reply[p]) \o items]
    /\ UNCHANGED <<managed, sent, served, reply, captured, known, pending, store, restarts>>

\* What is sent upstream for t, and whether its state is kept here.
Forward(t, manage, items) ==
    /\ phase' = [phase EXCEPT ![t] = "sent"]
    /\ managed' = [managed EXCEPT ![t] = manage]
    /\ sent' = [sent EXCEPT ![t] = items]
    /\ UNCHANGED <<prev, input, served, reply, captured, known, pending,
                   store, full, restarts>>

\* The primary provider, which is that of any configured model, speaks the
\* Responses API: it keeps the conversation itself.  In the other cases it
\* does not.
LeaveToProvider(t) ==
    /\ phase[t] = "asked"
    /\ Forward(t, FALSE, input[t])

BeginConversation(t) ==
    /\ phase[t] = "asked"
    /\ prev[t] = 0
    /\ Forward(t, TRUE, input[t])

\* Fault: the history is appended to the new input.
ContinueSwapped(t) ==
    /\ phase[t] = "asked"
    /\ prev[t] # 0
    /\ store[prev[t]] # Nothing
    /\ Forward(t, TRUE, input[t] \o store[prev[t]])

\* StateStorage::merge: the history comes before the new input.
Continue(t) ==
    /\ phase[t] = "asked"
    /\ prev[t] # 0
    /\ store[prev[t]] # Nothing
    /\ Forward(t, TRUE, store[prev[t]] \o input[t])

\* The storage cannot be read: the turn goes on with its own input only.
ContinueWithout(t) ==
    /\ Postgres
    /\ phase[t] = "asked"
    /\ prev[t] # 0
    /\ Forward(t, TRUE, input[t])

\* 409: there is no state under previous_response_id.
Conflict(t) ==
    /\ phase[t] = "asked"
    /\ prev[t] # 0
    /\ store[prev[t]] = Nothing
    /\ phase' = [phase EXCEPT ![t] = "refused"]
    /\ UNCHANGED <<prev, input, managed, sent, served, reply, captured,
                   known, pending, store, full, restarts>>

\* An upstream answers: the primary's, or that of a model the router selected
\* or the attempt loop fell back to.
Served(t) ==
    /\ phase[t] = "sent"
    /\ phase' = [phase EXCEPT ![t] = "streaming"]
    /\ \E kind \in Upstreams : served' = [served EXCEPT ![t] = kind]
    /\ UNCHANGED <<prev, input, managed, sent, reply, captured, known,
                   pending, store, full, restarts>>

\* response.completed passes the processor, which recognises it unless it is
\* split over chunks.
Completed(t) ==
    /\ phase[t] = "streaming"
    /\ phase' = [phase EXCEPT ![t] = "completed"]
    /\ \E seen \in {"yes", "split"} : captured' = [captured EXCEPT ![t] = seen]
    /\ \E items \in Said(t, "model") : reply' = [reply EXCEPT ![t] = items]
    /\ UNCHANGED <<prev, input, managed, sent, served, known, pending,
                   store, full, restarts>>

\* The client receives response.completed, with the response id.
LearnId(t) ==
    /\ captured[t] # "no"
    /\ t \notin known
    /\ known' = known \cup {t}
    /\ UNCHANGED <<phase, prev, input, managed, sent, served, reply,
                   captured, pending, store, full, restarts>>

\* The stream of t ends; `puts` are spawned.
End(t, puts) ==
    /\ phase[t] \in {"streaming", "completed"}
    /\ phase' = [phase EXCEPT ![t] = "done"]
    /\ pending' = pending \cup puts
    /\ UNCHANGED <<prev, input, managed, sent, served, reply, captured,
                   known, store, full, restarts>>

\* Fault: only what the client has received is stored.
FinishReceived(t) ==
    End(t, {u \in {t} : managed[u] /\ sent[u] # <<>> /\ captured[u] = "yes" /\ u \in known})

\* on_complete: the state is put by a task of its own, which nobody awaits, if
\* the turn has a ResponsesStateProcessor and this one captured the response.
Finish(t) == End(t, {u \in {t} : managed[u] /\ sent[u] # <<>> /\ captured[u] = "yes"})

\* The put takes place: what was sent, and the output after it.
Stored(t) ==
    /\ t \in pending
    /\ pending' = pending \ {t}
    /\ store' = [store EXCEPT ![t] = sent[t] \o reply[t]]
    /\ UNCHANGED <<phase, prev, input, managed, sent, served, reply,
                   captured, known, full, restarts>>

\* The put fails, which is logged.
StoreFails(t) ==
    /\ Postgres
    /\ t \in pending
    /\ pending' = pending \ {t}
    /\ UNCHANGED <<phase, prev, input, managed, sent, served, reply,
                   captured, known, store, full, restarts>>

\* brightstaff restarts: running turns and puts are lost, and what was stored
\* in memory; clients keep the ids they have.
Restart ==
    /\ restarts < MaxRestarts
    /\ restarts' = restarts + 1
    /\ phase' = [t \in Turn |-> IF phase[t] \in Final \cup {"unasked"}
                                THEN phase[t] ELSE "lost"]
    /\ pending' = {}
    /\ store' = IF Postgres THEN store ELSE [t \in Turn |-> Nothing]
    /\ UNCHANGED <<prev, input, managed, sent, served, reply, captured,
                   known, full>>

\* All turns are over.
Over ==
    /\ \A t \in Turn : phase[t] \in Final
    /\ pending = {}
    /\ UNCHANGED vars

Resolve(t) ==
    LeaveToProvider(t) \/ BeginConversation(t) \/ Continue(t) \/ ContinueWithout(t) \/ Conflict(t)

Next ==
    \/ \E t \in Turn :
          \/ \E p \in known \cup {0} : Ask(t, p)
          \/ LeaveToProvider(t) \/ BeginConversation(t)
          \/ Continue(t) \/ ContinueWithout(t) \/ Conflict(t)
          \/ Served(t) \/ Completed(t) \/ LearnId(t) \/ Finish(t)
          \/ Stored(t) \/ StoreFails(t)
    \/ Restart
    \/ Over

Spec == Init /\ [][Next]_vars

FairSpec ==
    /\ Spec
    /\ \A t \in Turn :
          /\ WF_vars(Resolve(t)) /\ WF_vars(Served(t)) /\ WF_vars(Finish(t))
          /\ WF_vars(Stored(t) \/ StoreFails(t))

-----------------------------------------------------------------------------
(* Properties *)

\* Besides types: a put is pending only for a finished turn whose state is
\* kept here, and no turn has stored state whose primary keeps it.
TypeOK ==
    /\ phase \in [Turn -> Phases]
    /\ prev \in [Turn -> 0..MaxTurns]
    /\ input \in [Turn -> Seq(Item)]
    /\ managed \in [Turn -> BOOLEAN]
    /\ sent \in [Turn -> Seq(Item)]
    /\ served \in [Turn -> {"none", "native", "other"}]
    /\ reply \in [Turn -> Seq(Item)]
    /\ captured \in [Turn -> {"no", "yes", "split"}]
    /\ known \subseteq Turn
    /\ pending \subseteq {t \in Turn : managed[t] /\ phase[t] = "done"}
    /\ store \in [Turn -> Seq(Item) \cup {Nothing}]
    /\ \A t \in Turn : store[t] # Nothing => managed[t]
    /\ full \in [Turn -> Seq(Item)]
    /\ restarts \in 0..MaxRestarts

\* Whatever is asked, lost and restarted around it, a turn sends the latest
\* part of its own conversation, in its order: no item of another branch, no
\* item twice, none out of place.  The same holds of what it stores.
OwnHistory ==
    \A t \in Turn :
        /\ IsSuffix(sent[t], full[t])
        /\ store[t] # Nothing => IsSuffix(store[t], full[t] \o reply[t])

\* A turn whose state is kept here sends all of its conversation.
FullHistory ==
    \A t \in Turn : managed[t] => sent[t] = full[t]

\* Every captured response of a turn whose state is kept here is handed to the
\* storage, even when its client has left before the end, unless brightstaff
\* restarts first.
EventuallyPut ==
    \A t \in Turn :
        (managed[t] /\ sent[t] # <<>> /\ captured[t] = "yes" /\ phase[t] = "completed")
            ~> (t \in pending \/ phase[t] = "lost")

=============================================================================
