-------------------------- MODULE MessagesEnvelope ---------------------------
(***************************************************************************)
(* What a client of the Messages API may be sent, event by event: a        *)
(* message that starts, has blocks, one open at a time and content in the  *)
(* open one only, then its delta and its stop.  When the upstream does not *)
(* keep to its own protocol, or has more than one block where the buffer   *)
(* tracks one, (`strict` is FALSE) what remains are the guarantees         *)
(* AnthropicMessagesStreamBuffer documents: a stop follows a start and a   *)
(* delta, there is one stop, and nothing follows it.                       *)
(***************************************************************************)
EXTENDS Integers

VARIABLES
    strict,
    phase,    \* "none", "open", "ended" (delta seen) or "stopped"
    block,    \* the open block
    filled    \* the block the latest content was for, since blocks changed

vars == <<strict, phase, block, filled>>

NoBlock == -1

Init == strict \in BOOLEAN /\ phase = "none" /\ block = NoBlock /\ filled = NoBlock

Start ==
    /\ phase = "none" \/ (~strict /\ phase # "stopped")
    /\ phase' = IF phase = "none" THEN "open" ELSE phase
    /\ UNCHANGED <<strict, block, filled>>

\* Blocks and content belong before the message's delta.
Within == phase = "open" \/ (~strict /\ phase = "ended")

StartBlock ==
    /\ Within
    /\ strict => block = NoBlock
    /\ block' \in Nat /\ filled' = NoBlock
    /\ UNCHANGED <<strict, phase>>

Fill ==
    /\ Within
    /\ filled' \in Nat
    /\ strict => filled' = block
    /\ UNCHANGED <<strict, phase, block>>

StopBlock ==
    /\ Within
    /\ strict => block # NoBlock
    /\ block' = NoBlock /\ filled' = NoBlock
    /\ UNCHANGED <<strict, phase>>

Delta ==
    /\ Within
    /\ strict => block = NoBlock
    /\ phase' = "ended"
    /\ UNCHANGED <<strict, block, filled>>

Stop ==
    /\ phase = "ended"
    /\ phase' = "stopped"
    /\ UNCHANGED <<strict, block, filled>>

\* The upstream's stream turns out to be broken.
Loosen == strict' = FALSE /\ UNCHANGED <<phase, block, filled>>

Next == Loosen \/ Start \/ StartBlock \/ Fill \/ StopBlock \/ Delta \/ Stop

Spec == Init /\ [][Next]_vars

=============================================================================
