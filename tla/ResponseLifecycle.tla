-------------------------- MODULE ResponseLifecycle --------------------------
(***************************************************************************)
(* What a client of the Responses API may be sent: a response that is      *)
(* created and in progress, whose items are added, filled and done, each   *)
(* once, and that is completed, once, when all its items are done.         *)
(* `strict` is FALSE for a stream that goes on after its end, or that has  *)
(* text and tool calls, which share an item; such a response is still      *)
(* created first and completed at most once.                               *)
(***************************************************************************)
EXTENDS Integers, Sequences, SequencesExt

VARIABLES
    strict,
    phase,    \* "none", "created", "open" or "completed"
    added,    \* the items, in the order they were announced
    filled,   \* the item the latest content was for, since an item was done
    done      \* the items that are done, in order

vars == <<strict, phase, added, filled, done>>

NoItem == -1

Init ==
    /\ strict \in BOOLEAN /\ phase = "none"
    /\ added = <<>> /\ filled = NoItem /\ done = <<>>

Create   == phase = "none" /\ phase' = "created" /\ UNCHANGED <<strict, added, filled, done>>

Progress == phase = "created" /\ phase' = "open" /\ UNCHANGED <<strict, added, filled, done>>

Within == phase = "open" \/ (~strict /\ phase = "completed")

Add ==
    /\ Within
    /\ Len(added') > 0
    /\ LET item == Last(added')
       IN  item \in Nat \ ToSet(added) /\ added' = Append(added, item)
    /\ UNCHANGED <<strict, phase, filled, done>>

Fill ==
    /\ Within
    /\ filled' \in ToSet(added)
    /\ strict => filled' \notin ToSet(done)
    /\ UNCHANGED <<strict, phase, added, done>>

Finish ==
    /\ phase = "open"
    /\ \E item \in ToSet(added) :
          /\ strict => item \notin ToSet(done)
          /\ done' = Append(done, item)
    /\ filled' = NoItem
    /\ UNCHANGED <<strict, phase, added>>

Complete ==
    /\ phase = "open"
    /\ ToSet(done) = ToSet(added)
    /\ phase' = "completed"
    /\ UNCHANGED <<strict, added, filled, done>>

\* The upstream's stream turns out to be broken.
Loosen == strict' = FALSE /\ UNCHANGED <<phase, added, filled, done>>

Next == Loosen \/ Create \/ Progress \/ Add \/ Fill \/ Finish \/ Complete

Spec == Init /\ [][Next]_vars

=============================================================================
