---------------------- MODULE ConversationStateProofs ----------------------
(***************************************************************************)
(* What holds of the conversation state for any number of turns and        *)
(* restarts.  The inductive invariant says when a turn's items are final,  *)
(* which makes what follow-ups and the storage took from it stay true, and *)
(* what each turn's part of the conversation is made of.                   *)
(***************************************************************************)
EXTENDS ConversationState, SequenceTheorems, TLAPS

USE DEF Turn

Types ==
    /\ phase \in [Turn -> Phases]
    /\ prev \in [Turn -> 0..MaxTurns]
    /\ input \in [Turn -> Seq(Item)]
    /\ managed \in [Turn -> BOOLEAN]
    /\ sent \in [Turn -> Seq(Item)]
    /\ served \in [Turn -> {"none", "native", "other"}]
    /\ reply \in [Turn -> Seq(Item)]
    /\ captured \in [Turn -> {"no", "yes", "split"}]
    /\ known \subseteq Turn
    /\ pending \subseteq Turn
    /\ store \in [Turn -> Seq(Item) \cup {Nothing}]
    /\ full \in [Turn -> Seq(Item)]
    /\ restarts \in 0..MaxRestarts

\* What a turn has in its phase: until response.completed has passed, nobody
\* knows it, and nothing is stored for it.
Staged ==
    \A t \in Turn :
        /\ phase[t] \in {"unasked", "asked"} => ~managed[t] /\ sent[t] = <<>>
        /\ phase[t] \in {"unasked", "asked", "sent", "streaming"} => captured[t] = "no"
        /\ captured[t] = "no" => t \notin known \cup pending /\ store[t] = Nothing
        /\ t \in pending => phase[t] = "done"
        /\ t \in pending \/ store[t] # Nothing => managed[t]

\* The conversation before turn t.
Before(t) == IF prev[t] = 0 THEN <<>> ELSE full[prev[t]] \o reply[prev[t]]

\* A turn follows one that is known, and its conversation continues that one's.
Linked ==
    \A t \in Turn :
        /\ prev[t] # 0 => prev[t] \in known
        /\ phase[t] # "unasked" => full[t] = Before(t) \o input[t]

\* What is stored is what was sent, and the reply.
Kept == \A t \in Turn : store[t] # Nothing => store[t] = sent[t] \o reply[t]

Own == \A t \in Turn : IsSuffix(sent[t], full[t])

Whole == ~Postgres => FullHistory

IInv == Types /\ Staged /\ Linked /\ Kept /\ Own /\ Whole

-----------------------------------------------------------------------------
(* Suffixes *)

\* IsSuffix compares the ends of the two sequences.
LEMMA SuffixByIndex ==
    ASSUME NEW S, NEW one \in Seq(S), NEW two \in Seq(S)
    PROVE  IsSuffix(one, two) <=>
               /\ Len(one) <= Len(two)
               /\ \A i \in 1..Len(one) : one[i] = two[Len(two) - Len(one) + i]
<1>1. /\ Reverse(one) \in Seq(S) /\ Len(Reverse(one)) = Len(one)
      /\ \A i \in 1..Len(one) : Reverse(one)[i] = one[Len(one) - i + 1]
  BY DEF Reverse
<1>2. /\ Reverse(two) \in Seq(S) /\ Len(Reverse(two)) = Len(two)
      /\ \A i \in 1..Len(two) : Reverse(two)[i] = two[Len(two) - i + 1]
  BY DEF Reverse
<1>3. Len(one) \in Nat /\ Len(two) \in Nat
  OBVIOUS
<1> DEFINE a == SubSeq(Reverse(one), 1, Len(one))
           b == SubSeq(Reverse(two), 1, Len(one))
<1>4. CASE Len(one) > Len(two)
  BY <1>1, <1>2, <1>3, <1>4 DEF IsSuffix, IsPrefix
<1>5. CASE Len(one) <= Len(two)
  <2>1. /\ a \in Seq(S) /\ Len(a) = Len(one)
        /\ \A i \in 1..Len(one) : a[i] = one[Len(one) - i + 1]
    BY <1>1, <1>3
  <2>2. /\ b \in Seq(S) /\ Len(b) = Len(one)
        /\ \A i \in 1..Len(one) : b[i] = two[Len(two) - i + 1]
    BY <1>2, <1>3, <1>5
  <2>3. a = b <=> \A i \in 1..Len(one) : a[i] = b[i]
    <3> HIDE DEF a, b
    <3> QED BY <2>1, <2>2, SeqEqual
  <2>4. a = b <=> \A i \in 1..Len(one) : one[Len(one) - i + 1] = two[Len(two) - i + 1]
    <3> HIDE DEF a, b
    <3> QED BY <2>1, <2>2, <2>3
  <2>5. (\A i \in 1..Len(one) : one[Len(one) - i + 1] = two[Len(two) - i + 1])
           <=> \A i \in 1..Len(one) : one[i] = two[Len(two) - Len(one) + i]
    <3>1. ASSUME NEW i \in 1..Len(one)
          PROVE  /\ Len(one) - i + 1 \in 1..Len(one)
                 /\ Len(one) - (Len(one) - i + 1) + 1 = i
                 /\ Len(two) - (Len(one) - i + 1) + 1 = Len(two) - Len(one) + i
                 /\ Len(two) - Len(one) + (Len(one) - i + 1) = Len(two) - i + 1
      BY <1>3
    <3> QED BY <3>1
  <2>6. IsSuffix(one, two) <=> a = b
    BY <1>1, <1>2, <1>3, <1>5 DEF IsSuffix, IsPrefix
  <2> QED BY <1>5, <2>4, <2>5, <2>6
<1> QED BY <1>3, <1>4, <1>5

\* Nothing, and the sequence itself, end every sequence.
LEMMA SuffixBasic ==
    ASSUME NEW S, NEW one \in Seq(S), NEW two \in Seq(S)
    PROVE  IsSuffix(<<>>, two) /\ IsSuffix(two, two) /\ IsSuffix(two, one \o two)
<1>1. <<>> \in Seq(S) /\ Len(<<>>) = 0
  BY EmptySeq
<1>2. IsSuffix(<<>>, two)
  <2> DEFINE none == <<>>
  <2>1. none \in Seq(S) /\ Len(none) = 0
    BY <1>1
  <2> HIDE DEF none
  <2>2. Len(none) <= Len(two) /\ \A i \in 1..Len(none) : none[i] = two[Len(two) - Len(none) + i]
    BY <2>1
  <2>3. IsSuffix(none, two)
    BY ONLY <2>1, <2>2, two \in Seq(S), SuffixByIndex
  <2> QED BY <2>3 DEF none
<1>3. IsSuffix(two, two)
  BY SuffixByIndex
<1>4. /\ one \o two \in Seq(S) /\ Len(one \o two) = Len(one) + Len(two)
      /\ Len(one) \in Nat /\ Len(two) \in Nat
      /\ \A i \in 1..Len(two) : (one \o two)[Len(one) + i] = two[i]
  OBVIOUS
<1>5. IsSuffix(two, one \o two)
  <2> DEFINE all == one \o two
  <2>1. /\ all \in Seq(S) /\ Len(all) = Len(one) + Len(two)
        /\ \A i \in 1..Len(two) : two[i] = all[Len(one) + i]
    BY <1>4
  <2> HIDE DEF all
  <2>2. /\ Len(two) <= Len(all)
        /\ \A i \in 1..Len(two) : two[i] = all[Len(all) - Len(two) + i]
    BY <1>4, <2>1
  <2>3. IsSuffix(two, all)
    BY ONLY <2>1, <2>2, two \in Seq(S), SuffixByIndex
  <2> QED BY <2>3 DEF all
<1> QED BY <1>2, <1>3, <1>5

\* What is said next is said after both.
LEMMA SuffixExtends ==
    ASSUME NEW S, NEW one \in Seq(S), NEW two \in Seq(S), NEW more \in Seq(S),
           IsSuffix(one, two)
    PROVE  IsSuffix(one \o more, two \o more)
<1>1. /\ one \o more \in Seq(S) /\ Len(one \o more) = Len(one) + Len(more)
      /\ \A i \in 1..(Len(one) + Len(more)) :
            (one \o more)[i] = IF i <= Len(one) THEN one[i] ELSE more[i - Len(one)]
  OBVIOUS
<1>2. /\ two \o more \in Seq(S) /\ Len(two \o more) = Len(two) + Len(more)
      /\ \A i \in 1..(Len(two) + Len(more)) :
            (two \o more)[i] = IF i <= Len(two) THEN two[i] ELSE more[i - Len(two)]
  OBVIOUS
<1>3. /\ Len(one) <= Len(two)
      /\ \A i \in 1..Len(one) : one[i] = two[Len(two) - Len(one) + i]
      /\ Len(one) \in Nat /\ Len(two) \in Nat /\ Len(more) \in Nat
  BY SuffixByIndex
<1>4. ASSUME NEW i \in 1..(Len(one) + Len(more))
      PROVE  (one \o more)[i] = (two \o more)[Len(two) - Len(one) + i]
  <2>1. Len(two) - Len(one) + i \in 1..(Len(two) + Len(more))
    BY <1>3
  <2>2. CASE i <= Len(one)
    BY <1>1, <1>2, <1>3, <2>1, <2>2
  <2>3. CASE i > Len(one)
    BY <1>1, <1>2, <1>3, <2>1, <2>3
  <2> QED BY <1>3, <2>2, <2>3
<1> DEFINE a == one \o more
           b == two \o more
<1>5. /\ a \in Seq(S) /\ b \in Seq(S) /\ Len(a) <= Len(b)
      /\ Len(b) - Len(a) = Len(two) - Len(one) /\ Len(a) = Len(one) + Len(more)
  BY <1>1, <1>2, <1>3
<1>6. \A i \in 1..Len(a) : a[i] = b[Len(b) - Len(a) + i]
  BY <1>4, <1>5
<1>7. IsSuffix(a, b)
  <2> HIDE DEF a, b
  <2> QED BY <1>5, <1>6, SuffixByIndex
<1> QED BY <1>7

-----------------------------------------------------------------------------
(* The initial states and what the invariant says *)

LEMMA InitInvariant == Init => IInv
<1> SUFFICES ASSUME Init PROVE IInv
  OBVIOUS
<1>1. <<>> \in Seq(Item)
  BY EmptySeq
<1>2. Types
  BY <1>1, ConversationAssumption DEF Init, Types, Phases
<1>3. Staged
  BY DEF Init, Staged
<1>4. Linked /\ Kept /\ Whole
  BY DEF Init, Linked, Kept, Whole, FullHistory
<1>5. Own
  <2>1. IsSuffix(<<>>, <<>>)
    BY <1>1, SuffixBasic
  <2> QED BY <2>1 DEF Init, Own
<1> QED BY <1>2, <1>3, <1>4, <1>5 DEF IInv

LEMMA InvariantImplies == IInv => TypeOK /\ OwnHistory /\ (~Postgres => FullHistory)
<1> SUFFICES ASSUME IInv
             PROVE  TypeOK /\ OwnHistory /\ (~Postgres => FullHistory)
  OBVIOUS
<1>1. TypeOK
  BY DEF IInv, Types, Staged, TypeOK
<1>2. ASSUME NEW t \in Turn, store[t] # Nothing
      PROVE  IsSuffix(store[t], full[t] \o reply[t])
  <2>1. /\ sent[t] \in Seq(Item) /\ full[t] \in Seq(Item) /\ reply[t] \in Seq(Item)
        /\ IsSuffix(sent[t], full[t])
    BY DEF IInv, Types, Own
  <2>2. IsSuffix(sent[t] \o reply[t], full[t] \o reply[t])
    BY <2>1, SuffixExtends
  <2> QED BY <1>2, <2>2 DEF IInv, Kept
<1>3. OwnHistory
  BY <1>2 DEF IInv, Own, OwnHistory
<1> QED BY <1>1, <1>3 DEF IInv, Whole

-----------------------------------------------------------------------------
(* Every step keeps the invariant *)

LEMMA SaidTyped ==
    ASSUME NEW t \in Turn, NEW who \in {"client", "model"}, NEW items \in Said(t, who)
    PROVE  items \in Seq(Item)
<1> DEFINE said == <<[turn |-> t, by |-> who]>>
<1>1. said \in Seq(Item) /\ Len(said) = 1
  BY DEF Item
<1>2. PICK n \in ItemCounts : items = SubSeq(said, 1, n)
  BY DEF Said
<1>3. n \in {0, 1}
  BY ConversationAssumption
<1> HIDE DEF said
<1> QED BY <1>1, <1>2, <1>3

LEMMA AskKeeps ==
    ASSUME IInv, NEW t \in Turn, NEW p \in known \cup {0}, Ask(t, p)
    PROVE  IInv'
<1>1. PICK items \in Said(t, "client") :
          /\ input' = [input EXCEPT ![t] = items]
          /\ full' = [full EXCEPT ![t] =
                        (IF p = 0 THEN <<>> ELSE full[p] \o reply[p]) \o items]
  BY DEF Ask
<1>2. /\ phase[t] = "unasked" /\ phase' = [phase EXCEPT ![t] = "asked"]
      /\ prev' = [prev EXCEPT ![t] = p]
      /\ managed' = managed /\ sent' = sent /\ served' = served /\ reply' = reply
      /\ captured' = captured /\ known' = known /\ pending' = pending
      /\ store' = store /\ restarts' = restarts
  BY DEF Ask
<1>3. t \notin known /\ p # t /\ sent[t] = <<>> /\ ~managed[t]
  BY <1>2, ConversationAssumption DEF IInv, Staged
<1>4. /\ items \in Seq(Item)
      /\ (IF p = 0 THEN <<>> ELSE full[p] \o reply[p]) \o items \in Seq(Item)
  <2>1. items \in Seq(Item)
    BY SaidTyped
  <2>2. (IF p = 0 THEN <<>> ELSE full[p] \o reply[p]) \in Seq(Item)
    <3>1. CASE p = 0
      BY <3>1, EmptySeq
    <3>2. CASE p # 0
      <4>1. full[p] \in Seq(Item) /\ reply[p] \in Seq(Item)
        BY <3>2 DEF IInv, Types
      <4> QED BY <3>2, <4>1, ConcatProperties
    <3> QED BY <3>1, <3>2
  <2> QED BY <2>1, <2>2, ConcatProperties
<1>5. Types'
  <2>1. known \subseteq Turn
    BY DEF IInv, Types
  <2>2. p \in 0..MaxTurns
    BY <2>1, ConversationAssumption DEF Turn
  <2> QED BY <1>1, <1>2, <1>4, <2>2 DEF IInv, Types, Phases
<1>6. Staged'
  BY <1>2 DEF IInv, Types, Staged
<1>7. Linked'
  <2> SUFFICES ASSUME NEW u \in Turn
               PROVE  /\ prev'[u] # 0 => prev'[u] \in known'
                      /\ phase'[u] # "unasked" => full'[u] = Before(u)' \o input'[u]
    BY DEF Linked
  <2>1. CASE u = t
    <3>1. prev'[u] = p /\ p \in known \cup {0} /\ known' = known
      BY <1>2, <2>1 DEF IInv, Types
    <3>2. p # 0 => full'[p] = full[p] /\ reply'[p] = reply[p]
      BY <1>1, <1>2, <1>3 DEF IInv, Types
    <3>3. Before(u)' = IF p = 0 THEN <<>> ELSE full[p] \o reply[p]
      BY <2>1, <3>1, <3>2 DEF Before
    <3>4. full'[u] = Before(u)' \o items /\ input'[u] = items
      BY <1>1, <2>1, <3>3 DEF IInv, Types
    <3>5. prev'[u] # 0 => prev'[u] \in known'
      BY <3>1
    <3>6. full'[u] = Before(u)' \o input'[u]
      BY <3>4
    <3> QED BY <3>5, <3>6
  <2>2. CASE u # t
    <3>1. prev'[u] = prev[u] /\ phase'[u] = phase[u] /\ full'[u] = full[u] /\ input'[u] = input[u]
      BY <1>1, <1>2, <2>2 DEF IInv, Types
    <3>2. prev[u] # 0 => prev[u] \in known /\ prev[u] # t
      BY <1>3 DEF IInv, Linked
    <3>3. prev[u] # 0 => full'[prev[u]] = full[prev[u]] /\ reply'[prev[u]] = reply[prev[u]]
      BY <1>1, <1>2, <3>2 DEF IInv, Types
    <3>4. Before(u)' = Before(u)
      BY <3>1, <3>3 DEF Before
    <3>5. phase[u] # "unasked" => full[u] = Before(u) \o input[u]
      BY DEF IInv, Linked
    <3>6. phase'[u] # "unasked" => full'[u] = Before(u)' \o input'[u]
      BY <3>1, <3>4, <3>5
    <3> QED BY <1>2, <3>1, <3>2, <3>6
  <2> QED BY <2>1, <2>2
<1>8. Kept'
  BY <1>2 DEF IInv, Kept
<1>9. ASSUME NEW u \in Turn, u # t
      PROVE  full'[u] = full[u]
  BY <1>1, <1>9 DEF IInv, Types
<1>10. Own'
  <2>1. full'[t] \in Seq(Item) /\ IsSuffix(<<>>, full'[t])
    BY <1>5, SuffixBasic DEF Types
  <2> QED BY <1>2, <1>3, <1>9, <2>1 DEF IInv, Own
<1>11. Whole'
  BY <1>2, <1>3, <1>9 DEF IInv, Whole, FullHistory
<1> QED BY <1>5, <1>6, <1>7, <1>8, <1>10, <1>11 DEF IInv

\* What Forward keeps, whatever it sends.
LEMMA ForwardKeeps ==
    ASSUME IInv, NEW t \in Turn, NEW manage \in BOOLEAN, NEW items \in Seq(Item),
           phase[t] = "asked", Forward(t, manage, items),
           IsSuffix(items, full[t]), ~Postgres /\ manage => items = full[t]
    PROVE  IInv'
<1>1. /\ phase' = [phase EXCEPT ![t] = "sent"]
      /\ managed' = [managed EXCEPT ![t] = manage]
      /\ sent' = [sent EXCEPT ![t] = items]
      /\ prev' = prev /\ input' = input /\ served' = served /\ reply' = reply
      /\ captured' = captured /\ known' = known /\ pending' = pending
      /\ store' = store /\ full' = full /\ restarts' = restarts
  BY DEF Forward
<1>2. captured[t] = "no" /\ store[t] = Nothing /\ t \notin pending
  BY DEF IInv, Staged
<1>3. Types'
  BY <1>1 DEF IInv, Types, Phases
<1>4. Staged'
  BY <1>1, <1>2 DEF IInv, Types, Staged
<1>5. Linked'
  <2>1. \A u \in Turn : Before(u)' = Before(u)
    BY <1>1 DEF Before
  <2> QED BY <1>1, <2>1 DEF IInv, Types, Linked
<1>6. ASSUME NEW u \in Turn
      PROVE  /\ sent'[u] = IF u = t THEN items ELSE sent[u]
             /\ managed'[u] = IF u = t THEN manage ELSE managed[u]
  BY <1>1 DEF IInv, Types
<1>7. Kept' /\ Own' /\ Whole'
  <2>1. Kept'
    BY <1>1, <1>2, <1>6 DEF IInv, Kept
  <2>2. Own'
    BY <1>1, <1>6 DEF IInv, Own
  <2>3. Whole'
    BY <1>1, <1>6 DEF IInv, Whole, FullHistory
  <2> QED BY <2>1, <2>2, <2>3
<1> QED BY <1>3, <1>4, <1>5, <1>7 DEF IInv

LEMMA ResolveKeeps ==
    ASSUME IInv, NEW t \in Turn,
           \/ LeaveToProvider(t) \/ BeginConversation(t)
           \/ Continue(t) \/ ContinueWithout(t)
    PROVE  IInv'
<1>1. /\ phase[t] = "asked" /\ full[t] = Before(t) \o input[t]
      /\ input[t] \in Seq(Item) /\ full[t] \in Seq(Item)
  BY DEF LeaveToProvider, BeginConversation, Continue, ContinueWithout, IInv, Types, Linked
<1>2. Before(t) \in Seq(Item)
  <2>1. CASE prev[t] = 0
    BY <2>1, EmptySeq DEF Before
  <2>2. CASE prev[t] # 0
    <3>1. full[prev[t]] \in Seq(Item) /\ reply[prev[t]] \in Seq(Item)
      BY <2>2 DEF IInv, Types, Linked
    <3> QED BY <2>2, <3>1, ConcatProperties DEF Before
  <2> QED BY <2>1, <2>2
<1>3. IsSuffix(input[t], full[t])
  BY <1>1, <1>2, SuffixBasic
<1>4. CASE LeaveToProvider(t)
  BY <1>1, <1>3, <1>4, ForwardKeeps DEF LeaveToProvider
<1>5. CASE BeginConversation(t)
  <2>1. Before(t) = <<>> /\ <<>> \o input[t] = input[t]
    BY <1>1, <1>5, ConcatEmptySeq DEF BeginConversation, Before
  <2> QED BY <1>1, <1>3, <1>5, <2>1, ForwardKeeps DEF BeginConversation
<1>6. CASE Continue(t)
  <2> DEFINE p == prev[t]
  <2>1. p \in Turn /\ p # 0 /\ store[p] # Nothing
    BY <1>6 DEF Continue, IInv, Types, Linked
  <2>2. /\ sent[p] \in Seq(Item) /\ reply[p] \in Seq(Item) /\ full[p] \in Seq(Item)
        /\ store[p] = sent[p] \o reply[p] /\ IsSuffix(sent[p], full[p])
        /\ Before(t) = full[p] \o reply[p] /\ managed[p]
    BY <2>1 DEF IInv, Types, Staged, Kept, Own, Before
  <2>3. store[p] \in Seq(Item) /\ IsSuffix(store[p], Before(t))
    BY <2>2, SuffixExtends, ConcatProperties
  <2>4. store[p] \o input[t] \in Seq(Item) /\ IsSuffix(store[p] \o input[t], full[t])
    BY <1>1, <1>2, <2>3, SuffixExtends, ConcatProperties
  <2>5. ~Postgres => store[p] \o input[t] = full[t]
    BY <1>1, <2>1, <2>2 DEF IInv, Whole, FullHistory
  <2> QED BY <1>1, <1>6, <2>4, <2>5, ForwardKeeps DEF Continue
<1>7. CASE ContinueWithout(t)
  BY <1>1, <1>3, <1>7, ForwardKeeps DEF ContinueWithout
<1> QED BY <1>4, <1>5, <1>6, <1>7

LEMMA ConflictKeeps ==
    ASSUME IInv, NEW t \in Turn, Conflict(t)
    PROVE  IInv'
<1>1. /\ phase[t] = "asked" /\ phase' = [phase EXCEPT ![t] = "refused"]
      /\ prev' = prev /\ input' = input /\ managed' = managed /\ sent' = sent
      /\ served' = served /\ reply' = reply /\ captured' = captured /\ known' = known
      /\ pending' = pending /\ store' = store /\ full' = full /\ restarts' = restarts
  BY DEF Conflict
<1>2. Types' /\ Staged'
  BY <1>1 DEF IInv, Types, Staged, Phases
<1>3. Linked' /\ Kept' /\ Own' /\ Whole'
  BY <1>1 DEF IInv, Types, Linked, Before, Kept, Own, Whole, FullHistory
<1> QED BY <1>2, <1>3 DEF IInv

LEMMA ServedKeeps ==
    ASSUME IInv, NEW t \in Turn, Served(t)
    PROVE  IInv'
<1>1. PICK kind \in Upstreams : served' = [served EXCEPT ![t] = kind]
  BY DEF Served
<1>2. /\ phase[t] = "sent" /\ phase' = [phase EXCEPT ![t] = "streaming"]
      /\ prev' = prev /\ input' = input /\ managed' = managed /\ sent' = sent
      /\ reply' = reply /\ captured' = captured /\ known' = known
      /\ pending' = pending /\ store' = store /\ full' = full /\ restarts' = restarts
  BY DEF Served
<1>3. Types'
  BY <1>1, <1>2, ConversationAssumption DEF IInv, Types, Phases
<1>4. Staged'
  BY <1>2 DEF IInv, Types, Staged
<1>5. Linked' /\ Kept' /\ Own' /\ Whole'
  BY <1>2 DEF IInv, Types, Linked, Before, Kept, Own, Whole, FullHistory
<1> QED BY <1>3, <1>4, <1>5 DEF IInv

LEMMA CompletedKeeps ==
    ASSUME IInv, NEW t \in Turn, Completed(t)
    PROVE  IInv'
<1>1. PICK seen \in {"yes", "split"}, items \in Said(t, "model") :
          /\ captured' = [captured EXCEPT ![t] = seen]
          /\ reply' = [reply EXCEPT ![t] = items]
  BY DEF Completed
<1>2. /\ phase[t] = "streaming" /\ phase' = [phase EXCEPT ![t] = "completed"]
      /\ prev' = prev /\ input' = input /\ managed' = managed /\ sent' = sent
      /\ served' = served /\ known' = known
      /\ pending' = pending /\ store' = store /\ full' = full /\ restarts' = restarts
  BY DEF Completed
<1>3. items \in Seq(Item)
  BY SaidTyped
<1>4. t \notin known /\ t \notin pending /\ store[t] = Nothing
  BY <1>2 DEF IInv, Staged
<1>5. Types'
  BY <1>1, <1>2, <1>3 DEF IInv, Types, Phases
<1>6. Staged'
  BY <1>1, <1>2, <1>4 DEF IInv, Types, Staged
<1>7. \A u \in Turn : u # t => reply'[u] = reply[u]
  BY <1>1 DEF IInv, Types
<1>8. Linked'
  <2> SUFFICES ASSUME NEW u \in Turn
               PROVE  /\ prev'[u] # 0 => prev'[u] \in known'
                      /\ phase'[u] # "unasked" => full'[u] = Before(u)' \o input'[u]
    BY DEF Linked
  <2>1. prev[u] # 0 => prev[u] \in Turn /\ prev[u] # t
    BY <1>4 DEF IInv, Types, Linked
  <2>2. Before(u)' = Before(u)
    BY <1>2, <1>7, <2>1 DEF Before
  <2>3. phase'[u] # "unasked" => phase[u] # "unasked"
    BY <1>2 DEF IInv, Types
  <2> QED BY <1>2, <2>2, <2>3 DEF IInv, Linked
<1>9. Kept'
  BY <1>2, <1>4, <1>7 DEF IInv, Kept
<1>10. Own' /\ Whole'
  BY <1>2 DEF IInv, Own, Whole, FullHistory
<1> QED BY <1>5, <1>6, <1>8, <1>9, <1>10 DEF IInv

LEMMA LearnIdKeeps ==
    ASSUME IInv, NEW t \in Turn, LearnId(t)
    PROVE  IInv'
<1>1. /\ captured[t] # "no" /\ known' = known \cup {t}
      /\ phase' = phase /\ prev' = prev /\ input' = input /\ managed' = managed
      /\ sent' = sent /\ served' = served /\ reply' = reply /\ captured' = captured
      /\ pending' = pending /\ store' = store /\ full' = full /\ restarts' = restarts
  BY DEF LearnId
<1>2. Types' /\ Staged'
  BY <1>1 DEF IInv, Types, Staged
<1>3. Linked' /\ Kept' /\ Own' /\ Whole'
  BY <1>1 DEF IInv, Linked, Before, Kept, Own, Whole, FullHistory
<1> QED BY <1>2, <1>3 DEF IInv

LEMMA FinishKeeps ==
    ASSUME IInv, NEW t \in Turn, Finish(t)
    PROVE  IInv'
<1>1. /\ phase[t] \in {"streaming", "completed"} /\ phase' = [phase EXCEPT ![t] = "done"]
      /\ pending' = pending \cup {u \in {t} : managed[u] /\ sent[u] # <<>> /\ captured[u] = "yes"}
      /\ prev' = prev /\ input' = input /\ managed' = managed /\ sent' = sent
      /\ served' = served /\ reply' = reply /\ captured' = captured /\ known' = known
      /\ store' = store /\ full' = full /\ restarts' = restarts
  BY DEF Finish, End
<1>2. Types' /\ Staged'
  BY <1>1 DEF IInv, Types, Staged, Phases
<1>3. Linked' /\ Kept' /\ Own' /\ Whole'
  BY <1>1 DEF IInv, Types, Linked, Before, Kept, Own, Whole, FullHistory
<1> QED BY <1>2, <1>3 DEF IInv

LEMMA StoredKeeps ==
    ASSUME IInv, NEW t \in Turn, Stored(t) \/ StoreFails(t)
    PROVE  IInv'
<1>1. /\ t \in pending /\ pending' = pending \ {t}
      /\ store' \in {store, [store EXCEPT ![t] = sent[t] \o reply[t]]}
      /\ phase' = phase /\ prev' = prev /\ input' = input /\ managed' = managed
      /\ sent' = sent /\ served' = served /\ reply' = reply /\ captured' = captured
      /\ known' = known /\ full' = full /\ restarts' = restarts
  BY DEF Stored, StoreFails
<1>2. managed[t] /\ captured[t] # "no"
  BY <1>1 DEF IInv, Staged
<1>3. sent[t] \o reply[t] \in Seq(Item)
  BY ConcatProperties DEF IInv, Types
<1>4. \A u \in Turn : store'[u] = store[u] \/ (u = t /\ store'[u] = sent[t] \o reply[t])
  BY <1>1 DEF IInv, Types
<1>5. Types'
  <2>1. store' \in [Turn -> Seq(Item) \cup {Nothing}]
    BY <1>1, <1>3 DEF IInv, Types
  <2>2. pending' \subseteq Turn
    BY <1>1 DEF IInv, Types
  <2> QED BY <1>1, <2>1, <2>2 DEF IInv, Types
<1>6. Staged'
  BY <1>1, <1>2, <1>4 DEF IInv, Staged
<1>7. Kept'
  BY <1>1, <1>4 DEF IInv, Kept
<1>8. Linked' /\ Own' /\ Whole'
  BY <1>1 DEF IInv, Linked, Before, Own, Whole, FullHistory
<1> QED BY <1>5, <1>6, <1>7, <1>8 DEF IInv

LEMMA RestartKeeps == IInv /\ Restart => IInv'
<1> SUFFICES ASSUME IInv, Restart PROVE IInv'
  OBVIOUS
<1>1. /\ restarts < MaxRestarts /\ restarts' = restarts + 1 /\ pending' = {}
      /\ phase' = [t \in Turn |-> IF phase[t] \in Final \cup {"unasked"}
                                  THEN phase[t] ELSE "lost"]
      /\ store' \in {store, [t \in Turn |-> Nothing]}
      /\ prev' = prev /\ input' = input /\ managed' = managed /\ sent' = sent
      /\ served' = served /\ reply' = reply /\ captured' = captured
      /\ known' = known /\ full' = full
  BY DEF Restart
<1>2. \A t \in Turn : /\ phase'[t] \in {phase[t], "lost"}
                      /\ phase[t] = "unasked" <=> phase'[t] = "unasked"
                      /\ store'[t] \in {store[t], Nothing}
  BY <1>1 DEF IInv, Types
<1>3. Types'
  <2>1. phase' \in [Turn -> Phases]
    BY <1>1 DEF IInv, Types, Phases
  <2>2. store' \in [Turn -> Seq(Item) \cup {Nothing}]
    BY <1>1 DEF IInv, Types
  <2>3. restarts' \in 0..MaxRestarts
    BY <1>1, ConversationAssumption DEF IInv, Types
  <2> QED BY <1>1, <2>1, <2>2, <2>3 DEF IInv, Types
<1>4. Staged'
  BY <1>1, <1>2 DEF IInv, Staged
<1>5. Linked'
  BY <1>1, <1>2 DEF IInv, Linked, Before
<1>6. Kept' /\ Own' /\ Whole'
  BY <1>1, <1>2 DEF IInv, Kept, Own, Whole, FullHistory
<1> QED BY <1>3, <1>4, <1>5, <1>6 DEF IInv

LEMMA StutterKeeps == IInv /\ UNCHANGED vars => IInv'
BY DEF vars, IInv, Types, Staged, Linked, Before, Kept, Own, Whole, FullHistory

LEMMA NextKeeps == IInv /\ [Next]_vars => IInv'
<1> SUFFICES ASSUME IInv, [Next]_vars PROVE IInv'
  OBVIOUS
<1>1. ASSUME NEW t \in Turn, NEW p \in known \cup {0}, Ask(t, p)
      PROVE  IInv'
  BY <1>1, AskKeeps
<1>2. ASSUME NEW t \in Turn,
             LeaveToProvider(t) \/ BeginConversation(t) \/ Continue(t) \/ ContinueWithout(t)
      PROVE  IInv'
  BY <1>2, ResolveKeeps
<1>3. ASSUME NEW t \in Turn, Conflict(t) \/ Served(t) \/ Completed(t)
      PROVE  IInv'
  BY <1>3, ConflictKeeps, ServedKeeps, CompletedKeeps
<1>4. ASSUME NEW t \in Turn, LearnId(t) \/ Finish(t)
      PROVE  IInv'
  BY <1>4, LearnIdKeeps, FinishKeeps
<1>5. ASSUME NEW t \in Turn, Stored(t) \/ StoreFails(t)
      PROVE  IInv'
  BY <1>5, StoredKeeps
<1>6. CASE Restart
  BY <1>6, RestartKeeps
<1>7. CASE UNCHANGED vars
  BY <1>7, StutterKeeps
<1> HIDE DEF Turn
<1> QED BY <1>1, <1>2, <1>3, <1>4, <1>5, <1>6, <1>7 DEF Next, Over

-----------------------------------------------------------------------------
(* The theorems *)

\* The invariant holds in every reachable state.
THEOREM Invariance == Spec => []IInv
BY InitInvariant, NextKeeps, PTL DEF Spec

\* A turn's state is only ever put or stored when it is kept here, and put
\* only once its stream has ended.
THEOREM ConversationTypeCorrect == Spec => []TypeOK
BY Invariance, InvariantImplies, PTL

\* What a turn sends and stores is the end of its own conversation.
THEOREM OnlyOwnHistory == Spec => []OwnHistory
BY Invariance, InvariantImplies, PTL

\* With the state in memory, an accepted turn whose state is kept here sends
\* all of its conversation.
THEOREM MemoryKeepsHistory == ~Postgres => (Spec => []FullHistory)
<1> SUFFICES ASSUME ~Postgres PROVE Spec => []FullHistory
  OBVIOUS
<1>1. IInv => FullHistory
  BY InvariantImplies
<1> QED BY <1>1, Invariance, PTL

=============================================================================
