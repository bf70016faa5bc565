----------------------- MODULE StreamConversionProofs ------------------------
(***************************************************************************)
(* What a client is sent of a converted stream, proved for any number of   *)
(* events, chunks of any length and any cuts: the protocol of its API, and *)
(* every piece of content once, in order and, of a stream that was neither *)
(* broken nor unreadable, without a gap.                                   *)
(***************************************************************************)
EXTENDS StreamConversion, FiniteSetTheorems, WellFoundedInduction, TLAPS

\* What a client has read, and the state it is in.
Phases == {"none", "created", "open", "ended", "stopped", "completed"}

Seen == [phase : Phases, block : Int, filled : Int, added : Seq(Nat), done : Seq(Nat)]

Reader == [seen : Seen, pieces : Seq(Nat)]

Members(list) == {list[i] : i \in DOMAIN list}

Content(format, e) == PiecesIn(format, e) \ {-1, 0}

\* When a Messages client may be sent an event (MessagesEnvelope).
ProperMessage(mode, s, e) ==
    LET within == s.phase = "open" \/ (mode # "strict" /\ s.phase = "ended")
    IN  CASE e.type = "message_start" -> s.phase = "none" \/ (mode # "strict" /\ s.phase # "stopped")
          [] e.type = "content_block_start" ->
                within /\ e.index \in Nat /\ (mode = "strict" => s.block = -1)
          [] e.type = "content_block_delta" ->
                within /\ e.index \in Nat /\ (mode = "strict" => e.index = s.block)
          [] e.type = "content_block_stop" -> within /\ (mode = "strict" => s.block # -1)
          [] e.type = "message_delta" -> within /\ (mode = "strict" => s.block = -1)
          [] e.type = "message_stop" -> s.phase = "ended"
          [] e.type = "ping" -> TRUE
          [] OTHER -> FALSE

\* When a Responses client may be sent an event (ResponseLifecycle); nothing
\* follows the end of a stream that keeps to its protocol (`mode`).
ProperResponse(mode, s, e) ==
    LET within == s.phase = "open" \/ (mode # "strict" /\ s.phase = "completed")
    IN  /\ mode # "any" => s.phase # "completed"
        /\ CASE e.type = "created"     -> s.phase = "none"
             [] e.type = "in_progress" -> s.phase = "created"
             [] e.type = "item_added"  -> within /\ e.item \in Nat \ Members(s.added)
             [] e.type \in {"text_delta", "args_delta"} ->
                   within /\ e.item \in Members(s.added) /\ (mode = "strict" => e.item \notin Members(s.done))
             [] e.type \in {"text_done", "args_done"} -> TRUE
             [] e.type = "item_done" ->
                   /\ s.phase = "open" /\ e.item \in Members(s.added)
                   /\ mode = "strict" => e.item \notin Members(s.done)
             [] e.type = "completed" -> s.phase = "open" /\ Members(s.done) = Members(s.added)
             [] OTHER -> FALSE

Proper(format, mode, s, e) ==
    CASE format = "messages"  -> ProperMessage(mode, s, e)
      [] format = "responses" -> ProperResponse(mode, s, e)
      [] format = "chat"      -> TRUE

\* A client reads an event that is proper and whose piece is a later one.
Reads(format, mode, c, e, d) ==
    /\ Proper(format, mode, c.seen, e)
    /\ d.seen = Read(format, c.seen, e)
    /\ \/ Content(format, e) = {} /\ d.pieces = c.pieces
       \/ \E n \in Nat : /\ Content(format, e) = {n}
                         /\ \A i \in DOMAIN c.pieces : c.pieces[i] < n
                         /\ d.pieces = Append(c.pieces, n)

IsList(out) == \E S : out \in Seq(S)

\* A client in state c that is sent `out` comes, step by step, to state d.
Reaches(format, mode, c, out, d) ==
    /\ IsList(out)
    /\ \E run \in [0..Len(out) -> Reader] :
          /\ run[0] = c /\ run[Len(out)] = d
          /\ \A i \in 1..Len(out) : Reads(format, mode, run[i - 1], out[i], run[i])

-----------------------------------------------------------------------------
\* How a client that has read everything stands to the buffer.

MessagesEvent ==
    {e \in [type : {"message_start", "content_block_start", "content_block_delta",
                    "content_block_stop", "message_delta", "message_stop", "ping"},
            index : Int, piece : Int, usage : BOOLEAN] :
        e.type \in {"content_block_start", "content_block_delta"} => e.index \in Nat}

MessagesBuffer ==
    [out : Seq(MessagesEvent), started : BOOLEAN, stopped : BOOLEAN,
     blocks : SUBSET Nat, open : BOOLEAN, delta : BOOLEAN]

\* What is so whatever the upstream sends.
PhaseOf(s, b) ==
    /\ b \in MessagesBuffer
    /\ s.phase \in {"none", "open", "ended", "stopped"}
    /\ (s.phase = "none") <=> ~b.started
    /\ (s.phase = "stopped") <=> b.stopped
    /\ (s.phase = "ended") <=> (b.delta /\ ~b.stopped)

\* The only block is not yet there, open, or closed.
Fresh(s, b)  == b.blocks = {} /\ ~b.open /\ s.block = -1
Filled(s, b) == b.blocks = {0} /\ b.open /\ s.block = 0
Closed(s, b) == b.blocks = {0} /\ ~b.open /\ s.block = -1

Going(b) == ~b.delta /\ ~b.stopped

Finishing(s, b) ==
    \/ b.stopped
    \/ b.delta /\ ~b.open /\ s.block = -1
    \/ ~b.delta /\ (Fresh(s, b) \/ Filled(s, b))

\* What is so, place by place, for an upstream that keeps to its protocol.
Placed(api, place, s, b) ==
    /\ place = "start" => Going(b) /\ Fresh(s, b) /\ ~b.started
    /\ place = "body"  => Going(b) /\ (Fresh(s, b) \/ (api = "openai" /\ Filled(s, b)))
    /\ place = "block" => Going(b) /\ Filled(s, b)
    /\ place = "body2" => Going(b) /\ Closed(s, b)
    /\ place = "finished" => Finishing(s, b)
    /\ place = "closing" /\ api = "openai" => Finishing(s, b)
    /\ place = "closing" /\ api = "bedrock" =>
          \/ b.stopped
          \/ /\ b.delta /\ ~b.open /\ s.block = -1
             /\ Len(b.out) > 0 /\ b.out[Len(b.out)].type = "message_delta"

Late == {"finished", "closing", "over"}

Held(content) == IF 0 \in DOMAIN content THEN content[0] ELSE <<>>

\* What is so of a Responses client whatever the upstream sends.
ResponseBuffer(b) ==
    /\ b \in [out : {b.out}, seq : {b.seq}, created : BOOLEAN, finalized : BOOLEAN,
              added : SUBSET {0}, text : {b.text}, args : {b.args}, named : {b.named},
              completed : {b.completed}]
    /\ DOMAIN b.text \subseteq {0} /\ b.text \in [DOMAIN b.text -> Seq(Nat)]
    /\ DOMAIN b.args \subseteq {0} /\ b.args \in [DOMAIN b.args -> Seq(Nat)]

LifeOf(s, b) ==
    /\ ResponseBuffer(b)
    /\ b.added = DOMAIN b.text \cup DOMAIN b.args
    /\ s.phase \in {"none", "open", "completed"}
    /\ (s.phase = "none") <=> ~b.created
    /\ (s.phase = "completed") <=> b.finalized
    /\ s.added = IF b.added = {} THEN <<>> ELSE <<0>>
    /\ ~b.finalized => s.done = <<>>

\* What is so, as well, when it keeps to its protocol.
Holds(api, kind, place, c, b) ==
    /\ b.finalized => place \in Late /\ b.completed = Output(b)
    /\ kind = "text" => DOMAIN b.args = {} /\ c.pieces = Held(b.text)
    /\ kind = "tool" => /\ c.pieces = Held(b.args) /\ Held(b.text) = <<>>
                        /\ api = "openai" => DOMAIN b.text = {}

Linked(format, api, kind, mode, c, b, place, sent) ==
    /\ format = "messages" => /\ PhaseOf(c.seen, b)
                              /\ mode = "strict" => Placed(api, place, c.seen, b)
    /\ format = "responses" => LifeOf(c.seen, b) /\ (kind # "any" => Holds(api, kind, place, c, b))
    /\ format = "chat" => b \in [out : {b.out}]
    /\ \A i \in DOMAIN c.pieces : c.pieces[i] <= sent
    /\ mode \in {"strict", "shared"} => Len(c.pieces) = sent

-----------------------------------------------------------------------------
\* Lists, and what is read of them.

\* What a list becomes by one more event.
LEMMA Pushed ==
    ASSUME NEW out, IsList(out), NEW e
    PROVE  /\ IsList(Append(out, e))
           /\ Len(out) \in Nat
           /\ Len(Append(out, e)) = Len(out) + 1
           /\ \A i \in 1..Len(out) : Append(out, e)[i] = out[i]
           /\ Append(out, e)[Len(out) + 1] = e
<1>1. PICK S : out \in Seq(S)
  BY DEF IsList
<1>2. out \in Seq(S \cup {e}) /\ e \in S \cup {e}
  BY <1>1
<1>3. Append(out, e) \in Seq(S \cup {e})
  BY <1>2
<1>4. IsList(Append(out, e))
  BY <1>3 DEF IsList
<1>5. QED BY <1>2, <1>4

\* What is left of a list without its first event.
LEMMA Taken ==
    ASSUME NEW out, IsList(out), out # <<>>
    PROVE  /\ IsList(Tail(out))
           /\ Len(out) \in Nat \ {0}
           /\ Len(Tail(out)) = Len(out) - 1
           /\ Head(out) = out[1]
           /\ \A i \in 1..(Len(out) - 1) : Tail(out)[i] = out[i + 1]
<1>1. PICK S : out \in Seq(S)
  BY DEF IsList
<1>2. Tail(out) \in Seq(S)
  BY <1>1
<1>3. QED BY <1>1, <1>2 DEF IsList

\* A client that is sent nothing stays as it is ...
LEMMA ReachesNothing ==
    ASSUME NEW format, NEW mode, NEW c \in Reader
    PROVE  Reaches(format, mode, c, <<>>, c)
<1>1. IsList(<<>>)
  <2>1. <<>> \in Seq({})
    OBVIOUS
  <2>2. QED BY <2>1 DEF IsList
<1> DEFINE run == [i \in 0..0 |-> c]
<1>2. Len(<<>>) = 0 /\ run \in [0..0 -> Reader] /\ run[0] = c /\ 1..0 = {}
  OBVIOUS
<1> HIDE DEF run
<1>3. \A i \in 1..Len(<<>>) : Reads(format, mode, run[i - 1], <<>>[i], run[i])
  BY <1>2
<1>4. QED BY <1>1, <1>2, <1>3 DEF Reaches

\* ... and only that.
LEMMA NothingReaches ==
    ASSUME NEW format, NEW mode, NEW c, NEW d,
           Reaches(format, mode, c, <<>>, d)
    PROVE  d = c
BY DEF Reaches

\* Both ends of a reading are states of a client.
LEMMA Readers ==
    ASSUME NEW format, NEW mode, NEW c, NEW out, NEW d,
           Reaches(format, mode, c, out, d)
    PROVE  c \in Reader /\ d \in Reader /\ IsList(out)
<1>1. Len(out) \in Nat
  BY Pushed DEF Reaches
<1>2. QED BY <1>1 DEF Reaches

\* One more event, which the client may be sent, is read after the others.
LEMMA ReachesMore ==
    ASSUME NEW format, NEW mode, NEW c, NEW out, NEW d,
           Reaches(format, mode, c, out, d),
           NEW e, NEW next \in Reader, Reads(format, mode, d, e, next)
    PROVE  Reaches(format, mode, c, Append(out, e), next)
<1> DEFINE more == Append(out, e)
           N == Len(out)
<1>0. IsList(out)
  BY DEF Reaches
<1>1. /\ IsList(more) /\ N \in Nat /\ Len(more) = N + 1
      /\ \A i \in 1..N : more[i] = out[i]
      /\ more[N + 1] = e
  BY <1>0, Pushed
<1>2. PICK run \in [0..N -> Reader] :
          /\ run[0] = c /\ run[N] = d
          /\ \A i \in 1..N : Reads(format, mode, run[i - 1], out[i], run[i])
  BY DEF Reaches
<1> HIDE DEF more, N
<1> DEFINE far == [i \in 0..(N + 1) |-> IF i = N + 1 THEN next ELSE run[i]]
<1>3. far \in [0..Len(more) -> Reader] /\ far[0] = c /\ far[Len(more)] = next
  BY <1>1, <1>2
<1>4. ASSUME NEW i \in 1..Len(more)
      PROVE  Reads(format, mode, far[i - 1], more[i], far[i])
  <2>1. CASE i = N + 1
    BY <2>1, <1>1, <1>2
  <2>2. CASE i \in 1..N
    BY <2>2, <1>1, <1>2
  <2>3. QED BY <2>1, <2>2, <1>1
<1>5. QED BY <1>1, <1>3, <1>4 DEF Reaches, more

\* The first event is read first, and then the others.
LEMMA ReachesFirst ==
    ASSUME NEW format, NEW mode, NEW c, NEW out, NEW d,
           Reaches(format, mode, c, out, d), out # <<>>
    PROVE  \E next \in Reader : /\ Reads(format, mode, c, Head(out), next)
                                /\ Reaches(format, mode, next, Tail(out), d)
<1> DEFINE rest == Tail(out)
           N == Len(out)
<1>0. IsList(out)
  BY DEF Reaches
<1>1. /\ IsList(rest) /\ N \in Nat \ {0} /\ Len(rest) = N - 1 /\ Head(out) = out[1]
      /\ \A i \in 1..(N - 1) : rest[i] = out[i + 1]
  BY <1>0, Taken
<1>2. PICK run \in [0..N -> Reader] :
          /\ run[0] = c /\ run[N] = d
          /\ \A i \in 1..N : Reads(format, mode, run[i - 1], out[i], run[i])
  BY DEF Reaches
<1> HIDE DEF rest, N
<1> DEFINE near == [i \in 0..(N - 1) |-> run[i + 1]]
<1>3. near \in [0..Len(rest) -> Reader] /\ near[0] = run[1] /\ near[Len(rest)] = d
  BY <1>1, <1>2
<1>4. ASSUME NEW i \in 1..Len(rest)
      PROVE  Reads(format, mode, near[i - 1], rest[i], near[i])
  <2>1. i + 1 \in 1..N /\ near[i - 1] = run[i] /\ near[i] = run[i + 1] /\ rest[i] = out[i + 1]
    BY <1>1
  <2>2. Reads(format, mode, run[(i + 1) - 1], out[i + 1], run[i + 1])
    BY <2>1, <1>2
  <2>3. (i + 1) - 1 = i
    BY <1>1
  <2>4. QED BY <2>1, <2>2, <2>3
<1>5. Reaches(format, mode, run[1], rest, d)
  BY <1>1, <1>3, <1>4 DEF Reaches
<1>6. Reads(format, mode, c, Head(out), run[1]) /\ run[1] \in Reader
  <2>1. Reads(format, mode, run[1 - 1], out[1], run[1])
    BY <1>1, <1>2
  <2>2. QED BY <2>1, <1>1, <1>2
<1>7. QED BY <1>5, <1>6 DEF rest

\* The last event that was read, and one that is read alike in its place.
LEMMA ReachesLast ==
    ASSUME NEW format, NEW mode, NEW c, NEW out, NEW d,
           Reaches(format, mode, c, out, d), Len(out) > 0
    PROVE  \E x \in Reader : Reads(format, mode, x, out[Len(out)], d)
<1>1. Len(out) \in Nat
  BY Pushed DEF Reaches
<1>2. PICK run \in [0..Len(out) -> Reader] :
          /\ run[Len(out)] = d
          /\ \A i \in 1..Len(out) : Reads(format, mode, run[i - 1], out[i], run[i])
  BY DEF Reaches
<1>3. Len(out) \in 1..Len(out) /\ Len(out) - 1 \in 0..Len(out)
  BY <1>1
<1>4. QED BY <1>2, <1>3

\* The last event written may be exchanged for one that reads alike.
LEMMA ReachesAlike ==
    ASSUME NEW format, NEW mode, NEW c, NEW out, NEW d,
           Reaches(format, mode, c, out, d),
           NEW other, IsList(other), Len(other) = Len(out), Len(out) > 0,
           \A i \in 1..(Len(out) - 1) : other[i] = out[i],
           \A x, y \in Reader : Reads(format, mode, x, out[Len(out)], y)
                             => Reads(format, mode, x, other[Len(out)], y)
    PROVE  Reaches(format, mode, c, other, d)
<1> DEFINE N == Len(out)
<1>1. N \in Nat
  BY Pushed DEF Reaches
<1>2. PICK run \in [0..N -> Reader] :
          /\ run[0] = c /\ run[N] = d
          /\ \A i \in 1..N : Reads(format, mode, run[i - 1], out[i], run[i])
  BY DEF Reaches
<1> HIDE DEF N
<1>3. ASSUME NEW i \in 1..N PROVE Reads(format, mode, run[i - 1], other[i], run[i])
  <2>1. CASE i = N
    <3>1. run[i - 1] \in Reader /\ run[i] \in Reader
      BY <1>1, <1>2
    <3>2. Reads(format, mode, run[i - 1], out[i], run[i])
      BY <1>2
    <3>3. QED BY <2>1, <3>1, <3>2 DEF N
  <2>2. CASE i \in 1..(N - 1)
    BY <2>2, <1>1, <1>2 DEF N
  <2>3. QED BY <2>1, <2>2, <1>1
<1>4. QED BY <1>2, <1>3 DEF Reaches, N

-----------------------------------------------------------------------------
\* Ascending, of the sets there are.

\* An event that bears nothing adds nothing ...
LEMMA AscendingNone == Ascending({}) = <<>>
<1>1. Cardinality({}) = 0
  BY FS_EmptySet
<1>2. <<>> \in [1..0 -> {}] /\ \A s \in [1..0 -> {}] : s = <<>>
  OBVIOUS
<1>3. \A i, j \in DOMAIN <<>> : i < j => <<>>[i] < <<>>[j]
  OBVIOUS
<1>4. QED BY <1>1, <1>2, <1>3 DEF Ascending

\* ... and one with one piece adds that.
LEMMA AscendingOne ==
    ASSUME NEW n \in Int
    PROVE  Ascending({n}) = <<n>>
<1>1. Cardinality({n}) = 1
  BY FS_Singleton
<1>2. <<n>> \in [1..1 -> {n}] /\ \A s \in [1..1 -> {n}] : s = <<n>>
  OBVIOUS
<1>3. \A i, j \in DOMAIN <<n>> : i < j => <<n>>[i] < <<n>>[j]
  OBVIOUS
<1>4. QED BY <1>1, <1>2, <1>3 DEF Ascending

-----------------------------------------------------------------------------
\* The Messages client and its buffer.

\* A client in state d when it has read e.
After(d, e) ==
    [seen   |-> ReadMessage(d.seen, e),
     pieces |-> IF e.type = "content_block_delta" THEN Append(d.pieces, e.piece) ELSE d.pieces]

\* A client in state c that is sent what is in the buffer comes to state d.
Carried(mode, c, b, d) ==
    Reaches("messages", mode, c, b.out, d) /\ PhaseOf(d.seen, b)

\* The events of a stream whose next piece is n.
Says(e, n) == e \in MessagesEvent /\ (e.type = "content_block_delta" => e.piece = n)

\* A Messages client that read an event is in some state ...
LEMMA AfterIsReader ==
    ASSUME NEW d \in Reader, NEW n \in Nat, NEW e, Says(e, n)
    PROVE  After(d, e) \in Reader
<1>1. ReadMessage(d.seen, e) \in Seen
  <2>1. d.seen \in Seen /\ e.index \in Int
    BY DEF Says, MessagesEvent, Reader
  <2>2. ASSUME NEW s \in Seen, NEW k \in Int
        PROVE  /\ [s EXCEPT !.phase = IF @ = "none" THEN "open" ELSE @] \in Seen
               /\ [s EXCEPT !.block = k, !.filled = -1] \in Seen
               /\ [s EXCEPT !.filled = k] \in Seen
               /\ [s EXCEPT !.block = -1, !.filled = -1] \in Seen
               /\ [s EXCEPT !.phase = "ended"] \in Seen
               /\ [s EXCEPT !.phase = "stopped"] \in Seen
    <3>1. -1 \in Int /\ s.phase \in Phases
      BY DEF Seen
    <3>2. (IF s.phase = "none" THEN "open" ELSE s.phase) \in Phases
      BY <3>1 DEF Phases
    <3>3. [s EXCEPT !.phase = IF @ = "none" THEN "open" ELSE @] \in Seen
      BY <3>2 DEF Seen
    <3>4. /\ [s EXCEPT !.block = k, !.filled = -1] \in Seen
          /\ [s EXCEPT !.block = -1, !.filled = -1] \in Seen
      BY <3>1 DEF Seen
    <3>5. [s EXCEPT !.filled = k] \in Seen
      BY DEF Seen
    <3>6. [s EXCEPT !.phase = "ended"] \in Seen /\ [s EXCEPT !.phase = "stopped"] \in Seen
      BY DEF Seen, Phases
    <3>7. QED BY <3>3, <3>4, <3>5, <3>6
  <2>3. e.type \in {"message_start", "content_block_start", "content_block_delta",
                   "content_block_stop", "message_delta", "message_stop", "ping"}
    BY DEF Says, MessagesEvent
  <2>4. QED BY <2>1, <2>2, <2>3 DEF ReadMessage
<1>2. e.type = "content_block_delta" => Append(d.pieces, e.piece) \in Seq(Nat)
  BY DEF Says, Reader
<1>3. QED BY <1>1, <1>2 DEF After, Reader

\* ... namely this one.
LEMMA AfterFields ==
    ASSUME NEW d \in Reader, NEW n \in Nat, NEW e, Says(e, n)
    PROVE  /\ After(d, e).pieces = IF e.type = "content_block_delta" THEN Append(d.pieces, n)
                                                                     ELSE d.pieces
           /\ e.type = "message_start" =>
                 /\ After(d, e).seen.phase = IF d.seen.phase = "none" THEN "open" ELSE d.seen.phase
                 /\ After(d, e).seen.block = d.seen.block
           /\ e.type = "content_block_start" =>
                 After(d, e).seen.phase = d.seen.phase /\ After(d, e).seen.block = e.index
           /\ e.type = "content_block_delta" =>
                 After(d, e).seen.phase = d.seen.phase /\ After(d, e).seen.block = d.seen.block
           /\ e.type = "content_block_stop" =>
                 After(d, e).seen.phase = d.seen.phase /\ After(d, e).seen.block = -1
           /\ e.type = "message_delta" =>
                 After(d, e).seen.phase = "ended" /\ After(d, e).seen.block = d.seen.block
           /\ e.type = "message_stop" =>
                 After(d, e).seen.phase = "stopped" /\ After(d, e).seen.block = d.seen.block
           /\ e.type = "ping" =>
                 After(d, e).seen.phase = d.seen.phase /\ After(d, e).seen.block = d.seen.block
<1>1. d.seen \in Seen
  BY DEF Reader
<1>2. QED BY <1>1 DEF After, Says, MessagesEvent, ReadMessage, Seen

\* Of content, it keeps the piece and stays where it is.
LEMMA AfterDelta ==
    ASSUME NEW d \in Reader, NEW n \in Nat, NEW e, Says(e, n), e.type = "content_block_delta"
    PROVE  /\ After(d, e).pieces = Append(d.pieces, n)
           /\ After(d, e).seen.phase = d.seen.phase
           /\ After(d, e).seen.block = d.seen.block
<1> DEFINE f == After(d, e)
<1>1. /\ f.pieces = IF e.type = "content_block_delta" THEN Append(d.pieces, n) ELSE d.pieces
      /\ e.type = "content_block_delta" => f.seen.phase = d.seen.phase /\ f.seen.block = d.seen.block
  <2> HIDE DEF f
  <2>1. QED BY AfterFields DEF f
<1> HIDE DEF f
<1>2. QED BY <1>1 DEF f

\* A proper event can be sent after all others.
LEMMA Sending ==
    ASSUME NEW mode, NEW c, NEW d, NEW out \in Seq(MessagesEvent),
           Reaches("messages", mode, c, out, d),
           NEW n \in Nat \ {0}, \A i \in DOMAIN d.pieces : d.pieces[i] < n,
           NEW e, Says(e, n), ProperMessage(mode, d.seen, e)
    PROVE  /\ Reaches("messages", mode, c, Append(out, e), After(d, e))
           /\ Append(out, e) \in Seq(MessagesEvent)
           /\ After(d, e) \in Reader /\ d \in Reader
<1>1. d \in Reader
  BY Readers
<1>2. After(d, e) \in Reader
  BY <1>1, AfterIsReader
<1>3. Content("messages", e) = IF e.type = "content_block_delta" THEN {n} ELSE {}
  BY DEF Content, PiecesIn, Says
<1>4. Reads("messages", mode, d, e, After(d, e))
  <2>1. Proper("messages", mode, d.seen, e)
    BY DEF Proper
  <2>2. After(d, e).seen = Read("messages", d.seen, e)
    BY DEF After, Read
  <2>3. CASE e.type = "content_block_delta"
    <3>1. After(d, e).pieces = Append(d.pieces, n)
      BY <2>3 DEF After, Says
    <3>2. QED BY <1>3, <2>1, <2>2, <2>3, <3>1 DEF Reads
  <2>4. CASE e.type # "content_block_delta"
    <3>1. After(d, e).pieces = d.pieces
      BY <2>4 DEF After
    <3>2. QED BY <1>3, <2>1, <2>2, <2>4, <3>1 DEF Reads
  <2>5. QED BY <2>3, <2>4
<1>5. QED BY <1>1, <1>2, <1>4, ReachesMore DEF Says

\* The events the buffer makes itself.
LEMMA OwnEvents ==
    ASSUME NEW n
    PROVE  /\ Says(MessageStart, n) /\ MessageStart.type = "message_start"
           /\ Says(BlockStart(0), n) /\ BlockStart(0).type = "content_block_start"
           /\ BlockStart(0).index = 0
           /\ Says(BlockStop(0), n) /\ BlockStop(0).type = "content_block_stop"
           /\ Says(MessageDelta(FALSE), n) /\ MessageDelta(FALSE).type = "message_delta"
           /\ Says(MessageStop, n) /\ MessageStop.type = "message_stop"
BY DEF Says, MessagesEvent, MessageStart, BlockStart, BlockStop, MessageDelta, MessageStop, Message

\* The fields of the Messages buffer have their types.
LEMMA BufferFields ==
    ASSUME NEW b \in MessagesBuffer
    PROVE  /\ b.out \in Seq(MessagesEvent) /\ b.started \in BOOLEAN /\ b.stopped \in BOOLEAN
           /\ b.blocks \in SUBSET Nat /\ b.open \in BOOLEAN /\ b.delta \in BOOLEAN
BY DEF MessagesBuffer

\* The rest of a buffer, whatever is in it.
Shaped(t) ==
    t \in [out : {t.out}, started : BOOLEAN, stopped : BOOLEAN,
           blocks : SUBSET Nat, open : BOOLEAN, delta : BOOLEAN]

\* The phase of a client that has read everything.
PhaseBy(t) ==
    IF t.stopped THEN "stopped"
    ELSE IF t.delta THEN "ended"
    ELSE IF t.started THEN "open" ELSE "none"

\* An event is pushed, with whatever it changes in the buffer beside.
LEMMA Pushing ==
    ASSUME NEW mode, NEW c, NEW b, NEW d, Carried(mode, c, b, d),
           NEW n \in Nat \ {0}, \A i \in DOMAIN d.pieces : d.pieces[i] < n,
           NEW e, Says(e, n), ProperMessage(mode, d.seen, e),
           NEW t, t.out = Append(b.out, e), Shaped(t),
           After(d, e).seen.phase = PhaseBy(t), t.stopped \/ t.delta => t.started
    PROVE  Carried(mode, c, t, After(d, e)) /\ After(d, e) \in Reader
<1>1. d \in Reader /\ b \in MessagesBuffer /\ b.out \in Seq(MessagesEvent)
  BY Readers, BufferFields DEF Carried, PhaseOf
<1>2. /\ Reaches("messages", mode, c, t.out, After(d, e))
      /\ t.out \in Seq(MessagesEvent) /\ After(d, e) \in Reader
  BY <1>1, Sending DEF Carried
<1>3. t \in MessagesBuffer
  BY <1>2 DEF MessagesBuffer, Shaped
<1>4. PhaseOf(After(d, e).seen, t)
  BY <1>3, BufferFields DEF PhaseOf, PhaseBy
<1>5. QED BY <1>2, <1>4 DEF Carried

\* What the phase of the client is, and that its pieces are the same.
LEMMA PhaseIs ==
    ASSUME NEW mode, NEW c, NEW b, NEW d, Carried(mode, c, b, d)
    PROVE  /\ d \in Reader /\ b \in MessagesBuffer
           /\ d.seen.phase = PhaseBy(b)
           /\ b.stopped \/ b.delta => b.started
<1>1. d \in Reader /\ b \in MessagesBuffer
  BY Readers DEF Carried, PhaseOf
<1>2. QED BY <1>1, BufferFields DEF Carried, PhaseOf, PhaseBy

\* The message is started, if it was not.
LEMMA Opening ==
    ASSUME NEW mode, NEW c, NEW b, NEW d, Carried(mode, c, b, d), ~b.stopped,
           NEW n \in Nat \ {0}, \A i \in DOMAIN d.pieces : d.pieces[i] < n
    PROVE  \E next \in Reader :
              /\ Carried(mode, c, EnsureMessageStarted(b), next)
              /\ next.pieces = d.pieces /\ next.seen.block = d.seen.block
              /\ EnsureMessageStarted(b).started
              /\ ~EnsureMessageStarted(b).stopped
              /\ EnsureMessageStarted(b).blocks = b.blocks
              /\ EnsureMessageStarted(b).open = b.open
              /\ EnsureMessageStarted(b).delta = b.delta
              /\ b.started => EnsureMessageStarted(b) = b
<1>1. d \in Reader /\ b \in MessagesBuffer /\ d.seen.phase = PhaseBy(b)
      /\ (b.delta => b.started)
  BY PhaseIs
<1>2. CASE b.started
  BY <1>1, <1>2 DEF EnsureMessageStarted
<1>3. CASE ~b.started
  <2> DEFINE s == EnsureMessageStarted(b)
             next == After(d, MessageStart)
  <2>1. Says(MessageStart, n) /\ MessageStart.type = "message_start"
    BY OwnEvents
  <2>2. /\ s.out = Append(b.out, MessageStart) /\ s.started = TRUE
        /\ s.stopped = b.stopped /\ s.blocks = b.blocks /\ s.open = b.open /\ s.delta = b.delta
        /\ Shaped(s)
    BY <1>1, <1>3 DEF EnsureMessageStarted, Push, MessagesBuffer, Shaped
  <2>3. d.seen.phase = "none" /\ ~b.delta
    BY <1>1, <1>3 DEF PhaseBy
  <2>4. ProperMessage(mode, d.seen, MessageStart)
    BY <2>1, <2>3 DEF ProperMessage
  <2>5. next.pieces = d.pieces /\ next.seen.phase = "open" /\ next.seen.block = d.seen.block
    BY <1>1, <2>1, <2>3, AfterFields
  <2> HIDE DEF s, next
  <2>6. next.seen.phase = PhaseBy(s) /\ (s.stopped \/ s.delta => s.started)
    BY <2>2, <2>3, <2>5 DEF PhaseBy
  <2>7. Carried(mode, c, s, next) /\ next \in Reader
    BY <2>1, <2>2, <2>4, <2>6, Pushing DEF next
  <2>8. QED BY <1>3, <2>2, <2>5, <2>7 DEF s
<1>4. QED BY <1>2, <1>3

\* The block is closed, if one is open.
LEMMA Closing ==
    ASSUME NEW mode, NEW c, NEW b, NEW d, Carried(mode, c, b, d),
           b.started, ~b.stopped,
           mode = "strict" => IF b.open THEN d.seen.block # -1 /\ ~b.delta ELSE d.seen.block = -1,
           NEW n \in Nat \ {0}, \A i \in DOMAIN d.pieces : d.pieces[i] < n
    PROVE  \E next \in Reader :
              /\ Carried(mode, c, CloseBlock(b), next)
              /\ next.pieces = d.pieces /\ (mode = "strict" => next.seen.block = -1)
              /\ CloseBlock(b).started
              /\ ~CloseBlock(b).stopped
              /\ CloseBlock(b).blocks = b.blocks
              /\ ~CloseBlock(b).open
              /\ CloseBlock(b).delta = b.delta
              /\ ~b.open => CloseBlock(b) = b
<1>1. d \in Reader /\ b \in MessagesBuffer /\ d.seen.phase = PhaseBy(b)
  BY PhaseIs
<1>2. CASE ~b.open
  BY <1>1, <1>2 DEF CloseBlock
<1>3. CASE b.open
  <2> DEFINE s == CloseBlock(b)
             next == After(d, BlockStop(0))
  <2>1. Says(BlockStop(0), n) /\ BlockStop(0).type = "content_block_stop"
    BY OwnEvents
  <2>2. /\ s.out = Append(b.out, BlockStop(0)) /\ s.open = FALSE /\ s.stopped = b.stopped
        /\ s.started = b.started /\ s.blocks = b.blocks /\ s.delta = b.delta
        /\ Shaped(s)
    BY <1>1, <1>3 DEF CloseBlock, Push, MessagesBuffer, Shaped
  <2>3. ProperMessage(mode, d.seen, BlockStop(0))
    BY <1>1, <1>3, <2>1 DEF ProperMessage, PhaseBy
  <2>4. next.pieces = d.pieces /\ next.seen.phase = d.seen.phase /\ next.seen.block = -1
    BY <1>1, <2>1, AfterFields
  <2> HIDE DEF s, next
  <2>5. next.seen.phase = PhaseBy(s) /\ (s.stopped \/ s.delta => s.started)
    BY <1>1, <2>2, <2>4 DEF PhaseBy
  <2>6. Carried(mode, c, s, next) /\ next \in Reader
    BY <2>1, <2>2, <2>3, <2>5, Pushing DEF next
  <2>7. QED BY <1>3, <2>2, <2>4, <2>6 DEF s
<1>4. QED BY <1>2, <1>3

\* add_transformed_event, kind by kind, before the message is stopped.
LEMMA AddingStart ==
    ASSUME NEW mode, NEW c, NEW b, NEW d, Carried(mode, c, b, d),
           NEW n \in Nat \ {0}, \A i \in DOMAIN d.pieces : d.pieces[i] < n,
           NEW e, Says(e, n), e.type = "message_start", ~b.stopped,
           mode = "strict" => ~b.started /\ Going(b) /\ Fresh(d.seen, b)
    PROVE  \E next \in Reader :
              /\ Carried(mode, c, AddToMessages(b, e), next)
              /\ next.pieces = d.pieces
              /\ mode = "strict" => Going(AddToMessages(b, e)) /\ Fresh(next.seen, AddToMessages(b, e))
<1> DEFINE t == AddToMessages(b, e)
           next == After(d, e)
<1>1. /\ d \in Reader /\ b \in MessagesBuffer
      /\ d.seen.phase = PhaseBy(b)
      /\ b.delta => b.started
  BY PhaseIs
<1>2. /\ t.out = Append(b.out, e) /\ t.started = TRUE
      /\ t.stopped = b.stopped /\ t.blocks = b.blocks /\ t.open = b.open /\ t.delta = b.delta
      /\ Shaped(t)
  BY <1>1 DEF AddToMessages, Push, MessagesBuffer, Shaped
<1>3. /\ next.pieces = d.pieces
      /\ next.seen.phase = IF d.seen.phase = "none" THEN "open" ELSE d.seen.phase
      /\ next.seen.block = d.seen.block
  BY <1>1, AfterFields
<1>4. ProperMessage(mode, d.seen, e)
  BY <1>1 DEF ProperMessage, PhaseBy
<1> HIDE DEF t, next
<1>5. next.seen.phase = PhaseBy(t) /\ (t.stopped \/ t.delta => t.started)
  BY <1>1, <1>2, <1>3 DEF PhaseBy
<1>6. Carried(mode, c, t, next) /\ next \in Reader
  BY <1>2, <1>4, <1>5, Pushing DEF next
<1>7. mode = "strict" => Going(t) /\ Fresh(next.seen, t)
  BY <1>2, <1>3 DEF Going, Fresh
<1>8. QED BY <1>3, <1>6, <1>7 DEF t

\* A ping leaves everything as it is.
LEMMA AddingPing ==
    ASSUME NEW mode, NEW c, NEW b, NEW d, Carried(mode, c, b, d),
           NEW n \in Nat \ {0}, \A i \in DOMAIN d.pieces : d.pieces[i] < n,
           NEW e, Says(e, n), e.type = "ping", ~b.stopped
    PROVE  \E next \in Reader :
              /\ Carried(mode, c, AddToMessages(b, e), next)
              /\ next.pieces = d.pieces
              /\ Going(b) => Going(AddToMessages(b, e))
              /\ Fresh(d.seen, b) => Fresh(next.seen, AddToMessages(b, e))
              /\ Finishing(d.seen, b) => Finishing(next.seen, AddToMessages(b, e))
<1> DEFINE t == AddToMessages(b, e)
           next == After(d, e)
<1>1. d \in Reader /\ b \in MessagesBuffer /\ d.seen.phase = PhaseBy(b) /\ (b.delta => b.started)
  BY PhaseIs
<1>2. /\ t.out = Append(b.out, e) /\ t.started = b.started
      /\ t.stopped = b.stopped /\ t.blocks = b.blocks /\ t.open = b.open /\ t.delta = b.delta
      /\ Shaped(t)
  BY <1>1 DEF AddToMessages, Push, MessagesBuffer, Shaped
<1>3. next.pieces = d.pieces /\ next.seen.phase = d.seen.phase /\ next.seen.block = d.seen.block
  BY <1>1, AfterFields
<1>4. ProperMessage(mode, d.seen, e)
  BY DEF ProperMessage
<1> HIDE DEF t, next
<1>5. next.seen.phase = PhaseBy(t) /\ (t.stopped \/ t.delta => t.started)
  BY <1>1, <1>2, <1>3 DEF PhaseBy
<1>6. Carried(mode, c, t, next) /\ next \in Reader
  BY <1>2, <1>4, <1>5, Pushing DEF next
<1>7. /\ Going(b) => Going(t)
      /\ Fresh(d.seen, b) => Fresh(next.seen, t)
      /\ Finishing(d.seen, b) => Finishing(next.seen, t)
  BY <1>2, <1>3 DEF Going, Fresh, Filled, Finishing
<1>8. QED BY <1>3, <1>6, <1>7 DEF t

\* A block is started, in a message that is.
LEMMA BlockStarting ==
    ASSUME NEW mode, NEW c, NEW b, NEW d, Carried(mode, c, b, d),
           NEW n \in Nat \ {0}, \A i \in DOMAIN d.pieces : d.pieces[i] < n,
           NEW e, Says(e, n), e.type = "content_block_start", NEW index \in Nat,
           b.started, ~b.stopped, mode = "strict" => ~b.delta /\ d.seen.block = -1
    PROVE  \E next \in Reader :
              /\ Carried(mode, c, PushBlockStart(b, e, index), next)
              /\ next.pieces = d.pieces /\ next.seen.block = e.index
              /\ PushBlockStart(b, e, index).started
              /\ ~PushBlockStart(b, e, index).stopped
              /\ PushBlockStart(b, e, index).blocks = b.blocks \cup {index}
              /\ PushBlockStart(b, e, index).open
              /\ PushBlockStart(b, e, index).delta = b.delta
<1> DEFINE t == PushBlockStart(b, e, index)
           next == After(d, e)
<1>1. d \in Reader /\ b \in MessagesBuffer /\ d.seen.phase = PhaseBy(b)
  BY PhaseIs
<1>2. /\ t.out = Append(b.out, e) /\ t.started = b.started /\ t.stopped = b.stopped
      /\ t.blocks = b.blocks \cup {index} /\ t.open = TRUE /\ t.delta = b.delta
      /\ Shaped(t)
  BY <1>1 DEF PushBlockStart, Push, MessagesBuffer, Shaped
<1>3. next.pieces = d.pieces /\ next.seen.phase = d.seen.phase /\ next.seen.block = e.index
  BY <1>1, AfterFields
<1>4. ProperMessage(mode, d.seen, e)
  BY <1>1 DEF ProperMessage, PhaseBy, Says, MessagesEvent
<1> HIDE DEF t, next
<1>5. next.seen.phase = PhaseBy(t) /\ (t.stopped \/ t.delta => t.started)
  BY <1>1, <1>2, <1>3 DEF PhaseBy
<1>6. Carried(mode, c, t, next) /\ next \in Reader
  BY <1>2, <1>4, <1>5, Pushing DEF next
<1>7. QED BY <1>2, <1>3, <1>6 DEF t

\* A block that is started is open, for the client and in the buffer.
LEMMA AddingBlockStart ==
    ASSUME NEW mode, NEW c, NEW b, NEW d, Carried(mode, c, b, d),
           NEW n \in Nat \ {0}, \A i \in DOMAIN d.pieces : d.pieces[i] < n,
           NEW e, Says(e, n), e.type = "content_block_start", ~b.stopped,
           mode = "strict" => e.index = 0 /\ Going(b) /\ Fresh(d.seen, b)
    PROVE  \E next \in Reader :
              /\ Carried(mode, c, AddToMessages(b, e), next)
              /\ next.pieces = d.pieces
              /\ mode = "strict" => Going(AddToMessages(b, e)) /\ Filled(next.seen, AddToMessages(b, e))
<1> DEFINE s == EnsureMessageStarted(b)
           t == PushBlockStart(s, e, e.index)
<1>1. PICK x \in Reader :
          /\ Carried(mode, c, s, x) /\ x.pieces = d.pieces /\ x.seen.block = d.seen.block
          /\ s.started /\ ~s.stopped /\ s.blocks = b.blocks /\ s.delta = b.delta
  BY Opening
<1>2. t = AddToMessages(b, e) /\ e.index \in Nat
  BY DEF AddToMessages, Says, MessagesEvent
<1> HIDE DEF s
<1>3. mode = "strict" => ~s.delta /\ x.seen.block = -1
  BY <1>1 DEF Going, Fresh
<1>a. \A i \in DOMAIN x.pieces : x.pieces[i] < n
  BY <1>1
<1>4. PICK y \in Reader :
          /\ Carried(mode, c, PushBlockStart(s, e, e.index), y)
          /\ y.pieces = x.pieces /\ y.seen.block = e.index
          /\ PushBlockStart(s, e, e.index).started
          /\ ~PushBlockStart(s, e, e.index).stopped
          /\ PushBlockStart(s, e, e.index).blocks = s.blocks \cup {e.index}
          /\ PushBlockStart(s, e, e.index).open /\ PushBlockStart(s, e, e.index).delta = s.delta
  BY <1>1, <1>2, <1>3, <1>a, BlockStarting
<1>5. mode = "strict" => Going(t) /\ Filled(y.seen, t)
  BY <1>1, <1>4 DEF Going, Fresh, Filled
<1>6. QED BY <1>1, <1>2, <1>4, <1>5

\* A delta opens its block if none is open, and the client has its piece.
LEMMA AddingDelta ==
    ASSUME NEW mode, NEW c, NEW b, NEW d, Carried(mode, c, b, d),
           NEW n \in Nat \ {0}, \A i \in DOMAIN d.pieces : d.pieces[i] < n,
           NEW e, Says(e, n), e.type = "content_block_delta", ~b.stopped,
           mode = "strict" => e.index = 0 /\ Going(b) /\ (Fresh(d.seen, b) \/ Filled(d.seen, b))
    PROVE  \E next \in Reader :
              /\ Carried(mode, c, AddToMessages(b, e), next)
              /\ next.pieces = Append(d.pieces, n)
              /\ mode = "strict" => Going(AddToMessages(b, e)) /\ Filled(next.seen, AddToMessages(b, e))
<1> DEFINE s == EnsureMessageStarted(b)
           u == PushBlockStart(s, BlockStart(0), e.index)
           Ready(v, x) == /\ Carried(mode, c, v, x) /\ x.pieces = d.pieces
                          /\ v.started /\ ~v.stopped
                          /\ mode = "strict" => Going(v) /\ Filled(x.seen, v)
<1>1. PICK x \in Reader :
          /\ Carried(mode, c, s, x) /\ x.pieces = d.pieces /\ x.seen.block = d.seen.block
          /\ s.started /\ ~s.stopped /\ s.blocks = b.blocks /\ s.open = b.open /\ s.delta = b.delta
  BY Opening
<1>2. /\ AddToMessages(b, e) = IF e.index \in s.blocks THEN Push(s, e) ELSE Push(u, e)
      /\ e.index \in Nat
  BY DEF AddToMessages, AddBlockDelta, Says, MessagesEvent
<1> HIDE DEF s
<1>3. \E v, y : Ready(v, y) /\ AddToMessages(b, e) = Push(v, e)
  <2>1. CASE e.index \in s.blocks
    <3>1. Ready(s, x)
      BY <1>1, <2>1 DEF Going, Fresh, Filled
    <3>2. QED BY <1>2, <2>1, <3>1
  <2>2. CASE e.index \notin s.blocks
    <3>1. Says(BlockStart(0), n) /\ BlockStart(0).type = "content_block_start"
          /\ BlockStart(0).index = 0
      BY OwnEvents
    <3>2. mode = "strict" => Fresh(x.seen, s) /\ ~s.delta
      BY <1>1, <2>2 DEF Going, Fresh, Filled
    <3>a. /\ \A i \in DOMAIN x.pieces : x.pieces[i] < n
          /\ mode = "strict" => x.seen.block = -1
      BY <1>1, <3>2 DEF Fresh
    <3>3. PICK y \in Reader :
              /\ Carried(mode, c, u, y) /\ y.pieces = x.pieces
              /\ y.seen.block = BlockStart(0).index
              /\ u.started /\ ~u.stopped /\ u.blocks = s.blocks \cup {e.index}
              /\ u.open /\ u.delta = s.delta
      BY <1>1, <1>2, <3>1, <3>2, <3>a, BlockStarting
    <3> HIDE DEF u
    <3>4. Ready(u, y)
      BY <1>1, <3>1, <3>2, <3>3 DEF Going, Fresh, Filled
    <3>5. QED BY <1>2, <2>2, <3>4
  <2>3. QED BY <2>1, <2>2
<1>4. PICK v, y : Ready(v, y) /\ AddToMessages(b, e) = Push(v, e)
  BY <1>3
<1> DEFINE t == Push(v, e)
           next == After(y, e)
<1>5. y \in Reader /\ v \in MessagesBuffer /\ y.seen.phase = PhaseBy(v)
  BY <1>4, PhaseIs
<1>6. /\ t.out = Append(v.out, e) /\ t.started = v.started /\ t.stopped = v.stopped
      /\ t.blocks = v.blocks /\ t.open = v.open /\ t.delta = v.delta
      /\ Shaped(t)
  BY <1>5 DEF Push, MessagesBuffer, Shaped
<1>7. /\ next.pieces = Append(d.pieces, n)
      /\ next.seen.phase = y.seen.phase /\ next.seen.block = y.seen.block
  <2>1. n \in Nat /\ y \in Reader
    BY <1>5
  <2>2. /\ next.pieces = Append(y.pieces, n)
        /\ next.seen.phase = y.seen.phase /\ next.seen.block = y.seen.block
    BY <2>1, AfterDelta
  <2>3. QED BY <2>2, <1>4
<1>8. ProperMessage(mode, y.seen, e)
  BY <1>2, <1>4, <1>5 DEF ProperMessage, PhaseBy, Going, Filled
<1> HIDE DEF t, next
<1>9. next.seen.phase = PhaseBy(t) /\ (t.stopped \/ t.delta => t.started)
  BY <1>4, <1>5, <1>6, <1>7 DEF PhaseBy
<1>10. Carried(mode, c, t, next) /\ next \in Reader
  BY <1>4, <1>6, <1>8, <1>9, Pushing DEF next
<1>11. mode = "strict" => Going(t) /\ Filled(next.seen, t)
  BY <1>4, <1>6, <1>7 DEF Going, Filled
<1>12. QED BY <1>4, <1>7, <1>10, <1>11 DEF t

\* A block that is stopped is closed, for the client and in the buffer.
LEMMA AddingBlockStop ==
    ASSUME NEW mode, NEW c, NEW b, NEW d, Carried(mode, c, b, d),
           NEW n \in Nat \ {0}, \A i \in DOMAIN d.pieces : d.pieces[i] < n,
           NEW e, Says(e, n), e.type = "content_block_stop", ~b.stopped,
           mode = "strict" => Going(b) /\ Filled(d.seen, b)
    PROVE  \E next \in Reader :
              /\ Carried(mode, c, AddToMessages(b, e), next)
              /\ next.pieces = d.pieces
              /\ mode = "strict" =>
                    Going(AddToMessages(b, e)) /\ Closed(next.seen, AddToMessages(b, e))
<1> DEFINE s == EnsureMessageStarted(b)
           t == AddToMessages(b, e)
<1>1. PICK x \in Reader :
          /\ Carried(mode, c, s, x) /\ x.pieces = d.pieces /\ x.seen.block = d.seen.block
          /\ s.started /\ ~s.stopped /\ s.blocks = b.blocks /\ s.open = b.open /\ s.delta = b.delta
  BY Opening
<1>2. t = [Push(s, e) EXCEPT !.open = FALSE]
  BY DEF AddToMessages
<1> DEFINE next == After(x, e)
<1> HIDE DEF s, t
<1>3. s \in MessagesBuffer /\ x.seen.phase = PhaseBy(s)
  BY <1>1, PhaseIs
<1>4. /\ t.out = Append(s.out, e) /\ t.started = s.started /\ t.stopped = s.stopped
      /\ t.blocks = s.blocks /\ t.open = FALSE /\ t.delta = s.delta
      /\ Shaped(t)
  BY <1>2, <1>3 DEF Push, MessagesBuffer, Shaped
<1>5. next.pieces = x.pieces /\ next.seen.phase = x.seen.phase /\ next.seen.block = -1
  BY <1>1, AfterFields
<1>6. ProperMessage(mode, x.seen, e)
  BY <1>1, <1>3 DEF ProperMessage, PhaseBy, Going, Filled
<1>7. \A i \in DOMAIN x.pieces : x.pieces[i] < n
  BY <1>1
<1> HIDE DEF next
<1>8. next.seen.phase = PhaseBy(t) /\ (t.stopped \/ t.delta => t.started)
  BY <1>1, <1>3, <1>4, <1>5 DEF PhaseBy
<1>9. Carried(mode, c, t, next) /\ next \in Reader
  BY <1>1, <1>4, <1>6, <1>7, <1>8, Pushing DEF next
<1>10. mode = "strict" => Going(t) /\ Closed(next.seen, t)
  BY <1>1, <1>4, <1>5 DEF Going, Filled, Closed
<1>11. QED BY <1>1, <1>5, <1>9, <1>10 DEF t

\* The message's delta came last.
Ended(s, b) ==
    /\ b.delta /\ ~b.open /\ s.block = -1
    /\ Len(b.out) > 0 /\ b.out[Len(b.out)].type = "message_delta"

\* A second delta is merged into the one just before it.
Merged(b, e) == [b EXCEPT !.out[Len(b.out)].usage = @ \/ e.usage, !.delta = TRUE]

\* A second message_delta joins the first and reads alike.
LEMMA Merging ==
    ASSUME NEW mode, NEW c, NEW b, NEW d, Carried(mode, c, b, d), ~b.stopped,
           Len(b.out) > 0, b.out[Len(b.out)].type = "message_delta",
           NEW e \in MessagesEvent
    PROVE  /\ Carried(mode, c, Merged(b, e), d)
           /\ Merged(b, e).open = b.open /\ Merged(b, e).delta
           /\ Len(Merged(b, e).out) > 0
           /\ Merged(b, e).out[Len(Merged(b, e).out)].type = "message_delta"
<1> DEFINE t == Merged(b, e)
           N == Len(b.out)
           last == b.out[N]
           u == [last EXCEPT !.usage = @ \/ e.usage]
           other == [b.out EXCEPT ![N] = u]
<1>1. d \in Reader /\ b \in MessagesBuffer /\ b.out \in Seq(MessagesEvent)
  BY PhaseIs, BufferFields
<1>2. N \in Nat \ {0} /\ last \in MessagesEvent
  BY <1>1
<1>3. u \in MessagesEvent /\ u.type = "message_delta"
  <2>1. (last.usage \/ e.usage) \in BOOLEAN
    BY <1>2 DEF MessagesEvent
  <2> HIDE DEF last
  <2>2. QED BY <1>2, <2>1 DEF MessagesEvent, last
<1> HIDE DEF u
<1>4. /\ other \in Seq(MessagesEvent) /\ Len(other) = N /\ other[N] = u
      /\ \A i \in 1..(N - 1) : other[i] = b.out[i]
  BY <1>1, <1>2, <1>3
<1>5. t.out = other /\ t.delta = TRUE /\ t.open = b.open /\ t.started = b.started
      /\ t.stopped = b.stopped /\ t.blocks = b.blocks /\ Shaped(t)
  BY <1>1 DEF MessagesBuffer, Shaped, u, Merged
<1> HIDE DEF t
<1>6. ASSUME NEW x \in Reader, NEW y \in Reader, Reads("messages", mode, x, last, y)
      PROVE  Reads("messages", mode, x, u, y)
  <2>1. Proper("messages", mode, x.seen, last) => Proper("messages", mode, x.seen, u)
    BY <1>3 DEF Proper, ProperMessage
  <2>2. Read("messages", x.seen, last) = Read("messages", x.seen, u)
    BY <1>3 DEF Read, ReadMessage
  <2>3. Content("messages", last) = {} /\ Content("messages", u) = {}
    BY <1>3 DEF Content, PiecesIn
  <2>4. QED BY <1>6, <2>1, <2>2, <2>3 DEF Reads
<1>7. d.seen.phase = "ended"
  <2>1. PICK x \in Reader : Reads("messages", mode, x, last, d)
    BY <1>2, ReachesLast DEF Carried
  <2>2. d.seen = [x.seen EXCEPT !.phase = "ended"] /\ x.seen \in Seen
    BY <2>1 DEF Reads, Read, ReadMessage, Reader
  <2>3. QED BY <2>2 DEF Seen
<1> HIDE DEF other
<1>8. Reaches("messages", mode, c, t.out, d)
  <2>1. IsList(other)
    BY <1>4 DEF IsList
  <2>2. \A x, y \in Reader : Reads("messages", mode, x, b.out[Len(b.out)], y)
                          => Reads("messages", mode, x, other[Len(b.out)], y)
    BY <1>4, <1>6
  <2>3. QED BY <1>2, <1>4, <1>5, <2>1, <2>2, ReachesAlike DEF Carried
<1>9. t \in MessagesBuffer
  BY <1>4, <1>5 DEF Shaped, MessagesBuffer
<1>10. PhaseOf(d.seen, t)
  BY <1>5, <1>7, <1>9 DEF PhaseOf, Carried
<1>11. QED BY <1>2, <1>3, <1>4, <1>5, <1>8, <1>10 DEF Carried, t

\* The delta of a message that is started and whose block is closed.
WithDelta(b, e) == [Push(b, e) EXCEPT !.delta = TRUE]

\* A message_delta after the blocks ends the message.
LEMMA Ending ==
    ASSUME NEW mode, NEW c, NEW b, NEW d, Carried(mode, c, b, d),
           NEW n \in Nat \ {0}, \A i \in DOMAIN d.pieces : d.pieces[i] < n,
           NEW e, Says(e, n), e.type = "message_delta",
           b.started, ~b.stopped, ~b.open,
           mode = "strict" => ~b.delta /\ d.seen.block = -1
    PROVE  \E next \in Reader :
              /\ Carried(mode, c, WithDelta(b, e), next) /\ next.pieces = d.pieces
              /\ WithDelta(b, e).started /\ ~WithDelta(b, e).stopped /\ WithDelta(b, e).delta
              /\ mode = "strict" => Ended(next.seen, WithDelta(b, e))
<1> DEFINE t == WithDelta(b, e)
           next == After(d, e)
<1>1. d \in Reader /\ b \in MessagesBuffer /\ d.seen.phase = PhaseBy(b)
      /\ b.out \in Seq(MessagesEvent) /\ e \in MessagesEvent
  BY PhaseIs, BufferFields DEF Says
<1>2. /\ t.out = Append(b.out, e) /\ t.started = b.started /\ t.stopped = b.stopped
      /\ t.blocks = b.blocks /\ t.open = b.open /\ t.delta = TRUE
      /\ Shaped(t)
  BY <1>1 DEF Push, MessagesBuffer, Shaped, WithDelta
<1> HIDE DEF t
<1>3. Len(t.out) > 0 /\ t.out[Len(t.out)] = e
  BY <1>1, <1>2
<1>4. next.pieces = d.pieces /\ next.seen.phase = "ended" /\ next.seen.block = d.seen.block
  BY <1>1, AfterFields
<1>5. ProperMessage(mode, d.seen, e)
  BY <1>1 DEF ProperMessage, PhaseBy
<1> HIDE DEF next
<1>6. next.seen.phase = PhaseBy(t) /\ (t.stopped \/ t.delta => t.started)
  BY <1>2, <1>4 DEF PhaseBy
<1>7. Carried(mode, c, t, next) /\ next \in Reader
  BY <1>2, <1>5, <1>6, Pushing DEF next
<1>8. mode = "strict" => Ended(next.seen, t)
  BY <1>2, <1>3, <1>4 DEF Ended
<1>9. QED BY <1>2, <1>4, <1>7, <1>8 DEF t

\* A message_delta first closes the block that is open.
LEMMA AddingMessageDelta ==
    ASSUME NEW mode, NEW c, NEW b, NEW d, Carried(mode, c, b, d),
           NEW n \in Nat \ {0}, \A i \in DOMAIN d.pieces : d.pieces[i] < n,
           NEW e, Says(e, n), e.type = "message_delta", ~b.stopped,
           mode = "strict" =>
              \/ Going(b) /\ (Fresh(d.seen, b) \/ Filled(d.seen, b) \/ Closed(d.seen, b))
              \/ Ended(d.seen, b)
    PROVE  \E next \in Reader :
              /\ Carried(mode, c, AddToMessages(b, e), next)
              /\ next.pieces = d.pieces
              /\ mode = "strict" => Ended(next.seen, AddToMessages(b, e))
<1> DEFINE s == EnsureMessageStarted(b)
           u == CloseBlock(s)
           t == AddToMessages(b, e)
<1>1. PICK x \in Reader :
          /\ Carried(mode, c, s, x) /\ x.pieces = d.pieces /\ x.seen.block = d.seen.block
          /\ s.started /\ ~s.stopped /\ s.open = b.open /\ s.delta = b.delta
          /\ b.started => s = b
  BY Opening
<1>2. t = IF Len(u.out) > 0 /\ u.out[Len(u.out)].type = "message_delta"
          THEN Merged(u, e)
          ELSE WithDelta(u, e)
  BY DEF AddToMessages, AddMessageDelta, Merged, WithDelta
<1>3. b \in MessagesBuffer /\ (b.delta => b.started) /\ b.open \in BOOLEAN
  BY PhaseIs, BufferFields
<1> HIDE DEF s
<1>4. /\ mode = "strict" => IF s.open THEN x.seen.block # -1 /\ ~s.delta ELSE x.seen.block = -1
      /\ \A i \in DOMAIN x.pieces : x.pieces[i] < n
  BY <1>1, <1>3 DEF Going, Fresh, Filled, Closed, Ended
<1>5. PICK y \in Reader :
          /\ Carried(mode, c, u, y) /\ y.pieces = x.pieces
          /\ mode = "strict" => y.seen.block = -1
          /\ u.started /\ ~u.stopped /\ ~u.open /\ u.delta = s.delta
          /\ ~s.open => u = s
  BY <1>1, <1>4, Closing
<1> HIDE DEF u, t
<1>6. CASE Len(u.out) > 0 /\ u.out[Len(u.out)].type = "message_delta"
  <2>1. e \in MessagesEvent
    BY DEF Says
  <2>2. /\ Carried(mode, c, t, y) /\ t.open = u.open /\ t.delta
        /\ Len(t.out) > 0 /\ t.out[Len(t.out)].type = "message_delta"
    BY <1>2, <1>5, <1>6, <2>1, Merging
  <2>3. mode = "strict" => Ended(y.seen, t)
    BY <1>5, <2>2 DEF Ended
  <2>4. QED BY <1>1, <1>5, <2>2, <2>3 DEF t
<1>7. CASE ~(Len(u.out) > 0 /\ u.out[Len(u.out)].type = "message_delta")
  <2>1. mode = "strict" => ~u.delta
    <3>1. CASE Ended(d.seen, b)
      <4>1. u = b
        BY <1>1, <1>3, <1>5, <3>1 DEF Ended
      <4>2. QED BY <1>7, <3>1, <4>1 DEF Ended
    <3>2. CASE ~Ended(d.seen, b)
      BY <1>1, <1>5, <3>2 DEF Going
    <3>3. QED BY <3>1, <3>2
  <2>2. t = WithDelta(u, e) /\ \A i \in DOMAIN y.pieces : y.pieces[i] < n
    BY <1>2, <1>4, <1>5, <1>7
  <2>3. PICK next \in Reader :
            /\ Carried(mode, c, t, next) /\ next.pieces = y.pieces
            /\ mode = "strict" => Ended(next.seen, t)
    BY <1>5, <2>1, <2>2, Ending
  <2>4. QED BY <1>1, <1>5, <2>3 DEF t
<1>8. QED BY <1>6, <1>7

\* push_synthetic_message_delta
LEMMA Completing ==
    ASSUME NEW mode, NEW c, NEW b, NEW d, Carried(mode, c, b, d),
           NEW n \in Nat \ {0}, \A i \in DOMAIN d.pieces : d.pieces[i] < n,
           b.started, ~b.stopped, ~b.open, mode = "strict" => d.seen.block = -1
    PROVE  \E next \in Reader :
              /\ Carried(mode, c, Complete(b), next)
              /\ next.pieces = d.pieces
              /\ Complete(b).started /\ ~Complete(b).stopped /\ Complete(b).delta
<1> DEFINE start == BlockStart(0)
           stop  == BlockStop(0)
           delta == MessageDelta(FALSE)
<1>0. /\ Says(start, n) /\ start.type = "content_block_start" /\ start.index = 0
      /\ Says(stop, n) /\ stop.type = "content_block_stop"
      /\ Says(delta, n) /\ delta.type = "message_delta"
  BY OwnEvents
<1>1. d \in Reader /\ b \in MessagesBuffer /\ d.seen.phase = PhaseBy(b)
  BY PhaseIs
<1>2. CASE b.delta
  BY <1>1, <1>2 DEF Complete
<1>3. CASE ~b.delta /\ b.blocks # {}
  <2> DEFINE t == Complete(b)
  <2>1. t = WithDelta(b, delta)
    BY <1>3 DEF Complete, WithDelta
  <2> HIDE DEF t, start, stop, delta
  <2>a. mode = "strict" => ~b.delta /\ d.seen.block = -1
    BY <1>3
  <2>2. PICK next \in Reader :
            /\ Carried(mode, c, t, next) /\ next.pieces = d.pieces
            /\ t.started /\ ~t.stopped /\ t.delta
    BY <1>0, <2>1, <2>a, Ending
  <2>3. QED BY <2>2 DEF t
<1>4. CASE ~b.delta /\ b.blocks = {}
  <2> DEFINE s == [Push(b, start) EXCEPT !.blocks = @ \cup {0}]
             u == Push(s, stop)
             t == Complete(b)
             x == After(d, start)
             y == After(x, stop)
  <2>1. t = WithDelta(u, delta)
    BY <1>4 DEF Complete, WithDelta
  <2> HIDE DEF start, stop, delta
  <2>2. /\ s.out = Append(b.out, start) /\ s.started = b.started
        /\ s.stopped = b.stopped /\ s.blocks = b.blocks \cup {0} /\ s.open = b.open
        /\ s.delta = b.delta
        /\ Shaped(s)
    <3>1. (b.blocks \cup {0}) \in SUBSET Nat
      BY <1>1, BufferFields
    <3>2. QED BY <1>1, <3>1 DEF Push, MessagesBuffer, Shaped
  <2>3. ProperMessage(mode, d.seen, start)
    BY <1>0, <1>1, <1>4 DEF ProperMessage, PhaseBy
  <2>4. x.pieces = d.pieces /\ x.seen.phase = d.seen.phase /\ x.seen.block = 0
    BY <1>0, <1>1, AfterFields
  <2> HIDE DEF s, t, x
  <2>5. x.seen.phase = PhaseBy(s) /\ (s.stopped \/ s.delta => s.started)
    BY <1>1, <2>2, <2>4 DEF PhaseBy
  <2>6. Carried(mode, c, s, x) /\ x \in Reader
    BY <1>0, <2>2, <2>3, <2>5, Pushing DEF x
  <2>7. s \in MessagesBuffer
    BY <2>6, PhaseIs
  <2>8. /\ u.out = Append(s.out, stop) /\ u.started = s.started
        /\ u.stopped = s.stopped /\ u.blocks = s.blocks /\ u.open = s.open /\ u.delta = s.delta
        /\ Shaped(u)
    BY <2>7 DEF Push, MessagesBuffer, Shaped
  <2>9. ProperMessage(mode, x.seen, stop)
    BY <1>0, <1>1, <1>4, <2>4 DEF ProperMessage, PhaseBy
  <2>10. y.pieces = x.pieces /\ y.seen.phase = x.seen.phase /\ y.seen.block = -1
    BY <1>0, <2>6, AfterFields
  <2> HIDE DEF u, y
  <2>11. /\ y.seen.phase = PhaseBy(u) /\ (u.stopped \/ u.delta => u.started)
         /\ \A i \in DOMAIN x.pieces : x.pieces[i] < n
    BY <2>4, <2>5, <2>8, <2>10 DEF PhaseBy
  <2>12. Carried(mode, c, u, y) /\ y \in Reader
    BY <1>0, <2>6, <2>8, <2>9, <2>11, Pushing DEF y
  <2>13. /\ u.started /\ ~u.stopped /\ ~u.open /\ ~u.delta
         /\ \A i \in DOMAIN y.pieces : y.pieces[i] < n
    BY <1>4, <2>2, <2>8, <2>10, <2>11
  <2>b. mode = "strict" => ~u.delta /\ y.seen.block = -1
    BY <2>10, <2>13
  <2>14. PICK next \in Reader :
            /\ Carried(mode, c, t, next) /\ next.pieces = y.pieces
            /\ t.started /\ ~t.stopped /\ t.delta
    BY <1>0, <2>1, <2>12, <2>13, <2>b, Ending
  <2>15. QED BY <2>4, <2>10, <2>14 DEF t
<1>5. QED BY <1>2, <1>3, <1>4

\* message_stop is written after a message_delta, if need be one made up.
LEMMA AddingMessageStop ==
    ASSUME NEW mode, NEW c, NEW b, NEW d, Carried(mode, c, b, d),
           NEW n \in Nat \ {0}, \A i \in DOMAIN d.pieces : d.pieces[i] < n,
           NEW e, Says(e, n), e.type = "message_stop", ~b.stopped,
           mode = "strict" => Finishing(d.seen, b)
    PROVE  \E next \in Reader :
              /\ Carried(mode, c, AddToMessages(b, e), next)
              /\ next.pieces = d.pieces
<1> DEFINE s == EnsureMessageStarted(b)
           u == CloseBlock(s)
           v == Complete(u)
           t == AddToMessages(b, e)
<1>1. PICK x \in Reader :
          /\ Carried(mode, c, s, x) /\ x.pieces = d.pieces /\ x.seen.block = d.seen.block
          /\ s.started /\ ~s.stopped /\ s.open = b.open /\ s.delta = b.delta
  BY Opening
<1>2. t = [Push(v, e) EXCEPT !.stopped = TRUE, !.delta = FALSE]
  BY DEF AddToMessages, AddMessageStop
<1> HIDE DEF s, t
<1>3. /\ mode = "strict" => IF s.open THEN x.seen.block # -1 /\ ~s.delta ELSE x.seen.block = -1
      /\ \A i \in DOMAIN x.pieces : x.pieces[i] < n
  BY <1>1 DEF Fresh, Filled, Finishing
<1>4. PICK y \in Reader :
          /\ Carried(mode, c, u, y) /\ y.pieces = x.pieces
          /\ mode = "strict" => y.seen.block = -1
          /\ u.started /\ ~u.stopped /\ ~u.open
  BY <1>1, <1>3, Closing
<1>5. \A i \in DOMAIN y.pieces : y.pieces[i] < n
  BY <1>3, <1>4
<1> HIDE DEF u
<1>6. PICK z \in Reader :
          /\ Carried(mode, c, v, z) /\ z.pieces = y.pieces
          /\ v.started /\ ~v.stopped /\ v.delta
  BY <1>4, <1>5, Completing
<1> HIDE DEF v
<1> DEFINE next == After(z, e)
<1>7. v \in MessagesBuffer /\ z.seen.phase = "ended"
  BY <1>6, PhaseIs DEF PhaseBy
<1>8. /\ t.out = Append(v.out, e) /\ t.started = v.started /\ t.stopped = TRUE
      /\ Shaped(t)
  BY <1>2, <1>7 DEF Push, MessagesBuffer, Shaped
<1>9. next.pieces = z.pieces /\ next.seen.phase = "stopped"
  BY <1>6, AfterFields
<1>10. ProperMessage(mode, z.seen, e) /\ \A i \in DOMAIN z.pieces : z.pieces[i] < n
  BY <1>5, <1>6, <1>7 DEF ProperMessage
<1> HIDE DEF next
<1>11. next.seen.phase = PhaseBy(t) /\ (t.stopped \/ t.delta => t.started)
  BY <1>6, <1>8, <1>9 DEF PhaseBy
<1>12. Carried(mode, c, t, next) /\ next \in Reader
  BY <1>6, <1>8, <1>10, <1>11, Pushing DEF next
<1>13. QED BY <1>1, <1>4, <1>6, <1>9, <1>12 DEF t

\* The events a Messages client's buffer is given of a stream that keeps to its
\* protocol, and the places of the stream they come between.
Moves(api, place, e, place2) ==
    \/ /\ e.type = "message_start"
       /\ api = "bedrock" /\ place = "start" /\ place2 = "body"
    \/ /\ e.type = "content_block_start" /\ e.index = 0
       /\ \/ api = "openai" /\ place = "start" /\ place2 = "body"
          \/ api = "bedrock" /\ place = "body" /\ place2 = "block"
    \/ /\ e.type = "content_block_delta" /\ e.index = 0
       /\ \/ api = "openai" /\ place \in {"start", "body"} /\ place2 \in {"body", "finished"}
          \/ api = "bedrock" /\ place \in {"body", "block"} /\ place2 = "block"
    \/ /\ e.type = "content_block_stop"
       /\ api = "bedrock" /\ place = "block" /\ place2 = "body2"
    \/ /\ e.type = "message_delta"
       /\ \/ api = "openai" /\ place = "body" /\ place2 \in {"finished", "closing"}
          \/ api = "bedrock" /\ place = "body2" /\ place2 = "closing"
          \/ api = "bedrock" /\ place = "closing" /\ place2 = "over"
    \/ /\ e.type = "message_stop"
       /\ api = "openai" /\ place \in {"finished", "closing"} /\ place2 = "over"
    \/ /\ e.type = "ping" /\ api = "openai"
       /\ \/ place = "start" /\ place2 = "body"
          \/ place = "finished" /\ place2 = "closing"

MessageAdded(mode, c, b, d, n, e, api, place2, next) ==
    /\ Carried(mode, c, AddToMessages(b, e), next)
    /\ \/ next.pieces = d.pieces
       \/ e.type = "content_block_delta" /\ next.pieces = Append(d.pieces, n)
    /\ mode = "strict" =>
          /\ Placed(api, place2, next.seen, AddToMessages(b, e))
          /\ e.type = "content_block_delta" => next.pieces = Append(d.pieces, n)

\* Whatever event is added to the Messages buffer, the client can be sent
\* what is written, and stands to the buffer as the next place says.
LEMMA AddingMessage ==
    ASSUME NEW mode, NEW c, NEW b, NEW d, Carried(mode, c, b, d),
           NEW n \in Nat \ {0}, \A i \in DOMAIN d.pieces : d.pieces[i] < n,
           NEW e, Says(e, n), NEW api, NEW place, NEW place2,
           mode = "strict" => Placed(api, place, d.seen, b) /\ Moves(api, place, e, place2)
    PROVE  \E next \in Reader : MessageAdded(mode, c, b, d, n, e, api, place2, next)
<1> SUFFICES \E next \in Reader :
                /\ Carried(mode, c, AddToMessages(b, e), next)
                /\ \/ next.pieces = d.pieces
                   \/ e.type = "content_block_delta" /\ next.pieces = Append(d.pieces, n)
                /\ mode = "strict" =>
                      /\ Placed(api, place2, next.seen, AddToMessages(b, e))
                      /\ e.type = "content_block_delta" => next.pieces = Append(d.pieces, n)
  BY DEF MessageAdded
<1> DEFINE t == AddToMessages(b, e)
<1>1. CASE b.stopped
  <2>1. t = b /\ d \in Reader
    BY <1>1, PhaseIs DEF AddToMessages
  <2>2. mode = "strict" => Placed(api, place2, d.seen, b) /\ e.type # "content_block_delta"
    BY <1>1 DEF Placed, Moves, Going, Finishing
  <2>3. QED BY <2>1, <2>2
<1>2. CASE ~b.stopped /\ e.type = "message_start"
  <2>1. mode = "strict" => ~b.started /\ Going(b) /\ Fresh(d.seen, b) /\ place2 = "body"
    BY <1>2 DEF Placed, Moves
  <2>2. PICK next \in Reader :
            /\ Carried(mode, c, t, next) /\ next.pieces = d.pieces
            /\ mode = "strict" => Going(t) /\ Fresh(next.seen, t)
    BY <1>2, <2>1, AddingStart
  <2>3. QED BY <1>2, <2>1, <2>2 DEF Placed
<1>3. CASE ~b.stopped /\ e.type = "content_block_start"
  <2>1. mode = "strict" => /\ e.index = 0 /\ Going(b) /\ Fresh(d.seen, b)
                           /\ place2 = IF api = "openai" THEN "body" ELSE "block"
    BY <1>3 DEF Placed, Moves
  <2>2. PICK next \in Reader :
            /\ Carried(mode, c, t, next) /\ next.pieces = d.pieces
            /\ mode = "strict" => Going(t) /\ Filled(next.seen, t)
    BY <1>3, <2>1, AddingBlockStart
  <2>3. QED BY <1>3, <2>1, <2>2 DEF Placed
<1>4. CASE ~b.stopped /\ e.type = "content_block_delta"
  <2>1. mode = "strict" =>
            /\ e.index = 0 /\ Going(b) /\ (Fresh(d.seen, b) \/ Filled(d.seen, b))
            /\ (api = "openai" /\ place2 \in {"body", "finished"}) \/ place2 = "block"
    BY <1>4 DEF Placed, Moves
  <2>2. PICK next \in Reader :
            /\ Carried(mode, c, t, next) /\ next.pieces = Append(d.pieces, n)
            /\ mode = "strict" => Going(t) /\ Filled(next.seen, t)
    BY <1>4, <2>1, AddingDelta
  <2>3. mode = "strict" => Placed(api, place2, next.seen, t)
    BY <2>1, <2>2 DEF Placed, Finishing, Going
  <2>4. QED BY <1>4, <2>2, <2>3
<1>5. CASE ~b.stopped /\ e.type = "content_block_stop"
  <2>1. mode = "strict" => Going(b) /\ Filled(d.seen, b) /\ place2 = "body2"
    BY <1>5 DEF Placed, Moves
  <2>2. PICK next \in Reader :
            /\ Carried(mode, c, t, next) /\ next.pieces = d.pieces
            /\ mode = "strict" => Going(t) /\ Closed(next.seen, t)
    BY <1>5, <2>1, AddingBlockStop
  <2>3. QED BY <1>5, <2>1, <2>2 DEF Placed
<1>6. CASE ~b.stopped /\ e.type = "message_delta"
  <2>1. mode = "strict" =>
            /\ \/ Going(b) /\ (Fresh(d.seen, b) \/ Filled(d.seen, b) \/ Closed(d.seen, b))
               \/ Ended(d.seen, b)
            /\ place2 \in {"finished", "closing", "over"}
    BY <1>6 DEF Placed, Moves, Ended
  <2>2. PICK next \in Reader :
            /\ Carried(mode, c, t, next) /\ next.pieces = d.pieces
            /\ mode = "strict" => Ended(next.seen, t)
    BY <1>6, <2>1, AddingMessageDelta
  <2>3. mode = "strict" => Placed(api, place2, next.seen, t)
    BY <2>1, <2>2 DEF Placed, Finishing, Ended
  <2>4. QED BY <1>6, <2>2, <2>3
<1>7. CASE ~b.stopped /\ e.type = "message_stop"
  <2>1. mode = "strict" => Finishing(d.seen, b) /\ place2 = "over"
    BY <1>7 DEF Placed, Moves
  <2>2. PICK next \in Reader : Carried(mode, c, t, next) /\ next.pieces = d.pieces
    BY <1>7, <2>1, AddingMessageStop
  <2>3. QED BY <1>7, <2>1, <2>2 DEF Placed
<1>8. CASE ~b.stopped /\ e.type = "ping"
  <2>1. PICK next \in Reader :
            /\ Carried(mode, c, t, next) /\ next.pieces = d.pieces
            /\ Going(b) => Going(t)
            /\ Fresh(d.seen, b) => Fresh(next.seen, t)
            /\ Finishing(d.seen, b) => Finishing(next.seen, t)
    BY <1>8, AddingPing
  <2>2. mode = "strict" => Placed(api, place2, next.seen, t)
    BY <1>8, <2>1 DEF Placed, Moves
  <2>3. QED BY <1>8, <2>1, <2>2
<1>9. b \in MessagesBuffer /\ e \in MessagesEvent
  BY PhaseIs DEF Says
<1>10. QED BY <1>1, <1>2, <1>3, <1>4, <1>5, <1>6, <1>7, <1>8, <1>9 DEF MessagesEvent

\* to_bytes
LEMMA WritingMessages ==
    ASSUME NEW mode, NEW c, NEW b, NEW d, Carried(mode, c, b, d),
           NEW n \in Nat \ {0}, \A i \in DOMAIN d.pieces : d.pieces[i] < n
    PROVE  \E next \in Reader :
              /\ Reaches("messages", mode, c, FinishMessages(b).out, next)
              /\ next.pieces = d.pieces
              /\ PhaseOf(next.seen, FlushedMessages(b))
              /\ \A api, place : Placed(api, place, d.seen, b)
                                    => Placed(api, place, next.seen, FlushedMessages(b))
<1> DEFINE s == FinishMessages(b)
           t == FlushedMessages(b)
<1>1. d \in Reader /\ b \in MessagesBuffer /\ d.seen.phase = PhaseBy(b) /\ (b.delta => b.started)
  BY PhaseIs
<1>2. t = [s EXCEPT !.out = <<>>]
  BY DEF FlushedMessages
<1>3. <<>> \in Seq(MessagesEvent)
  OBVIOUS
<1>4. CASE ~(b.delta /\ ~b.stopped)
  <2>1. s = b
    BY <1>4 DEF FinishMessages
  <2>2. /\ t.started = b.started /\ t.stopped = b.stopped /\ t.blocks = b.blocks
        /\ t.open = b.open /\ t.delta = b.delta /\ t \in MessagesBuffer
    BY <1>1, <1>2, <1>3, <2>1 DEF MessagesBuffer
  <2> HIDE DEF s, t
  <2>3. PhaseOf(d.seen, t)
    BY <2>2 DEF PhaseOf, Carried
  <2>4. ASSUME NEW api, NEW place, Placed(api, place, d.seen, b)
        PROVE  Placed(api, place, d.seen, t)
    BY <1>4, <2>2, <2>4 DEF Placed, Finishing, Going, Fresh, Filled, Closed
  <2>5. QED BY <1>1, <2>1, <2>3, <2>4 DEF Carried, s, t
<1>5. CASE b.delta /\ ~b.stopped
  <2> DEFINE next == After(d, MessageStop)
  <2>1. Says(MessageStop, n) /\ MessageStop.type = "message_stop"
    BY OwnEvents
  <2>2. /\ s.out = Append(b.out, MessageStop) /\ s.stopped = TRUE /\ s.delta = FALSE
        /\ s.started = b.started /\ s.blocks = b.blocks /\ s.open = b.open /\ Shaped(s)
    BY <1>1, <1>5 DEF FinishMessages, PushMessageStop, Push, MessagesBuffer, Shaped
  <2>3. ProperMessage(mode, d.seen, MessageStop)
    BY <1>1, <1>5, <2>1 DEF ProperMessage, PhaseBy
  <2>4. next.pieces = d.pieces /\ next.seen.phase = "stopped" /\ next.seen.block = d.seen.block
    BY <1>1, <2>1, AfterFields
  <2> HIDE DEF s, next
  <2>5. next.seen.phase = PhaseBy(s) /\ (s.stopped \/ s.delta => s.started)
    BY <1>1, <1>5, <2>2, <2>4 DEF PhaseBy
  <2>6. Carried(mode, c, s, next) /\ next \in Reader
    BY <2>1, <2>2, <2>3, <2>5, Pushing DEF next
  <2>7. s \in MessagesBuffer
    BY <2>6, PhaseIs
  <2>8. /\ t.started = s.started /\ t.stopped = s.stopped /\ t.blocks = s.blocks
        /\ t.open = s.open /\ t.delta = s.delta /\ t \in MessagesBuffer
    BY <1>2, <1>3, <2>7 DEF MessagesBuffer
  <2> HIDE DEF t
  <2>9. PhaseOf(next.seen, t)
    BY <2>6, <2>8 DEF PhaseOf, Carried
  <2>10. ASSUME NEW api, NEW place, Placed(api, place, d.seen, b)
         PROVE  Placed(api, place, next.seen, t)
    BY <1>5, <2>2, <2>8, <2>10 DEF Placed, Finishing, Going
  <2>11. QED BY <2>4, <2>6, <2>9, <2>10 DEF Carried, s, t
<1>6. QED BY <1>4, <1>5

-----------------------------------------------------------------------------
\* The Responses client and its buffer.

Bears(d, e) == e.type \in {"text_delta", "args_delta"} /\ e.piece > 0

\* A client in state d when it has read e.
Later(d, e) ==
    [seen   |-> ReadResponse(d.seen, e),
     pieces |-> IF Bears(d, e) THEN Append(d.pieces, e.piece) ELSE d.pieces]

\* The events of a stream whose next piece is n.
Tells(e, n) ==
    /\ e.type \in {"created", "in_progress", "item_added", "text_delta", "args_delta",
                   "text_done", "args_done", "item_done", "completed"}
    /\ e.item = 0
    /\ e.type \in {"text_delta", "args_delta"} => e.piece \in {0, n}

\* What becomes of a Responses client that reads an event.
LEMMA LaterFields ==
    ASSUME NEW d \in Reader, NEW n \in Nat, NEW e, Tells(e, n)
    PROVE  /\ Later(d, e) \in Reader
           /\ Later(d, e).pieces = IF Bears(d, e) THEN Append(d.pieces, n) ELSE d.pieces
           /\ Later(d, e).seen.phase = IF e.type = "created" THEN "created"
                                       ELSE IF e.type = "in_progress" THEN "open"
                                       ELSE IF e.type = "completed" THEN "completed"
                                       ELSE d.seen.phase
           /\ Later(d, e).seen.added = IF e.type = "item_added" THEN Append(d.seen.added, 0)
                                       ELSE d.seen.added
           /\ Later(d, e).seen.done = IF e.type = "item_done" THEN Append(d.seen.done, 0)
                                      ELSE d.seen.done
<1>1. d.seen \in Seen /\ d.pieces \in Seq(Nat)
  BY DEF Reader
<1>2. ASSUME NEW s \in Seen
      PROVE  /\ [s EXCEPT !.phase = "created"] \in Seen
             /\ [s EXCEPT !.phase = "open"] \in Seen
             /\ [s EXCEPT !.phase = "completed"] \in Seen
             /\ [s EXCEPT !.added = Append(@, 0)] \in Seen
             /\ [s EXCEPT !.filled = 0] \in Seen
             /\ [s EXCEPT !.done = Append(@, 0), !.filled = -1] \in Seen
  <2>1. /\ [s EXCEPT !.phase = "created"] \in Seen
        /\ [s EXCEPT !.phase = "open"] \in Seen
        /\ [s EXCEPT !.phase = "completed"] \in Seen
    BY DEF Seen, Phases
  <2>2. Append(s.added, 0) \in Seq(Nat) /\ Append(s.done, 0) \in Seq(Nat) /\ -1 \in Int
    BY DEF Seen
  <2>3. [s EXCEPT !.added = Append(@, 0)] \in Seen
    BY <2>2 DEF Seen
  <2>4. [s EXCEPT !.filled = 0] \in Seen
    BY DEF Seen
  <2>5. [s EXCEPT !.done = Append(@, 0), !.filled = -1] \in Seen
    BY <2>2 DEF Seen
  <2>6. QED BY <2>1, <2>3, <2>4, <2>5
<1>3. ReadResponse(d.seen, e) \in Seen
  BY <1>1, <1>2 DEF ReadResponse, Tells
<1>4. Bears(d, e) => e.piece = n /\ Append(d.pieces, n) \in Seq(Nat)
  BY <1>1 DEF Bears, Tells
<1>5. Later(d, e) \in Reader
  BY <1>1, <1>3, <1>4 DEF Later, Reader
<1>6. Later(d, e).pieces = IF Bears(d, e) THEN Append(d.pieces, n) ELSE d.pieces
  BY <1>4 DEF Later
<1>7. QED BY <1>1, <1>5, <1>6 DEF Later, ReadResponse, Tells, Seen

\* An item that is done is one more that is done.
LEMMA LaterDone ==
    ASSUME NEW d \in Reader, NEW n \in Nat, NEW e, Tells(e, n), e.type = "item_done"
    PROVE  /\ Later(d, e).seen.added = d.seen.added
           /\ Later(d, e).seen.done = Append(d.seen.done, 0)
<1>1. Later(d, e).seen.done = IF e.type = "item_done" THEN Append(d.seen.done, 0)
                              ELSE d.seen.done
  BY LaterFields
<1>2. Later(d, e).seen.added = IF e.type = "item_added" THEN Append(d.seen.added, 0)
                               ELSE d.seen.added
  BY LaterFields
<1>3. QED BY <1>1, <1>2

\* A proper event can be sent after all others.
LEMMA Telling ==
    ASSUME NEW mode, NEW c, NEW d, NEW out, Reaches("responses", mode, c, out, d),
           NEW n \in Nat \ {0}, \A i \in DOMAIN d.pieces : d.pieces[i] < n,
           NEW e, Tells(e, n), ProperResponse(mode, d.seen, e)
    PROVE  Reaches("responses", mode, c, Append(out, e), Later(d, e))
<1>1. d \in Reader /\ Later(d, e) \in Reader
  BY Readers, LaterFields
<1>2. Content("responses", e) = IF Bears(d, e) THEN {n} ELSE {}
  BY DEF Content, PiecesIn, Tells, Bears
<1>3. Proper("responses", mode, d.seen, e)
  BY DEF Proper
<1>4. Later(d, e).seen = Read("responses", d.seen, e)
  BY DEF Later, Read
<1>5. Later(d, e).pieces = IF Bears(d, e) THEN Append(d.pieces, n) ELSE d.pieces
  BY <1>1, LaterFields
<1>6. Reads("responses", mode, d, e, Later(d, e))
  BY <1>2, <1>3, <1>4, <1>5 DEF Reads
<1>7. QED BY <1>1, <1>6, ReachesMore

\* A client in state c that is sent what is in the buffer comes to state d.
Brought(mode, c, b, d) ==
    Reaches("responses", mode, c, b.out, d) /\ LifeOf(d.seen, b)

\* Nothing of the buffer but what is written and counted is different.
Same(b, t) ==
    /\ t.finalized = b.finalized /\ t.text = b.text /\ t.args = b.args
    /\ t.completed = b.completed

\* The events the Responses buffer writes are of its API.
LEMMA WrittenFields ==
    ASSUME NEW n \in Nat \ {0}, NEW piece, piece \in {0, n}, NEW seq,
           NEW type, type \in {"created", "in_progress", "item_added", "text_delta", "args_delta",
                         "text_done", "args_done", "item_done", "completed"}
    PROVE  /\ Tells(Written(type, 0, piece, seq), n)
           /\ Written(type, 0, piece, seq).type = type
           /\ Written(type, 0, piece, seq).item = 0
           /\ Written(type, 0, piece, seq).piece = piece
BY DEF Tells, Written

\* What is known of the client and of the buffer whose events it read.
LEMMA BroughtFields ==
    ASSUME NEW mode, NEW c, NEW b, NEW d, Brought(mode, c, b, d)
    PROVE  /\ d \in Reader /\ IsList(b.out) /\ ResponseBuffer(b)
           /\ b.created \in BOOLEAN /\ b.finalized \in BOOLEAN
           /\ b.finalized => b.created
           /\ d.seen.phase = IF b.finalized THEN "completed" ELSE IF b.created THEN "open" ELSE "none"
           /\ b.added = DOMAIN b.text \cup DOMAIN b.args
           /\ DOMAIN b.text \subseteq {0} /\ DOMAIN b.args \subseteq {0}
           /\ d.seen.added = IF b.added = {} THEN <<>> ELSE <<0>>
           /\ ~b.finalized => d.seen.done = <<>>
<1>1. d \in Reader /\ IsList(b.out)
  BY Readers DEF Brought
<1>2. LifeOf(d.seen, b)
  BY DEF Brought
<1>3. ResponseBuffer(b)
  BY <1>2 DEF LifeOf
<1>4. b.created \in BOOLEAN /\ b.finalized \in BOOLEAN
  BY <1>3 DEF ResponseBuffer
<1>5. DOMAIN b.text \subseteq {0} /\ DOMAIN b.args \subseteq {0}
  BY <1>3 DEF ResponseBuffer
<1>6. QED BY <1>1, <1>2, <1>3, <1>4, <1>5 DEF LifeOf

\* created and in_progress are written before all else.
LEMMA Beginning ==
    ASSUME NEW mode, NEW c, NEW b, NEW d, Brought(mode, c, b, d),
           NEW n \in Nat \ {0}, \A i \in DOMAIN d.pieces : d.pieces[i] < n
    PROVE  \E next \in Reader :
              /\ Brought(mode, c, Prelude(b), next) /\ next.pieces = d.pieces
              /\ Prelude(b).created /\ Same(b, Prelude(b))
<1>1. /\ d \in Reader /\ ResponseBuffer(b) /\ b.created \in BOOLEAN /\ b.finalized \in BOOLEAN
      /\ b.finalized => b.created
      /\ d.seen.phase = IF b.finalized THEN "completed" ELSE IF b.created THEN "open" ELSE "none"
  BY BroughtFields
<1>2. CASE b.created
  BY <1>1, <1>2 DEF Prelude, Same
<1>3. CASE ~b.created
  <2> DEFINE u == Written("created", 0, 0, b.seq)
             v == Written("in_progress", 0, 0, b.seq + 1)
             t == Prelude(b)
             x == Later(d, u)
             next == Later(x, v)
  <2>1. Tells(u, n) /\ u.type = "created" /\ Tells(v, n) /\ v.type = "in_progress"
    BY WrittenFields
  <2>2. /\ t.out = Append(Append(b.out, u), v)
        /\ t.created = TRUE /\ t.finalized = b.finalized /\ t.added = b.added
        /\ t.text = b.text /\ t.args = b.args /\ t.completed = b.completed
        /\ ResponseBuffer(t)
    BY <1>1, <1>3 DEF Prelude, Write, ResponseBuffer
  <2> HIDE DEF u, v, t
  <2>3. ProperResponse(mode, d.seen, u)
    BY <1>1, <1>3, <2>1 DEF ProperResponse
  <2>4. /\ x \in Reader /\ x.pieces = d.pieces /\ x.seen.phase = "created"
        /\ x.seen.added = d.seen.added /\ x.seen.done = d.seen.done
    BY <1>1, <2>1, LaterFields DEF Bears
  <2>5. Reaches("responses", mode, c, Append(b.out, u), x)
    BY <2>1, <2>3, Telling DEF Brought
  <2> HIDE DEF x
  <2>6. ProperResponse(mode, x.seen, v)
    BY <2>1, <2>4 DEF ProperResponse
  <2>7. /\ next \in Reader /\ next.pieces = d.pieces /\ next.seen.phase = "open"
        /\ next.seen.added = d.seen.added /\ next.seen.done = d.seen.done
    BY <2>1, <2>4, LaterFields DEF Bears
  <2>a. \A i \in DOMAIN x.pieces : x.pieces[i] < n
    BY <2>4
  <2>8. Reaches("responses", mode, c, t.out, next)
    BY <2>1, <2>2, <2>5, <2>6, <2>a, Telling
  <2> HIDE DEF next
  <2>9. ~b.finalized
    BY <1>1, <1>3
  <2>b. LifeOf(d.seen, b)
    BY DEF Brought
  <2>10. LifeOf(next.seen, t)
    BY <2>2, <2>7, <2>9, <2>b DEF LifeOf
  <2>11. QED BY <2>2, <2>7, <2>8, <2>10 DEF Brought, Same, t
<1>4. QED BY <1>1, <1>2, <1>3

\* The item is announced, if it was not, and then a piece of it is written;
\* what is held of it is another matter.
Announced(b, type, piece) == Write(Announce(b, 0), type, 0, piece)

Announces(b, x, s, next) ==
    /\ next.phase = s.phase /\ next.done = s.done /\ next.added = <<0>>
    /\ x.added = {0} /\ x.created = TRUE /\ Same(b, x) /\ ResponseBuffer(x)

\* A delta is announced by its item, unless that was, and then filled.
LEMMA Announcing ==
    ASSUME NEW mode, NEW c, NEW b, NEW d, Brought(mode, c, b, d),
           b.created, b.finalized => mode = "any",
           NEW n \in Nat \ {0}, \A i \in DOMAIN d.pieces : d.pieces[i] < n,
           NEW piece, piece \in {0, n}, NEW type, type \in {"text_delta", "args_delta"}
    PROVE  \E next \in Reader :
              /\ Reaches("responses", mode, c, Announced(b, type, piece).out, next)
              /\ next.pieces = IF piece > 0 THEN Append(d.pieces, n) ELSE d.pieces
              /\ Announces(b, Announced(b, type, piece), d.seen, next.seen)
<1> DEFINE a == Announce(b, 0)
           x == Announced(b, type, piece)
           u == Written("item_added", 0, 0, b.seq)
           v == Written(type, 0, piece, a.seq)
<1>1. /\ d \in Reader /\ IsList(b.out) /\ ResponseBuffer(b) /\ b.created \in BOOLEAN
      /\ d.seen.phase = IF b.finalized THEN "completed" ELSE IF b.created THEN "open" ELSE "none"
      /\ b.added = DOMAIN b.text \cup DOMAIN b.args
      /\ DOMAIN b.text \subseteq {0} /\ DOMAIN b.args \subseteq {0}
      /\ d.seen.added = IF b.added = {} THEN <<>> ELSE <<0>>
      /\ ~b.finalized => d.seen.done = <<>>
  BY BroughtFields
<1>2. Tells(u, n) /\ u.type = "item_added" /\ u.item = 0
  BY WrittenFields
<1>3. Tells(v, n) /\ v.type = type /\ v.item = 0 /\ v.piece = piece
  BY WrittenFields
<1>4. /\ mode # "any" => d.seen.phase = "open"
      /\ d.seen.phase \in {"open", "completed"}
      /\ d.seen.phase = "open" => d.seen.done = <<>>
  BY <1>1
<1>5. \E y \in Reader :
          /\ Reaches("responses", mode, c, a.out, y)
          /\ y.pieces = d.pieces /\ y.seen.phase = d.seen.phase /\ y.seen.done = d.seen.done
          /\ y.seen.added = <<0>>
          /\ a.added = {0} /\ a.created = TRUE /\ Same(b, a) /\ ResponseBuffer(a)
  <2>1. CASE 0 \in b.added
    <3>1. a = b /\ b.added = {0}
      BY <1>1, <2>1 DEF Announce
    <3>2. QED BY <1>1, <2>1, <3>1 DEF Brought, Same
  <2>2. CASE 0 \notin b.added
    <3> DEFINE y == Later(d, u)
    <3>1. b.added = {}
      BY <1>1, <2>2
    <3>2. /\ a.out = Append(b.out, u) /\ a.added = {0} /\ a.created = b.created
          /\ Same(b, a) /\ ResponseBuffer(a)
      BY <1>1, <2>2, <3>1 DEF Announce, Write, Same, ResponseBuffer
    <3>3. Members(d.seen.added) = {}
      BY <1>1, <3>1 DEF Members
    <3> HIDE DEF a, u
    <3>4. ProperResponse(mode, d.seen, u)
      BY <1>2, <1>4, <3>3 DEF ProperResponse
    <3>5. /\ y \in Reader /\ y.pieces = d.pieces /\ y.seen.phase = d.seen.phase
          /\ y.seen.added = Append(d.seen.added, 0) /\ y.seen.done = d.seen.done
      BY <1>1, <1>2, LaterFields DEF Bears
    <3>6. y.seen.added = <<0>>
      <4>1. d.seen.added = <<>>
        BY <1>1, <3>1
      <4>2. QED BY <3>5, <4>1
    <3>7. Reaches("responses", mode, c, a.out, y)
      BY <1>2, <3>2, <3>4, Telling DEF Brought
    <3> HIDE DEF y
    <3>8. QED BY <3>2, <3>5, <3>6, <3>7
  <2>3. QED BY <2>1, <2>2
<1> HIDE DEF a, u
<1>6. PICK y \in Reader :
          /\ Reaches("responses", mode, c, a.out, y)
          /\ y.pieces = d.pieces /\ y.seen.phase = d.seen.phase /\ y.seen.done = d.seen.done
          /\ y.seen.added = <<0>>
          /\ a.added = {0} /\ a.created = TRUE /\ Same(b, a) /\ ResponseBuffer(a)
  BY <1>5
<1> DEFINE next == Later(y, v)
<1>7. /\ x.out = Append(a.out, v) /\ x.added = a.added /\ x.created = a.created
      /\ Same(a, x) /\ ResponseBuffer(x)
  BY <1>6 DEF Announced, Write, Same, ResponseBuffer, a
<1> HIDE DEF v, x
<1>8. ProperResponse(mode, y.seen, v)
  <2>1. Members(y.seen.added) = {0} /\ (y.seen.phase = "open" => Members(y.seen.done) = {})
    BY <1>4, <1>6 DEF Members
  <2>2. QED BY <1>3, <1>4, <1>6, <2>1 DEF ProperResponse
<1>9. /\ next \in Reader
      /\ next.pieces = IF piece > 0 THEN Append(d.pieces, n) ELSE d.pieces
      /\ next.seen.phase = d.seen.phase /\ next.seen.done = d.seen.done
      /\ next.seen.added = <<0>>
  BY <1>3, <1>6, LaterFields DEF Bears
<1>10. \A i \in DOMAIN y.pieces : y.pieces[i] < n
  BY <1>6
<1>11. Reaches("responses", mode, c, x.out, next)
  BY <1>3, <1>6, <1>7, <1>8, <1>10, Telling
<1> HIDE DEF next
<1>12. Same(b, x)
  BY <1>6, <1>7 DEF Same
<1> HIDE DEF x
<1>13. x.added = {0} /\ x.created = TRUE /\ ResponseBuffer(x)
  BY <1>6, <1>7
<1>14. QED BY <1>9, <1>11, <1>12, <1>13 DEF x, Announces

\* What is held of the only item when a piece is added.
LEMMA AddingPiece ==
    ASSUME NEW content, DOMAIN content \subseteq {0}, content \in [DOMAIN content -> Seq(Nat)],
           NEW n \in Nat \ {0}, NEW piece, piece \in {0, n}
    PROVE  /\ DOMAIN AddPiece(content, 0, piece) = {0}
           /\ AddPiece(content, 0, piece) \in [{0} -> Seq(Nat)]
           /\ Held(AddPiece(content, 0, piece)) =
                 IF piece > 0 THEN Append(Held(content), n) ELSE Held(content)
<1>1. Held(content) \in Seq(Nat)
  BY DEF Held
<1>2. (IF piece > 0 THEN Append(Held(content), n) ELSE Held(content)) \in Seq(Nat)
  BY <1>1
<1>3. DOMAIN content \cup {0} = {0}
  OBVIOUS
<1>4. AddPiece(content, 0, piece) =
         [i \in {0} |-> IF piece > 0 THEN Append(Held(content), n) ELSE Held(content)]
  BY <1>3 DEF AddPiece, Held
<1>5. QED BY <1>2, <1>4 DEF Held

\* add_transformed_event of a delta of either kind, before the response is
\* completed unless the stream is a broken one.
LEMMA AddingText ==
    ASSUME NEW mode, NEW c, NEW b, NEW d, Brought(mode, c, b, d), b.finalized => mode = "any",
           NEW n \in Nat \ {0}, \A i \in DOMAIN d.pieces : d.pieces[i] < n,
           NEW e, e.type = "text_delta", e.index = 0, e.piece \in {0, n}
    PROVE  \E next \in Reader :
              /\ Brought(mode, c, AddToResponse(b, e), next)
              /\ next.pieces = IF e.piece > 0 THEN Append(d.pieces, n) ELSE d.pieces
              /\ AddToResponse(b, e).finalized = b.finalized
              /\ AddToResponse(b, e).args = b.args
              /\ Held(AddToResponse(b, e).text) =
                    IF e.piece > 0 THEN Append(Held(b.text), n) ELSE Held(b.text)
<1> DEFINE p == Prelude(b)
           x == Announced(p, "text_delta", e.piece)
           t == AddToResponse(b, e)
<1>1. PICK y \in Reader :
          Brought(mode, c, p, y) /\ y.pieces = d.pieces /\ p.created /\ Same(b, p)
  BY Beginning
<1>2. t = [x EXCEPT !.text = AddPiece(@, 0, e.piece)]
  BY DEF AddToResponse, AddTextDelta, Announced
<1> HIDE DEF p
<1>3. p.finalized => mode = "any"
  BY <1>1 DEF Same
<1>4. \A i \in DOMAIN y.pieces : y.pieces[i] < n
  BY <1>1
<1>5. PICK next \in Reader :
          /\ Reaches("responses", mode, c, x.out, next)
          /\ next.pieces = IF e.piece > 0 THEN Append(y.pieces, n) ELSE y.pieces
          /\ next.seen.phase = y.seen.phase /\ next.seen.done = y.seen.done
          /\ next.seen.added = <<0>>
          /\ x.added = {0} /\ x.created = TRUE /\ Same(p, x) /\ ResponseBuffer(x)
  <2> DEFINE piece == e.piece
             type == "text_delta"
  <2>1. piece \in {0, n} /\ type \in {"text_delta", "args_delta"}
    OBVIOUS
  <2> HIDE DEF piece, type
  <2>2. \E next \in Reader :
          /\ Reaches("responses", mode, c, Announced(p, type, piece).out, next)
          /\ next.pieces = IF piece > 0 THEN Append(y.pieces, n) ELSE y.pieces
          /\ Announces(p, Announced(p, type, piece), y.seen, next.seen)
    BY <1>1, <1>3, <1>4, <2>1, Announcing
  <2>3. QED BY <2>2 DEF piece, type, Announces
<1> HIDE DEF x, t
<1>6. /\ x.text = b.text /\ x.args = b.args /\ x.finalized = b.finalized
      /\ DOMAIN x.text \subseteq {0} /\ x.text \in [DOMAIN x.text -> Seq(Nat)]
      /\ DOMAIN x.args \subseteq {0} /\ x.args \in [DOMAIN x.args -> Seq(Nat)]
  BY <1>1, <1>5 DEF Same, ResponseBuffer
<1>7. /\ DOMAIN AddPiece(x.text, 0, e.piece) = {0}
      /\ AddPiece(x.text, 0, e.piece) \in [{0} -> Seq(Nat)]
      /\ Held(AddPiece(x.text, 0, e.piece)) =
            IF e.piece > 0 THEN Append(Held(x.text), n) ELSE Held(x.text)
  <2> DEFINE held == x.text
             piece == e.piece
  <2>1. piece \in {0, n} /\ DOMAIN held \subseteq {0} /\ held \in [DOMAIN held -> Seq(Nat)]
    BY <1>6
  <2> HIDE DEF held, piece
  <2>2. /\ DOMAIN AddPiece(held, 0, piece) = {0}
        /\ AddPiece(held, 0, piece) \in [{0} -> Seq(Nat)]
        /\ Held(AddPiece(held, 0, piece)) = IF piece > 0 THEN Append(Held(held), n) ELSE Held(held)
    BY <2>1, AddingPiece
  <2>3. QED BY <2>2 DEF held, piece
<1> DEFINE longer == AddPiece(x.text, 0, e.piece)
<1>8. /\ t.out = x.out /\ t.created = x.created /\ t.finalized = x.finalized
      /\ t.added = x.added /\ t.text = longer /\ t.args = x.args
  BY <1>2, <1>5 DEF ResponseBuffer
<1>9. ResponseBuffer(t)
  <2>1. t \in [out : {t.out}, seq : {t.seq}, created : BOOLEAN, finalized : BOOLEAN,
               added : SUBSET {0}, text : {t.text}, args : {t.args}, named : {t.named},
               completed : {t.completed}]
    BY <1>2, <1>5 DEF ResponseBuffer
  <2> HIDE DEF longer
  <2>2. QED BY <1>6, <1>7, <1>8, <2>1 DEF ResponseBuffer, longer
<1>10. LifeOf(next.seen, t)
  <2>1. LifeOf(y.seen, p)
    BY <1>1 DEF Brought
  <2>2. t.added = {0} /\ t.added = DOMAIN t.text \cup DOMAIN t.args
    BY <1>5, <1>6, <1>7, <1>8
  <2>3. t.created = p.created /\ t.finalized = p.finalized
    BY <1>1, <1>5, <1>8, <2>1 DEF Same, LifeOf, ResponseBuffer
  <2> HIDE DEF longer
  <2>4. QED BY <1>5, <1>9, <2>1, <2>2, <2>3 DEF LifeOf
<1> HIDE DEF longer
<1>11. QED BY <1>1, <1>5, <1>6, <1>7, <1>8, <1>10 DEF Brought, t, longer

\* The same of a piece of the arguments.
LEMMA AddingArguments ==
    ASSUME NEW mode, NEW c, NEW b, NEW d, Brought(mode, c, b, d), b.finalized => mode = "any",
           NEW n \in Nat \ {0}, \A i \in DOMAIN d.pieces : d.pieces[i] < n,
           NEW e, e.type = "args_delta", e.index = 0, e.piece \in {0, n}
    PROVE  \E next \in Reader :
              /\ Brought(mode, c, AddToResponse(b, e), next)
              /\ next.pieces = IF e.piece > 0 THEN Append(d.pieces, n) ELSE d.pieces
              /\ AddToResponse(b, e).finalized = b.finalized
              /\ AddToResponse(b, e).text = b.text
              /\ Held(AddToResponse(b, e).args) =
                    IF e.piece > 0 THEN Append(Held(b.args), n) ELSE Held(b.args)
<1> DEFINE p == Prelude(b)
           q == IF e.start THEN [p EXCEPT !.named = @ \cup {0}] ELSE p
           x == Announced(q, "args_delta", e.piece)
           t == AddToResponse(b, e)
<1>1. PICK y \in Reader :
          Brought(mode, c, p, y) /\ y.pieces = d.pieces /\ p.created /\ Same(b, p)
  BY Beginning
<1>2. t = [x EXCEPT !.args = AddPiece(@, 0, e.piece)]
  BY DEF AddToResponse, AddArgumentsDelta, Announced
<1> HIDE DEF p
<1>a. /\ q.out = p.out /\ q.created = p.created /\ q.finalized = p.finalized
      /\ q.added = p.added /\ q.text = p.text /\ q.args = p.args /\ q.completed = p.completed
      /\ ResponseBuffer(q)
  <2>1. ResponseBuffer(p)
    BY <1>1, BroughtFields
  <2>2. QED BY <2>1 DEF ResponseBuffer
<1> HIDE DEF q
<1>b. Brought(mode, c, q, y) /\ q.created /\ Same(b, q)
  BY <1>1, <1>a DEF Brought, LifeOf, Same
<1>3. q.finalized => mode = "any"
  BY <1>b DEF Same
<1>4. \A i \in DOMAIN y.pieces : y.pieces[i] < n
  BY <1>1
<1>5. PICK next \in Reader :
          /\ Reaches("responses", mode, c, x.out, next)
          /\ next.pieces = IF e.piece > 0 THEN Append(y.pieces, n) ELSE y.pieces
          /\ next.seen.phase = y.seen.phase /\ next.seen.done = y.seen.done
          /\ next.seen.added = <<0>>
          /\ x.added = {0} /\ x.created = TRUE /\ Same(q, x) /\ ResponseBuffer(x)
  <2> DEFINE piece == e.piece
             type == "args_delta"
  <2>1. piece \in {0, n} /\ type \in {"text_delta", "args_delta"}
    OBVIOUS
  <2> HIDE DEF piece, type
  <2>2. \E next \in Reader :
          /\ Reaches("responses", mode, c, Announced(q, type, piece).out, next)
          /\ next.pieces = IF piece > 0 THEN Append(y.pieces, n) ELSE y.pieces
          /\ Announces(q, Announced(q, type, piece), y.seen, next.seen)
    BY <1>b, <1>3, <1>4, <2>1, Announcing
  <2>3. QED BY <2>2 DEF piece, type, Announces
<1> HIDE DEF x, t
<1>6. /\ x.text = b.text /\ x.args = b.args /\ x.finalized = b.finalized
      /\ DOMAIN x.text \subseteq {0} /\ x.text \in [DOMAIN x.text -> Seq(Nat)]
      /\ DOMAIN x.args \subseteq {0} /\ x.args \in [DOMAIN x.args -> Seq(Nat)]
  BY <1>b, <1>5 DEF Same, ResponseBuffer
<1>7. /\ DOMAIN AddPiece(x.args, 0, e.piece) = {0}
      /\ AddPiece(x.args, 0, e.piece) \in [{0} -> Seq(Nat)]
      /\ Held(AddPiece(x.args, 0, e.piece)) =
            IF e.piece > 0 THEN Append(Held(x.args), n) ELSE Held(x.args)
  <2> DEFINE held == x.args
             piece == e.piece
  <2>1. piece \in {0, n} /\ DOMAIN held \subseteq {0} /\ held \in [DOMAIN held -> Seq(Nat)]
    BY <1>6
  <2> HIDE DEF held, piece
  <2>2. /\ DOMAIN AddPiece(held, 0, piece) = {0}
        /\ AddPiece(held, 0, piece) \in [{0} -> Seq(Nat)]
        /\ Held(AddPiece(held, 0, piece)) = IF piece > 0 THEN Append(Held(held), n) ELSE Held(held)
    BY <2>1, AddingPiece
  <2>3. QED BY <2>2 DEF held, piece
<1> DEFINE longer == AddPiece(x.args, 0, e.piece)
<1>8. /\ t.out = x.out /\ t.created = x.created /\ t.finalized = x.finalized
      /\ t.added = x.added /\ t.args = longer /\ t.text = x.text
  BY <1>2, <1>5 DEF ResponseBuffer
<1>9. ResponseBuffer(t)
  <2>1. t \in [out : {t.out}, seq : {t.seq}, created : BOOLEAN, finalized : BOOLEAN,
               added : SUBSET {0}, text : {t.text}, args : {t.args}, named : {t.named},
               completed : {t.completed}]
    BY <1>2, <1>5 DEF ResponseBuffer
  <2> HIDE DEF longer
  <2>2. QED BY <1>6, <1>7, <1>8, <2>1 DEF ResponseBuffer, longer
<1>10. LifeOf(next.seen, t)
  <2>1. LifeOf(y.seen, q)
    BY <1>b DEF Brought
  <2>2. t.added = {0} /\ t.added = DOMAIN t.text \cup DOMAIN t.args
    BY <1>5, <1>6, <1>7, <1>8
  <2>3. t.created = q.created /\ t.finalized = q.finalized
    BY <1>b, <1>5, <1>8, <2>1 DEF Same, LifeOf, ResponseBuffer
  <2> HIDE DEF longer
  <2>4. QED BY <1>5, <1>9, <2>1, <2>2, <2>3 DEF LifeOf
<1> HIDE DEF longer
<1>11. QED BY <1>1, <1>5, <1>6, <1>7, <1>8, <1>10 DEF Brought, t, longer

\* The items that have content of one kind are done.
Finishes(b, t, content, s, next) ==
    /\ next.phase = s.phase /\ next.added = s.added
    /\ Members(next.done) = Members(s.done) \cup DOMAIN content
    /\ t.added = b.added /\ t.created = b.created /\ Same(b, t) /\ ResponseBuffer(t)

\* One more member.
LEMMA MembersMore ==
    ASSUME NEW list \in Seq(Nat), NEW n \in Nat
    PROVE  Members(Append(list, n)) = Members(list) \cup {n}
<1>1. /\ DOMAIN list = 1..Len(list) /\ DOMAIN Append(list, n) = 1..(Len(list) + 1)
      /\ Len(list) \in Nat
      /\ \A i \in 1..Len(list) : Append(list, n)[i] = list[i]
      /\ Append(list, n)[Len(list) + 1] = n
  OBVIOUS
<1>2. QED BY <1>1 DEF Members

\* The two events with which an item is done.
LEMMA TwoMore ==
    ASSUME NEW out, IsList(out), NEW u, NEW v
    PROVE  out \o [k \in 1..2 |-> IF k = 1 THEN u ELSE v] = Append(Append(out, u), v)
<1>1. PICK S : out \in Seq(S)
  BY DEF IsList
<1> DEFINE all == S \cup {u, v}
           two == [k \in 1..2 |-> IF k = 1 THEN u ELSE v]
<1>2. out \in Seq(all) /\ u \in all /\ v \in all /\ two = <<u, v>>
  BY <1>1
<1> HIDE DEF all, two
<1>3. out \o <<u, v>> = Append(Append(out, u), v)
  BY <1>2
<1>4. QED BY <1>2, <1>3 DEF two

\* The done events of the one item, if it has content of the kind.
LEMMA WriteDoneIs ==
    ASSUME NEW b, ResponseBuffer(b), IsList(b.out), NEW content, NEW type
    PROVE  /\ DOMAIN content = {} => WriteDone(b, content, type).out = b.out
           /\ DOMAIN content = {0} =>
                 WriteDone(b, content, type).out =
                    Append(Append(b.out, Written(type, 0, 0, b.seq + 1 - 1)),
                           Written("item_done", 0, 0, b.seq + 2 - 1))
           /\ WriteDone(b, content, type).added = b.added
           /\ WriteDone(b, content, type).created = b.created
           /\ Same(b, WriteDone(b, content, type))
           /\ ResponseBuffer(WriteDone(b, content, type))
<1> DEFINE t == WriteDone(b, content, type)
           items == Ascending(DOMAIN content)
           count == 2 * Len(items)
           events == [k \in 1..count |-> Written(IF k % 2 = 1 THEN type ELSE "item_done",
                                                 items[(k + 1) \div 2], 0, b.seq + k - 1)]
<1>1. t = [b EXCEPT !.out = @ \o events, !.seq = @ + count]
  BY DEF WriteDone
<1> HIDE DEF t
<1>2. /\ t.out = b.out \o events /\ t.added = b.added /\ t.created = b.created
      /\ Same(b, t) /\ ResponseBuffer(t)
  <2> HIDE DEF events, count
  <2>1. QED BY <1>1 DEF ResponseBuffer, Same
<1>3. CASE DOMAIN content = {}
  <2>1. items = <<>>
    BY <1>3, AscendingNone
  <2> HIDE DEF items
  <2>2. count = 0
    BY <2>1
  <2>3. events = <<>>
    BY <2>2
  <2>4. b.out \o <<>> = b.out
    BY DEF IsList
  <2> HIDE DEF events
  <2>5. QED BY <1>2, <1>3, <2>3, <2>4 DEF t
<1>4. CASE DOMAIN content = {0}
  <2> DEFINE u == Written(type, 0, 0, b.seq + 1 - 1)
             v == Written("item_done", 0, 0, b.seq + 2 - 1)
  <2>1. items = <<0>>
    BY <1>4, AscendingOne
  <2> HIDE DEF items
  <2>2. count = 2
    BY <2>1
  <2>3. events = [k \in 1..2 |-> IF k = 1 THEN u ELSE v]
    <3>1. /\ 1 % 2 = 1 /\ 2 % 2 # 1 /\ (1 + 1) \div 2 = 1 /\ (2 + 1) \div 2 = 1
          /\ 1..2 = {1, 2}
      OBVIOUS
    <3>2. items[1] = 0
      BY <2>1
    <3> HIDE DEF count
    <3>3. QED BY <2>2, <3>1, <3>2
  <2> HIDE DEF u, v, events
  <2>4. b.out \o [k \in 1..2 |-> IF k = 1 THEN u ELSE v] = Append(Append(b.out, u), v)
    BY TwoMore
  <2>5. t.out = Append(Append(b.out, u), v)
    BY <1>2, <2>3, <2>4
  <2>6. QED BY <1>2, <1>4, <2>5 DEF t, u, v
<1>5. QED BY <1>2, <1>3, <1>4 DEF t

\* The client can be sent them, and then has the item done.
LEMMA WritingDone ==
    ASSUME NEW mode, NEW c, NEW b, NEW d,
           Reaches("responses", mode, c, b.out, d), ResponseBuffer(b), d.seen.phase = "open",
           NEW content, DOMAIN content \subseteq {0}, DOMAIN content \subseteq Members(d.seen.added),
           mode = "strict" => DOMAIN content = {} \/ Members(d.seen.done) = {},
           NEW n \in Nat \ {0}, \A i \in DOMAIN d.pieces : d.pieces[i] < n,
           NEW type, type \in {"text_done", "args_done"}
    PROVE  \E next \in Reader :
              /\ Reaches("responses", mode, c, WriteDone(b, content, type).out, next)
              /\ next.pieces = d.pieces
              /\ Finishes(b, WriteDone(b, content, type), content, d.seen, next.seen)
<1> DEFINE t == WriteDone(b, content, type)
<1>1. d \in Reader /\ IsList(b.out)
  BY Readers
<1>2. /\ t.added = b.added /\ t.created = b.created /\ Same(b, t) /\ ResponseBuffer(t)
      /\ DOMAIN content = {} => t.out = b.out
  BY <1>1, WriteDoneIs
<1>3. CASE DOMAIN content = {}
  <2> HIDE DEF t
  <2>1. Reaches("responses", mode, c, t.out, d) /\ Finishes(b, t, content, d.seen, d.seen)
    BY <1>2, <1>3 DEF Finishes
  <2>2. QED BY <1>1, <2>1 DEF t
<1>4. CASE DOMAIN content = {0}
  <2> DEFINE u == Written(type, 0, 0, b.seq + 1 - 1)
             v == Written("item_done", 0, 0, b.seq + 2 - 1)
             x == Later(d, u)
             next == Later(x, v)
  <2>1. t.out = Append(Append(b.out, u), v)
    BY <1>1, <1>4, WriteDoneIs
  <2>2. Tells(u, n) /\ u.type \in {"text_done", "args_done"}
    BY WrittenFields
  <2>3. Tells(v, n) /\ v.type = "item_done" /\ v.item = 0
    BY WrittenFields
  <2> HIDE DEF u, v, t
  <2>4. ProperResponse(mode, d.seen, u)
    BY <2>2 DEF ProperResponse
  <2>5. /\ x \in Reader /\ x.pieces = d.pieces /\ x.seen.phase = "open"
        /\ x.seen.added = d.seen.added /\ x.seen.done = d.seen.done
    BY <1>1, <2>2, LaterFields DEF Bears
  <2>6. Reaches("responses", mode, c, Append(b.out, u), x)
    BY <2>2, <2>4, Telling
  <2> HIDE DEF x
  <2>7. ProperResponse(mode, x.seen, v)
    <3>1. 0 \in Members(x.seen.added) /\ (mode = "strict" => 0 \notin Members(x.seen.done))
      BY <1>4, <2>5
    <3>2. QED BY <2>3, <2>5, <3>1 DEF ProperResponse
  <2>8. /\ next \in Reader /\ next.pieces = d.pieces /\ next.seen.phase = "open"
        /\ next.seen.added = d.seen.added /\ next.seen.done = Append(x.seen.done, 0)
    <3>1. /\ next \in Reader /\ next.pieces = x.pieces /\ next.seen.phase = x.seen.phase
          /\ next.seen.added = x.seen.added /\ next.seen.done = Append(x.seen.done, 0)
      <4>1. ~Bears(x, v)
        BY <2>3 DEF Bears
      <4>2. next \in Reader /\ next.pieces = x.pieces
        BY <2>3, <2>5, <4>1, LaterFields
      <4>3. next.seen.phase = x.seen.phase
        BY <2>3, <2>5, LaterFields
      <4>4. next.seen.added = x.seen.added /\ next.seen.done = Append(x.seen.done, 0)
        BY <2>3, <2>5, LaterDone
      <4>5. QED BY <4>2, <4>3, <4>4
    <3> HIDE DEF next
    <3>2. QED BY <2>5, <3>1
  <2>9. Members(next.seen.done) = Members(d.seen.done) \cup DOMAIN content
    <3>1. x.seen.done \in Seq(Nat)
      BY <2>5 DEF Reader, Seen
    <3>2. QED BY <1>4, <2>5, <2>8, <3>1, MembersMore
  <2>10. \A i \in DOMAIN x.pieces : x.pieces[i] < n
    BY <2>5
  <2>11. Reaches("responses", mode, c, t.out, next)
    BY <2>1, <2>3, <2>6, <2>7, <2>10, Telling
  <2> HIDE DEF next
  <2>12. Finishes(b, t, content, d.seen, next.seen)
    BY <1>2, <2>8, <2>9 DEF Finishes
  <2>13. QED BY <2>8, <2>11, <2>12 DEF t
<1>5. QED BY <1>3, <1>4

\* The response is completed, with the output that was held.
Finalized(b, t) ==
    /\ t.finalized = TRUE /\ t.text = b.text /\ t.args = b.args
    /\ t.completed = IF b.finalized THEN b.completed ELSE Output(t)

\* The response is completed once all its items are done, and once only.
LEMMA Finalizing ==
    ASSUME NEW mode, NEW c, NEW b, NEW d, Brought(mode, c, b, d),
           mode = "strict" => DOMAIN b.text = {} \/ DOMAIN b.args = {},
           NEW n \in Nat \ {0}, \A i \in DOMAIN d.pieces : d.pieces[i] < n
    PROVE  \E next \in Reader :
              /\ Brought(mode, c, Finalize(b), next) /\ next.pieces = d.pieces
              /\ Finalized(b, Finalize(b))
<1>1. /\ d \in Reader /\ b.finalized \in BOOLEAN /\ DOMAIN b.text \subseteq {0}
      /\ DOMAIN b.args \subseteq {0} /\ b.added = DOMAIN b.text \cup DOMAIN b.args
      /\ ResponseBuffer(b)
  BY BroughtFields
<1>2. CASE b.finalized
  BY <1>1, <1>2 DEF Finalize, Finalized
<1>3. CASE ~b.finalized
  <2> DEFINE p == Prelude(b)
             u == WriteDone(p, b.text, "text_done")
             v == WriteDone(u, b.args, "args_done")
             w == Written("completed", 0, 0, v.seq)
             t == Finalize(b)
  <2>1. t = [Write(v, "completed", 0, 0) EXCEPT !.finalized = TRUE, !.completed = Output(b)]
    BY <1>3 DEF Finalize
  <2> HIDE DEF t
  <2>2. PICK x \in Reader :
            Brought(mode, c, p, x) /\ x.pieces = d.pieces /\ p.created /\ Same(b, p)
    BY Beginning
  <2> HIDE DEF p
  <2>3. /\ Reaches("responses", mode, c, p.out, x) /\ ResponseBuffer(p)
        /\ p.text = b.text /\ p.args = b.args /\ p.finalized = b.finalized
        /\ p.created = TRUE /\ p.added = b.added
        /\ x.seen.phase = "open" /\ x.seen.done = <<>>
        /\ x.seen.added = IF b.added = {} THEN <<>> ELSE <<0>>
    <3>1. /\ ResponseBuffer(p) /\ p.created \in BOOLEAN
          /\ x.seen.phase = IF p.finalized THEN "completed" ELSE IF p.created THEN "open" ELSE "none"
          /\ p.added = DOMAIN p.text \cup DOMAIN p.args
          /\ x.seen.added = IF p.added = {} THEN <<>> ELSE <<0>>
          /\ ~p.finalized => x.seen.done = <<>>
      BY <2>2, BroughtFields
    <3>2. p.text = b.text /\ p.args = b.args /\ p.finalized = b.finalized
      BY <2>2 DEF Same
    <3>3. p.added = b.added
      BY <1>1, <3>1, <3>2
    <3>4. QED BY <1>3, <2>2, <3>1, <3>2, <3>3 DEF Brought
  <2>4. Members(x.seen.added) = b.added /\ Members(x.seen.done) = {}
    <3>1. b.added = {} \/ b.added = {0}
      BY <1>1
    <3>2. QED BY <2>3, <3>1 DEF Members
  <2>5. \A i \in DOMAIN x.pieces : x.pieces[i] < n
    BY <2>2
  <2>6. PICK y \in Reader :
            /\ Reaches("responses", mode, c, u.out, y) /\ y.pieces = x.pieces
            /\ Finishes(p, u, b.text, x.seen, y.seen)
    <3> DEFINE content == b.text
               type == "text_done"
    <3>1. /\ DOMAIN content \subseteq {0} /\ DOMAIN content \subseteq Members(x.seen.added)
          /\ type \in {"text_done", "args_done"}
          /\ mode = "strict" => DOMAIN content = {} \/ Members(x.seen.done) = {}
      BY <1>1, <2>4
    <3> HIDE DEF content, type, u
    <3>2. \E y \in Reader :
            /\ Reaches("responses", mode, c, WriteDone(p, content, type).out, y)
            /\ y.pieces = x.pieces
            /\ Finishes(p, WriteDone(p, content, type), content, x.seen, y.seen)
      BY <2>3, <2>5, <3>1, WritingDone
    <3>3. QED BY <3>2 DEF content, type, u
  <2> HIDE DEF u
  <2>7. /\ y.seen.phase = "open" /\ y.seen.added = x.seen.added
        /\ Members(y.seen.done) = DOMAIN b.text
        /\ ResponseBuffer(u) /\ u.added = b.added /\ u.created = TRUE
        /\ u.text = b.text /\ u.args = b.args
    BY <2>3, <2>4, <2>6 DEF Finishes, Same
  <2>8. \A i \in DOMAIN y.pieces : y.pieces[i] < n
    BY <2>5, <2>6
  <2>9. PICK z \in Reader :
            /\ Reaches("responses", mode, c, v.out, z) /\ z.pieces = y.pieces
            /\ Finishes(u, v, b.args, y.seen, z.seen)
    <3> DEFINE content == b.args
               type == "args_done"
    <3>1. /\ DOMAIN content \subseteq {0} /\ DOMAIN content \subseteq Members(y.seen.added)
          /\ type \in {"text_done", "args_done"}
          /\ mode = "strict" => DOMAIN content = {} \/ Members(y.seen.done) = {}
      BY <1>1, <2>4, <2>7
    <3> HIDE DEF content, type, v
    <3>2. \E z \in Reader :
            /\ Reaches("responses", mode, c, WriteDone(u, content, type).out, z)
            /\ z.pieces = y.pieces
            /\ Finishes(u, WriteDone(u, content, type), content, y.seen, z.seen)
      BY <2>6, <2>7, <2>8, <3>1, WritingDone
    <3>3. QED BY <3>2 DEF content, type, v
  <2> HIDE DEF v
  <2>10. /\ z.seen.phase = "open" /\ z.seen.added = x.seen.added
         /\ Members(z.seen.done) = Members(z.seen.added)
         /\ ResponseBuffer(v) /\ v.added = b.added /\ v.created = TRUE
         /\ v.text = b.text /\ v.args = b.args
    BY <1>1, <2>4, <2>7, <2>9 DEF Finishes, Same
  <2> DEFINE next == Later(z, w)
  <2>11. Tells(w, n) /\ w.type = "completed"
    BY WrittenFields
  <2>12. /\ t.out = Append(v.out, w) /\ t.finalized = TRUE /\ t.completed = Output(b)
         /\ t.text = b.text /\ t.args = b.args /\ t.added = b.added /\ t.created = TRUE
         /\ ResponseBuffer(t)
    BY <2>1, <2>10 DEF Write, ResponseBuffer
  <2> HIDE DEF w
  <2>13. ProperResponse(mode, z.seen, w)
    BY <2>10, <2>11 DEF ProperResponse
  <2>14. /\ next \in Reader /\ next.pieces = z.pieces /\ next.seen.phase = "completed"
         /\ next.seen.added = z.seen.added
    BY <2>9, <2>11, LaterFields DEF Bears
  <2>15. \A i \in DOMAIN z.pieces : z.pieces[i] < n
    BY <2>8, <2>9
  <2>16. Reaches("responses", mode, c, t.out, next)
    BY <2>9, <2>11, <2>12, <2>13, <2>15, Telling
  <2> HIDE DEF next
  <2>17. LifeOf(next.seen, t)
    BY <1>1, <2>3, <2>10, <2>12, <2>14 DEF LifeOf
  <2>18. Output(t) = Output(b)
    BY <2>12 DEF Output
  <2>19. Finalized(b, t)
    BY <1>3, <2>12, <2>18 DEF Finalized
  <2>20. QED BY <2>2, <2>6, <2>9, <2>14, <2>16, <2>17, <2>19 DEF Brought, t
<1>4. QED BY <1>1, <1>2, <1>3

\* The events a Responses client's buffer is given of a stream whose next
\* piece is n, and those of a stream that keeps to its protocol.
Asks(e, n) ==
    /\ e.type \in {"done", "text_delta", "args_delta"} /\ e.index = 0 /\ e.piece \in {0, n}
    /\ e.type = "done" => e.piece = 0

Fits(api, kind, place, e, place2) ==
    /\ e.type = "done" => place2 \in Late
    /\ e.type # "done" => place \notin Late
    /\ kind = "text" => e.type # "args_delta"
    /\ kind = "tool" /\ e.type = "text_delta" => e.piece = 0 /\ api # "openai"

ResponseAdded(mode, c, b, d, n, e, api, kind, place2, next) ==
    /\ Brought(mode, c, AddToResponse(b, e), next)
    /\ next.pieces = IF e.piece > 0 THEN Append(d.pieces, n) ELSE d.pieces
    /\ kind # "any" => Holds(api, kind, place2, next, AddToResponse(b, e))

AddsResponse(mode, c, b, d, n, e, api, kind, place, place2) ==
    /\ Brought(mode, c, b, d)
    /\ \A i \in DOMAIN d.pieces : d.pieces[i] < n
    /\ kind \in {"text", "tool", "any"}
    /\ kind = "any" => mode = "any"
    /\ mode = "strict" => kind = "text" \/ (kind = "tool" /\ api = "openai")
    /\ kind # "any" => Holds(api, kind, place, d, b)
    /\ Asks(e, n)
    /\ kind # "any" => Fits(api, kind, place, e, place2)

\* Whatever event is added to the Responses buffer, the client can be sent
\* what is written, and stands to the buffer as the next place says.
LEMMA AddingResponse ==
    ASSUME NEW mode, NEW c, NEW b, NEW d, NEW n \in Nat \ {0}, NEW e, NEW api, NEW kind,
           NEW place, NEW place2, AddsResponse(mode, c, b, d, n, e, api, kind, place, place2)
    PROVE  \E next \in Reader : ResponseAdded(mode, c, b, d, n, e, api, kind, place2, next)
<1> SUFFICES \E next \in Reader :
                /\ Brought(mode, c, AddToResponse(b, e), next)
                /\ next.pieces = IF e.piece > 0 THEN Append(d.pieces, n) ELSE d.pieces
                /\ kind # "any" => Holds(api, kind, place2, next, AddToResponse(b, e))
  BY DEF ResponseAdded
<1> /\ Brought(mode, c, b, d)
    /\ \A i \in DOMAIN d.pieces : d.pieces[i] < n
    /\ kind \in {"text", "tool", "any"}
    /\ kind = "any" => mode = "any"
    /\ mode = "strict" => kind = "text" \/ (kind = "tool" /\ api = "openai")
    /\ kind # "any" => Holds(api, kind, place, d, b)
    /\ Asks(e, n)
    /\ kind # "any" => Fits(api, kind, place, e, place2)
  BY DEF AddsResponse
<1> DEFINE t == AddToResponse(b, e)
<1>1. /\ b.finalized \in BOOLEAN
      /\ kind # "any" /\ e.type # "done" => ~b.finalized
  BY BroughtFields DEF Holds, Fits
<1>2. CASE e.type = "done"
  <2>1. t = Finalize(b) /\ e.piece = 0
    BY <1>2 DEF AddToResponse, Asks
  <2>2. mode = "strict" => DOMAIN b.text = {} \/ DOMAIN b.args = {}
    BY DEF Holds
  <2>3. PICK next \in Reader :
            /\ Brought(mode, c, Finalize(b), next) /\ next.pieces = d.pieces
            /\ Finalized(b, Finalize(b))
    BY <2>2, Finalizing
  <2> DEFINE f == Finalize(b)
  <2>5. /\ f.text = b.text /\ f.args = b.args
        /\ b.finalized => f = b
        /\ ~b.finalized => f.completed = Output(f)
    BY <1>1, <2>3 DEF Finalized, Finalize
  <2> HIDE DEF f
  <2>6. ASSUME kind # "any" PROVE Holds(api, kind, place2, next, f)
    <3>1. Holds(api, kind, place, d, b) /\ place2 \in Late
      BY <1>2, <2>6 DEF Fits
    <3>2. f.completed = Output(f)
      BY <1>1, <2>5, <3>1 DEF Holds
    <3>3. QED BY <2>3, <2>5, <3>1, <3>2 DEF Holds
  <2>7. QED BY <2>1, <2>3, <2>6 DEF f
<1>3. CASE e.type = "text_delta"
  <2>1. (b.finalized => mode = "any") /\ e.index = 0 /\ e.piece \in {0, n}
    BY <1>1, <1>3 DEF Asks
  <2>2. PICK next \in Reader :
            /\ Brought(mode, c, t, next)
            /\ next.pieces = IF e.piece > 0 THEN Append(d.pieces, n) ELSE d.pieces
            /\ t.finalized = b.finalized /\ t.args = b.args
            /\ Held(t.text) = IF e.piece > 0 THEN Append(Held(b.text), n) ELSE Held(b.text)
    BY <1>3, <2>1, AddingText
  <2> HIDE DEF t
  <2>3. ASSUME kind # "any" PROVE Holds(api, kind, place2, next, t)
    <3>1. Holds(api, kind, place, d, b) /\ ~t.finalized /\ Fits(api, kind, place, e, place2)
      BY <1>1, <1>3, <2>2, <2>3
    <3>2. QED BY <1>3, <2>2, <2>3, <3>1 DEF Holds, Fits
  <2>4. QED BY <2>2, <2>3 DEF t
<1>4. CASE e.type = "args_delta"
  <2>1. (b.finalized => mode = "any") /\ e.index = 0 /\ e.piece \in {0, n}
    BY <1>1, <1>4 DEF Asks
  <2>2. PICK next \in Reader :
            /\ Brought(mode, c, t, next)
            /\ next.pieces = IF e.piece > 0 THEN Append(d.pieces, n) ELSE d.pieces
            /\ t.finalized = b.finalized /\ t.text = b.text
            /\ Held(t.args) = IF e.piece > 0 THEN Append(Held(b.args), n) ELSE Held(b.args)
    BY <1>4, <2>1, AddingArguments
  <2> HIDE DEF t
  <2>3. ASSUME kind # "any" PROVE Holds(api, kind, place2, next, t)
    <3>1. Holds(api, kind, place, d, b) /\ ~t.finalized /\ Fits(api, kind, place, e, place2)
      BY <1>1, <1>4, <2>2, <2>3
    <3>2. QED BY <1>4, <2>2, <2>3, <3>1 DEF Holds, Fits
  <2>4. QED BY <2>2, <2>3 DEF t
<1>5. QED BY <1>2, <1>3, <1>4 DEF Asks

\* to_bytes
LEMMA WritingResponse ==
    ASSUME NEW s, NEW b, LifeOf(s, b)
    PROVE  /\ LifeOf(s, FlushedResponse(b))
           /\ \A api, kind, place, c : Holds(api, kind, place, c, b)
                                          => Holds(api, kind, place, c, FlushedResponse(b))
<1> DEFINE t == FlushedResponse(b)
<1>1. /\ ResponseBuffer(t) /\ t.created = b.created /\ t.finalized = b.finalized
      /\ t.added = b.added /\ t.text = b.text /\ t.args = b.args /\ t.completed = b.completed
  BY DEF LifeOf, ResponseBuffer, FlushedResponse
<1> HIDE DEF t
<1>2. LifeOf(s, t)
  BY <1>1 DEF LifeOf
<1>3. Output(t) = Output(b)
  BY <1>1 DEF Output
<1>4. QED BY <1>1, <1>2, <1>3 DEF Holds, t

-----------------------------------------------------------------------------
\* The conversions, of every event of every course.

Kinds == {"text", "tool", "any"}
Places == {"start", "body", "block", "body2", "finished", "closing", "over"}

Steps(api, kind, n) == IF api = "openai" THEN ChatCourse(n)[kind] ELSE ConverseCourse(n)[kind]

\* Whether an event has a piece of content.
Bearing(api, e) ==
    CASE e = Done -> FALSE
      [] e # Done /\ api = "bedrock" -> e.piece > 0
      [] e # Done /\ api = "openai"  -> e.text > 0 \/ (\E i \in DOMAIN e.tools : e.tools[i].args > 0)

\* What a step of the upstream is to a client, as the event x: what it brings
\* it, and, of a stream that keeps to its protocol, that it brings all.
AsMessage(api, kind, t, n, x) ==
    /\ Says(x, n)
    /\ x.type = "content_block_delta" => Bearing(api, t[3])
    /\ kind # "any" => /\ Moves(api, t[1], x, t[2])
                       /\ Bearing(api, t[3]) => x.type = "content_block_delta"

AsResponse(api, kind, t, n, x) ==
    /\ Asks(x, n)
    /\ x.piece > 0 => Bearing(api, t[3])
    /\ kind # "any" => /\ Fits(api, kind, t[1], x, t[2])
                       /\ Bearing(api, t[3]) => x.piece > 0

AsChat(api, t, n, x) ==
    Content("chat", x) = IF Bearing(api, t[3]) THEN {n} ELSE {}

\* The events of each course of chat chunks: a text, a tool call, and any.
LEMMA ToolSteps ==
    ASSUME NEW n \in Nat \ {0}, NEW t \in ChatCourse(n)["tool"], t[3] # Done
    PROVE  /\ t[3].choice /\ ~t[3].usage /\ t[3].text = -1
           /\ \/ /\ t[1] = "start" /\ t[2] = "body" /\ ~t[3].finish /\ DOMAIN t[3].tools = {1}
                 /\ t[3].tools[1].start /\ t[3].tools[1].index = 0 /\ t[3].tools[1].args = 0
              \/ /\ t[1] = "body" /\ t[2] = "body" /\ ~t[3].finish /\ DOMAIN t[3].tools = {1}
                 /\ ~t[3].tools[1].start /\ t[3].tools[1].index = 0 /\ t[3].tools[1].args = n
              \/ t[1] = "body" /\ t[2] = "closing" /\ t[3].finish /\ t[3].tools = <<>>
<1>1. t[3].choice /\ ~t[3].usage /\ t[3].text = -1
  BY DEF ChatCourse, Chunk, ToolCall
<1>2. \/ /\ t[1] = "start" /\ t[2] = "body" /\ ~t[3].finish /\ DOMAIN t[3].tools = {1}
         /\ t[3].tools[1].start /\ t[3].tools[1].index = 0 /\ t[3].tools[1].args = 0
      \/ /\ t[1] = "body" /\ t[2] = "body" /\ ~t[3].finish /\ DOMAIN t[3].tools = {1}
         /\ ~t[3].tools[1].start /\ t[3].tools[1].index = 0 /\ t[3].tools[1].args = n
      \/ t[1] = "body" /\ t[2] = "closing" /\ t[3].finish /\ t[3].tools = <<>>
  BY DEF ChatCourse, Chunk, ToolCall
<1>3. QED BY <1>1, <1>2

OddChunks(n, f) ==
    {Chunk(TRUE, -1, <<>>, FALSE, FALSE), UsageChunk, EmptyChunk,
     Chunk(FALSE, -1, <<ToolCall(0, TRUE, 0)>>, FALSE, FALSE),
     Chunk(FALSE, n, <<>>, f, f), Chunk(FALSE, -1, <<>>, TRUE, f),
     Chunk(FALSE, -1, <<ToolCall(1, FALSE, n)>>, f, FALSE)}

\* The events of a chat stream that does not keep to its protocol.
LEMMA OddSteps ==
    ASSUME NEW n \in Nat \ {0}, NEW t \in ChatCourse(n)["any"]
    PROVE  /\ t[1] = "start" /\ t[2] = "start"
           /\ t[3] = Done \/ \E f \in BOOLEAN : t[3] \in OddChunks(n, f)
<1> DEFINE e == t[3]
           A == {Chunk(TRUE, -1, <<>>, FALSE, FALSE), UsageChunk, EmptyChunk, Done,
                 Chunk(FALSE, -1, <<ToolCall(0, TRUE, 0)>>, FALSE, FALSE)}
           B == {Chunk(FALSE, n, <<>>, f, f) : f \in BOOLEAN}
           C == {Chunk(FALSE, -1, <<>>, TRUE, u) : u \in BOOLEAN}
           D == {Chunk(FALSE, -1, <<ToolCall(1, FALSE, n)>>, f, FALSE) : f \in BOOLEAN}
<1>1. t \in {<<"start", "start", x>> : x \in A \cup B \cup C \cup D}
  BY Zenon DEF ChatCourse
<1> HIDE DEF A, B, C, D
<1>2. t[1] = "start" /\ t[2] = "start" /\ (e \in A \/ e \in B \/ e \in C \/ e \in D)
  BY <1>1 DEF e
<1> HIDE DEF e
<1>3. CASE e \in A
  BY <1>2, <1>3 DEF OddChunks, e, A
<1>4. CASE e \in B
  <2>1. PICK f \in BOOLEAN : e = Chunk(FALSE, n, <<>>, f, f)
    BY <1>4 DEF B
  <2>2. QED BY <1>2, <2>1 DEF OddChunks, e
<1>5. CASE e \in C
  <2>1. PICK f \in BOOLEAN : e = Chunk(FALSE, -1, <<>>, TRUE, f)
    BY <1>5 DEF C
  <2>2. QED BY <1>2, <2>1 DEF OddChunks, e
<1>6. CASE e \in D
  <2>1. PICK f \in BOOLEAN : e = Chunk(FALSE, -1, <<ToolCall(1, FALSE, n)>>, f, FALSE)
    BY <1>6 DEF D
  <2>2. QED BY <1>2, <2>1 DEF OddChunks, e
<1>7. QED BY <1>2, <1>3, <1>4, <1>5, <1>6

\* What there is in the events of a stream that keeps to no course.
LEMMA OddFields ==
    ASSUME NEW n \in Nat \ {0}, NEW f \in BOOLEAN, NEW c \in OddChunks(n, f)
    PROVE  /\ c # Done
           /\ \/ c.text = -1 /\ c.tools = <<>>
              \/ c.choice /\ c.text = n /\ c.tools = <<>>
              \/ /\ c.choice /\ ~c.usage /\ c.text = -1 /\ DOMAIN c.tools = {1}
                 /\ c.tools[1].start /\ c.tools[1].index = 0 /\ c.tools[1].args = 0
              \/ /\ c.choice /\ ~c.usage /\ c.text = -1 /\ DOMAIN c.tools = {1}
                 /\ ~c.tools[1].start /\ c.tools[1].index = 1 /\ c.tools[1].args = n
<1>0. "role" \notin DOMAIN Done
  BY DEF Done
<1>1. CASE c = UsageChunk
  BY <1>0, <1>1 DEF UsageChunk
<1>2. CASE c = EmptyChunk
  BY <1>0, <1>2 DEF EmptyChunk, Chunk
<1>3. CASE c = Chunk(TRUE, -1, <<>>, FALSE, FALSE)
  BY <1>0, <1>3 DEF Chunk
<1>4. CASE c = Chunk(FALSE, -1, <<ToolCall(0, TRUE, 0)>>, FALSE, FALSE)
  BY <1>0, <1>4 DEF Chunk, ToolCall
<1>5. CASE c = Chunk(FALSE, n, <<>>, f, f)
  BY <1>0, <1>5 DEF Chunk
<1>6. CASE c = Chunk(FALSE, -1, <<>>, TRUE, f)
  BY <1>0, <1>6 DEF Chunk
<1>7. CASE c = Chunk(FALSE, -1, <<ToolCall(1, FALSE, n)>>, f, FALSE)
  BY <1>0, <1>7 DEF Chunk, ToolCall
<1>8. QED BY <1>1, <1>2, <1>3, <1>4, <1>5, <1>6, <1>7 DEF OddChunks

\* [DONE] ends a stream that keeps to its protocol.
LEMMA DoneEnds ==
    ASSUME NEW kind \in Kinds, NEW n \in Nat \ {0}, NEW t \in ChatCourse(n)[kind], t[3] = Done,
           kind # "any"
    PROVE  t[1] \in {"finished", "closing"} /\ t[2] = "over"
<1>1. "role" \notin DOMAIN t[3]
  BY DEF Done
<1>2. CASE kind = "text"
  BY <1>1, <1>2 DEF ChatCourse, Chunk, UsageChunk
<1>3. CASE kind = "tool"
  BY <1>1, <1>3 DEF ChatCourse, Chunk, ToolCall
<1>4. QED BY <1>2, <1>3 DEF Kinds

\* A chunk with one tool call starts a block or fills one.
LEMMA OneToolCall ==
    ASSUME NEW tools, DOMAIN tools = {1}, tools[1].start \/ tools[1].args >= 0
    PROVE  ConvertToolCallDeltas(tools) = IF tools[1].start THEN BlockStart(tools[1].index)
                                          ELSE BlockDelta(tools[1].index, tools[1].args)
<1> DEFINE speaks == {i \in DOMAIN tools : tools[i].start \/ tools[i].args >= 0}
<1>1. speaks = {1}
  OBVIOUS
<1>2. (CHOOSE i \in speaks : \A j \in speaks : i <= j) = 1
  BY <1>1
<1>3. QED BY <1>1, <1>2 DEF ConvertToolCallDeltas

\* What such a chunk is for a Messages client.
LEMMA ToolChunk ==
    ASSUME NEW c, c # Done, c.choice, ~c.usage, c.text = -1,
           DOMAIN c.tools = {1}, c.tools[1].start \/ c.tools[1].args \in Nat
    PROVE  /\ c.tools[1].start => ChatToMessages(c) = BlockStart(c.tools[1].index)
           /\ ~c.tools[1].start =>
                 ChatToMessages(c) = BlockDelta(c.tools[1].index, c.tools[1].args)
           /\ Bearing("openai", c) <=> c.tools[1].args > 0
<1>1. /\ c.tools # <<>> /\ (c.tools[1].start \/ c.tools[1].args >= 0)
      /\ ~(c.text > 0) /\ c.text <= 0 /\ ~(c.usage /\ c.finish)
  OBVIOUS
<1>2. ChatToMessages(c) = ConvertToolCallDeltas(c.tools)
  BY <1>1, Zenon DEF ChatToMessages
<1>3. ConvertToolCallDeltas(c.tools) = IF c.tools[1].start THEN BlockStart(c.tools[1].index)
                                       ELSE BlockDelta(c.tools[1].index, c.tools[1].args)
  BY <1>1, OneToolCall
<1>4. Bearing("openai", c) <=> c.tools[1].args > 0
  BY DEF Bearing
<1>5. QED BY <1>2, <1>3, <1>4

\* What a chunk with text is for a Messages client.
LEMMA TextChunk ==
    ASSUME NEW c, c # Done, c.choice, c.text \in Nat \ {0}
    PROVE  /\ ChatToMessages(c) \in {BlockDelta(0, c.text), MessageDelta(TRUE)}
           /\ Bearing("openai", c)
<1>1. CASE c.usage /\ c.finish
  <2>1. ChatToMessages(c) = MessageDelta(TRUE)
    BY <1>1 DEF ChatToMessages
  <2>2. QED BY <2>1 DEF Bearing
<1>2. CASE ~(c.usage /\ c.finish)
  <2>0. ~(c.text <= 0) /\ c.text > 0
    OBVIOUS
  <2>1. ChatToMessages(c) = BlockDelta(0, c.text)
    BY <1>2, <2>0, Zenon DEF ChatToMessages
  <2>2. QED BY <2>1 DEF Bearing
<1>3. QED BY <1>1, <1>2

\* Events the conversions make are ones a Messages client can read.
LEMMA TheirEvents ==
    ASSUME NEW n
    PROVE  /\ Says(Ping, n) /\ Ping.type = "ping"
           /\ Says(MessageDelta(TRUE), n) /\ MessageDelta(TRUE).type = "message_delta"
           /\ n \in Nat => /\ Says(BlockDelta(0, n), n)
                           /\ BlockDelta(0, n).type = "content_block_delta"
                           /\ BlockDelta(0, n).index = 0
                           /\ Says(BlockDelta(1, n), n)
                           /\ BlockDelta(1, n).type = "content_block_delta"
BY DEF Says, MessagesEvent, Ping, BlockDelta, MessageDelta, Message

\* Every event of a chat stream is converted to one that suits its step.
LEMMA ChatAsMessage ==
    ASSUME NEW kind \in Kinds, NEW n \in Nat \ {0}, NEW t \in ChatCourse(n)[kind]
    PROVE  /\ t[3] # Done => AsMessage("openai", kind, t, n, ChatToMessages(t[3]))
           /\ t[3] = Done => AsMessage("openai", kind, t, n, MessageStop)
<1>1. CASE t[3] = Done
  <2>1. Says(MessageStop, n) /\ MessageStop.type = "message_stop"
    BY OwnEvents
  <2>2. kind # "any" => Moves("openai", t[1], MessageStop, t[2])
    BY <1>1, <2>1, DoneEnds DEF Moves
  <2>3. ~Bearing("openai", t[3])
    BY <1>1 DEF Bearing
  <2>4. QED BY <1>1, <2>1, <2>2, <2>3 DEF AsMessage
<1>2. CASE t[3] # Done
  <2> DEFINE c == t[3]
             x == ChatToMessages(c)
  <2>1. CASE kind = "text"
    <3>1. Says(x, n) /\ Moves("openai", t[1], x, t[2])
      BY <1>2, <2>1 DEF ChatCourse, Chunk, UsageChunk, ChatToMessages, Says, Moves, MessagesEvent,
                        Message, Ping, BlockDelta, MessageDelta
    <3>2. x.type = "content_block_delta" <=> Bearing("openai", c)
      BY <1>2, <2>1 DEF ChatCourse, Chunk, UsageChunk, ChatToMessages, Bearing,
                        Message, Ping, BlockDelta, MessageDelta
    <3> HIDE DEF x
    <3>3. QED BY <1>2, <3>1, <3>2 DEF AsMessage, x
  <2>2. CASE kind = "tool"
    <3>1. /\ c.choice /\ ~c.usage /\ c.text = -1
          /\ \/ /\ t[1] = "start" /\ t[2] = "body" /\ ~c.finish /\ DOMAIN c.tools = {1}
                /\ c.tools[1].start /\ c.tools[1].index = 0 /\ c.tools[1].args = 0
             \/ /\ t[1] = "body" /\ t[2] = "body" /\ ~c.finish /\ DOMAIN c.tools = {1}
                /\ ~c.tools[1].start /\ c.tools[1].index = 0 /\ c.tools[1].args = n
             \/ t[1] = "body" /\ t[2] = "closing" /\ c.finish /\ c.tools = <<>>
      BY <1>2, <2>2, ToolSteps
    <3>2. CASE c.tools = <<>> /\ t[1] = "body" /\ t[2] = "closing" /\ c.finish
      <4>1. x = MessageDelta(FALSE)
        BY <3>1, <3>2 DEF ChatToMessages
      <4>2. ~Bearing("openai", c)
        BY <1>2, <3>1, <3>2 DEF Bearing
      <4> HIDE DEF x
      <4>3. QED BY <1>2, <3>2, <4>1, <4>2, OwnEvents DEF AsMessage, Moves, x, c
    <3>3. CASE /\ t[1] = "start" /\ t[2] = "body" /\ DOMAIN c.tools = {1}
               /\ c.tools[1].start /\ c.tools[1].index = 0 /\ c.tools[1].args = 0
      <4> HIDE DEF c
      <4>1. c # Done /\ c.choice /\ ~c.usage /\ c.text = -1
        BY <1>2, <3>1 DEF c
      <4>2. x = BlockStart(0)
        BY <3>3, <4>1, ToolChunk
      <4>3. ~Bearing("openai", c)
        BY <3>3, <4>1, ToolChunk
      <4> HIDE DEF x
      <4>4. QED BY <1>2, <3>3, <4>2, <4>3, OwnEvents DEF AsMessage, Moves, x, c
    <3>4. CASE /\ t[1] = "body" /\ t[2] = "body" /\ DOMAIN c.tools = {1}
               /\ ~c.tools[1].start /\ c.tools[1].index = 0 /\ c.tools[1].args = n
      <4> HIDE DEF c
      <4>1. c # Done /\ c.choice /\ ~c.usage /\ c.text = -1
        BY <1>2, <3>1 DEF c
      <4>2. x = BlockDelta(0, n)
        BY <3>4, <4>1, ToolChunk
      <4>3. Bearing("openai", c)
        BY <3>4, <4>1, ToolChunk
      <4> HIDE DEF x
      <4>4. QED BY <1>2, <3>4, <4>2, <4>3, TheirEvents DEF AsMessage, Moves, x, c
    <3>5. QED BY <3>1, <3>2, <3>3, <3>4
  <2>3. CASE kind = "any"
    <3>1. PICK f \in BOOLEAN : c \in OddChunks(n, f)
      BY <1>2, <2>3, OddSteps
    <3>0. c # Done
      BY <1>2
    <3>2. CASE c.text = -1 /\ c.tools = <<>>
      <4>1. x \in {Ping, MessageDelta(TRUE), MessageDelta(FALSE)}
        BY <3>2 DEF ChatToMessages
      <4> HIDE DEF x
      <4>2. QED BY <1>2, <2>3, <4>1, OwnEvents, TheirEvents DEF AsMessage, x
    <3>3. CASE c.choice /\ c.text = n /\ c.tools = <<>>
      <4> HIDE DEF c
      <4>1. x \in {BlockDelta(0, n), MessageDelta(TRUE)} /\ Bearing("openai", c)
        BY <3>0, <3>3, TextChunk
      <4> HIDE DEF x
      <4>2. QED BY <1>2, <2>3, <4>1, TheirEvents DEF AsMessage, x, c
    <3>4. CASE /\ c.choice /\ ~c.usage /\ c.text = -1 /\ DOMAIN c.tools = {1}
               /\ c.tools[1].start /\ c.tools[1].index = 0 /\ c.tools[1].args = 0
      <4> HIDE DEF c
      <4>1. x = BlockStart(0)
        BY <3>0, <3>4, ToolChunk
      <4> HIDE DEF x
      <4>2. QED BY <1>2, <2>3, <4>1, OwnEvents DEF AsMessage, x, c
    <3>5. CASE /\ c.choice /\ ~c.usage /\ c.text = -1 /\ DOMAIN c.tools = {1}
               /\ ~c.tools[1].start /\ c.tools[1].index = 1 /\ c.tools[1].args = n
      <4> HIDE DEF c
      <4>1. x = BlockDelta(1, n) /\ Bearing("openai", c)
        BY <3>0, <3>5, ToolChunk
      <4> HIDE DEF x
      <4>2. QED BY <1>2, <2>3, <4>1, TheirEvents DEF AsMessage, x, c
    <3>6. QED BY <3>1, <3>2, <3>3, <3>4, <3>5, OddFields
  <2>4. QED BY <2>1, <2>2, <2>3 DEF Kinds
<1>3. QED BY <1>1, <1>2

\* So is every frame of a ConverseStream.
LEMMA ConverseAsMessage ==
    ASSUME NEW kind \in Kinds, NEW n \in Nat \ {0}, NEW t \in ConverseCourse(n)[kind]
    PROVE  /\ t[3] # Done
           /\ AsMessage("bedrock", kind, t, n, ConverseToMessages(t[3]))
<1>1. t[3] # Done
  <2>1. "piece" \in DOMAIN t[3]
    BY DEF ConverseCourse, Frame, Kinds
  <2>2. "piece" \notin DOMAIN Done
    BY DEF Done
  <2>3. QED BY <2>1, <2>2
<1>2. AsMessage("bedrock", kind, t, n, ConverseToMessages(t[3]))
  BY <1>1 DEF ConverseCourse, Frame, ConverseToMessages, MessagesEvent, Message, Ping, BlockStart,
              BlockDelta, BlockStop, MessageStart, MessageDelta, Says, Moves, Bearing, AsMessage, Kinds
<1>3. QED BY <1>1, <1>2

\* The shapes of a chat chunk: it says nothing, opens the message, ends it, has a
\* piece of its text, starts a tool call, or has a piece of its arguments.
Silent(c) == c.tools = <<>> /\ c.text = -1 /\ (~c.choice \/ (~c.finish /\ ~c.role))
Opens(c) == c.choice /\ c.tools = <<>> /\ c.text \in {-1, 0} /\ ~c.finish /\ c.role
Ends(c) == c.choice /\ c.tools = <<>> /\ c.text = -1 /\ c.finish
Texts(c, n) == c.choice /\ c.tools = <<>> /\ c.text = n
Calls(c) == c.choice /\ c.text = -1 /\ DOMAIN c.tools = {1} /\ c.tools[1].start /\ c.tools[1].args = 0
Fills(c, n) == c.choice /\ c.text = -1 /\ DOMAIN c.tools = {1} /\ ~c.tools[1].start /\ c.tools[1].args = n

\* What a chat chunk is for a Responses client, by its shape.
LEMMA ResponseOf == ASSUME NEW c, NEW n \in Nat \ {0}
 PROVE /\ Silent(c) => ChatToResponses(c) = Unconvertible
       /\ Opens(c) => ChatToResponses(c) = Response("text_delta", 0, 0, FALSE)
       /\ Ends(c) => ChatToResponses(c) = Response("done", 0, 0, FALSE)
       /\ Texts(c, n) => ChatToResponses(c) = Response("text_delta", 0, n, FALSE)
       /\ Calls(c) => ChatToResponses(c) = Response("args_delta", 0, 0, c.tools[1].start)
       /\ Fills(c, n) => ChatToResponses(c) = Response("args_delta", 0, n, c.tools[1].start)
<1>1. ASSUME Silent(c) PROVE ChatToResponses(c) = Unconvertible
  <2>1. /\ c.tools = <<>> /\ ~(c.text > 0) /\ (~c.choice \/ (~c.finish /\ ~c.role))
     BY <1>1 DEF Silent
  <2>2. QED BY <2>1, Zenon DEF ChatToResponses
<1>2. ASSUME Opens(c) PROVE ChatToResponses(c) = Response("text_delta", 0, 0, FALSE)
  <2>1. /\ c.tools = <<>> /\ ~(c.text > 0) /\ (c.text <= 0) /\ c.choice /\ ~c.finish /\ c.role
     BY <1>2 DEF Opens
  <2>2. QED BY <2>1, Zenon DEF ChatToResponses
<1>3. ASSUME Ends(c) PROVE ChatToResponses(c) = Response("done", 0, 0, FALSE)
  <2>1. /\ c.tools = <<>> /\ ~(c.text > 0) /\ (c.text <= 0) /\ c.choice /\ c.finish
     BY <1>3 DEF Ends
  <2>2. QED BY <2>1, Zenon DEF ChatToResponses
<1>4. ASSUME Texts(c, n) PROVE ChatToResponses(c) = Response("text_delta", 0, n, FALSE)
  <2>1. /\ c.tools = <<>> /\ (c.text > 0) /\ ~(c.text <= 0) /\ c.choice /\ c.text = n
     BY <1>4 DEF Texts
  <2>2. QED BY <2>1, Zenon DEF ChatToResponses
<1>5. ASSUME Calls(c) PROVE ChatToResponses(c) = Response("args_delta", 0, 0, c.tools[1].start)
  <2>1. /\ c.tools # <<>> /\ c.choice /\ c.tools[1].start /\ c.tools[1].args = 0 /\ c.tools[1].args >= 0
     BY <1>5 DEF Calls
  <2>2. QED BY <2>1, Zenon DEF ChatToResponses
<1>6. ASSUME Fills(c, n) PROVE ChatToResponses(c) = Response("args_delta", 0, n, c.tools[1].start)
  <2>1. /\ c.tools # <<>> /\ c.choice /\ c.tools[1].args >= 0 /\ c.tools[1].args = n
     BY <1>6 DEF Fills
  <2>2. QED BY <2>1, Zenon DEF ChatToResponses
<1>7. QED BY <1>1, <1>2, <1>3, <1>4, <1>5, <1>6

\* The chunks of a text that keeps to the protocol.
LEMMA TextSteps ==
    ASSUME NEW n \in Nat \ {0}, NEW t \in ChatCourse(n)["text"], t[3] # Done
    PROVE  /\ t[3].tools = <<>>
           /\ \/ t[1] = "start" /\ t[2] = "body" /\ t[3].choice /\ t[3].role /\ ~t[3].finish /\ t[3].text \in {0, n}
              \/ t[1] = "body" /\ t[2] \in {"body", "finished"} /\ t[3].choice /\ t[3].text = n
              \/ t[1] = "body" /\ t[2] \in {"closing", "finished"} /\ t[3].choice /\ t[3].text = -1 /\ t[3].finish
              \/ t[1] = "finished" /\ t[2] = "closing" /\ ~t[3].choice /\ t[3].text = -1
  BY DEF ChatCourse, Chunk, UsageChunk

\* The shapes of the chunks that frames are converted to.
LEMMA Frames ==
    ASSUME NEW n \in Nat \ {0}, NEW i \in {0, 1}, NEW tool
    PROVE  /\ Opens(ConverseToChat(Frame("messageStart", -1, FALSE, 0)))
           /\ Ends(ConverseToChat(Frame("messageStop", -1, FALSE, 0)))
           /\ Silent(ConverseToChat(Frame("metadata", -1, FALSE, 0)))
           /\ Silent(ConverseToChat(Frame("exception", -1, FALSE, 0)))
           /\ Silent(ConverseToChat(Frame("contentBlockStop", i, tool, 0)))
           /\ Texts(ConverseToChat(Frame("contentBlockDelta", 0, FALSE, n)), n)
           /\ Calls(ConverseToChat(Frame("contentBlockStart", i, TRUE, 0)))
           /\ Fills(ConverseToChat(Frame("contentBlockDelta", i, TRUE, n)), n)
<1>1. Opens(ConverseToChat(Frame("messageStart", -1, FALSE, 0)))
  BY DEF Frame, ConverseToChat, Chunk, Opens
<1>2. Ends(ConverseToChat(Frame("messageStop", -1, FALSE, 0)))
  BY DEF Frame, ConverseToChat, Chunk, Ends
<1>3. Silent(ConverseToChat(Frame("metadata", -1, FALSE, 0)))
  BY DEF Frame, ConverseToChat, Chunk, Silent
<1>4. Silent(EmptyChunk)
  BY DEF Chunk, EmptyChunk, Silent
<1>5. /\ ConverseToChat(Frame("exception", -1, FALSE, 0)) = EmptyChunk
      /\ ConverseToChat(Frame("contentBlockStop", i, tool, 0)) = EmptyChunk
  BY DEF Frame, ConverseToChat
<1>6. Texts(ConverseToChat(Frame("contentBlockDelta", 0, FALSE, n)), n)
  BY DEF Frame, ConverseToChat, Chunk, Texts
<1> DEFINE c == ConverseToChat(Frame("contentBlockStart", i, TRUE, 0))
           a == ConverseToChat(Frame("contentBlockDelta", i, TRUE, n))
<1>7. Calls(c)
  <2>1. c = Chunk(FALSE, -1, <<ToolCall(i, TRUE, 0)>>, FALSE, FALSE)
    BY DEF Frame, ConverseToChat
  <2>2. ToolCall(i, TRUE, 0).start = TRUE /\ ToolCall(i, TRUE, 0).args = 0
    BY DEF ToolCall
  <2> HIDE DEF c
  <2>3. c.choice = TRUE /\ c.text = -1 /\ c.tools = <<ToolCall(i, TRUE, 0)>>
    BY <2>1 DEF Chunk
  <2>4. DOMAIN c.tools = {1} /\ c.tools[1] = ToolCall(i, TRUE, 0)
    BY <2>3
  <2>5. QED BY <2>2, <2>3, <2>4 DEF Calls
<1>8. Fills(a, n)
  <2>1. a = Chunk(FALSE, -1, <<ToolCall(i, FALSE, n)>>, FALSE, FALSE)
    BY DEF Frame, ConverseToChat
  <2>2. ToolCall(i, FALSE, n).start = FALSE /\ ToolCall(i, FALSE, n).args = n
    BY DEF ToolCall
  <2> HIDE DEF a
  <2>3. a.choice = TRUE /\ a.text = -1 /\ a.tools = <<ToolCall(i, FALSE, n)>>
    BY <2>1 DEF Chunk
  <2>4. DOMAIN a.tools = {1} /\ a.tools[1] = ToolCall(i, FALSE, n)
    BY <2>3
  <2>5. QED BY <2>2, <2>3, <2>4 DEF Fills
<1>9. QED BY <1>1, <1>2, <1>3, <1>4, <1>5, <1>6, <1>7, <1>8

Shaping(api, kind, t, n, c) ==
    \/ Silent(c) /\ ~Bearing(api, t[3]) /\ (t[1] \in Late => t[2] \in Late)
    \/ Ends(c) /\ ~Bearing(api, t[3]) /\ (kind # "any" => t[2] \in Late)
    \/ /\ Opens(c) /\ ~Bearing(api, t[3])
       /\ (kind # "any" => t[1] \notin Late) /\ (kind = "tool" => api # "openai")
    \/ /\ Texts(c, n) /\ Bearing(api, t[3])
       /\ (kind # "any" => t[1] \notin Late) /\ kind # "tool"
    \/ /\ Calls(c) /\ ~Bearing(api, t[3])
       /\ (kind # "any" => t[1] \notin Late) /\ kind # "text"
    \/ /\ Fills(c, n) /\ Bearing(api, t[3])
       /\ (kind # "any" => t[1] \notin Late) /\ kind # "text"

\* Which frames bear a piece.
LEMMA FramePieces ==
    ASSUME NEW type, NEW i, NEW tool, NEW piece
    PROVE  /\ Frame(type, i, tool, piece) # Done
           /\ Bearing("bedrock", Frame(type, i, tool, piece)) <=> piece > 0
<1>1. "piece" \in DOMAIN Frame(type, i, tool, piece) /\ "piece" \notin DOMAIN Done
  BY DEF Frame, Done
<1>2. Frame(type, i, tool, piece) # Done /\ Frame(type, i, tool, piece).piece = piece
  BY <1>1 DEF Frame
<1>3. QED BY <1>2 DEF Bearing

\* Every frame becomes a chunk whose shape suits its step.
LEMMA ConverseShapes ==
    ASSUME NEW kind \in Kinds, NEW n \in Nat \ {0}, NEW t \in ConverseCourse(n)[kind]
    PROVE  Shaping("bedrock", kind, t, n, ConverseToChat(t[3]))
<1> DEFINE start == Frame("messageStart", -1, FALSE, 0)
           stop == Frame("messageStop", -1, FALSE, 0)
           metadata == Frame("metadata", -1, FALSE, 0)
           exception == Frame("exception", -1, FALSE, 0)
           text == Frame("contentBlockDelta", 0, FALSE, n)
           call0 == Frame("contentBlockStart", 0, TRUE, 0)
           call1 == Frame("contentBlockStart", 1, TRUE, 0)
           args0 == Frame("contentBlockDelta", 0, TRUE, n)
           args1 == Frame("contentBlockDelta", 1, TRUE, n)
           ended == Frame("contentBlockStop", 0, FALSE, 0)
           called0 == Frame("contentBlockStop", 0, TRUE, 0)
           called1 == Frame("contentBlockStop", 1, TRUE, 0)
<1>1. /\ Opens(ConverseToChat(start)) /\ Ends(ConverseToChat(stop))
      /\ Silent(ConverseToChat(metadata)) /\ Silent(ConverseToChat(exception))
      /\ Silent(ConverseToChat(ended)) /\ Silent(ConverseToChat(called0))
      /\ Silent(ConverseToChat(called1))
      /\ Texts(ConverseToChat(text), n)
      /\ Calls(ConverseToChat(call0)) /\ Calls(ConverseToChat(call1))
      /\ Fills(ConverseToChat(args0), n) /\ Fills(ConverseToChat(args1), n)
  BY Frames
<1>2. /\ ~Bearing("bedrock", start) /\ ~Bearing("bedrock", stop) /\ ~Bearing("bedrock", metadata)
      /\ ~Bearing("bedrock", exception) /\ Bearing("bedrock", text)
      /\ ~Bearing("bedrock", call0) /\ ~Bearing("bedrock", call1)
      /\ Bearing("bedrock", args0) /\ Bearing("bedrock", args1)
      /\ ~Bearing("bedrock", ended) /\ ~Bearing("bedrock", called0) /\ ~Bearing("bedrock", called1)
  <2>1. n > 0 /\ ~(0 > 0)
    OBVIOUS
  <2>2. /\ Bearing("bedrock", text) /\ Bearing("bedrock", args0) /\ Bearing("bedrock", args1)
    BY <2>1, FramePieces, Zenon
  <2>3. /\ ~Bearing("bedrock", start) /\ ~Bearing("bedrock", stop) /\ ~Bearing("bedrock", metadata)
        /\ ~Bearing("bedrock", exception)
    BY <2>1, FramePieces, Zenon
  <2>4. /\ ~Bearing("bedrock", call0) /\ ~Bearing("bedrock", call1)
        /\ ~Bearing("bedrock", ended) /\ ~Bearing("bedrock", called0) /\ ~Bearing("bedrock", called1)
    BY <2>1, FramePieces, Zenon
  <2>5. QED BY <2>2, <2>3, <2>4
<1>3. CASE kind = "text"
  <2> DEFINE T == {<<"start", "body", start>>, <<"body", "block", text>>, <<"block", "block", text>>,
                   <<"block", "body2", ended>>, <<"body2", "closing", stop>>,
                   <<"closing", "over", metadata>>}
  <2>1. t \in T
    BY <1>3, Zenon DEF ConverseCourse
  <2> HIDE DEF start, stop, metadata, text, ended
  <2>2. QED BY <1>1, <1>2, <1>3, <2>1 DEF Shaping, Late
<1>4. CASE kind = "tool"
  <2> DEFINE T == {<<"start", "body", start>>, <<"body", "block", call0>>, <<"block", "block", args0>>,
                   <<"block", "body2", called0>>, <<"body2", "closing", stop>>,
                   <<"closing", "over", metadata>>}
  <2>1. t \in T
    BY <1>4, Zenon DEF ConverseCourse
  <2> HIDE DEF start, stop, metadata, call0, args0, called0
  <2>2. QED BY <1>1, <1>2, <1>4, <2>1 DEF Shaping, Late
<1>5. CASE kind = "any"
  <2> DEFINE A == {Frame(x, -1, FALSE, 0) : x \in {"messageStart", "messageStop", "metadata", "exception"}}
             B == {call1, called1, text, args1}
  <2>1. t \in {<<"start", "start", x>> : x \in A \cup B}
    BY <1>5, Zenon DEF ConverseCourse
  <2>2. A = {start, stop, metadata, exception}
    OBVIOUS
  <2> HIDE DEF A, start, stop, metadata, exception, text, call1, args1, called1
  <2>3. QED BY <1>1, <1>2, <1>5, <2>1, <2>2 DEF Shaping, Late
<1>6. QED BY <1>3, <1>4, <1>5 DEF Kinds

\* Which chunks bear a piece.
LEMMA ChatBearing ==
    ASSUME NEW n \in Nat \ {0}, NEW c, c # Done
    PROVE  /\ Silent(c) \/ Opens(c) \/ Ends(c) \/ Calls(c) => ~Bearing("openai", c)
           /\ Texts(c, n) \/ Fills(c, n) => Bearing("openai", c)
<1>1. Bearing("openai", c) <=> c.text > 0 \/ (\E i \in DOMAIN c.tools : c.tools[i].args > 0)
  BY DEF Bearing
<1>2. ASSUME Silent(c) \/ Opens(c) \/ Ends(c) PROVE ~Bearing("openai", c)
  BY <1>1, <1>2 DEF Silent, Opens, Ends
<1>3. ASSUME Calls(c) PROVE ~Bearing("openai", c)
  BY <1>1, <1>3 DEF Calls
<1>4. ASSUME Texts(c, n) PROVE Bearing("openai", c)
  BY <1>1, <1>4 DEF Texts
<1>5. ASSUME Fills(c, n) PROVE Bearing("openai", c)
  BY <1>1, <1>5 DEF Fills
<1>6. QED BY <1>2, <1>3, <1>4, <1>5

\* Every chunk has one of the shapes ...
LEMMA OddShapes ==
    ASSUME NEW n \in Nat \ {0}, NEW f \in BOOLEAN, NEW c \in OddChunks(n, f)
    PROVE  Silent(c) \/ Opens(c) \/ Ends(c) \/ Texts(c, n) \/ Calls(c) \/ Fills(c, n)
<1>1. CASE c = UsageChunk
  BY <1>1 DEF UsageChunk, Silent
<1>2. CASE c = EmptyChunk
  BY <1>2 DEF EmptyChunk, Chunk, Silent
<1>3. CASE c = Chunk(TRUE, -1, <<>>, FALSE, FALSE)
  BY <1>3 DEF Chunk, Opens
<1>4. CASE c = Chunk(FALSE, -1, <<ToolCall(0, TRUE, 0)>>, FALSE, FALSE)
  BY <1>4 DEF Chunk, ToolCall, Calls
<1>5. CASE c = Chunk(FALSE, n, <<>>, f, f)
  BY <1>5 DEF Chunk, Texts
<1>6. CASE c = Chunk(FALSE, -1, <<>>, TRUE, f)
  BY <1>6 DEF Chunk, Ends
<1>7. CASE c = Chunk(FALSE, -1, <<ToolCall(1, FALSE, n)>>, f, FALSE)
  BY <1>7 DEF Chunk, ToolCall, Fills
<1>8. QED BY <1>1, <1>2, <1>3, <1>4, <1>5, <1>6, <1>7 DEF OddChunks

\* ... and one that suits its step.
LEMMA ChatShapes ==
    ASSUME NEW kind \in Kinds, NEW n \in Nat \ {0}, NEW t \in ChatCourse(n)[kind], t[3] # Done
    PROVE  Shaping("openai", kind, t, n, t[3])
<1> DEFINE c == t[3]
<1>0. c # Done
  OBVIOUS
<1>1. /\ Silent(c) \/ Opens(c) \/ Ends(c) \/ Calls(c) => ~Bearing("openai", c)
      /\ Texts(c, n) \/ Fills(c, n) => Bearing("openai", c)
  BY <1>0, ChatBearing
<1>2. CASE kind = "text"
  <2>1. /\ c.tools = <<>>
        /\ \/ t[1] = "start" /\ t[2] = "body" /\ c.choice /\ c.role /\ ~c.finish /\ c.text \in {0, n}
           \/ t[1] = "body" /\ t[2] \in {"body", "finished"} /\ c.choice /\ c.text = n
           \/ t[1] = "body" /\ t[2] \in {"closing", "finished"} /\ c.choice /\ c.text = -1 /\ c.finish
           \/ t[1] = "finished" /\ t[2] = "closing" /\ ~c.choice /\ c.text = -1
    BY <1>0, <1>2, TextSteps
  <2> HIDE DEF c
  <2>2. \/ t[1] \notin Late /\ (Opens(c) \/ Texts(c, n))
        \/ t[2] \in Late /\ (Ends(c) \/ Silent(c))
    BY <2>1 DEF Late, Opens, Texts, Ends, Silent
  <2>3. QED BY <1>1, <1>2, <2>2 DEF Shaping, c
<1>3. CASE kind = "tool"
  <2>1. /\ c.choice /\ ~c.usage /\ c.text = -1
        /\ \/ /\ t[1] = "start" /\ t[2] = "body" /\ ~c.finish /\ DOMAIN c.tools = {1}
              /\ c.tools[1].start /\ c.tools[1].index = 0 /\ c.tools[1].args = 0
           \/ /\ t[1] = "body" /\ t[2] = "body" /\ ~c.finish /\ DOMAIN c.tools = {1}
              /\ ~c.tools[1].start /\ c.tools[1].index = 0 /\ c.tools[1].args = n
           \/ t[1] = "body" /\ t[2] = "closing" /\ c.finish /\ c.tools = <<>>
    BY <1>0, <1>3, ToolSteps
  <2> HIDE DEF c
  <2>2. \/ t[1] \notin Late /\ (Calls(c) \/ Fills(c, n))
        \/ t[2] \in Late /\ Ends(c)
    BY <2>1 DEF Late, Calls, Fills, Ends
  <2>3. QED BY <1>1, <1>3, <2>2 DEF Shaping, c
<1>4. CASE kind = "any"
  <2>1. t[1] = "start" /\ \E f \in BOOLEAN : c \in OddChunks(n, f)
    BY <1>0, <1>4, OddSteps
  <2>2. Silent(c) \/ Opens(c) \/ Ends(c) \/ Texts(c, n) \/ Calls(c) \/ Fills(c, n)
    BY <2>1, OddShapes
  <2>3. QED BY <1>1, <1>4, <2>1, <2>2 DEF Shaping, Late, c
<1>5. QED BY <1>2, <1>3, <1>4 DEF Kinds

\* What a Responses client gets of a chunk, or nothing.
LEMMA ShapeAsResponse ==
    ASSUME NEW api, NEW kind \in Kinds, NEW n \in Nat \ {0}, NEW t, NEW c, Shaping(api, kind, t, n, c)
    PROVE  \/ /\ ChatToResponses(c) = Unconvertible
              /\ ~Bearing(api, t[3]) /\ (t[1] \in Late => t[2] \in Late)
           \/ /\ ChatToResponses(c) # Unconvertible
              /\ AsResponse(api, kind, t, n, ChatToResponses(c))
<1> DEFINE r == ChatToResponses(c)
<1>1. /\ Silent(c) => r = Unconvertible
      /\ Opens(c) => r = Response("text_delta", 0, 0, FALSE)
      /\ Ends(c) => r = Response("done", 0, 0, FALSE)
      /\ Texts(c, n) => r = Response("text_delta", 0, n, FALSE)
      /\ Calls(c) => r = Response("args_delta", 0, 0, c.tools[1].start)
      /\ Fills(c, n) => r = Response("args_delta", 0, n, c.tools[1].start)
  BY ResponseOf
<1> HIDE DEF r
<1>2. ASSUME NEW type, NEW piece, NEW start, r = Response(type, 0, piece, start)
      PROVE  r.type = type /\ r.index = 0 /\ r.piece = piece
  BY <1>2 DEF Response
<1>3. Unconvertible.type = "error"
  BY DEF Unconvertible, Response
<1>4. CASE Silent(c) /\ ~Bearing(api, t[3]) /\ (t[1] \in Late => t[2] \in Late)
  BY <1>1, <1>4 DEF r
<1>5. CASE Ends(c) /\ ~Bearing(api, t[3]) /\ (kind # "any" => t[2] \in Late)
  <2>1. r.type = "done" /\ r.index = 0 /\ r.piece = 0
    BY <1>1, <1>2, <1>5
  <2>2. QED BY <1>3, <1>5, <2>1 DEF AsResponse, Asks, Fits, r
<1>6. CASE /\ Opens(c) /\ ~Bearing(api, t[3])
           /\ (kind # "any" => t[1] \notin Late) /\ (kind = "tool" => api # "openai")
  <2>1. r.type = "text_delta" /\ r.index = 0 /\ r.piece = 0
    BY <1>1, <1>2, <1>6
  <2>2. QED BY <1>3, <1>6, <2>1 DEF AsResponse, Asks, Fits, r
<1>7. CASE /\ Texts(c, n) /\ Bearing(api, t[3])
           /\ (kind # "any" => t[1] \notin Late) /\ kind # "tool"
  <2>1. r.type = "text_delta" /\ r.index = 0 /\ r.piece = n
    BY <1>1, <1>2, <1>7
  <2>2. QED BY <1>3, <1>7, <2>1 DEF AsResponse, Asks, Fits, r
<1>8. CASE /\ Calls(c) /\ ~Bearing(api, t[3])
           /\ (kind # "any" => t[1] \notin Late) /\ kind # "text"
  <2>1. r.type = "args_delta" /\ r.index = 0 /\ r.piece = 0
    BY <1>1, <1>2, <1>8
  <2>2. QED BY <1>3, <1>8, <2>1 DEF AsResponse, Asks, Fits, r
<1>9. CASE /\ Fills(c, n) /\ Bearing(api, t[3])
           /\ (kind # "any" => t[1] \notin Late) /\ kind # "text"
  <2>1. r.type = "args_delta" /\ r.index = 0 /\ r.piece = n
    BY <1>1, <1>2, <1>9
  <2>2. QED BY <1>3, <1>9, <2>1 DEF AsResponse, Asks, Fits, r
<1>10. QED BY <1>4, <1>5, <1>6, <1>7, <1>8, <1>9 DEF Shaping

\* What a chat client gets of it: the chunk.
LEMMA ShapeAsChat ==
    ASSUME NEW api, NEW kind \in Kinds, NEW n \in Nat \ {0}, NEW t, NEW c, c # Done,
           Shaping(api, kind, t, n, c)
    PROVE  AsChat(api, t, n, c)
<1>1. PiecesIn("chat", c) = {c.text} \cup {c.tools[i].args : i \in DOMAIN c.tools}
  BY Zenon DEF PiecesIn
<1>2. CASE c.tools = <<>> /\ c.text \in {-1, 0}
  <2>1. Content("chat", c) = {}
    BY <1>1, <1>2 DEF Content
  <2>2. ~Texts(c, n) /\ ~Fills(c, n)
    BY <1>2 DEF Texts, Fills
  <2>3. QED BY <2>1, <2>2 DEF AsChat, Shaping
<1>3. CASE Texts(c, n)
  <2>1. Content("chat", c) = {n}
    BY <1>1, <1>3 DEF Content, Texts
  <2>2. ~Silent(c) /\ ~Ends(c) /\ ~Opens(c) /\ ~Calls(c)
    BY <1>3 DEF Texts, Silent, Ends, Opens, Calls
  <2>3. QED BY <2>1, <2>2 DEF AsChat, Shaping
<1>4. CASE Calls(c)
  <2>1. Content("chat", c) = {}
    BY <1>1, <1>4 DEF Content, Calls
  <2>2. ~Texts(c, n) /\ ~Fills(c, n)
    BY <1>4 DEF Texts, Fills, Calls
  <2>3. QED BY <2>1, <2>2 DEF AsChat, Shaping
<1>5. CASE Fills(c, n)
  <2>1. Content("chat", c) = {n}
    BY <1>1, <1>5 DEF Content, Fills
  <2>2. ~Silent(c) /\ ~Ends(c) /\ ~Opens(c) /\ ~Calls(c)
    BY <1>5 DEF Fills, Silent, Ends, Opens, Calls
  <2>3. QED BY <2>1, <2>2 DEF AsChat, Shaping
<1>6. (Silent(c) \/ Ends(c) \/ Opens(c)) => c.tools = <<>> /\ c.text \in {-1, 0}
  BY DEF Silent, Ends, Opens
<1>7. QED BY <1>2, <1>3, <1>4, <1>5, <1>6 DEF Shaping

Modes == {"strict", "shared", "calm", "any"}

\* A client in state c that reads what is in the buffer is then linked to it.
Joined(format, api, kind, mode, c, b, place, sent) ==
    \E d \in Reader : /\ Reaches(format, mode, c, b.out, d)
                      /\ Linked(format, api, kind, mode, d, b, place, sent)

Counted(sent, api, e) == IF Bearing(api, e) THEN sent + 1 ELSE sent

\* A later piece goes after the others.
LEMMA Longer ==
    ASSUME NEW list \in Seq(Nat), NEW sent \in Nat, \A i \in DOMAIN list : list[i] <= sent
    PROVE  /\ \A i \in DOMAIN list : list[i] < sent + 1 /\ list[i] <= sent + 1
           /\ \A i \in DOMAIN Append(list, sent + 1) : Append(list, sent + 1)[i] <= sent + 1
           /\ Len(Append(list, sent + 1)) = Len(list) + 1
<1>1. \A i \in DOMAIN list : list[i] < sent + 1 /\ list[i] <= sent + 1
  OBVIOUS
<1>2. QED BY <1>1

\* A link between the upstream, the buffer and the client is kept by an event
\* that is converted, for each of the clients.
LEMMA JoiningMessage ==
    ASSUME NEW api, NEW kind \in Kinds, NEW mode \in Modes, kind = "any" => mode = "any",
           mode # "shared", NEW c, NEW b, NEW t, NEW sent \in Nat,
           Joined("messages", api, kind, mode, c, b, t[1], sent),
           NEW x, AsMessage(api, kind, t, sent + 1, x)
    PROVE  Joined("messages", api, kind, mode, c, AddToMessages(b, x), t[2], Counted(sent, api, t[3]))
<1> DEFINE n == sent + 1
           s == AddToMessages(b, x)
           count == Counted(sent, api, t[3])
           from == t[1]
           to == t[2]
<1>1. PICK d \in Reader : /\ Reaches("messages", mode, c, b.out, d)
                          /\ Linked("messages", api, kind, mode, d, b, from, sent)
  BY DEF Joined
<1>2. /\ PhaseOf(d.seen, b) /\ (mode = "strict" => Placed(api, from, d.seen, b))
      /\ \A i \in DOMAIN d.pieces : d.pieces[i] <= sent
      /\ mode = "strict" => Len(d.pieces) = sent
  BY <1>1 DEF Linked
<1>3. Carried(mode, c, b, d) /\ d.pieces \in Seq(Nat)
  BY <1>1, <1>2 DEF Carried, Reader
<1>4. n \in Nat \ {0} /\ \A i \in DOMAIN d.pieces : d.pieces[i] < n
  BY <1>2, <1>3, Longer
<1>5. /\ Says(x, n)
      /\ x.type = "content_block_delta" => Bearing(api, t[3])
      /\ mode = "strict" => /\ Moves(api, from, x, to)
                            /\ Bearing(api, t[3]) => x.type = "content_block_delta"
  BY DEF AsMessage
<1> HIDE DEF n, s, count, from, to
<1>6. PICK next \in Reader :
              /\ Carried(mode, c, s, next)
              /\ \/ next.pieces = d.pieces
                 \/ x.type = "content_block_delta" /\ next.pieces = Append(d.pieces, n)
              /\ mode = "strict" =>
                    /\ Placed(api, to, next.seen, s)
                    /\ x.type = "content_block_delta" => next.pieces = Append(d.pieces, n)
  <2>1. Says(x, n)
    BY <1>5
  <2>2. mode = "strict" => Placed(api, from, d.seen, b) /\ Moves(api, from, x, to)
    BY <1>2, <1>5
  <2>3. \E next \in Reader : MessageAdded(mode, c, b, d, n, x, api, to, next)
    BY <1>3, <1>4, <2>1, <2>2, AddingMessage
  <2>4. QED BY <2>3 DEF s, MessageAdded
<1>7. \A i \in DOMAIN next.pieces : next.pieces[i] <= count
  BY <1>2, <1>3, <1>5, <1>6, Longer DEF Counted, n, count
<1>8. mode = "strict" => Len(next.pieces) = count
  BY <1>2, <1>3, <1>5, <1>6, Longer DEF Counted, n, count
<1>9. Linked("messages", api, kind, mode, next, s, to, count)
  BY <1>6, <1>7, <1>8 DEF Linked, Carried
<1>10. QED BY <1>6, <1>9 DEF Joined, s, count, to, Carried

\* The same of a Responses client ...
LEMMA JoiningResponse ==
    ASSUME NEW api, NEW kind \in Kinds, NEW mode \in Modes, kind = "any" => mode = "any",
           mode = "strict" => kind = "text" \/ (kind = "tool" /\ api = "openai"),
           NEW c, NEW b, NEW t, NEW sent \in Nat,
           Joined("responses", api, kind, mode, c, b, t[1], sent),
           NEW x, AsResponse(api, kind, t, sent + 1, x)
    PROVE  Joined("responses", api, kind, mode, c, AddToResponse(b, x), t[2], Counted(sent, api, t[3]))
<1> DEFINE n == sent + 1
           s == AddToResponse(b, x)
           count == Counted(sent, api, t[3])
           from == t[1]
           to == t[2]
<1>1. PICK d \in Reader : /\ Reaches("responses", mode, c, b.out, d)
                          /\ Linked("responses", api, kind, mode, d, b, from, sent)
  BY DEF Joined
<1>2. /\ LifeOf(d.seen, b) /\ (kind # "any" => Holds(api, kind, from, d, b))
      /\ \A i \in DOMAIN d.pieces : d.pieces[i] <= sent
      /\ mode \in {"strict", "shared"} => Len(d.pieces) = sent
  BY <1>1 DEF Linked
<1>3. Brought(mode, c, b, d) /\ d.pieces \in Seq(Nat)
  BY <1>1, <1>2 DEF Brought, Reader
<1>4. n \in Nat \ {0} /\ \A i \in DOMAIN d.pieces : d.pieces[i] < n
  BY <1>2, <1>3, Longer
<1>5. /\ Asks(x, n)
      /\ x.piece > 0 => Bearing(api, t[3])
      /\ kind # "any" => /\ Fits(api, kind, from, x, to)
                         /\ Bearing(api, t[3]) => x.piece > 0
  BY DEF AsResponse
<1> HIDE DEF n, s, count, from, to
<1>6. PICK next \in Reader :
              /\ Brought(mode, c, s, next)
              /\ next.pieces = IF x.piece > 0 THEN Append(d.pieces, n) ELSE d.pieces
              /\ kind # "any" => Holds(api, kind, to, next, s)
  <2>1. Asks(x, n) /\ kind \in {"text", "tool", "any"}
    BY <1>5 DEF Kinds
  <2>2. kind # "any" => Holds(api, kind, from, d, b)
    BY <1>2
  <2>3. kind # "any" => Fits(api, kind, from, x, to)
    BY <1>5
  <2>4. \E next \in Reader : ResponseAdded(mode, c, b, d, n, x, api, kind, to, next)
    <3>1. AddsResponse(mode, c, b, d, n, x, api, kind, from, to)
      BY <1>3, <1>4, <2>1, <2>2, <2>3 DEF AddsResponse
    <3>2. QED BY <1>4, <3>1, AddingResponse
  <2>5. QED BY <2>4 DEF s, ResponseAdded
<1>7. \A i \in DOMAIN next.pieces : next.pieces[i] <= count
  BY <1>2, <1>3, <1>5, <1>6, Longer DEF Counted, n, count
<1>8. mode \in {"strict", "shared"} => Len(next.pieces) = count
  BY <1>2, <1>3, <1>5, <1>6, Longer DEF Counted, n, count
<1>9. Linked("responses", api, kind, mode, next, s, to, count)
  BY <1>6, <1>7, <1>8 DEF Linked, Brought
<1>10. QED BY <1>6, <1>9 DEF Joined, s, count, to, Brought

\* ... and of a chat client.
LEMMA JoiningChat ==
    ASSUME NEW api, NEW kind \in Kinds, NEW mode \in Modes,
           NEW c, NEW b, NEW t, NEW sent \in Nat,
           Joined("chat", api, kind, mode, c, b, t[1], sent),
           NEW x, AsChat(api, t, sent + 1, x)
    PROVE  Joined("chat", api, kind, mode, c, Push(b, x), t[2], Counted(sent, api, t[3]))
<1> DEFINE n == sent + 1
           s == Push(b, x)
           count == Counted(sent, api, t[3])
<1>1. PICK d \in Reader : /\ Reaches("chat", mode, c, b.out, d)
                          /\ Linked("chat", api, kind, mode, d, b, t[1], sent)
  BY DEF Joined
<1>2. /\ b \in [out : {b.out}]
      /\ \A i \in DOMAIN d.pieces : d.pieces[i] <= sent
      /\ mode \in {"strict", "shared"} => Len(d.pieces) = sent
      /\ d.pieces \in Seq(Nat) /\ d.seen \in Seen
  BY <1>1 DEF Linked, Reader
<1>3. s.out = Append(b.out, x) /\ s \in [out : {s.out}]
  BY <1>2 DEF Push
<1> DEFINE next == [seen |-> ReadChat(d.seen, x),
                    pieces |-> IF Bearing(api, t[3]) THEN Append(d.pieces, n) ELSE d.pieces]
<1>4. ReadChat(d.seen, x) \in Seen
  BY <1>2 DEF ReadChat, Seen, Phases
<1>5. next \in Reader
  BY <1>2, <1>4 DEF Reader
<1>6. /\ next.seen = Read("chat", d.seen, x)
      /\ next.pieces = IF Bearing(api, t[3]) THEN Append(d.pieces, n) ELSE d.pieces
  BY DEF Read
<1>7. n \in Nat /\ \A i \in DOMAIN d.pieces : d.pieces[i] < n
  BY <1>2, Longer
<1> HIDE DEF s, n, next
<1>8. Content("chat", x) = IF Bearing(api, t[3]) THEN {n} ELSE {}
  BY DEF AsChat, n
<1>9. Reads("chat", mode, d, x, next)
  <2>1. Proper("chat", mode, d.seen, x)
    BY DEF Proper
  <2>2. QED BY <1>6, <1>7, <1>8, <2>1 DEF Reads
<1>10. Reaches("chat", mode, c, s.out, next)
  BY <1>1, <1>3, <1>5, <1>9, ReachesMore
<1>11. \A i \in DOMAIN next.pieces : next.pieces[i] <= count
  BY <1>2, <1>6, Longer DEF Counted, n
<1>12. mode \in {"strict", "shared"} => Len(next.pieces) = count
  BY <1>2, <1>6, Longer DEF Counted, n
<1>13. Linked("chat", api, kind, mode, next, s, t[2], count)
  BY <1>3, <1>11, <1>12 DEF Linked
<1>14. QED BY <1>5, <1>10, <1>13 DEF Joined, s

Clients == {"messages", "responses", "chat"}

\* What the client's protocol asks of a stream, at most.
Suits(mode) ==
    /\ mode \in Modes
    /\ course = "any" => mode = "any"
    /\ client = "messages" => mode # "shared"
    /\ client = "responses" /\ mode = "strict" =>
          course = "text" \/ (course = "tool" /\ upstream = "openai")

Types ==
    /\ client \in Clients /\ upstream \in {"openai", "bedrock"} /\ course \in Kinds

\* No frame becomes a [DONE].
LEMMA ConverseIsChunk ==
    ASSUME NEW kind \in Kinds, NEW n \in Nat \ {0}, NEW t \in ConverseCourse(n)[kind]
    PROVE  ConverseToChat(t[3]) # Done
<1> DEFINE f == t[3]
           c == ConverseToChat(f)
<1>1. f.type \in {"messageStart", "contentBlockStart", "contentBlockDelta", "contentBlockStop",
                  "messageStop", "metadata", "exception"}
  BY DEF ConverseCourse, Frame, Kinds
<1> HIDE DEF f
<1>2. \E role, text, tools, finish, usage : c = Chunk(role, text, tools, finish, usage)
  BY <1>1 DEF ConverseToChat, EmptyChunk
<1>3. "role" \in DOMAIN c /\ "role" \notin DOMAIN Done
  BY <1>2 DEF Chunk, Done
<1>4. QED BY <1>3 DEF f

\* What is converted of the upstream's next event is added.
LEMMA AddingConverted ==
    ASSUME Types, NEW mode, Suits(mode), NEW c, NEW b, NEW sent \in Nat,
           NEW t \in Steps(upstream, course, sent + 1),
           Joined(client, upstream, course, mode, c, b, t[1], sent)
    PROVE  Joined(client, upstream, course, mode, c, AddConverted(b, t[3]), t[2],
                  Counted(sent, upstream, t[3]))
<1> DEFINE n == sent + 1
           e == t[3]
           s == AddConverted(b, e)
           chat == IF upstream = "bedrock" THEN ConverseToChat(e) ELSE e
<1>0. n \in Nat \ {0} /\ mode \in Modes /\ course \in Kinds
  BY DEF Types, Suits
<1>1. \/ upstream = "openai" /\ t \in ChatCourse(n)[course]
      \/ upstream = "bedrock" /\ t \in ConverseCourse(n)[course] /\ e # Done
  BY <1>0, ConverseAsMessage DEF Types, Steps
<1>2. e # Done => Shaping(upstream, course, t, n, chat)
  BY <1>0, <1>1, ChatShapes, ConverseShapes
<1>3. CASE client = "messages"
  <2> DEFINE x == IF e = Done THEN MessageStop
                  ELSE IF upstream = "bedrock" THEN ConverseToMessages(e) ELSE ChatToMessages(e)
  <2>1. AsMessage(upstream, course, t, n, x)
    BY <1>0, <1>1, ChatAsMessage, ConverseAsMessage
  <2>2. Convert(e) = <<x>>
    BY <1>3 DEF Convert
  <2>3. s = AddToMessages(b, x)
    BY <1>3, <2>2 DEF AddConverted, Add
  <2> HIDE DEF x, s
  <2>4. mode # "shared" /\ (course = "any" => mode = "any")
    BY <1>3 DEF Suits
  <2>5. QED BY <1>0, <1>3, <2>1, <2>3, <2>4, JoiningMessage DEF s
<1>4. CASE client = "responses"
  <2>1. (course = "any" => mode = "any")
        /\ (mode = "strict" => course = "text" \/ (course = "tool" /\ upstream = "openai"))
    BY <1>4 DEF Suits
  <2>2. CASE e = Done
    <3> DEFINE x == Response("done", 0, 0, FALSE)
    <3>1. x.type = "done" /\ x.index = 0 /\ x.piece = 0
      BY DEF Response
    <3>2. ~Bearing(upstream, e) /\ (course # "any" => t[2] \in Late)
      BY <1>0, <1>1, <2>2, DoneEnds DEF Bearing, Late
    <3>3. Convert(e) = <<x>>
      BY <1>4, <2>2 DEF Convert
    <3>4. s = AddToResponse(b, x)
      BY <1>4, <3>3 DEF AddConverted, Add
    <3> HIDE DEF x, s
    <3>5. AsResponse(upstream, course, t, n, x)
      BY <3>1, <3>2 DEF AsResponse, Asks, Fits
    <3>6. QED BY <1>0, <1>4, <2>1, <3>4, <3>5, JoiningResponse DEF s
  <2>3. CASE e # Done
    <3> DEFINE x == ChatToResponses(chat)
    <3>1. \/ x = Unconvertible /\ ~Bearing(upstream, e) /\ (t[1] \in Late => t[2] \in Late)
          \/ x # Unconvertible /\ AsResponse(upstream, course, t, n, x)
      BY <1>0, <1>2, <2>3, ShapeAsResponse
    <3>2. Convert(e) = IF x = Unconvertible THEN <<>> ELSE <<x>>
      BY <1>4, <2>3 DEF Convert
    <3> HIDE DEF x, s
    <3>3. CASE x = Unconvertible
      <4>1. s = b
        BY <3>2, <3>3 DEF AddConverted, s
      <4>2. Counted(sent, upstream, e) = sent /\ (t[1] \in Late => t[2] \in Late)
        BY <3>1, <3>3, <1>0, <1>2, <2>3, ShapeAsResponse DEF Counted, x
      <4>3. PICK d \in Reader :
               /\ Reaches(client, mode, c, b.out, d)
               /\ Linked(client, upstream, course, mode, d, b, t[1], sent)
        BY DEF Joined
      <4>4. Linked(client, upstream, course, mode, d, b, t[2], sent)
        BY <1>4, <4>2, <4>3 DEF Linked, Holds
      <4>5. QED BY <4>1, <4>2, <4>3, <4>4 DEF Joined, s
    <3>4. CASE x # Unconvertible
      <4>1. s = AddToResponse(b, x)
        BY <1>4, <3>2, <3>4 DEF AddConverted, Add, s
      <4>2. AsResponse(upstream, course, t, n, x)
        BY <3>1, <3>4
      <4>3. QED BY <1>0, <1>4, <2>1, <4>1, <4>2, JoiningResponse DEF s
    <3>5. QED BY <3>3, <3>4
  <2>4. QED BY <2>2, <2>3
<1>5. CASE client = "chat"
  <2> DEFINE x == IF e = Done THEN Done ELSE chat
  <2>1. Convert(e) = <<x>>
    BY <1>5 DEF Convert
  <2>2. s = Push(b, x)
    BY <1>5, <2>1 DEF AddConverted, Add
  <2>3. CASE e = Done
    <3>1. Content("chat", Done) = {} /\ ~Bearing(upstream, e)
      BY <2>3 DEF Content, PiecesIn, Bearing
    <3>2. AsChat(upstream, t, n, x)
      BY <2>3, <3>1 DEF AsChat
    <3>3. QED BY <1>0, <1>5, <2>2, <3>2, JoiningChat
  <2>4. CASE e # Done
    <3>1. chat # Done
      BY <1>0, <1>1, <2>4, ConverseIsChunk
    <3>2. AsChat(upstream, t, n, chat)
      BY <1>0, <1>2, <2>4, <3>1, ShapeAsChat
    <3>3. QED BY <1>0, <1>5, <2>2, <2>4, <3>2, JoiningChat
  <2>5. QED BY <2>3, <2>4
<1>6. QED BY <1>3, <1>4, <1>5 DEF Types, Clients

\* Induction over the natural numbers: a set of them that is not empty has a
\* least element.
LEMMA LeastNumber ==
    ASSUME NEW T \in SUBSET Nat, T # {}
    PROVE  \E n \in T : \A m \in T : n <= m
<1> DEFINE Below(n) == {m \in Nat : m < n}
           B == {Below(n) : n \in T}
<1>1. ASSUME NEW n \in Nat PROVE IsFiniteSet(Below(n))
  <2>1. Below(n) \in SUBSET Nat /\ \A s \in Below(n) : s <= n
    OBVIOUS
  <2>2. QED BY <2>1, FS_BoundedSetOfNaturals
<1>2. B \subseteq FiniteSubsetsOf(Nat) /\ B # {}
  BY <1>1 DEF FiniteSubsetsOf
<1>3. PICK b \in B : \A y \in B : ~(<<y, b>> \in StrictSubsetOrdering(Nat))
  BY <1>2, FS_StrictSubsetOrderingWellFounded, WFMin
<1>4. PICK n \in T : b = Below(n)
  BY <1>3
<1>5. ASSUME NEW m \in T, m < n PROVE FALSE
  <2>1. Below(m) \in B
    OBVIOUS
  <2>2. Below(m) \subseteq Below(n) /\ Below(m) # Below(n)
    BY <1>5
  <2>3. <<Below(m), b>> \in StrictSubsetOrdering(Nat)
    BY <2>2, <1>4 DEF StrictSubsetOrdering
  <2>4. QED BY <2>1, <2>3, <1>3
<1>6. QED BY <1>5

\* The same as a step from n to n + 1, up to a bound: for the set of the
\* numbers that have a property.
LEMMA UpTo ==
    ASSUME NEW N \in Nat, NEW S, 0 \in S, \A n \in 0..(N - 1) : n \in S => n + 1 \in S
    PROVE  0..N \subseteq S
<1> SUFFICES ASSUME {n \in 0..N : n \notin S} # {} PROVE FALSE
  OBVIOUS
<1> DEFINE T == {k \in 0..N : k \notin S}
<1>1. PICK n \in T : \A m \in T : n <= m
  <2>1. T \in SUBSET Nat /\ T # {}
    OBVIOUS
  <2>2. QED BY <2>1, LeastNumber
<1>2. n # 0 /\ n - 1 \in 0..(N - 1)
  BY <1>1
<1>3. n - 1 \in S
  BY <1>1, <1>2
<1>4. QED BY <1>1, <1>2, <1>3


-----------------------------------------------------------------------------
\* The events of a chunk, one by one.
LEMMA AddAllIs ==
    ASSUME NEW events, Len(events) \in Nat
    PROVE  \E after : /\ after[0] = buffer /\ AddAll(events) = after[Len(events)]
                     /\ \A n \in 1..Len(events) : after[n] = AddConverted(after[n - 1], events[n])
<1> DEFINE N == Len(events)
           Step(b, n) == AddConverted(b, events[n])
           F(g, n) == [k \in 0..n |-> IF k = 0 THEN buffer ELSE Step(g[k - 1], k)]
           IsAfter(g, n) == g = F(g, n)
           S == {n \in 0..N : \E g : IsAfter(g, n)}
<1>0. N \in Nat
  OBVIOUS
<1>a. AddAll(events) = (CHOOSE g : g = F(g, N))[N]
  BY DEF AddAll
<1> HIDE DEF N, Step
<1>1. 0 \in S
  <2>1. IsAfter([k \in 0..0 |-> buffer], 0)
    OBVIOUS
  <2>2. \E g : IsAfter(g, 0)
    BY <2>1
  <2>3. QED BY <2>2, <1>0
<1>2. ASSUME NEW n \in 0..(N - 1), n \in S PROVE n + 1 \in S
  <2>1. PICK g : IsAfter(g, n)
    BY <1>2
  <2> DEFINE h == [k \in 0..(n + 1) |-> IF k = n + 1 THEN Step(g[n], n + 1) ELSE g[k]]
  <2>2. ASSUME NEW k \in 0..(n + 1)
        PROVE  h[k] = IF k = 0 THEN buffer ELSE Step(h[k - 1], k)
    <3>1. CASE k = n + 1
      BY <3>1, <1>0
    <3>2. CASE k \in 0..n
      BY <3>2, <2>1, <1>0
    <3>3. QED BY <3>1, <3>2, <1>0
  <2>3. IsAfter(h, n + 1)
    BY <2>2
  <2>4. \E f : IsAfter(f, n + 1)
    BY <2>3
  <2>5. QED BY <2>4, <1>0
<1>3. N \in S
  <2> HIDE DEF S
  <2>1. 0..N \subseteq S
    BY <1>0, <1>1, <1>2, UpTo
  <2>2. QED BY <2>1, <1>0
<1> DEFINE after == CHOOSE g : g = F(g, N)
<1>4. after = F(after, N)
  <2>1. \E g : g = F(g, N)
    BY <1>3
  <2> HIDE DEF F
  <2>2. QED BY <2>1
<1>5. after[0] = buffer /\ \A n \in 1..N : after[n] = Step(after[n - 1], n)
  <2> HIDE DEF after
  <2>1. QED BY <1>0, <1>4
<1>6. AddAll(events) = after[N]
  BY <1>a
<1> HIDE DEF after
<1>7. QED BY <1>5, <1>6 DEF N, Step

\* What is known of a buffer while events are lost.
LEMMA Weakening ==
    ASSUME NEW format, NEW api, NEW kind, NEW mode, NEW mode2, NEW c, c.pieces \in Seq(Nat), NEW b,
           NEW place, NEW place2, NEW sent \in Nat, NEW sent2 \in Nat,
           Linked(format, api, kind, mode, c, b, place, sent), mode2 \notin {"strict", "shared"},
           sent <= sent2, place \in Late => place2 \in Late
    PROVE  Linked(format, api, kind, mode2, c, b, place2, sent2)
<1>1. \A i \in DOMAIN c.pieces : c.pieces[i] <= sent2
  BY DEF Linked
<1>2. kind # "any" /\ Holds(api, kind, place, c, b) => Holds(api, kind, place2, c, b)
  BY DEF Holds
<1>3. QED BY <1>1, <1>2 DEF Linked

\* Nothing is under way in a new stream.
LEMMA NewStream ==
    ASSUME client \in Clients, NEW mode, NEW c \in Reader,
           c.seen = [phase |-> "none", block |-> -1, filled |-> -1, added |-> <<>>, done |-> <<>>],
           c.pieces = <<>>
    PROVE  Linked(client, upstream, course, mode, c, NewBuffer, "start", 0)
<1>1. c.pieces = <<>> /\ Len(<<>>) = 0 /\ \A i \in DOMAIN <<>> : <<>>[i] <= 0
  OBVIOUS
<1>2. CASE client = "messages"
  <2>1. NewBuffer = EmptyMessagesBuffer
    BY <1>2 DEF NewBuffer
  <2>2. PhaseOf(c.seen, EmptyMessagesBuffer)
    BY DEF PhaseOf, MessagesBuffer, EmptyMessagesBuffer
  <2>3. Placed(upstream, "start", c.seen, EmptyMessagesBuffer)
    BY DEF Placed, EmptyMessagesBuffer, Going, Fresh
  <2>4. QED BY <1>1, <1>2, <2>1, <2>2, <2>3 DEF Linked
<1>3. CASE client = "responses"
  <2> DEFINE b == EmptyResponseBuffer
  <2>1. NewBuffer = b
    BY <1>3 DEF NewBuffer
  <2>2. /\ b.out = <<>> /\ b.created = FALSE /\ b.finalized = FALSE /\ b.added = {}
        /\ b.text = NoContent /\ b.args = NoContent
    BY DEF EmptyResponseBuffer
  <2>3. ResponseBuffer(b)
    BY DEF ResponseBuffer, EmptyResponseBuffer, NoContent
  <2>4. DOMAIN NoContent = {}
    BY DEF NoContent
  <2> HIDE DEF b
  <2>5. LifeOf(c.seen, b)
    BY <2>2, <2>3, <2>4 DEF LifeOf
  <2>6. Holds(upstream, course, "start", c, b)
    BY <1>1, <2>2, <2>4 DEF Holds, Held
  <2>7. QED BY <1>1, <1>3, <2>1, <2>5, <2>6 DEF Linked
<1>4. CASE client = "chat"
  <2>1. NewBuffer = [out |-> <<>>]
    BY <1>4 DEF NewBuffer
  <2>2. QED BY <1>1, <1>4, <2>1 DEF Linked
<1>5. QED BY <1>2, <1>3, <1>4 DEF Clients

\* to_bytes, of the buffer of any client.
LEMMA Writing ==
    ASSUME client \in Clients, NEW mode, NEW c, NEW b, NEW place, NEW sent \in Nat,
           Joined(client, upstream, course, mode, c, b, place, sent)
    PROVE  \E d \in Reader :
              /\ Reaches(client, mode, c, ToBytes(b), d)
              /\ Linked(client, upstream, course, mode, d, Flushed(b), place, sent)
              /\ Flushed(b).out = <<>>
<1>1. PICK d \in Reader : /\ Reaches(client, mode, c, b.out, d)
                          /\ Linked(client, upstream, course, mode, d, b, place, sent)
  BY DEF Joined
<1>2. CASE client = "messages"
  <2>1. Carried(mode, c, b, d)
    BY <1>1, <1>2 DEF Carried, Linked
  <2>2. sent + 1 \in Nat \ {0} /\ \A i \in DOMAIN d.pieces : d.pieces[i] < sent + 1
    BY <1>1, Longer DEF Linked, Reader
  <2>3. PICK next \in Reader :
              /\ Reaches("messages", mode, c, FinishMessages(b).out, next)
              /\ next.pieces = d.pieces
              /\ PhaseOf(next.seen, FlushedMessages(b))
              /\ \A api, p : Placed(api, p, d.seen, b)
                                    => Placed(api, p, next.seen, FlushedMessages(b))
    BY <2>1, <2>2, WritingMessages
  <2>4. ToBytes(b) = FinishMessages(b).out /\ Flushed(b) = FlushedMessages(b)
    BY <1>2 DEF ToBytes, Flushed
  <2>5. Linked(client, upstream, course, mode, next, Flushed(b), place, sent)
    BY <1>1, <1>2, <2>3, <2>4 DEF Linked
  <2>6. FlushedMessages(b).out = <<>>
    BY <2>3 DEF PhaseOf, MessagesBuffer, FlushedMessages
  <2>7. QED BY <1>2, <2>3, <2>4, <2>5, <2>6
<1>3. CASE client = "responses"
  <2>1. ToBytes(b) = b.out /\ Flushed(b) = FlushedResponse(b)
    BY <1>3 DEF ToBytes, Flushed
  <2>2. LifeOf(d.seen, FlushedResponse(b))
    BY <1>1, <1>3, WritingResponse DEF Linked
  <2>3. course # "any" => Holds(upstream, course, place, d, FlushedResponse(b))
    BY <1>1, <1>3, WritingResponse DEF Linked
  <2>4. Linked(client, upstream, course, mode, d, Flushed(b), place, sent)
    BY <1>1, <1>3, <2>1, <2>2, <2>3 DEF Linked
  <2>5. FlushedResponse(b).out = <<>>
    BY <2>2 DEF LifeOf, ResponseBuffer, FlushedResponse
  <2>6. QED BY <1>1, <2>1, <2>4, <2>5
<1>4. CASE client = "chat"
  <2>1. ToBytes(b) = b.out /\ Flushed(b) = [b EXCEPT !.out = <<>>]
    BY <1>4 DEF ToBytes, Flushed
  <2>2. b \in [out : {b.out}]
    BY <1>1, <1>4 DEF Linked
  <2>3. Flushed(b) \in [out : {Flushed(b).out}]
    BY <2>1, <2>2
  <2>4. Linked(client, upstream, course, mode, d, Flushed(b), place, sent)
    BY <1>1, <1>4, <2>3 DEF Linked
  <2>5. Flushed(b).out = <<>>
    BY <2>1, <2>2
  <2>6. QED BY <1>1, <2>1, <2>4, <2>5
<1>5. QED BY <1>2, <1>3, <1>4 DEF Clients

\* The events that are read of a chunk are those it completes, in order, less
\* one that was cut in its prefix and those that follow [DONE].
LEMMA UpToDoneIs ==
    ASSUME NEW events, IsList(events)
    PROVE  LET kept == UpToDone(events) IN
           /\ Len(kept) \in 0..Len(events)
           /\ \A j \in 1..Len(kept) : kept[j] = events[j]
           /\ Len(kept) < Len(events) => Len(kept) > 0 /\ kept[Len(kept)] = Done
<1>1. PICK S : events \in Seq(S)
  BY DEF IsList
<1> DEFINE dones == {i \in DOMAIN events : events[i] = Done}
           i == CHOOSE i \in dones : \A j \in dones : i <= j
<1>2. CASE dones = {}
  <2>1. UpToDone(events) = events
    BY <1>2 DEF UpToDone
  <2>2. QED BY <1>1, <2>1
<1>3. CASE dones # {}
  <2>1. i \in dones
    <3>1. dones \in SUBSET Nat
      BY <1>1
    <3>2. \E n \in dones : \A m \in dones : n <= m
      BY <1>3, <3>1, LeastNumber
    <3> HIDE DEF dones
    <3>3. QED BY <3>2
  <2>2. UpToDone(events) = SubSeq(events, 1, i)
    BY <1>3 DEF UpToDone
  <2>3. i \in 1..Len(events) /\ events[i] = Done
    BY <1>1, <2>1
  <2> HIDE DEF i, dones
  <2>4. /\ Len(SubSeq(events, 1, i)) = i
        /\ \A j \in 1..i : SubSeq(events, 1, i)[j] = events[j]
    BY <1>1, <2>3
  <2>5. QED BY <1>1, <2>2, <2>3, <2>4
<1>4. QED BY <1>2, <1>3

Skipped == IF cut = "prefix" THEN 1 ELSE 0

\* What process_chunk makes of a chunk: what it completes, without the event
\* whose prefix was lost, up to a [DONE].
LEMMA Processing ==
    ASSUME IsList(inflight), NEW k \in 0..Len(inflight), cut = "prefix" => k > 0, cut # "corrupt"
    PROVE  LET events == ProcessChunk(SubSeq(inflight, 1, k)) IN
           /\ Len(events) \in 0..(k - Skipped)
           /\ \A j \in 1..Len(events) : events[j] = inflight[Skipped + j]
           /\ Len(events) < k - Skipped => Len(events) > 0 /\ events[Len(events)] = Done
<1> DEFINE read == SubSeq(inflight, 1, k)
           whole == IF cut = "prefix" THEN Tail(read) ELSE read
<1>1. PICK S : inflight \in Seq(S)
  BY DEF IsList
<1>2. /\ read \in Seq(S) /\ Len(read) = k
      /\ \A j \in 1..k : read[j] = inflight[j]
  BY <1>1
<1> HIDE DEF read
<1>3. /\ whole \in Seq(S) /\ Len(whole) = k - Skipped
      /\ \A j \in 1..(k - Skipped) : whole[j] = inflight[Skipped + j]
  <2>1. CASE cut = "prefix"
    <3>1. read # <<>> /\ k > 0
      BY <1>2, <2>1
    <3>2. Tail(read) \in Seq(S) /\ Len(Tail(read)) = k - 1 /\ \A j \in 1..(k - 1) : Tail(read)[j] = read[j + 1]
      BY <1>2, <3>1
    <3>3. QED BY <1>2, <2>1, <3>2 DEF Skipped
  <2>2. CASE cut # "prefix"
    BY <1>2, <2>2 DEF Skipped
  <2>3. QED BY <2>1, <2>2
<1>4. IsList(whole)
  BY <1>3 DEF IsList
<1>5. ProcessChunk(read) = UpToDone(whole)
  BY DEF ProcessChunk
<1> HIDE DEF whole
<1>6. Skipped \in {0, 1} /\ k - Skipped \in Nat
  BY DEF Skipped
<1> DEFINE kept == UpToDone(whole)
<1>7. /\ Len(kept) \in 0..Len(whole)
      /\ \A j \in 1..Len(kept) : kept[j] = whole[j]
      /\ Len(kept) < Len(whole) => Len(kept) > 0 /\ kept[Len(kept)] = Done
  BY <1>4, UpToDoneIs
<1> HIDE DEF kept
<1>8. QED BY <1>3, <1>5, <1>6, <1>7 DEF kept, read

\* A stream that keeps to its protocol ends once, with [DONE] if it is one of
\* chat chunks.
LEMMA StepsEnd ==
    ASSUME NEW api \in {"openai", "bedrock"}, NEW kind \in Kinds, NEW n \in Nat \ {0},
           NEW t \in Steps(api, kind, n)
    PROVE  /\ t[1] \in Late => t[2] \in Late
           /\ kind # "any" => t[1] # "over"
           /\ kind # "any" /\ t[3] = Done => t[2] = "over"
<1>1. CASE api = "bedrock"
  <2>1. t \in ConverseCourse(n)[kind]
    BY <1>1 DEF Steps
  <2>2. t[3] # Done
    BY <2>1, ConverseAsMessage
  <2>3. (t[1] \in Late => t[2] \in Late) /\ (kind # "any" => t[1] # "over")
    BY <2>1 DEF ConverseCourse, Frame, Kinds, Late
  <2>4. QED BY <2>2, <2>3
<1>2. CASE api = "openai"
  <2>1. t \in ChatCourse(n)[kind]
    BY <1>2 DEF Steps
  <2>2. CASE kind = "any"
    BY <2>1, <2>2, OddSteps DEF Late
  <2>3. CASE kind # "any" /\ t[3] = Done
    BY <2>1, <2>3, DoneEnds DEF Late
  <2>4. CASE kind = "text" /\ t[3] # Done
    BY <2>1, <2>4, TextSteps DEF Late
  <2>5. CASE kind = "tool" /\ t[3] # Done
    BY <2>1, <2>5, ToolSteps DEF Late
  <2>6. QED BY <2>2, <2>3, <2>4, <2>5 DEF Kinds
<1>3. QED BY <1>1, <1>2

-----------------------------------------------------------------------------
\* The invariant: the events under way are a path of the upstream's course,
\* and a client that reads all that is written is linked to the buffer at its
\* beginning.

Mode ==
    IF course = "any" THEN "any"
    ELSE IF ~clean THEN "calm"
    ELSE IF client = "responses" /\ course = "tool" /\ upstream = "bedrock" THEN "shared"
    ELSE "strict"

Now == [seen |-> seen, pieces |-> pieces]

\* An event that takes the upstream from one place to another.
Brings(api, kind, place, sent, e, place2, sent2) ==
    /\ sent2 = Counted(sent, api, e)
    /\ \E t \in Steps(api, kind, sent + 1) : t[1] = place /\ t[2] = place2 /\ t[3] = e

Underway(api, kind, list, places, counts) ==
    /\ IsList(list)
    /\ \A i \in 0..Len(list) : counts[i] \in Nat
    /\ \A i \in 1..Len(list) : Brings(api, kind, places[i - 1], counts[i - 1], list[i], places[i], counts[i])
    /\ \A i, j \in 0..Len(list) :
          i <= j => counts[i] <= counts[j] /\ (places[i] \in Late => places[j] \in Late)

Goes(api, kind, list, from, count, to, total) ==
    \E places, counts :
        /\ Underway(api, kind, list, places, counts)
        /\ places[0] = from /\ counts[0] = count
        /\ places[Len(list)] = to /\ counts[Len(list)] = total

\* What the gateway has still to read, and the client to be told of it.
Follows(place, sent) == Goes(upstream, course, inflight, place, sent, at, emitted.pieces)

Told(place, sent) ==
    \E d \in Reader : /\ Reaches(client, Mode, Now, wire, d)
                      /\ Joined(client, upstream, course, Mode, d, buffer, place, sent)

\* Only what was decoded before a corrupt frame stays in the buffer; frames have
\* no prefix to be cut in.
Framed ==
    /\ clean => buffer.out = <<>>
    /\ upstream = "bedrock" => cut \in {"none", "payload", "corrupt"}

Inv ==
    /\ Types /\ clean \in BOOLEAN /\ Framed
    /\ emitted \in [events : Nat, pieces : Nat]
    /\ \E place, sent : Follows(place, sent) /\ Told(place, sent)
    /\ PiecesOnceInOrder

\* The modes are those of the clients and courses they are for.
LEMMA ModeSuits == Types => Suits(Mode)
BY DEF Types, Suits, Mode, Modes, Clients, Kinds

\* Nothing was sent.
LEMMA InvInit == Init => Inv
<1> SUFFICES ASSUME Init PROVE Inv
  OBVIOUS
<1>1. Types /\ clean \in BOOLEAN /\ emitted \in [events : Nat, pieces : Nat]
  BY DEF Init, Types, Clients, Kinds
<1>2. buffer.out = <<>> /\ Framed
  BY DEF Init, NewBuffer, EmptyMessagesBuffer, EmptyResponseBuffer, Framed
<1>3. Now \in Reader
  BY DEF Init, Now, Reader, Seen, Phases
<1>4. Now.seen = seen /\ Now.pieces = <<>>
  BY DEF Now, Init
<1>5. Linked(client, upstream, course, Mode, Now, NewBuffer, "start", 0)
  BY <1>1, <1>3, <1>4, NewStream DEF Init, Types
<1>6. Told("start", 0)
  <2>1. wire = <<>> /\ buffer = NewBuffer
    BY DEF Init
  <2>2. \A mode : Reaches(client, mode, Now, <<>>, Now)
    BY <1>3, ReachesNothing
  <2>3. Joined(client, upstream, course, Mode, Now, buffer, "start", 0)
    BY <1>2, <1>3, <1>5, <2>1, <2>2 DEF Joined
  <2>4. QED BY <1>3, <2>1, <2>2, <2>3 DEF Told
<1>7. Follows("start", 0)
  <2> DEFINE places == [i \in {0} |-> "start"]
             counts == [i \in {0} |-> 0]
  <2>1. inflight = <<>> /\ Len(<<>>) = 0 /\ IsList(<<>>) /\ at = "start" /\ emitted.pieces = 0
    <3>1. <<>> \in Seq({})
      OBVIOUS
    <3>2. QED BY <3>1 DEF Init, IsList
  <2>2. Underway(upstream, course, <<>>, places, counts)
    BY <2>1 DEF Underway
  <2>3. places[0] = "start" /\ counts[0] = 0
    OBVIOUS
  <2> HIDE DEF places, counts
  <2>4. QED BY <2>1, <2>2, <2>3 DEF Follows, Goes
<1>8. PiecesOnceInOrder
  BY DEF Init, PiecesOnceInOrder
<1>9. QED BY <1>1, <1>2, <1>6, <1>7, <1>8 DEF Inv

\* What follows after one more event, after one less, and after k less.
LEMMA FollowsMore ==
    ASSUME NEW api, NEW kind, NEW list, NEW from, NEW count, NEW to, NEW total, Goes(api, kind, list, from, count, to, total),
           NEW e, NEW place, NEW sent \in Nat, Brings(api, kind, to, total, e, place, sent),
           to \in Late => place \in Late, total <= sent
    PROVE  Goes(api, kind, Append(list, e), from, count, place, sent)
<1>0. PICK places, counts :
        /\ Underway(api, kind, list, places, counts)
        /\ places[0] = from /\ counts[0] = count
        /\ places[Len(list)] = to /\ counts[Len(list)] = total
  BY DEF Goes
<1> DEFINE N == Len(list)
           more == Append(list, e)
           p2 == [i \in 0..(N + 1) |-> IF i = N + 1 THEN place ELSE places[i]]
           c2 == [i \in 0..(N + 1) |-> IF i = N + 1 THEN sent ELSE counts[i]]
<1>1. /\ IsList(more) /\ N \in Nat /\ Len(more) = N + 1
      /\ \A i \in 1..N : more[i] = list[i]
      /\ more[N + 1] = e
  BY <1>0, Pushed DEF Underway
<1>2. /\ \A i \in 0..N : counts[i] \in Nat
      /\ \A i \in 1..N : Brings(api, kind, places[i - 1], counts[i - 1], list[i], places[i], counts[i])
      /\ \A i, j \in 0..N :
          i <= j => counts[i] <= counts[j] /\ (places[i] \in Late => places[j] \in Late)
      /\ Brings(api, kind, places[N], counts[N], e, place, sent)
      /\ places[N] \in Late => place \in Late
      /\ counts[N] <= sent
  BY <1>0 DEF Underway
<1> HIDE DEF N, more
<1>3. /\ \A i \in 0..N : p2[i] = places[i] /\ c2[i] = counts[i]
      /\ p2[N + 1] = place /\ c2[N + 1] = sent
  BY <1>1
<1> HIDE DEF p2, c2
<1>4. \A i \in 0..(N + 1) : c2[i] \in Nat
  <2>1. \A i \in 0..(N + 1) : i \in 0..N \/ i = N + 1
    BY <1>1
  <2>2. QED BY <1>2, <1>3, <2>1
<1>5. ASSUME NEW i \in 1..(N + 1)
      PROVE  Brings(api, kind, p2[i - 1], c2[i - 1], more[i], p2[i], c2[i])
  <2>1. CASE i \in 1..N
    <3>1. i - 1 \in 0..N /\ i \in 0..N
      BY <1>1, <2>1
    <3>2. Brings(api, kind, places[i - 1], counts[i - 1], list[i], places[i], counts[i])
      BY <1>2, <2>1
    <3>3. QED BY <1>1, <1>3, <2>1, <3>1, <3>2
  <2>2. CASE i = N + 1
    <3>1. i - 1 = N /\ N \in 0..N
      BY <1>1, <2>2
    <3>2. QED BY <1>1, <1>2, <1>3, <2>2, <3>1
  <2>3. QED BY <1>1, <2>1, <2>2
<1>6. ASSUME NEW i \in 0..(N + 1), NEW j \in 0..(N + 1), i <= j
      PROVE  c2[i] <= c2[j] /\ (p2[i] \in Late => p2[j] \in Late)
  <2>1. CASE j \in 0..N
    <3>1. i \in 0..N
      BY <1>1, <1>6, <2>1
    <3>2. QED BY <1>2, <1>3, <1>6, <2>1, <3>1
  <2>2. CASE j = N + 1 /\ i \in 0..N
    <3>1. N \in 0..N /\ i <= N
      BY <1>1, <2>2
    <3>2. counts[i] <= counts[N] /\ (places[i] \in Late => places[N] \in Late)
      BY <1>2, <2>2, <3>1
    <3>3. counts[i] \in Nat /\ counts[N] \in Nat
      BY <1>2, <2>2, <3>1
    <3>4. QED BY <1>2, <1>3, <2>2, <3>2, <3>3
  <2>3. CASE j = N + 1 /\ i = N + 1
    BY <1>3, <2>3
  <2>4. QED BY <1>1, <2>1, <2>2, <2>3
<1>7. Underway(api, kind, more, p2, c2)
  BY <1>1, <1>4, <1>5, <1>6 DEF Underway
<1>8. p2[0] = places[0] /\ c2[0] = counts[0]
  BY <1>1, <1>3
<1>9. QED BY <1>0, <1>1, <1>3, <1>7, <1>8 DEF more, Goes

\* What remains under way goes on from where the rest has come to.
LEMMA FollowsLess ==
    ASSUME NEW api, NEW kind, NEW list, NEW places, NEW counts, Underway(api, kind, list, places, counts),
           NEW k \in 0..Len(list)
    PROVE  Goes(api, kind, SubSeq(list, k + 1, Len(list)), places[k], counts[k],
                places[Len(list)], counts[Len(list)])
<1> DEFINE N == Len(list)
           rest == SubSeq(list, k + 1, N)
           p2 == [i \in 0..(N - k) |-> places[k + i]]
           c2 == [i \in 0..(N - k) |-> counts[k + i]]
<1>1. /\ IsList(rest) /\ N \in Nat /\ Len(rest) = N - k
      /\ \A i \in 1..(N - k) : rest[i] = list[k + i]
  <2>1. PICK S : list \in Seq(S)
    BY DEF Underway, IsList
  <2>2. /\ rest \in Seq(S) /\ Len(rest) = N - k /\ N \in Nat
        /\ \A i \in 1..(N - k) : rest[i] = list[k + i]
    BY <2>1
  <2>3. QED BY <2>2 DEF IsList
<1>2. /\ \A i \in 0..N : counts[i] \in Nat
      /\ \A i \in 1..N : Brings(api, kind, places[i - 1], counts[i - 1], list[i], places[i], counts[i])
      /\ \A i, j \in 0..N :
          i <= j => counts[i] <= counts[j] /\ (places[i] \in Late => places[j] \in Late)
  BY DEF Underway
<1> HIDE DEF N, rest
<1>3. k \in 0..N
  BY DEF N
<1>4. \A i \in 0..(N - k) : p2[i] = places[k + i] /\ c2[i] = counts[k + i] /\ k + i \in 0..N
  BY <1>1, <1>3
<1> HIDE DEF p2, c2
<1>5. ASSUME NEW i \in 1..(N - k)
      PROVE  Brings(api, kind, p2[i - 1], c2[i - 1], rest[i], p2[i], c2[i])
  <2>1. k + i \in 1..N /\ i - 1 \in 0..(N - k) /\ i \in 0..(N - k) /\ k + (i - 1) = (k + i) - 1
    BY <1>1, <1>3
  <2>2. Brings(api, kind, places[(k + i) - 1], counts[(k + i) - 1], list[k + i], places[k + i], counts[k + i])
    BY <1>2, <2>1
  <2>3. p2[i - 1] = places[k + (i - 1)] /\ c2[i - 1] = counts[k + (i - 1)]
    BY <1>4, <2>1
  <2>4. QED BY <1>1, <1>4, <2>1, <2>2, <2>3
<1>6. ASSUME NEW i \in 0..(N - k), NEW j \in 0..(N - k), i <= j
      PROVE  c2[i] <= c2[j] /\ (p2[i] \in Late => p2[j] \in Late)
  <2>1. k + i \in 0..N /\ k + j \in 0..N /\ k + i <= k + j
    BY <1>3, <1>4, <1>6
  <2>2. counts[k + i] <= counts[k + j] /\ (places[k + i] \in Late => places[k + j] \in Late)
    BY <1>2, <2>1
  <2>3. QED BY <1>4, <2>2
<1>7. \A i \in 0..(N - k) : c2[i] \in Nat
  BY <1>2, <1>4
<1>8. Underway(api, kind, rest, p2, c2)
  BY <1>1, <1>5, <1>6, <1>7 DEF Underway
<1>9. 0 \in 0..(N - k) /\ N - k \in 0..(N - k) /\ k + 0 = k /\ k + (N - k) = N
  BY <1>1, <1>3
<1>10. p2[0] = places[k] /\ c2[0] = counts[k] /\ p2[N - k] = places[N] /\ c2[N - k] = counts[N]
  BY <1>4, <1>9
<1>11. QED BY <1>1, <1>8, <1>10 DEF rest, N, Goes

\* The upstream goes on by one step.
LEMMA InvEmit == Inv /\ Emit => Inv'
<1> SUFFICES ASSUME Inv, Emit PROVE Inv'
  OBVIOUS
<1>0. UNCHANGED <<client, upstream, course, cut, buffer, wire, seen, pieces, clean>>
  BY DEF Emit, gateway
<1>1. PICK place, sent : Follows(place, sent) /\ Told(place, sent)
  BY DEF Inv
<1>2. Goes(upstream, course, inflight, place, sent, at, emitted.pieces)
  BY <1>1 DEF Follows
<1>3. PICK t \in Course(emitted.pieces + 1) :
          /\ t[1] = at /\ at' = t[2]
          /\ inflight' = Append(inflight, t[3])
          /\ emitted' = [events |-> emitted.events + 1,
                         pieces |-> emitted.pieces + (IF HasPiece(t[3]) THEN 1 ELSE 0)]
  BY DEF Emit
<1> DEFINE n == emitted.pieces
           m == Counted(n, upstream, t[3])
<1>4. n \in Nat /\ emitted.events \in Nat /\ Types
  BY DEF Inv
<1>5. t \in Steps(upstream, course, n + 1)
  BY <1>3 DEF Course, Steps
<1>6. HasPiece(t[3]) <=> Bearing(upstream, t[3])
  BY DEF HasPiece, Bearing
<1>7. emitted'.pieces = m /\ m \in Nat /\ n <= m /\ emitted' \in [events : Nat, pieces : Nat]
  BY <1>3, <1>4, <1>6 DEF Counted
<1>8. t[1] \in Late => t[2] \in Late
  <2>1. n + 1 \in Nat \ {0} /\ upstream \in {"openai", "bedrock"} /\ course \in Kinds
    BY <1>4 DEF Types
  <2> HIDE DEF n
  <2>2. QED BY <1>5, <2>1, StepsEnd
<1>9. Brings(upstream, course, at, n, t[3], t[2], m)
  BY <1>3, <1>5 DEF Brings
<1> HIDE DEF n, m
<1>10. Goes(upstream, course, Append(inflight, t[3]), place, sent, t[2], m)
  <2>1. Goes(upstream, course, inflight, place, sent, at, n)
    BY <1>2 DEF n
  <2>2. at \in Late => t[2] \in Late
    BY <1>3, <1>8
  <2>3. QED BY <1>7, <1>9, <2>1, <2>2, FollowsMore
<1>11. Goes(upstream, course, inflight', place, sent, at', emitted'.pieces)
  BY <1>3, <1>7, <1>10
<1>12. Follows(place, sent)'
  BY <1>0, <1>11 DEF Follows
<1>13. Told(place, sent)'
  BY <1>0, <1>1 DEF Told, Mode, Now
<1>14. Types' /\ (clean \in BOOLEAN)' /\ Framed' /\ PiecesOnceInOrder'
  BY <1>0 DEF Inv, Types, PiecesOnceInOrder, Framed
<1>15. QED BY <1>7, <1>12, <1>13, <1>14 DEF Inv

\* A client that has read everything has still to be told what the buffer holds.
LEMMA NothingTold ==
    ASSUME NEW place, NEW sent, Told(place, sent), wire = <<>>
    PROVE  Now \in Reader /\ Joined(client, upstream, course, Mode, Now, buffer, place, sent)
<1>1. PICK d \in Reader :
        /\ Reaches(client, Mode, Now, wire, d)
        /\ Joined(client, upstream, course, Mode, d, buffer, place, sent)
  BY DEF Told
<1>2. d = Now
  BY <1>1, NothingReaches
<1>3. QED BY <1>1, <1>2

\* An empty buffer holds nothing it could be told.
LEMMA JoinedNothing ==
    ASSUME NEW format, NEW api, NEW kind, NEW mode, NEW c \in Reader, NEW b, NEW place, NEW sent,
           b.out = <<>>
    PROVE  Joined(format, api, kind, mode, c, b, place, sent)
           <=> Linked(format, api, kind, mode, c, b, place, sent)
<1>1. Reaches(format, mode, c, b.out, c)
  BY ReachesNothing
<1>2. ASSUME NEW d, Reaches(format, mode, c, b.out, d) PROVE d = c
  BY <1>2, NothingReaches
<1>3. QED BY <1>1, <1>2 DEF Joined

\* Where nothing is asked about the place, the upstream may be further on.
LEMMA JoinedLater ==
    ASSUME NEW format, NEW api, NEW kind, NEW mode, mode \notin {"strict", "shared"}, NEW c, NEW b,
           NEW place, NEW place2, NEW sent \in Nat, NEW sent2 \in Nat,
           Joined(format, api, kind, mode, c, b, place, sent),
           sent <= sent2, place \in Late => place2 \in Late
    PROVE  Joined(format, api, kind, mode, c, b, place2, sent2)
<1>1. PICK d \in Reader : /\ Reaches(format, mode, c, b.out, d)
                          /\ Linked(format, api, kind, mode, d, b, place, sent)
  BY DEF Joined
<1>2. d.pieces \in Seq(Nat)
  BY <1>1 DEF Reader
<1>3. Linked(format, api, kind, mode, d, b, place2, sent2)
  BY <1>1, <1>2, Weakening
<1>4. QED BY <1>1, <1>3 DEF Joined

\* The events that are read of a chunk, one after the other.
LEMMA AddingAll ==
    ASSUME Types, NEW mode, Suits(mode), NEW c, NEW places, NEW counts,
           Underway(upstream, course, inflight, places, counts),
           NEW k \in 0..Len(inflight), cut = "prefix" => k > 0, cut # "corrupt",
           Joined(client, upstream, course, mode, c, buffer, places[Skipped], counts[Skipped])
    PROVE  Joined(client, upstream, course, mode, c,
                  AddAll(ProcessChunk(SubSeq(inflight, 1, k))), places[k], counts[k])
<1> DEFINE events == ProcessChunk(SubSeq(inflight, 1, k))
           M == Len(events)
           N == Len(inflight)
<1>1. IsList(inflight) /\ N \in Nat
  BY Pushed DEF Underway
<1>2. /\ M \in 0..(k - Skipped)
      /\ \A j \in 1..M : events[j] = inflight[Skipped + j]
      /\ M < k - Skipped => M > 0 /\ events[M] = Done
  BY <1>1, Processing
<1>3. Skipped \in {0, 1} /\ M \in Nat /\ Skipped + M <= k /\ k <= N
  BY <1>1, <1>2 DEF Skipped
<1> HIDE DEF events, M, N
<1>4. /\ \A i \in 0..N : counts[i] \in Nat
      /\ \A i \in 1..N : Brings(upstream, course, places[i - 1], counts[i - 1], inflight[i], places[i], counts[i])
      /\ \A i, j \in 0..N :
          i <= j => counts[i] <= counts[j] /\ (places[i] \in Late => places[j] \in Late)
  BY DEF Underway, N
<1>5. PICK after : /\ after[0] = buffer /\ AddAll(events) = after[M]
                   /\ \A n \in 1..M : after[n] = AddConverted(after[n - 1], events[n])
  BY <1>3, AddAllIs DEF M
<1> DEFINE S == {m \in 0..M : Joined(client, upstream, course, mode, c, after[m],
                                     places[Skipped + m], counts[Skipped + m])}
<1>6. 0 \in S
  BY <1>3, <1>5
<1>7. ASSUME NEW m \in 0..(M - 1), m \in S PROVE m + 1 \in S
  <2> DEFINE i == Skipped + m
             e == inflight[i + 1]
  <2>1. i \in 0..N /\ i + 1 \in 1..N /\ (i + 1) - 1 = i /\ Skipped + (m + 1) = i + 1
    BY <1>1, <1>3
  <2>2. after[m + 1] = AddConverted(after[m], e)
    <3>1. m + 1 \in 1..M /\ (m + 1) - 1 = m
      BY <1>3
    <3>2. after[m + 1] = AddConverted(after[(m + 1) - 1], events[m + 1])
      BY <1>5, <3>1
    <3>3. events[m + 1] = e
      BY <1>2, <2>1, <3>1
    <3>4. QED BY <3>1, <3>2, <3>3
  <2> HIDE DEF i, e
  <2>3. Brings(upstream, course, places[i], counts[i], e, places[i + 1], counts[i + 1])
    <3>1. Brings(upstream, course, places[(i + 1) - 1], counts[(i + 1) - 1], inflight[i + 1], places[i + 1], counts[i + 1])
      BY <1>4, <2>1
    <3>2. QED BY <2>1, <3>1 DEF e
  <2>4. PICK t \in Steps(upstream, course, counts[i] + 1) :
           t[1] = places[i] /\ t[2] = places[i + 1] /\ t[3] = e
    BY <2>3 DEF Brings
  <2>5. counts[i + 1] = Counted(counts[i], upstream, t[3])
    BY <2>3, <2>4 DEF Brings
  <2>6. counts[i] \in Nat
    BY <1>4, <2>1
  <2>7. Joined(client, upstream, course, mode, c, after[m], t[1], counts[i])
    BY <1>7, <2>4 DEF i
  <2>8. Joined(client, upstream, course, mode, c, AddConverted(after[m], t[3]), t[2],
               Counted(counts[i], upstream, t[3]))
    <3> DEFINE b == after[m]
               sent == counts[i]
    <3>1. sent \in Nat /\ t \in Steps(upstream, course, sent + 1)
             /\ Joined(client, upstream, course, mode, c, b, t[1], sent)
      BY <2>4, <2>6, <2>7
    <3> HIDE DEF b, sent
    <3>2. Joined(client, upstream, course, mode, c, AddConverted(b, t[3]), t[2],
               Counted(sent, upstream, t[3]))
      BY <3>1, AddingConverted
    <3>3. QED BY <3>2 DEF b, sent
  <2>9. Joined(client, upstream, course, mode, c, after[m + 1], places[i + 1], counts[i + 1])
    BY <2>2, <2>4, <2>5, <2>8
  <2>10. QED BY <1>3, <2>1, <2>9
<1>8. Joined(client, upstream, course, mode, c, after[M], places[Skipped + M], counts[Skipped + M])
  <2> HIDE DEF S
  <2>1. 0..M \subseteq S
    BY <1>3, <1>6, <1>7, UpTo
  <2>2. M \in 0..M
    BY <1>3
  <2>3. M \in S
    BY <2>1, <2>2
  <2>4. QED BY <2>3 DEF S
<1> HIDE DEF S
<1>9. CASE Skipped + M = k
  BY <1>5, <1>8, <1>9 DEF events
<1>10. CASE Skipped + M < k
  <2> DEFINE i == Skipped + M
  <2>1. M > 0 /\ inflight[i] = Done /\ i \in 1..N /\ i + 1 \in 1..N /\ (i + 1) - 1 = i
    BY <1>1, <1>2, <1>3, <1>10
  <2> HIDE DEF i
  <2>2. course = "any"
    <3> SUFFICES ASSUME course # "any" PROVE FALSE
      OBVIOUS
    <3>1. Brings(upstream, course, places[i - 1], counts[i - 1], inflight[i], places[i], counts[i])
      BY <1>4, <2>1
    <3>2. Brings(upstream, course, places[(i + 1) - 1], counts[(i + 1) - 1], inflight[i + 1], places[i + 1], counts[i + 1])
      BY <1>4, <2>1
    <3>3. PICK t \in Steps(upstream, course, counts[i - 1] + 1) : t[2] = places[i] /\ t[3] = Done
      BY <2>1, <3>1 DEF Brings
    <3>4. PICK u \in Steps(upstream, course, counts[i] + 1) : u[1] = places[i]
      BY <2>1, <3>2 DEF Brings
    <3>5. counts[i - 1] + 1 \in Nat \ {0} /\ counts[i] + 1 \in Nat \ {0}
      <4>1. i - 1 \in 0..N /\ i \in 0..N
        BY <1>1, <2>1
      <4>2. counts[i - 1] \in Nat /\ counts[i] \in Nat
        BY <1>4, <4>1
      <4>3. QED BY <4>2
    <3>6. upstream \in {"openai", "bedrock"} /\ course \in Kinds
      BY DEF Types
    <3>7. t[2] = "over"
      <4> DEFINE n == counts[i - 1] + 1
      <4>1. n \in Nat \ {0} /\ t \in Steps(upstream, course, n)
        BY <3>3, <3>5
      <4> HIDE DEF n
      <4>2. QED BY <3>3, <3>6, <4>1, StepsEnd
    <3>8. u[1] # "over"
      <4> DEFINE n == counts[i] + 1
      <4>1. n \in Nat \ {0} /\ u \in Steps(upstream, course, n)
        BY <3>4, <3>5
      <4> HIDE DEF n
      <4>2. QED BY <3>6, <4>1, StepsEnd
    <3>9. QED BY <3>3, <3>4, <3>7, <3>8
  <2>3. mode \notin {"strict", "shared"}
    BY <2>2 DEF Suits
  <2>4. /\ counts[i] \in Nat /\ counts[k] \in Nat /\ counts[i] <= counts[k]
        /\ places[i] \in Late => places[k] \in Late
    <3>1. i \in 0..N /\ k \in 0..N /\ i <= k
      BY <1>1, <1>3, <1>10, <2>1 DEF i
    <3>2. QED BY <1>4, <3>1
  <2>5. Joined(client, upstream, course, mode, c, after[M], places[i], counts[i])
    BY <1>8 DEF i
  <2>6. Joined(client, upstream, course, mode, c, after[M], places[k], counts[k])
    <3> DEFINE b == after[M]
               p == places[i]
               q == places[k]
               x == counts[i]
               y == counts[k]
    <3>1. Joined(client, upstream, course, mode, c, b, p, x)
             /\ x \in Nat /\ y \in Nat /\ x <= y /\ (p \in Late => q \in Late)
      BY <2>4, <2>5
    <3> HIDE DEF b, p, q, x, y
    <3>2. Joined(client, upstream, course, mode, c, b, q, y)
      BY <2>3, <3>1, JoinedLater
    <3>3. QED BY <3>2 DEF b, q, y
  <2>7. QED BY <1>5, <2>6 DEF events
<1>11. QED BY <1>3, <1>9, <1>10

\* When bytes are lost, the stream is not clean any more.
LEMMA ModeLost == course' = course /\ clean' = FALSE => Mode' \in {"any", "calm"}
BY DEF Mode

\* The mode depends on these.
LEMMA ModeKept == UNCHANGED <<client, upstream, course, clean>> => Mode' = Mode
BY DEF Mode

\* Places and counts along the events under way.
LEMMA Along ==
    ASSUME NEW places, NEW counts, Underway(upstream, course, inflight, places, counts)
    PROVE  /\ Len(inflight) \in Nat
           /\ \A i \in 0..Len(inflight) : counts[i] \in Nat
           /\ \A i, j \in 0..Len(inflight) :
                i <= j => counts[i] <= counts[j] /\ (places[i] \in Late => places[j] \in Late)
BY Pushed DEF Underway

\* What the client has still to be told stays so in the mode that follows.
LEMMA Loosened ==
    ASSUME Inv, NEW place, NEW sent \in Nat, Told(place, sent), wire = <<>>,
           UNCHANGED <<client, upstream, course>>, clean' = clean \/ clean' = FALSE
    PROVE  /\ Now \in Reader /\ Suits(Mode')
           /\ Joined(client, upstream, course, Mode', Now, buffer, place, sent)
<1> DEFINE m == Mode'
           c == Now
<1>1. c \in Reader /\ Joined(client, upstream, course, Mode, c, buffer, place, sent)
  BY NothingTold
<1>2. Suits(m)
  <2>1. Types'
    BY DEF Inv, Types
  <2>2. Suits(Mode)'
    BY <2>1 DEF Types, Suits, Mode, Modes, Clients, Kinds
  <2>3. QED BY <2>2 DEF Suits
<1>3. CASE clean' = clean
  <2>1. m = Mode
    BY <1>3, ModeKept
  <2> HIDE DEF m, c
  <2>2. QED BY <1>1, <1>2, <2>1 DEF m, c
<1>4. CASE clean' = FALSE /\ clean
  <2>1. m \notin {"strict", "shared"}
    BY <1>4, ModeLost
  <2>2. buffer.out = <<>>
    BY <1>4 DEF Inv, Framed
  <2>3. c.pieces \in Seq(Nat)
    BY <1>1 DEF Reader
  <2> HIDE DEF m, c
  <2>4. Linked(client, upstream, course, Mode, c, buffer, place, sent)
    BY <1>1, <2>2, JoinedNothing
  <2>5. Linked(client, upstream, course, m, c, buffer, place, sent)
    BY <2>1, <2>3, <2>4, Weakening
  <2>6. Joined(client, upstream, course, m, c, buffer, place, sent)
    BY <1>1, <2>2, <2>5, JoinedNothing
  <2>7. QED BY <1>1, <1>2, <2>6 DEF m, c
<1>5. clean \in BOOLEAN
  BY DEF Inv
<1>6. QED BY <1>3, <1>4, <1>5

\* What a chunk completes is added: event by event, but for what was lost.
LEMMA Converting ==
    ASSUME Inv, NEW place, NEW sent, Told(place, sent), wire = <<>>, NEW places, NEW counts,
           Underway(upstream, course, inflight, places, counts),
           places[0] = place, counts[0] = sent,
           NEW k \in 0..Len(inflight), cut = "prefix" => k > 0,
           UNCHANGED <<client, upstream, course>>, clean' = clean \/ clean' = FALSE,
           cut \in {"prefix", "corrupt"} => clean' = FALSE
    PROVE  /\ Now \in Reader
           /\ Joined(client, upstream, course, Mode', Now,
                     AddAll(ProcessChunk(SubSeq(inflight, 1, k))), places[k], counts[k])
<1> DEFINE events == ProcessChunk(SubSeq(inflight, 1, k))
           m == Mode'
           c == Now
<1>1. /\ Len(inflight) \in Nat
      /\ \A i \in 0..Len(inflight) : counts[i] \in Nat
      /\ \A i, j \in 0..Len(inflight) :
          i <= j => counts[i] <= counts[j] /\ (places[i] \in Late => places[j] \in Late)
  BY Along
<1>2. sent \in Nat
  <2>1. 0 \in 0..Len(inflight)
    BY <1>1
  <2>2. QED BY <1>1, <2>1
<1>3. c \in Reader /\ Suits(m) /\ Joined(client, upstream, course, m, c, buffer, place, sent)
  BY <1>2, Loosened
<1>4. ASSUME NEW i \in 0..Len(inflight), cut \in {"prefix", "corrupt"}
      PROVE  Joined(client, upstream, course, m, c, buffer, places[i], counts[i])
  <2> DEFINE x == counts[i]
             p == places[i]
  <2>1. sent \in Nat /\ x \in Nat /\ sent <= x /\ (place \in Late => p \in Late)
    <3>1. 0 \in 0..Len(inflight) /\ 0 <= i
      BY <1>1
    <3>2. QED BY <1>1, <1>2, <3>1
  <2>2. m \notin {"strict", "shared"}
    BY <1>4, ModeLost
  <2> HIDE DEF m, c, x, p
  <2>3. Joined(client, upstream, course, m, c, buffer, p, x)
    BY <1>3, <2>1, <2>2, JoinedLater
  <2>4. QED BY <2>3 DEF x, p
<1>5. CASE cut = "corrupt"
  <2>1. events = <<>>
    BY <1>5 DEF ProcessChunk
  <2> HIDE DEF events
  <2>2. AddAll(events) = buffer
    <3>1. Len(events) = 0
      BY <2>1
    <3>2. PICK after : after[0] = buffer /\ AddAll(events) = after[Len(events)]
      BY <3>1, AddAllIs
    <3>3. QED BY <3>1, <3>2
  <2>3. Joined(client, upstream, course, m, c, buffer, places[k], counts[k])
    BY <1>4, <1>5
  <2> HIDE DEF m, c
  <2>4. Joined(client, upstream, course, m, c, AddAll(events), places[k], counts[k])
    BY <2>2, <2>3
  <2>5. QED BY <1>3, <2>4 DEF events, m, c
<1>6. CASE cut # "corrupt"
  <2>1. Joined(client, upstream, course, m, c, buffer, places[Skipped], counts[Skipped])
    <3>1. CASE cut = "prefix"
      <4>1. Skipped = 1 /\ 1 \in 0..Len(inflight)
        BY <1>1, <3>1 DEF Skipped
      <4>2. QED BY <1>4, <3>1, <4>1
    <3>2. CASE cut # "prefix"
      <4>1. Skipped = 0
        BY <3>2 DEF Skipped
      <4>2. QED BY <1>3, <4>1
    <3>3. QED BY <3>1, <3>2
  <2>2. Types
    BY DEF Inv
  <2> HIDE DEF m, c
  <2>3. Joined(client, upstream, course, m, c, AddAll(events), places[k], counts[k])
    BY <1>3, <1>6, <2>1, <2>2, AddingAll DEF events
  <2>4. QED BY <1>3, <2>3 DEF m, c, events
<1>7. QED BY <1>5, <1>6

\* A chunk that is converted, event by event.
LEMMA InvArrives ==
    ASSUME Inv, NEW k, NEW end, ChunkArrives(k, end)
    PROVE  Inv'
<1> DEFINE events == ProcessChunk(SubSeq(inflight, 1, k))
           b == AddAll(events)
           m == Mode'
           c == Now
<1>0. /\ UNCHANGED <<client, upstream, course, at, emitted, seen, pieces>>
      /\ wire = <<>> /\ k \in 0 .. Len(inflight) /\ (cut = "prefix" => k > 0)
      /\ wire' = ToBytes(b) /\ buffer' = Flushed(b)
      /\ inflight' = SubSeq(inflight, k + 1, Len(inflight))
      /\ clean' = (clean /\ cut \notin {"prefix", "corrupt"})
      /\ cut' \in CutOff(k, end) /\ (upstream = "bedrock" => end \in {"none", "payload"})
  BY DEF ChunkArrives, IsChunk
<1> HIDE DEF events, b
<1>1. PICK place, sent : Follows(place, sent) /\ Told(place, sent)
  BY DEF Inv
<1>2. PICK places, counts :
        /\ Underway(upstream, course, inflight, places, counts)
        /\ places[0] = place /\ counts[0] = sent
        /\ places[Len(inflight)] = at /\ counts[Len(inflight)] = emitted.pieces
  BY <1>1 DEF Follows, Goes
<1>3. Types /\ Types' /\ clean \in BOOLEAN
  BY <1>0 DEF Inv, Types
<1>4. /\ Len(inflight) \in Nat
      /\ \A i \in 0..Len(inflight) : counts[i] \in Nat
  BY <1>2, Along
<1>5. c \in Reader /\ Joined(client, upstream, course, m, c, b, places[k], counts[k])
  <2>1. clean' = clean \/ clean' = FALSE
    BY <1>0, <1>3
  <2>2. cut \in {"prefix", "corrupt"} => clean' = FALSE
    BY <1>0
  <2>3. QED BY <1>0, <1>1, <1>2, <2>1, <2>2, Converting DEF b, events
<1>6. PICK d \in Reader :
        /\ Reaches(client, m, c, ToBytes(b), d)
        /\ Linked(client, upstream, course, m, d, Flushed(b), places[k], counts[k])
        /\ Flushed(b).out = <<>>
  <2> DEFINE x == counts[k]
             p == places[k]
  <2>1. x \in Nat
    BY <1>0, <1>4
  <2>2. client \in Clients
    BY <1>3 DEF Types
  <2>3. Joined(client, upstream, course, m, c, b, p, x)
    BY <1>5
  <2> HIDE DEF m, c, p, x
  <2>4. \E d \in Reader :
          /\ Reaches(client, m, c, ToBytes(b), d)
          /\ Linked(client, upstream, course, m, d, Flushed(b), p, x)
          /\ Flushed(b).out = <<>>
    BY <2>1, <2>2, <2>3, Writing
  <2>5. QED BY <2>4 DEF p, x
<1>7. c = Now'
  BY <1>0 DEF Now
<1>8. Told(places[k], counts[k])'
  <2> DEFINE x == counts[k]
             p == places[k]
  <2> HIDE DEF c, m, x, p
  <2>1. Joined(client, upstream, course, m, d, Flushed(b), p, x)
    BY <1>6, JoinedNothing DEF p, x
  <2>2. Told(p, x)'
    BY <1>0, <1>6, <1>7, <2>1 DEF Told, m
  <2>3. QED BY <2>2 DEF p, x
<1>9. Goes(upstream, course, SubSeq(inflight, k + 1, Len(inflight)), places[k], counts[k],
            at, emitted.pieces)
  <2>1. Goes(upstream, course, SubSeq(inflight, k + 1, Len(inflight)), places[k], counts[k],
            places[Len(inflight)], counts[Len(inflight)])
    BY <1>0, <1>2, FollowsLess
  <2>2. QED BY <1>2, <2>1
<1>10. Follows(places[k], counts[k])'
  BY <1>0, <1>9 DEF Follows
<1>11. Framed'
  <2>1. upstream = "bedrock" => cut' \in {"none", "payload", "corrupt"}
    BY <1>0 DEF CutOff
  <2>2. QED BY <1>0, <1>6, <2>1 DEF Framed
<1>12. (clean \in BOOLEAN)' /\ PiecesOnceInOrder' /\ emitted' \in [events : Nat, pieces : Nat]
  BY <1>0, <1>3 DEF Inv, PiecesOnceInOrder
<1>13. QED BY <1>3, <1>8, <1>10, <1>11, <1>12 DEF Inv

\* The chunk is passed on as it came: what it does to the stream, if anything, is
\* that j of its events are added to the buffer.
Lost(j, k) ==
    /\ UNCHANGED <<client, upstream, course, at, emitted, wire, seen, pieces>>
    /\ wire = <<>> /\ k \in 0 .. Len(inflight)
    /\ inflight' = SubSeq(inflight, k + 1, Len(inflight))
    /\ clean' = FALSE
    /\ \/ buffer' = buffer /\ j = 0
       \/ /\ j \in 0..k /\ (cut = "prefix" => j > 0)
          /\ buffer' = AddAll(ProcessChunk(SubSeq(inflight, 1, j)))

LEMMA InvLost ==
    ASSUME Inv, NEW j, NEW k, Lost(j, k), Framed'
    PROVE  Inv'
<1> DEFINE m == Mode'
           c == Now
<1>0. /\ UNCHANGED <<client, upstream, course, at, emitted, wire, seen, pieces>>
      /\ wire = <<>> /\ k \in 0 .. Len(inflight)
      /\ inflight' = SubSeq(inflight, k + 1, Len(inflight))
      /\ clean' = FALSE
  BY DEF Lost
<1>1. PICK place, sent : Follows(place, sent) /\ Told(place, sent)
  BY DEF Inv
<1>2. PICK places, counts :
        /\ Underway(upstream, course, inflight, places, counts)
        /\ places[0] = place /\ counts[0] = sent
        /\ places[Len(inflight)] = at /\ counts[Len(inflight)] = emitted.pieces
  BY <1>1 DEF Follows, Goes
<1>3. /\ Len(inflight) \in Nat
      /\ \A i \in 0..Len(inflight) : counts[i] \in Nat
      /\ \A i, l \in 0..Len(inflight) :
          i <= l => counts[i] <= counts[l] /\ (places[i] \in Late => places[l] \in Late)
  BY <1>2, Along
<1>4. /\ j \in 0..Len(inflight) /\ j <= k
      /\ c \in Reader /\ Joined(client, upstream, course, m, c, buffer', places[j], counts[j])
  <2>1. CASE buffer' = buffer /\ j = 0
    <3>1. 0 \in 0..Len(inflight) /\ sent \in Nat
      BY <1>2, <1>3
    <3>2. c \in Reader /\ Joined(client, upstream, course, m, c, buffer, place, sent)
      BY <1>0, <1>1, <3>1, Loosened
    <3> HIDE DEF m, c
    <3>3. QED BY <1>0, <1>2, <2>1, <3>1, <3>2
  <2>2. CASE /\ j \in 0..k /\ (cut = "prefix" => j > 0)
             /\ buffer' = AddAll(ProcessChunk(SubSeq(inflight, 1, j)))
    <3>1. j \in 0..Len(inflight) /\ j <= k
      BY <1>0, <1>3, <2>2
    <3>2. /\ c \in Reader
          /\ Joined(client, upstream, course, m, c,
                    AddAll(ProcessChunk(SubSeq(inflight, 1, j))), places[j], counts[j])
      BY <1>0, <1>1, <1>2, <2>2, <3>1, Converting
    <3> HIDE DEF m, c
    <3>3. QED BY <2>2, <3>1, <3>2
  <2>3. QED BY <2>1, <2>2 DEF Lost
<1>5. Joined(client, upstream, course, m, c, buffer', places[k], counts[k])
  <2> DEFINE x == counts[j]
             y == counts[k]
             p == places[j]
             q == places[k]
             b == buffer'
  <2>1. x \in Nat /\ y \in Nat /\ x <= y /\ (p \in Late => q \in Late)
    BY <1>0, <1>3, <1>4
  <2>2. m \notin {"strict", "shared"}
    BY <1>0, ModeLost
  <2>3. Joined(client, upstream, course, m, c, b, p, x)
    BY <1>4
  <2> HIDE DEF m, c, x, y, p, q, b
  <2>4. Joined(client, upstream, course, m, c, b, q, y)
    BY <2>1, <2>2, <2>3, JoinedLater
  <2>5. QED BY <2>4 DEF y, q, b
<1>6. Reaches(client, m, c, <<>>, c)
  BY <1>4, ReachesNothing
<1>7. c = Now'
  BY <1>0 DEF Now
<1>8. Told(places[k], counts[k])'
  <2> HIDE DEF c
  <2>1. QED BY <1>0, <1>4, <1>5, <1>6, <1>7 DEF Told
<1>9. Goes(upstream, course, SubSeq(inflight, k + 1, Len(inflight)), places[k], counts[k],
            at, emitted.pieces)
  <2>1. Goes(upstream, course, SubSeq(inflight, k + 1, Len(inflight)), places[k], counts[k],
            places[Len(inflight)], counts[Len(inflight)])
    BY <1>0, <1>2, FollowsLess
  <2>2. QED BY <1>2, <2>1
<1>10. Follows(places[k], counts[k])'
  BY <1>0, <1>9 DEF Follows
<1>11. /\ (clean \in BOOLEAN)' /\ PiecesOnceInOrder' /\ Types'
       /\ emitted' \in [events : Nat, pieces : Nat]
  BY <1>0 DEF Inv, PiecesOnceInOrder, Types
<1>12. QED BY <1>8, <1>10, <1>11 DEF Inv

\* A chunk that is not text.
LEMMA InvPasses ==
    ASSUME Inv, NEW k, NEW end, ChunkPassesUnconverted(k, end)
    PROVE  Inv'
<1>1. Lost(0, k)
  BY DEF ChunkPassesUnconverted, IsChunk, Lost
<1>2. Framed'
  BY DEF ChunkPassesUnconverted, IsChunk, Inv, Framed
<1>3. QED BY <1>1, <1>2, InvLost

\* A chunk with a frame that cannot be decoded.
LEMMA InvUnreadable ==
    ASSUME Inv, NEW j, NEW k, FrameUnreadable(j, k)
    PROVE  Inv'
<1>1. cut # "prefix" /\ k \in 0..Len(inflight) /\ j \in 0..(k - 1)
  BY DEF FrameUnreadable, IsChunk, Inv, Framed
<1>2. j \in 0..k
  <2>1. Len(inflight) \in Nat
    BY Along DEF Inv, Follows, Goes
  <2>2. QED BY <1>1, <2>1
<1>3. Lost(j, k)
  BY <1>1, <1>2 DEF FrameUnreadable, IsChunk, Lost
<1>4. Framed'
  BY DEF FrameUnreadable, Framed
<1>5. QED BY <1>3, <1>4, InvLost

\* What the client reads next.
LEMMA Delivering ==
    ASSUME Inv, Deliver
    PROVE  /\ Proper(client, Mode, seen, Head(wire))
           /\ Now' \in Reader /\ Now \in Reader
           /\ \E place, sent : Follows(place, sent) /\ Told(place, sent) /\ Told(place, sent)'
           /\ \/ pieces' = pieces
              \/ \E n \in Nat : /\ \A i \in DOMAIN pieces : pieces[i] < n
                                /\ pieces' = Append(pieces, n)
<1>0. /\ UNCHANGED <<client, upstream, course, at, emitted, inflight, cut, buffer, clean>>
      /\ wire # <<>> /\ wire' = Tail(wire)
      /\ seen' = Read(client, seen, Head(wire))
      /\ pieces' = pieces \o Ascending(PiecesIn(client, Head(wire)) \ {-1, 0})
  BY DEF Deliver, gateway
<1>1. PICK place, sent : Follows(place, sent) /\ Told(place, sent)
  BY DEF Inv
<1>2. PICK d \in Reader :
        /\ Reaches(client, Mode, Now, wire, d)
        /\ Joined(client, upstream, course, Mode, d, buffer, place, sent)
  BY <1>1 DEF Told
<1>3. PICK next \in Reader : /\ Reads(client, Mode, Now, Head(wire), next)
                             /\ Reaches(client, Mode, next, Tail(wire), d)
  BY <1>0, <1>2, ReachesFirst
<1>4. /\ Now \in Reader /\ Now.seen = seen /\ Now.pieces = pieces /\ pieces \in Seq(Nat)
  <2>1. Now \in Reader
    BY <1>2, Readers
  <2>2. QED BY <2>1 DEF Now, Reader
<1> DEFINE content == Content(client, Head(wire))
<1>5. /\ Proper(client, Mode, seen, Head(wire))
      /\ next.seen = seen'
      /\ \/ content = {} /\ next.pieces = pieces
         \/ \E n \in Nat : /\ content = {n}
                           /\ \A i \in DOMAIN pieces : pieces[i] < n
                           /\ next.pieces = Append(pieces, n)
  BY <1>0, <1>3, <1>4 DEF Reads
<1>6. pieces' = pieces \o Ascending(content)
  BY <1>0 DEF Content
<1> HIDE DEF content
<1>7. pieces' = next.pieces
  <2>1. CASE content = {} /\ next.pieces = pieces
    <3>1. Ascending(content) = <<>>
      BY <2>1, AscendingNone
    <3>2. pieces \o <<>> = pieces
      BY <1>4
    <3>3. QED BY <1>6, <2>1, <3>1, <3>2
  <2>2. ASSUME NEW n \in Nat, content = {n}, next.pieces = Append(pieces, n)
        PROVE  pieces' = next.pieces
    <3>1. Ascending(content) = <<n>>
      BY <2>2, AscendingOne
    <3>2. pieces \o <<n>> = Append(pieces, n)
      BY <1>4
    <3>3. QED BY <1>6, <2>2, <3>1, <3>2
  <2>3. QED BY <1>5, <2>1, <2>2
<1>8. next = Now'
  BY <1>5, <1>7 DEF Now, Reader
<1>9. Told(place, sent)'
  BY <1>0, <1>2, <1>3, <1>8, ModeKept DEF Told
<1>10. \/ pieces' = pieces
       \/ \E n \in Nat : /\ \A i \in DOMAIN pieces : pieces[i] < n
                         /\ pieces' = Append(pieces, n)
  BY <1>5, <1>7
<1>11. QED BY <1>1, <1>4, <1>5, <1>8, <1>9, <1>10

\* The client reads an event that was written for it.
LEMMA InvDeliver == Inv /\ Deliver => Inv'
<1> SUFFICES ASSUME Inv, Deliver PROVE Inv'
  OBVIOUS
<1>0. UNCHANGED <<client, upstream, course, at, emitted, inflight, cut, buffer, clean>>
  BY DEF Deliver, gateway
<1>1. PICK place, sent : Follows(place, sent) /\ Told(place, sent) /\ Told(place, sent)'
  BY Delivering
<1>2. Follows(place, sent)'
  BY <1>0, <1>1 DEF Follows
<1>3. PiecesOnceInOrder'
  <2>1. pieces \in Seq(Nat) /\ \A i, j \in DOMAIN pieces : i < j => pieces[i] < pieces[j]
    BY Delivering DEF Inv, PiecesOnceInOrder, Now, Reader
  <2>2. CASE pieces' = pieces
    BY <2>1, <2>2 DEF PiecesOnceInOrder
  <2>3. ASSUME NEW n \in Nat, \A i \in DOMAIN pieces : pieces[i] < n, pieces' = Append(pieces, n)
        PROVE  PiecesOnceInOrder'
    BY <2>1, <2>3 DEF PiecesOnceInOrder
  <2>4. QED BY <2>2, <2>3, Delivering
<1>4. /\ Types' /\ (clean \in BOOLEAN)' /\ Framed'
      /\ emitted' \in [events : Nat, pieces : Nat]
  BY <1>0 DEF Inv, Types, Framed
<1>5. QED BY <1>1, <1>2, <1>3, <1>4 DEF Inv

\* Inv is inductive.
LEMMA InvStep == Inv /\ [Next]_vars => Inv'
<1>1. ASSUME Inv, UNCHANGED vars PROVE Inv'
  BY <1>1 DEF vars, gateway, Inv, Types, Framed, Follows, Told, Mode, Now, PiecesOnceInOrder
<1>2. QED BY <1>1, InvEmit, InvArrives, InvPasses, InvUnreadable, InvDeliver DEF Next

-----------------------------------------------------------------------------
\* The client stands to the buffer, and the buffer to the upstream, as Inv says.
LEMMA StreamKept == Spec => []Inv
BY InvInit, InvStep, PTL DEF Spec

\* Whatever the upstream sends and wherever its bytes are cut or lost, the
\* client reads no piece of content twice or before an earlier one
\* (on_http_response_body of stream_context.rs and the buffers).
THEOREM PiecesAlwaysOnceInOrder == Spec => []PiecesOnceInOrder
<1>1. Inv => PiecesOnceInOrder
  BY DEF Inv
<1>2. QED BY <1>1, StreamKept, PTL

\* When the upstream kept to its protocol, nothing was unreadable and nothing is
\* under way, the client has read every piece that was sent, however the bytes
\* were cut (process_chunk 25-27).
THEOREM AllPiecesAlwaysArrive == Spec => []AllPiecesArrive
<1>1. Inv => AllPiecesArrive
  <2> SUFFICES ASSUME Inv, course # "any", clean, inflight = <<>>, wire = <<>>
               PROVE  Len(pieces) = emitted.pieces
    BY DEF AllPiecesArrive
  <2>1. PICK place, sent : Follows(place, sent) /\ Told(place, sent)
    BY DEF Inv
  <2>2. sent = emitted.pieces
    <3>1. Len(inflight) = 0
      OBVIOUS
    <3>2. QED BY <2>1, <3>1 DEF Follows, Goes
  <2>3. Linked(client, upstream, course, Mode, Now, buffer, place, sent)
    <3>1. buffer.out = <<>>
      BY DEF Inv, Framed
    <3>2. QED BY <2>1, <3>1, NothingTold, JoinedNothing
  <2>4. Mode \in {"strict", "shared"}
    BY DEF Mode
  <2>5. Len(Now.pieces) = sent
    BY <2>3, <2>4 DEF Linked
  <2>6. QED BY <2>2, <2>5 DEF Now
<1>2. QED BY <1>1, StreamKept, PTL

\* The output of the completed response, its items being given.
OutputOf(b, items) ==
    [n \in DOMAIN items |->
        IF items[n] \in DOMAIN b.args
        THEN <<"function_call", items[n], b.args[items[n]]>>
        ELSE <<"message", items[n], b.text[items[n]]>>]

\* What the completed response holds is what the client was streamed until then,
\* in the item that was announced for it (finalize of ResponsesAPIStreamBuffer).
THEOREM CompletedAlwaysMatches == Spec => []CompletedMatchesStream
<1>1. Inv => CompletedMatchesStream
  <2> SUFFICES ASSUME Inv, client = "responses", course # "any", seen.phase = "completed"
               PROVE  LET out == buffer.completed
                      IN  /\ [i \in DOMAIN out |-> out[i][2]] = seen.added
                          /\ Len(out) <= 1
                          /\ pieces = IF out = <<>> THEN <<>> ELSE out[1][3]
    BY DEF CompletedMatchesStream
  <2> DEFINE b == buffer
             out == b.completed
  <2>1. PICK place, sent : Follows(place, sent) /\ Told(place, sent)
    BY DEF Inv
  <2>2. PICK d \in Reader : /\ Reaches(client, Mode, Now, wire, d)
                            /\ Joined(client, upstream, course, Mode, d, buffer, place, sent)
    BY <2>1 DEF Told
  <2>3. Now.seen = seen /\ Now.pieces = pieces
    BY DEF Now
  <2>4. ASSUME NEW list, NEW x \in Reader, Reaches(client, Mode, Now, list, x)
        PROVE  x = Now
    <3>1. CASE list = <<>>
      BY <2>4, <3>1, NothingReaches
    <3>2. CASE list # <<>>
      <4>1. PICK next \in Reader : Reads(client, Mode, Now, Head(list), next)
        BY <2>4, <3>2, ReachesFirst
      <4>2. ProperResponse(Mode, seen, Head(list))
        BY <2>3, <4>1 DEF Reads, Proper
      <4>3. Mode # "any"
        BY DEF Mode
      <4>4. QED BY <4>2, <4>3 DEF ProperResponse
    <3>3. QED BY <3>1, <3>2
  <2>5. LifeOf(seen, b) /\ Holds(upstream, course, place, Now, b)
    <3>1. d = Now
      BY <2>2, <2>4
    <3>2. PICK x \in Reader : /\ Reaches(client, Mode, Now, buffer.out, x)
                              /\ Linked(client, upstream, course, Mode, x, buffer, place, sent)
      BY <2>2, <3>1 DEF Joined
    <3>3. x = Now
      BY <2>4, <3>2
    <3>4. QED BY <2>3, <3>2, <3>3 DEF Linked
  <2>6. /\ b.finalized /\ out = Output(b)
        /\ DOMAIN b.text \subseteq {0} /\ DOMAIN b.args \subseteq {0}
        /\ b.added = DOMAIN b.text \cup DOMAIN b.args
        /\ seen.added = IF b.added = {} THEN <<>> ELSE <<0>>
    BY <2>5 DEF LifeOf, Holds, ResponseBuffer
  <2>7. /\ course = "text" => DOMAIN b.args = {} /\ pieces = Held(b.text)
        /\ course = "tool" => pieces = Held(b.args) /\ Held(b.text) = <<>>
        /\ course \in {"text", "tool"}
    BY <2>3, <2>5 DEF Holds, Inv, Types, Kinds
  <2> HIDE DEF b, out
  <2>8. CASE b.added = {}
    <3>1. out = <<>>
      <4>1. Ascending(b.added) = <<>>
        BY <2>8, AscendingNone
      <4>2. out = OutputOf(b, <<>>)
        BY <2>6, <4>1 DEF Output, OutputOf
      <4>3. QED BY <4>2 DEF OutputOf
    <3>2. pieces = <<>>
      BY <2>6, <2>7, <2>8 DEF Held
    <3>3. [i \in DOMAIN out |-> out[i][2]] = <<>> /\ Len(out) = 0
      BY <3>1
    <3>4. QED BY <2>6, <2>8, <3>1, <3>2, <3>3 DEF out, b
  <2>9. CASE b.added = {0}
    <3> DEFINE item == IF 0 \in DOMAIN b.args THEN <<"function_call", 0, b.args[0]>>
                       ELSE <<"message", 0, b.text[0]>>
    <3>1. Ascending(b.added) = <<0>>
      BY <2>9, AscendingOne
    <3>2. out = <<item>>
      <4>1. out = OutputOf(b, <<0>>)
        BY <2>6, <3>1 DEF Output, OutputOf
      <4>2. DOMAIN <<0>> = 1..1 /\ <<0>>[1] = 0
        OBVIOUS
      <4>3. OutputOf(b, <<0>>) = [n \in 1..1 |-> item]
        BY <4>2 DEF OutputOf
      <4>4. [n \in 1..1 |-> item] = <<item>>
        OBVIOUS
      <4>5. QED BY <4>1, <4>3, <4>4
    <3>3. item[2] = 0 /\ item[3] = IF 0 \in DOMAIN b.args THEN b.args[0] ELSE b.text[0]
      OBVIOUS
    <3>4. pieces = item[3]
      BY <2>6, <2>7, <2>9, <3>3 DEF Held
    <3> HIDE DEF item
    <3>5. out # <<>> /\ Len(out) = 1 /\ out[1] = item /\ [i \in DOMAIN out |-> out[i][2]] = <<0>>
      BY <3>2, <3>3
    <3>6. QED BY <2>6, <2>9, <3>4, <3>5 DEF out, b
  <2>10. QED BY <2>6, <2>8, <2>9
<1>2. QED BY <1>1, StreamKept, PTL

\* A Messages client is sent an envelope: the conversion implements
\* MessagesEnvelope, step by step, for any stream and any chunks
\* (AnthropicMessagesStreamBuffer).
THEOREM EnvelopeAlwaysKept == Spec => EnvelopeKept
<1> DEFINE strict == course # "any" /\ clean /\ client = "messages"
           phase == IF client = "messages" THEN seen.phase ELSE "none"
           block == IF client = "messages" THEN seen.block ELSE -1
           filled == IF client = "messages" THEN seen.filled ELSE -1
<1>1. Init => Envelope!Init
  BY DEF Init, Envelope!Init, Envelope!NoBlock
<1>2. ASSUME Inv, Deliver, client = "messages" PROVE [Envelope!Next]_Envelope!vars
  <2> DEFINE e == Head(wire)
  <2>1. /\ UNCHANGED <<client, course, clean>>
        /\ seen' = ReadMessage(seen, e)
    BY <1>2 DEF Deliver, gateway, Read
  <2>2. ProperMessage(Mode, seen, e) /\ seen \in Seen
    BY <1>2, Delivering DEF Proper, Now, Reader
  <2>3. Mode = "strict" <=> strict
    BY <1>2 DEF Mode
  <2>4. strict' <=> strict
    BY <2>1
  <2> HIDE DEF e
  <2>5. CASE e.type = "message_start"
    <3>1. seen' = [seen EXCEPT !.phase = IF @ = "none" THEN "open" ELSE @]
      BY <2>1, <2>5 DEF ReadMessage
    <3>2. Envelope!Start
      BY <1>2, <2>1, <2>2, <2>3, <2>5, <3>1 DEF ProperMessage, Envelope!Start, Seen
    <3>3. QED BY <3>2 DEF Envelope!Next
  <2>6. CASE e.type = "content_block_start"
    <3>1. seen' = [seen EXCEPT !.block = e.index, !.filled = -1]
      BY <2>1, <2>6 DEF ReadMessage
    <3>2. Envelope!StartBlock
      BY <1>2, <2>1, <2>2, <2>3, <2>6, <3>1 DEF ProperMessage, Envelope!StartBlock, Envelope!Within, Envelope!NoBlock, Seen
    <3>3. QED BY <3>2 DEF Envelope!Next
  <2>7. CASE e.type = "content_block_delta"
    <3>1. seen' = [seen EXCEPT !.filled = e.index]
      BY <2>1, <2>7 DEF ReadMessage
    <3>2. Envelope!Fill
      BY <1>2, <2>1, <2>2, <2>3, <2>7, <3>1 DEF ProperMessage, Envelope!Fill, Envelope!Within, Seen
    <3>3. QED BY <3>2 DEF Envelope!Next
  <2>8. CASE e.type = "content_block_stop"
    <3>1. seen' = [seen EXCEPT !.block = -1, !.filled = -1]
      BY <2>1, <2>8 DEF ReadMessage
    <3>2. Envelope!StopBlock
      BY <1>2, <2>1, <2>2, <2>3, <2>8, <3>1 DEF ProperMessage, Envelope!StopBlock, Envelope!Within, Envelope!NoBlock, Seen
    <3>3. QED BY <3>2 DEF Envelope!Next
  <2>9. CASE e.type = "message_delta"
    <3>1. seen' = [seen EXCEPT !.phase = "ended"]
      BY <2>1, <2>9 DEF ReadMessage
    <3>2. Envelope!Delta
      BY <1>2, <2>1, <2>2, <2>3, <2>9, <3>1 DEF ProperMessage, Envelope!Delta, Envelope!Within, Envelope!NoBlock, Seen
    <3>3. QED BY <3>2 DEF Envelope!Next
  <2>10. CASE e.type = "message_stop"
    <3>1. seen' = [seen EXCEPT !.phase = "stopped"]
      BY <2>1, <2>10 DEF ReadMessage
    <3>2. Envelope!Stop
      BY <1>2, <2>1, <2>2, <2>3, <2>10, <3>1 DEF ProperMessage, Envelope!Stop, Seen
    <3>3. QED BY <3>2 DEF Envelope!Next
  <2>11. CASE e.type = "ping"
    <3>1. seen' = seen
      BY <2>1, <2>11 DEF ReadMessage
    <3>2. UNCHANGED Envelope!vars
      BY <2>1, <3>1 DEF Envelope!vars
    <3>3. QED BY <3>2
  <2>12. QED BY <2>2, <2>5, <2>6, <2>7, <2>8, <2>9, <2>10, <2>11 DEF ProperMessage
<1>3. ASSUME Inv, UNCHANGED <<client, course, seen>>, clean' = clean \/ clean' = FALSE
      PROVE  [Envelope!Next]_Envelope!vars
  <2>1. UNCHANGED Envelope!vars \/ Envelope!Loosen
    BY <1>3 DEF Inv, Envelope!vars, Envelope!Loosen
  <2>2. QED BY <2>1 DEF Envelope!Next
<1>4. ASSUME Inv, Deliver, client # "messages" PROVE [Envelope!Next]_Envelope!vars
  <2>1. UNCHANGED Envelope!vars
    BY <1>4 DEF Deliver, gateway, Envelope!vars
  <2>2. QED BY <2>1
<1>5. Inv /\ [Next]_vars => [Envelope!Next]_Envelope!vars
  <2> SUFFICES ASSUME Inv, [Next]_vars PROVE [Envelope!Next]_Envelope!vars
    OBVIOUS
  <2>1. clean \in BOOLEAN
    BY DEF Inv
  <2>2. CASE Deliver
    BY <1>2, <1>4, <2>2
  <2>3. CASE ~Deliver
    <3>1. UNCHANGED <<client, course, seen>> /\ (clean' = clean \/ clean' = FALSE)
      BY <2>1, <2>3 DEF Next, vars, Emit, ChunkArrives, ChunkPassesUnconverted, FrameUnreadable
    <3>2. QED BY <1>3, <3>1
  <2>4. QED BY <2>2, <2>3
<1>6. QED BY <1>1, <1>5, StreamKept, PTL DEF Spec, EnvelopeKept, Envelope!Spec

\* A Responses client is sent the life of a response: the conversion implements
\* ResponseLifecycle, step by step, for any stream and any chunks
\* (ResponsesAPIStreamBuffer).
THEOREM LifecycleAlwaysKept == Spec => LifecycleKept
<1> DEFINE strict == /\ course = "text" \/ (course = "tool" /\ upstream = "openai")
                     /\ clean /\ client = "responses"
<1>1. Init => Lifecycle!Init
  BY DEF Init, Lifecycle!Init, Lifecycle!NoItem
<1>2. ASSUME Inv, Deliver, client = "responses" PROVE [Lifecycle!Next]_Lifecycle!vars
  <2> DEFINE e == Head(wire)
  <2>1. /\ UNCHANGED <<client, upstream, course, clean>>
        /\ seen' = ReadResponse(seen, e)
    BY <1>2 DEF Deliver, gateway, Read
  <2>2. ProperResponse(Mode, seen, e) /\ seen \in Seen
    BY <1>2, Delivering DEF Proper, Now, Reader
  <2>3. Mode = "strict" <=> strict
    BY <1>2 DEF Mode, Inv, Types, Kinds
  <2>4. strict' <=> strict
    BY <2>1
  <2>5. /\ Members(seen.added) = Lifecycle!ToSet(seen.added)
        /\ Members(seen.done) = Lifecycle!ToSet(seen.done)
    BY DEF Members, Lifecycle!ToSet
  <2> HIDE DEF e
  <2>6. CASE e.type = "created"
    <3>1. seen' = [seen EXCEPT !.phase = "created"]
      BY <2>1, <2>6 DEF ReadResponse
    <3>2. Lifecycle!Create
      BY <1>2, <2>1, <2>2, <2>6, <3>1 DEF ProperResponse, Lifecycle!Create, Seen
    <3>3. QED BY <3>2 DEF Lifecycle!Next
  <2>7. CASE e.type = "in_progress"
    <3>1. seen' = [seen EXCEPT !.phase = "open"]
      BY <2>1, <2>7 DEF ReadResponse
    <3>2. Lifecycle!Progress
      BY <1>2, <2>1, <2>2, <2>7, <3>1 DEF ProperResponse, Lifecycle!Progress, Seen
    <3>3. QED BY <3>2 DEF Lifecycle!Next
  <2>8. CASE e.type = "item_added"
    <3>1. seen' = [seen EXCEPT !.added = Append(@, e.item)]
      BY <2>1, <2>8 DEF ReadResponse
    <3>2. /\ seen.phase = "open" \/ (~strict /\ seen.phase = "completed")
          /\ e.item \in Nat \ Lifecycle!ToSet(seen.added)
      BY <2>2, <2>3, <2>5, <2>8 DEF ProperResponse
    <3>3. /\ seen'.added = Append(seen.added, e.item)
          /\ Len(seen'.added) > 0 /\ Lifecycle!Last(seen'.added) = e.item
      BY <2>2, <3>1, <3>2 DEF Seen, Lifecycle!Last
    <3>4. Lifecycle!Add
      BY <1>2, <2>1, <2>2, <3>1, <3>2, <3>3 DEF Lifecycle!Add, Lifecycle!Within, Seen
    <3>5. QED BY <3>4 DEF Lifecycle!Next
  <2>9. CASE e.type \in {"text_delta", "args_delta"}
    <3>1. seen' = [seen EXCEPT !.filled = e.item]
      BY <2>1, <2>9 DEF ReadResponse
    <3>2. Lifecycle!Fill
      BY <1>2, <2>1, <2>2, <2>3, <2>5, <2>9, <3>1 DEF ProperResponse, Lifecycle!Fill, Lifecycle!Within, Seen
    <3>3. QED BY <3>2 DEF Lifecycle!Next
  <2>10. CASE e.type \in {"text_done", "args_done"}
    <3>1. seen' = seen
      BY <2>1, <2>10 DEF ReadResponse
    <3>2. UNCHANGED Lifecycle!vars
      BY <2>1, <3>1 DEF Lifecycle!vars
    <3>3. QED BY <3>2
  <2>11. CASE e.type = "item_done"
    <3>1. seen' = [seen EXCEPT !.done = Append(@, e.item), !.filled = -1]
      BY <2>1, <2>11 DEF ReadResponse
    <3>2. Lifecycle!Finish
      BY <1>2, <2>1, <2>2, <2>3, <2>5, <2>11, <3>1 DEF ProperResponse, Lifecycle!Finish, Lifecycle!NoItem, Seen
    <3>3. QED BY <3>2 DEF Lifecycle!Next
  <2>12. CASE e.type = "completed"
    <3>1. seen' = [seen EXCEPT !.phase = "completed"]
      BY <2>1, <2>12 DEF ReadResponse
    <3>2. Lifecycle!Complete
      BY <1>2, <2>1, <2>2, <2>5, <2>12, <3>1 DEF ProperResponse, Lifecycle!Complete, Seen
    <3>3. QED BY <3>2 DEF Lifecycle!Next
  <2>13. QED BY <2>2, <2>6, <2>7, <2>8, <2>9, <2>10, <2>11, <2>12 DEF ProperResponse
<1>3. ASSUME Inv, UNCHANGED <<client, upstream, course, seen>>, clean' = clean \/ clean' = FALSE
      PROVE  [Lifecycle!Next]_Lifecycle!vars
  <2>1. UNCHANGED Lifecycle!vars \/ Lifecycle!Loosen
    BY <1>3 DEF Inv, Lifecycle!vars, Lifecycle!Loosen
  <2>2. QED BY <2>1 DEF Lifecycle!Next
<1>4. ASSUME Inv, Deliver, client # "responses" PROVE [Lifecycle!Next]_Lifecycle!vars
  <2>1. UNCHANGED Lifecycle!vars
    BY <1>4 DEF Deliver, gateway, Lifecycle!vars
  <2>2. QED BY <2>1
<1>5. Inv /\ [Next]_vars => [Lifecycle!Next]_Lifecycle!vars
  <2> SUFFICES ASSUME Inv, [Next]_vars PROVE [Lifecycle!Next]_Lifecycle!vars
    OBVIOUS
  <2>1. clean \in BOOLEAN
    BY DEF Inv
  <2>2. CASE Deliver
    BY <1>2, <1>4, <2>2
  <2>3. CASE ~Deliver
    <3>1. UNCHANGED <<client, upstream, course, seen>> /\ (clean' = clean \/ clean' = FALSE)
      BY <2>1, <2>3 DEF Next, vars, Emit, ChunkArrives, ChunkPassesUnconverted, FrameUnreadable
    <3>2. QED BY <1>3, <3>1
  <2>4. QED BY <2>2, <2>3
<1>6. QED BY <1>1, <1>5, StreamKept, PTL DEF Spec, LifecycleKept, Lifecycle!Spec
=============================================================================
