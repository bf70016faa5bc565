------------------------- MODULE PromptGatewayProofs -------------------------
(***************************************************************************)
(* What holds of PromptGateway for any streams, tokens and deployments: a  *)
(* request that is held back waits for one callout, which is its own; what *)
(* brightstaff checks does not panic the VM; the result of a function      *)
(* reaches the client once; and the LLM is asked what the user said.       *)
(***************************************************************************)
EXTENDS PromptGateway, FiniteSetTheorems, WellFoundedInduction, TLAPS

Handlers == {"ArchFC", "FunctionCall", "DefaultTarget"}

\* A record with the fields of a stream's context, whatever they hold.
IsContext(c) ==
    /\ c \in [phase : {c.phase}, req : {c.req}, chat : {c.chat}, streaming : {c.streaming},
              callouts : {c.callouts}, calls : {c.calls}, result : {c.result},
              sent : {c.sent}, reply : {c.reply}, got : {c.got}]
    /\ c.got \in [status : {c.got.status}, body : {c.got.body},
                  results : {c.got.results}, parts : {c.got.parts}, texts : {c.got.texts}]

\* A context that has no callout.
Free(c) == IsContext(c) /\ DOMAIN c.callouts = {}

\* What a callback may make of its stream: a callout to dispatch, a panic, or
\* a stream that has gone on.
Outcome(d) ==
    /\ IsContext(d)
    /\ \/ d.phase = "calling" /\ d.callouts[1].handler \in Handlers
       \/ d.phase \in Panics /\ Free(d)
       \/ d.phase \in {"upstream", "response"} /\ Free(d)

\* A stream at rest: it waits for one callout, or has none.
Rests(c) ==
    /\ IsContext(c)
    /\ \/ /\ c.phase = "waiting"
          /\ \E t : DOMAIN c.callouts = {t} /\ c.callouts[t].handler \in Handlers
       \/ /\ c.phase \in {"closed", "headers", "body", "upstream", "response"}
          /\ DOMAIN c.callouts = {}
    /\ c.phase \in {"headers", "body"} => c.req.body \in {"empty", "malformed", "json"}

\* The tokens under which `held' has callouts of stream s.
Mine(held, s) == {t \in DOMAIN held : held[t] = s}

\* Every stream rests, and knows the callouts Envoy holds for it.
WInv ==
    /\ config \in DOMAIN Configs
    /\ stream = [s \in Contexts |-> stream[s]]
    /\ \A s \in Contexts : Rests(stream[s]) /\ Mine(calls, s) = DOMAIN stream[s].callouts
    /\ \A t \in DOMAIN calls : calls[t] \in Contexts
    /\ IsFiniteSet(DOMAIN calls) /\ gauge \in Int /\ gauge >= Cardinality(DOMAIN calls)

\* `held' and `active' are what is left of the callouts without those of s.
Without(s, held, active) ==
    /\ Mine(held, s) = {}
    /\ \A x \in Contexts \ {s} : Mine(held, x) = Mine(calls, x)
    /\ \A t \in DOMAIN held : held[t] \in Contexts
    /\ IsFiniteSet(DOMAIN held) /\ active \in Int /\ active >= Cardinality(DOMAIN held)

-----------------------------------------------------------------------------
(* Outcomes *)

LEMMA ReplyOutcome ==
    ASSUME NEW c, Free(c), NEW status, NEW body
    PROVE  /\ Outcome(Reply(c, status, body))
           /\ Rests(Reply(c, status, body)) /\ Free(Reply(c, status, body))
BY DEF Free, IsContext, Outcome, Rests, Reply

LEMMA ResumeOutcome ==
    ASSUME NEW c, Free(c), NEW m, NEW q, NEW by
    PROVE  Outcome(Resume(c, m, q, by))
BY DEF Free, IsContext, Outcome, Resume

LEMMA PanicOutcome ==
    ASSUME NEW c, Free(c), NEW why \in Panics
    PROVE  Outcome(Panic(c, why))
BY DEF Free, IsContext, Outcome, Panic

LEMMA CallOutcome ==
    ASSUME NEW c, Free(c), NEW handler \in Handlers, NEW target, NEW refusal,
           NEW d \in HttpCall(c, handler, target, refusal)
    PROVE  Outcome(d)
<1>1. CASE d = Reply(c, refusal, "text")
  BY <1>1, ReplyOutcome
<1>2. CASE d = [c EXCEPT !.phase = "calling", !.callouts = <<[handler |-> handler, target |-> target]>>]
  BY <1>2 DEF Free, IsContext, Outcome
<1> QED
  BY <1>1, <1>2 DEF HttpCall

LEMMA RequestReadOutcome ==
    ASSUME NEW c, Free(c), c.req.body \in {"empty", "malformed", "json"}, NEW d \in RequestRead(c)
    PROVE  Outcome(d)
<1> DEFINE c1 == [c EXCEPT !.streaming = c.req.stream]
           m  == c.req.messages
<1>1. Free(c1)
  BY DEF Free, IsContext
<1> HIDE DEF c1
<1>2. \/ d = Resume(c, m, "none", "client") \/ d = Reply(c, "400", "text") \/ d = Panic(c, "state")
      \/ d = Resume(c1, m, "none", "client") \/ d = Reply(c1, "500", "text")
      \/ d \in HttpCall(c1, "ArchFC", NoTarget, "500")
  <2> DEFINE Asked == Asks(m)
  <2> HIDE DEF Asked
  <2> USE DEF c1
  <2>1. CASE c.req.body = "empty"
    BY <2>1 DEF RequestRead
  <2>2. CASE c.req.body = "malformed"
    BY <2>2 DEF RequestRead
  <2>3. CASE c.req.body = "json" /\ c.req.state
    BY <2>3 DEF RequestRead
  <2>4. CASE c.req.body = "json" /\ ~c.req.state /\ Asks(m) = {}
    BY <2>4 DEF RequestRead
  <2>5. CASE c.req.body = "json" /\ ~c.req.state /\ Asks(m) # {}
    BY <2>5 DEF RequestRead
  <2> QED
    BY <2>1, <2>2, <2>3, <2>4, <2>5
<1>3. "ArchFC" \in Handlers /\ "state" \in Panics
  BY DEF Handlers, Panics
<1> QED
  BY <1>1, <1>2, <1>3, ReplyOutcome, ResumeOutcome, PanicOutcome, CallOutcome

LEMMA ArchFcOutcome ==
    ASSUME NEW c, Free(c), NEW answer, NEW d \in ArchFcResponseHandler(c, answer)
    PROVE  Outcome(d)
<1> DEFINE c1 == [c EXCEPT !.calls = answer.calls]
           m == c.req.messages
<1>1. Free(c1)
  BY DEF Free, IsContext
<1>2. ASSUME NEW e \in ScheduleApiCallRequest(c1) PROVE Outcome(e)
  <2>1. \/ e = Panic(c1, "target") \/ e = Reply(c1, "400", "text")
        \/ e \in HttpCall(c1, "FunctionCall", c1.calls[1].name, "400")
    BY <1>2 DEF ScheduleApiCallRequest
  <2> QED
    BY <1>1, <2>1, ReplyOutcome, PanicOutcome, CallOutcome DEF Handlers, Panics
<1>3. CASE ~CheckIntentMatched(answer) /\ DefaultTargets # {}
  <2>1. ArchFcResponseHandler(c, answer) = UNION {HttpCall(c, "DefaultTarget", n, "400") : n \in DefaultTargets}
    BY <1>3 DEF ArchFcResponseHandler, CheckIntentMatched
  <2>2. PICK n \in DefaultTargets : d \in HttpCall(c, "DefaultTarget", n, "400")
    BY <2>1
  <2> QED
    BY <2>2, CallOutcome DEF Handlers
<1>4. CASE ~CheckIntentMatched(answer) /\ DefaultTargets = {}
  <2>1. ArchFcResponseHandler(c, answer)
          = {Resume(c, ConstructLlmMessages(m, NoTarget), Last(m), "arch")}
    BY <1>4 DEF ArchFcResponseHandler, CheckIntentMatched
  <2> QED
    BY <2>1, ResumeOutcome
<1>5. CASE CheckIntentMatched(answer) /\ answer.calls = NoCalls
  BY <1>5, ReplyOutcome DEF ArchFcResponseHandler
<1>6. CASE CheckIntentMatched(answer) /\ answer.calls # NoCalls /\ Configs[config].orchestrator
  BY <1>1, <1>6, ResumeOutcome DEF ArchFcResponseHandler
<1>7. CASE CheckIntentMatched(answer) /\ answer.calls # NoCalls /\ ~Configs[config].orchestrator
  BY <1>2, <1>7 DEF ArchFcResponseHandler
<1> QED
  BY <1>3, <1>4, <1>5, <1>6, <1>7 DEF CheckIntentMatched

LEMMA ApiCallOutcome ==
    ASSUME NEW c, Free(c), NEW target, NEW answer
    PROVE  Outcome(ApiCallResponseHandler(c, target, answer))
<1> DEFINE c1 == [c EXCEPT !.result = answer.body]
           d == ApiCallResponseHandler(c, target, answer)
           messages == ConstructLlmMessages(c.req.messages, target)
<1>1. Free(c1)
  BY DEF Free, IsContext
<1>2. \/ d = Reply(c, answer.status, "text") \/ d = Reply(c1, "500", "text") \/ d = Reply(c1, "200", "result")
      \/ d = Resume(c1, Front(messages) \o <<"user">>, Last(messages), "function")
      \/ d = Panic(c, "utf8")
  BY DEF ApiCallResponseHandler
<1> QED
  BY <1>1, <1>2, ReplyOutcome, ResumeOutcome, PanicOutcome DEF Panics

LEMMA DefaultTargetOutcome ==
    ASSUME NEW c, Free(c), NEW target, NEW answer
    PROVE  Outcome(DefaultTargetHandler(c, target, answer))
<1> DEFINE d == DefaultTargetHandler(c, target, answer)
           messages == SystemPrompt(Targets[target].system) \o c.req.messages
<1>1. \/ d = Reply(c, "500", "text") \/ d = Reply(c, "200", "answer")
      \/ \E why \in {"utf8", "completion", "silent", "content"} : d = Panic(c, why)
      \/ d = Resume(c, Front(messages) \o <<"user">>, Last(messages), "default")
  BY DEF DefaultTargetHandler
<1> QED
  BY <1>1, ReplyOutcome, ResumeOutcome, PanicOutcome DEF Panics

LEMMA CallResponseOutcome ==
    ASSUME NEW c, Free(c), NEW callout, callout.handler \in Handlers, NEW answer,
           NEW d \in CallResponse(c, callout, answer)
    PROVE  Outcome(d)
<1>1. \/ d = Reply(c, answer.status, "text") \/ d = Reply(c, "500", "text") \/ d = Panic(c, "utf8")
      \/ d \in ArchFcResponseHandler(c, answer)
      \/ d = ApiCallResponseHandler(c, callout.target, answer)
      \/ d = DefaultTargetHandler(c, callout.target, answer)
  BY DEF CallResponse, Handlers
<1>2. "utf8" \in Panics
  BY DEF Panics
<1> QED
  BY <1>1, <1>2, ReplyOutcome, PanicOutcome, ArchFcOutcome, ApiCallOutcome, DefaultTargetOutcome

\* A part of an answer changes what the client got, and may panic.
LEMMA BodyOutcome ==
    ASSUME NEW c, Free(c), c.phase = "response", NEW part
    PROVE  Outcome(ResponseBody(c, part))
<1>1. Free(StreamedPart(c)) /\ StreamedPart(c).phase = "response"
  BY DEF StreamedPart, Free, IsContext
<1>2. Free(WholePart(c, part)) /\ WholePart(c, part).phase \in {"response", "result", "metadata"}
  BY DEF WholePart, Panic, Free, IsContext
<1> DEFINE c1 == IF ~c.chat \/ part \in {"nothing", "cut"} THEN c
                 ELSE IF c.streaming THEN StreamedPart(c) ELSE WholePart(c, part)
<1>3. Free(c1) /\ c1.phase \in {"response", "result", "metadata"}
  BY <1>1, <1>2
<1>4. ResponseBody(c, part)
        = IF part = "nothing" THEN c1
          ELSE [c1 EXCEPT !.got.parts = @ + 1, !.got.body = part,
                             !.got.texts = @ + (IF part = "cut" THEN 0 ELSE 1)]
  BY DEF ResponseBody
<1> HIDE DEF c1
<1>5. ASSUME NEW e, Free(e), e.phase \in {"response", "result", "metadata"}
      PROVE  /\ Outcome(e)
             /\ Outcome([e EXCEPT !.got.parts = @ + 1, !.got.body = part,
                       !.got.texts = @ + (IF part = "cut" THEN 0 ELSE 1)])
  BY <1>5 DEF Outcome, Free, IsContext, Panics
<1> QED
  BY <1>3, <1>4, <1>5
-----------------------------------------------------------------------------
(* Steps *)

LEMMA RestingStreams ==
    ASSUME WInv, NEW s \in Contexts
    PROVE  /\ stream[s].phase # "waiting" => Free(stream[s]) /\ Mine(calls, s) = {}
           /\ stream[s].phase \in {"headers", "body"} =>
                 stream[s].req.body \in {"empty", "malformed", "json"}
           /\ stream[s].phase # "waiting" => Without(s, calls, gauge)
BY DEF WInv, Rests, Free, Without, Mine

\* A stream that goes on without a callout leaves the other ones alone.
LEMMA GoesOn ==
    ASSUME WInv, NEW s \in Contexts, NEW c, Rests(c), Free(c), NEW held, NEW active,
           Without(s, held, active), Becomes(s, c), calls' = held, gauge' = active,
           UNCHANGED config
    PROVE  WInv'
<1>1. stream' = [x \in Contexts |-> IF x = s THEN c ELSE stream[x]]
  BY DEF WInv, Becomes
<1>2. \A x \in Contexts : stream'[x] = IF x = s THEN c ELSE stream[x]
  BY <1>1
<1>3. stream' = [x \in Contexts |-> stream'[x]]
  BY <1>1, <1>2
<1>4. ASSUME NEW x \in Contexts
      PROVE  Rests(stream'[x]) /\ Mine(held, x) = DOMAIN stream'[x].callouts
  <2>1. CASE x = s
    BY <1>2, <2>1 DEF Free, Without
  <2>2. CASE x # s
    BY <1>2, <2>2 DEF WInv, Without
  <2> QED
    BY <2>1, <2>2
<1> QED
  BY <1>3, <1>4 DEF WInv, Without, Rests, IsContext, Mine

LEMMA CallsOut ==
    ASSUME WInv, NEW s \in Contexts, NEW c, IsContext(c), c.callouts[1].handler \in Handlers,
           NEW held, NEW active, Without(s, held, active), NEW t, t \notin DOMAIN held,
           Becomes(s, [c EXCEPT !.phase = "waiting", !.callouts = [x \in {t} |-> @[1]]]),
           calls' = [x \in DOMAIN held \cup {t} |-> IF x = t THEN s ELSE held[x]],
           gauge' = active + 1, UNCHANGED config
    PROVE  WInv'
<1> DEFINE d == [c EXCEPT !.phase = "waiting", !.callouts = [x \in {t} |-> @[1]]]
<1>1. Rests(d) /\ DOMAIN d.callouts = {t}
  BY DEF IsContext, Rests
<1> HIDE DEF d
<1>2. stream' = [x \in Contexts |-> IF x = s THEN d ELSE stream[x]]
  BY DEF WInv, Becomes, d
<1>3. \A x \in Contexts : stream'[x] = IF x = s THEN d ELSE stream[x]
  BY <1>2
<1>4. stream' = [x \in Contexts |-> stream'[x]]
  BY <1>2, <1>3
<1>5. DOMAIN calls' = DOMAIN held \cup {t} /\ \A x \in DOMAIN calls' : calls'[x] = IF x = t THEN s ELSE held[x]
  OBVIOUS
<1>6. ASSUME NEW x \in Contexts
      PROVE  Rests(stream'[x]) /\ Mine(calls', x) = DOMAIN stream'[x].callouts
  <2>1. CASE x = s
    <3>1. Mine(calls', s) = {t}
      BY <1>5 DEF Mine, Without
    <3> QED
      BY <1>1, <1>3, <2>1, <3>1
  <2>2. CASE x # s
    <3>1. Mine(calls', x) = Mine(held, x)
      BY <1>5, <2>2 DEF Mine
    <3> QED
      BY <1>3, <2>2, <3>1 DEF WInv, Without
  <2> QED
    BY <2>1, <2>2
<1>7. IsFiniteSet(DOMAIN calls') /\ Cardinality(DOMAIN calls') = Cardinality(DOMAIN held) + 1
  BY <1>5, FS_AddElement DEF Without
<1>8. Cardinality(DOMAIN held) \in Nat
  BY FS_CardinalityType DEF Without
<1>9. \A x \in DOMAIN calls' : calls'[x] \in Contexts
  BY <1>5 DEF Without
<1>10. (\A x \in Contexts : Rests(stream[x]) /\ Mine(calls, x) = DOMAIN stream[x].callouts)'
  BY <1>6 DEF Rests, IsContext, Mine
<1>11. gauge' \in Int /\ gauge' >= Cardinality(DOMAIN calls')
  BY <1>7, <1>8 DEF Without
<1>12. config' \in DOMAIN Configs
  BY DEF WInv
<1> QED
  BY <1>4, <1>7, <1>9, <1>10, <1>11, <1>12 DEF WInv

LEMMA ClosedRests == Rests(Closed) /\ Free(Closed)
<1> DEFINE c == NewContext(NoRequest)
<1>1. Free(c)
  BY DEF NewContext, Free, IsContext, NothingGot
<1> HIDE DEF c
<1>2. Closed = [c EXCEPT !.phase = "closed"]
  BY DEF Closed, c
<1> QED
  BY <1>1, <1>2 DEF Rests, Free, IsContext

LEMMA SettleKeeps ==
    ASSUME WInv, NEW s \in Contexts, NEW c, Outcome(c), NEW held, NEW active,
           Without(s, held, active), Settle(s, c, held, active), UNCHANGED config
    PROVE  WInv'
<1>1. CASE c.phase \in Panics
  <2>1. stream' = [x \in Contexts |-> Closed] /\ calls' = <<>> /\ gauge' = active
    BY <1>1 DEF Settle, Panics
  <2>2. DOMAIN calls' = {} /\ \A x : Mine(calls', x) = {}
    BY <2>1 DEF Mine
  <2>3. IsFiniteSet(DOMAIN calls') /\ Cardinality(DOMAIN calls') = 0
    BY <2>2, FS_EmptySet
  <2>4. active \in Int /\ active >= 0
    BY FS_CardinalityType DEF Without
  <2>5. \A x \in Contexts : stream'[x] = Closed
    BY <2>1
  <2>6. stream' = [x \in Contexts |-> stream'[x]]
    BY <2>1, <2>5
  <2>7. \A x \in Contexts : Rests(stream'[x]) /\ Mine(calls', x) = DOMAIN stream'[x].callouts
    BY <2>2, <2>5, ClosedRests DEF Free
  <2> QED
    BY <2>1, <2>2, <2>3, <2>4, <2>6, <2>7 DEF WInv, Rests, IsContext, Mine
<1>2. CASE c.phase = "calling"
  <2>1. PICK t \in Tokens \ DOMAIN held :
           /\ Becomes(s, [c EXCEPT !.phase = "waiting", !.callouts = [x \in {t} |-> @[1]]])
           /\ calls' = [x \in DOMAIN held \cup {t} |-> IF x = t THEN s ELSE held[x]]
           /\ gauge' = active + 1
    BY <1>2 DEF Settle, Panics
  <2> QED
    BY <1>2, <2>1, CallsOut DEF Outcome, Panics
<1>3. CASE c.phase \in {"upstream", "response"}
  <2>1. Becomes(s, c) /\ calls' = held /\ gauge' = active
    BY <1>3 DEF Settle, Panics
  <2>2. Rests(c) /\ Free(c)
    BY <1>3 DEF Outcome, Rests, Free, Panics
  <2> QED
    BY <2>1, <2>2, GoesOn
<1> QED
  BY <1>1, <1>2, <1>3 DEF Outcome

LEMMA OpenKeeps ==
    ASSUME WInv, NEW s \in Contexts, Open(s)
    PROVE  WInv'
<1>1. PICK r \in Requests[config] : Becomes(s, NewContext(r))
  BY DEF Open
<1>2. r.body \in {"empty", "malformed", "json"}
  BY PromptGatewayAssumption DEF WInv
<1>3. Rests(NewContext(r)) /\ Free(NewContext(r))
  BY <1>2 DEF NewContext, NothingGot, Rests, Free, IsContext
<1> QED
  BY <1>1, <1>3, RestingStreams, GoesOn DEF Open

LEMMA HeadersKeep ==
    ASSUME WInv, NEW s \in Contexts, OnRequestHeaders(s)
    PROVE  WInv'
<1> DEFINE c == stream[s]
           d == [c EXCEPT !.phase = "body", !.chat = c.req.path = "chat"]
<1>1. Free(c) /\ c.req.body \in {"empty", "malformed", "json"} /\ Without(s, calls, gauge)
  BY RestingStreams DEF OnRequestHeaders
<1>2. Rests(d) /\ Free(d)
  BY <1>1 DEF Rests, Free, IsContext
<1>3. \/ Becomes(s, d) \/ Becomes(s, Reply(c, "500", "text")) \/ Becomes(s, Reply(c, "200", "empty"))
  BY DEF OnRequestHeaders
<1>4. \A status, body : Rests(Reply(c, status, body)) /\ Free(Reply(c, status, body))
  BY <1>1, ReplyOutcome
<1> QED
  BY <1>1, <1>2, <1>3, <1>4, GoesOn DEF OnRequestHeaders

LEMMA RequestBodyKeeps ==
    ASSUME WInv, NEW s \in Contexts, OnRequestBody(s)
    PROVE  WInv'
<1>1. Free(stream[s]) /\ stream[s].req.body \in {"empty", "malformed", "json"}
      /\ Without(s, calls, gauge)
  BY RestingStreams DEF OnRequestBody
<1>2. PICK c \in RequestRead(stream[s]) : Settle(s, c, calls, gauge)
  BY DEF OnRequestBody
<1> QED
  BY <1>1, <1>2, RequestReadOutcome, SettleKeeps DEF OnRequestBody

\* A callout that comes back is the only one of its stream, and none is left.
LEMMA CalloutAnswered ==
    ASSUME WInv, NEW s \in Contexts, NEW t \in DOMAIN calls, calls[t] = s
    PROVE  /\ DOMAIN stream[s].callouts = {t} /\ stream[s].callouts[t].handler \in Handlers
           /\ Free([stream[s] EXCEPT !.callouts = Restrict(@, DOMAIN @ \ {t})])
           /\ Without(s, Restrict(calls, DOMAIN calls \ {t}), gauge - 1)
<1>1. Mine(calls, s) = DOMAIN stream[s].callouts /\ t \in Mine(calls, s)
  BY DEF WInv, Mine
<1>2. DOMAIN stream[s].callouts = {t} /\ stream[s].callouts[t].handler \in Handlers
  BY <1>1 DEF WInv, Rests
<1>3. Free([stream[s] EXCEPT !.callouts = Restrict(@, DOMAIN @ \ {t})])
  BY <1>2 DEF Free, IsContext, WInv, Rests, Restrict
<1> DEFINE held == Restrict(calls, DOMAIN calls \ {t})
<1>4. DOMAIN held = DOMAIN calls \ {t} /\ \A x \in DOMAIN held : held[x] = calls[x]
  BY DEF Restrict
<1>5. IsFiniteSet(DOMAIN held) /\ Cardinality(DOMAIN held) = Cardinality(DOMAIN calls) - 1
  BY <1>4, FS_RemoveElement DEF WInv
<1>6. Cardinality(DOMAIN calls) \in Nat
  BY FS_CardinalityType DEF WInv
<1>7. Without(s, held, gauge - 1)
  <2>1. Mine(held, s) = {}
    BY <1>1, <1>2, <1>4 DEF Mine
  <2>2. \A x \in Contexts \ {s} : Mine(held, x) = Mine(calls, x)
    BY <1>4 DEF Mine
  <2>3. \A x \in DOMAIN held : held[x] \in Contexts
    BY <1>4 DEF WInv
  <2>4. gauge - 1 \in Int /\ gauge - 1 >= Cardinality(DOMAIN held)
    BY <1>5, <1>6 DEF WInv
  <2> QED
    BY <1>5, <2>1, <2>2, <2>3, <2>4 DEF Without
<1> QED
  BY <1>2, <1>3, <1>7

LEMMA CallResponseKeeps ==
    ASSUME WInv, NEW s \in Contexts, OnHttpCallResponse(s)
    PROVE  WInv'
<1> DEFINE context(t) == [stream[s] EXCEPT !.callouts = Restrict(@, DOMAIN @ \ {t})]
<1>1. PICK t \in DOMAIN calls :
         LET outcomes == IF t \in DOMAIN stream[s].callouts
                         THEN UNION {CallResponse(context(t), stream[s].callouts[t], a) :
                                       a \in Answers(context(t), stream[s].callouts[t].handler)}
                         ELSE {Panic(context(t), "token")}
         IN  /\ calls[t] = s
             /\ \E d \in outcomes : Settle(s, d, Restrict(calls, DOMAIN calls \ {t}), gauge - 1)
  BY DEF OnHttpCallResponse
<1>2. /\ DOMAIN stream[s].callouts = {t} /\ stream[s].callouts[t].handler \in Handlers
      /\ Free(context(t)) /\ Without(s, Restrict(calls, DOMAIN calls \ {t}), gauge - 1)
  BY <1>1, CalloutAnswered
<1> DEFINE held == Restrict(calls, DOMAIN calls \ {t})
<1> DEFINE callout == stream[s].callouts[t]
<1>3. PICK a : \E d \in CallResponse(context(t), callout, a) : Settle(s, d, held, gauge - 1)
  BY <1>1, <1>2
<1>4. PICK d \in CallResponse(context(t), callout, a) : Settle(s, d, held, gauge - 1)
  BY <1>3
<1>5. Outcome(d)
  BY <1>2, <1>4, CallResponseOutcome
<1> QED
  BY <1>2, <1>4, <1>5, SettleKeeps DEF OnHttpCallResponse

LEMMA AnswerKeeps ==
    ASSUME WInv, NEW s \in Contexts, OnLlmAnswer(s)
    PROVE  WInv'
<1>1. PICK status : Becomes(s, [stream[s] EXCEPT !.phase = "response", !.got.status = status, !.reply = "llm"])
  BY DEF OnLlmAnswer
<1>2. Free(stream[s]) /\ Without(s, calls, gauge)
  BY RestingStreams DEF OnLlmAnswer
<1> DEFINE d == [stream[s] EXCEPT !.phase = "response", !.got.status = status, !.reply = "llm"]
<1>3. Rests(d) /\ Free(d)
  BY <1>2 DEF Rests, Free, IsContext
<1> QED
  BY <1>1, <1>2, <1>3, GoesOn DEF OnLlmAnswer

LEMMA ResponseBodyKeeps ==
    ASSUME WInv, NEW s \in Contexts, OnResponseBody(s)
    PROVE  WInv'
<1>1. Free(stream[s]) /\ stream[s].phase = "response" /\ Without(s, calls, gauge)
  BY RestingStreams DEF OnResponseBody
<1>2. PICK part : Settle(s, ResponseBody(stream[s], part), calls, gauge)
  BY DEF OnResponseBody
<1> QED
  BY <1>1, <1>2, BodyOutcome, SettleKeeps DEF OnResponseBody

LEMMA ReplyBodyKeeps ==
    ASSUME WInv, NEW s \in Contexts, OnReplyBody(s)
    PROVE  WInv'
<1>1. Free(stream[s]) /\ stream[s].phase = "response" /\ Without(s, calls, gauge)
  BY RestingStreams DEF OnReplyBody
<1> DEFINE c    == stream[s]
           base == IF c.reply = "result" THEN [c EXCEPT !.got.results = 1] ELSE c
<1>2. Free(base) /\ base.phase = "response"
  BY <1>1 DEF Free, IsContext
<1>3. PICK part : Settle(s, ResponseBody(base, part), calls, gauge)
  BY DEF OnReplyBody
<1> HIDE DEF base
<1> QED
  BY <1>1, <1>2, <1>3, BodyOutcome, SettleKeeps DEF OnReplyBody

LEMMA DoneKeeps ==
    ASSUME WInv, NEW s \in Contexts, Done(s)
    PROVE  WInv'
<1> DEFINE held == Restrict(calls, {t \in DOMAIN calls : calls[t] # s})
<1>1. DOMAIN held = {t \in DOMAIN calls : calls[t] # s} /\ \A x \in DOMAIN held : held[x] = calls[x]
  BY DEF Restrict
<1>2. /\ IsFiniteSet(DOMAIN held) /\ Cardinality(DOMAIN held) <= Cardinality(DOMAIN calls)
      /\ Cardinality(DOMAIN held) \in Nat /\ Cardinality(DOMAIN calls) \in Nat
  BY <1>1, FS_Subset, FS_CardinalityType DEF WInv
<1>3. Without(s, held, gauge)
  <2>1. Mine(held, s) = {} /\ \A x \in Contexts \ {s} : Mine(held, x) = Mine(calls, x)
    BY <1>1 DEF Mine
  <2>2. \A x \in DOMAIN held : held[x] \in Contexts
    BY <1>1 DEF WInv
  <2> QED
    BY <1>2, <2>1, <2>2 DEF Without, WInv
<1> QED
  BY <1>3, ClosedRests, GoesOn DEF Done

LEMMA InitWaits == Init => WInv
<1> SUFFICES ASSUME Init PROVE WInv
  OBVIOUS
<1>1. DOMAIN calls = {} /\ \A x : Mine(calls, x) = {}
  BY DEF Init, Mine
<1>2. IsFiniteSet(DOMAIN calls) /\ Cardinality(DOMAIN calls) = 0
  BY <1>1, FS_EmptySet
<1>3. stream = [s \in Contexts |-> stream[s]] /\ \A s \in Contexts : stream[s] = Closed
  BY DEF Init
<1>4. gauge \in Int /\ gauge >= 0 /\ config \in DOMAIN Configs
  BY DEF Init
<1> QED
  BY <1>1, <1>2, <1>3, <1>4, ClosedRests DEF WInv, Free

LEMMA StepKeepsWaiting == WInv /\ [Next]_vars => WInv'
<1> SUFFICES ASSUME WInv, [Next]_vars PROVE WInv'
  OBVIOUS
<1>1. CASE UNCHANGED vars
  BY <1>1 DEF vars, WInv, Mine
<1>2. ASSUME NEW s \in Contexts,
             \/ Open(s) \/ OnRequestHeaders(s) \/ OnRequestBody(s) \/ OnHttpCallResponse(s)
             \/ OnLlmAnswer(s) \/ OnResponseBody(s) \/ OnReplyBody(s) \/ Done(s)
      PROVE  WInv'
  BY <1>2, OpenKeeps, HeadersKeep, RequestBodyKeeps, CallResponseKeeps, AnswerKeeps,
     ResponseBodyKeeps, ReplyBodyKeeps, DoneKeeps
<1> QED
  BY <1>1, <1>2 DEF Next

LEMMA OneCallEach == WInv => WaitsForOneCall
<1> SUFFICES ASSUME WInv PROVE WaitsForOneCall
  OBVIOUS
<1>1. ASSUME NEW s \in Contexts
      PROVE  /\ Mine(calls, s) = DOMAIN stream[s].callouts
             /\ Cardinality(Mine(calls, s)) = IF stream[s].phase = "waiting" THEN 1 ELSE 0
  <2>1. CASE stream[s].phase = "waiting"
    <3>1. PICK t : Mine(calls, s) = {t}
      BY <2>1 DEF WInv, Rests
    <3> QED
      BY <2>1, <3>1, FS_Singleton DEF WInv
  <2>2. CASE stream[s].phase # "waiting"
    BY <2>2, FS_EmptySet DEF WInv, Rests
  <2> QED
    BY <2>1, <2>2
<1> QED
  BY <1>1 DEF WInv, WaitsForOneCall, Mine

\* A stream whose request is held back has one callout, which is its own, and no
\* other stream has any, however many streams and deployments there are
\* (http_call, add_call_context, on_http_call_response).
THEOREM HeldForOneCall == Spec => []WaitsForOneCall
<1>1. Init => WInv
  BY InitWaits
<1>2. WInv /\ [Next]_vars => WInv'
  BY StepKeepsWaiting
<1>3. WInv => WaitsForOneCall
  BY OneCallEach
<1> QED
  BY <1>1, <1>2, <1>3, PTL DEF Spec

-----------------------------------------------------------------------------
(* What brightstaff checks keeps the VM from a panic *)

\* The conversation has a user's message, and the last one has content.
Asked(m) == Asks(m) # {} /\ m[Max(Asks(m))] # "nameless"

\* What is known of a callout from what was checked before it was dispatched: a
\* default target is called when brightstaff found that the last message is a user's.
Vetted(callout, m) ==
    /\ callout.handler \in {"ArchFC", "DefaultTarget"} => Asked(m)
    /\ callout.handler = "DefaultTarget" => LastIsUser(m)

Trusted(c) ==
    /\ c.req.messages \in Seq(Message)
    /\ \A t \in DOMAIN c.callouts : Vetted(c.callouts[t], c.req.messages)

\* Every callout was vetted, and none of the unwraps has failed.
TInv == WInv /\ AnswersTrusted /\ \A s \in Contexts : Trusted(stream[s])

\* An outcome that keeps this.
TrustedOutcome(d) ==
    /\ Outcome(d) /\ d.phase \notin {"target", "token", "content"}
    /\ d.req.messages \in Seq(Message)
    /\ d.phase = "calling" => Vetted(d.callouts[1], d.req.messages)

\* A message that is said last by a user, in a conversation that was asked, has content.
LEMMA LastHasContent ==
    ASSUME NEW m \in Seq(Message), Asked(m), LastIsUser(m), NEW given
    PROVE  Last(SystemPrompt(given) \o m) \notin {"nameless", "calls"}
<1>1. m # <<>> /\ Len(m) \in Nat \ {0} /\ DOMAIN m = 1 .. Len(m)
  BY DEF Asked, Asks
<1> DEFINE roles == [i \in DOMAIN m |-> RoleFor(m[i])]
<1>2. roles \in Seq({RoleFor(x) : x \in Message}) /\ Len(roles) = Len(m)
  BY <1>1
<1>3. Last(<<"system">> \o roles) = roles[Len(m)]
  <2> DEFINE R == {"system"} \cup {RoleFor(x) : x \in Message}
  <2>1. <<"system">> \in Seq(R) /\ Len(<<"system">>) = 1 /\ roles \in Seq(R)
    BY <1>2
  <2> HIDE DEF roles, R
  <2> QED
    BY <1>1, <1>2, <2>1 DEF Last
<1>4. RoleFor(m[Len(m)]) = "user" /\ m[Len(m)] \in Message
  BY <1>1, <1>3 DEF LastIsUser, ProcessMessages
<1>5. m[Len(m)] \in {"user", "nameless", "tool", "silent"}
  BY <1>4 DEF RoleFor, Message
<1>6. m[Len(m)] # "nameless"
  <2> SUFFICES ASSUME m[Len(m)] = "nameless" PROVE FALSE
    OBVIOUS
  <2>1. Len(m) \in Asks(m) /\ \A y \in Asks(m) : y \in Nat /\ Len(m) >= y
    BY <1>1 DEF Asks
  <2>2. Max(Asks(m)) = Len(m)
    BY <2>1 DEF Max
  <2> QED
    BY <2>2 DEF Asked
<1>7. Last(SystemPrompt(given) \o m) = m[Len(m)]
  <2> DEFINE p == SystemPrompt(given)
  <2>1. p \in Seq(Message) /\ Len(p) \in Nat
    <3>1. "system" \in Message
      BY DEF Message
    <3>2. <<>> \in Seq(Message) /\ <<"system">> \in Seq(Message)
      BY <3>1
    <3>3. p = <<>> \/ p = <<"system">>
      BY DEF SystemPrompt
    <3> QED
      BY <3>2, <3>3
  <2> HIDE DEF p
  <2> QED
    BY <1>1, <2>1 DEF Last
<1> QED
  BY <1>5, <1>6, <1>7

LEMMA ReplyTrusted ==
    ASSUME NEW c, Free(c), c.req.messages \in Seq(Message), NEW status, NEW body
    PROVE  TrustedOutcome(Reply(c, status, body))
<1> DEFINE d == Reply(c, status, body)
<1>1. Outcome(d)
  BY ReplyOutcome
<1>2. d.phase = "response" /\ d.req = c.req
  BY DEF Reply, Free, IsContext
<1> HIDE DEF d
<1>3. TrustedOutcome(d)
  BY <1>1, <1>2 DEF TrustedOutcome
<1>4. QED BY <1>3 DEF d

LEMMA PanicTrusted ==
    ASSUME NEW c, Free(c), c.req.messages \in Seq(Message),
           NEW why \in Panics \ {"target", "token", "content"}
    PROVE  TrustedOutcome(Panic(c, why))
<1>1. Panic(c, why).phase = why /\ Panic(c, why).req = c.req
  BY DEF Panic, Free, IsContext
<1> QED
  BY <1>1, PanicOutcome DEF TrustedOutcome, Panics

LEMMA ResumeTrusted ==
    ASSUME NEW c, Free(c), c.req.messages \in Seq(Message), NEW m, NEW q, NEW by
    PROVE  TrustedOutcome(Resume(c, m, q, by))
BY ResumeOutcome DEF TrustedOutcome, Resume, Free, IsContext

LEMMA CallTrusted ==
    ASSUME NEW c, Free(c), c.req.messages \in Seq(Message),
           NEW handler \in Handlers, NEW target, NEW refusal,
           handler \in {"ArchFC", "DefaultTarget"} => Asked(c.req.messages),
           handler = "DefaultTarget" => LastIsUser(c.req.messages),
           NEW d \in HttpCall(c, handler, target, refusal)
    PROVE  TrustedOutcome(d)
<1>1. CASE d = Reply(c, refusal, "text")
  BY <1>1, ReplyTrusted
<1>2. CASE d = [c EXCEPT !.phase = "calling", !.callouts = <<[handler |-> handler, target |-> target]>>]
  <2>1. d.phase = "calling" /\ d.req = c.req /\ d.callouts[1].handler = handler
    BY <1>2 DEF Free, IsContext
  <2> QED
    BY <2>1, CallOutcome DEF TrustedOutcome, Vetted
<1> QED
  BY <1>1, <1>2 DEF HttpCall

LEMMA RequestReadTrusted ==
    ASSUME NEW c, Free(c), c.req.body \in {"empty", "malformed", "json"},
           c.req.messages \in Seq(Message), NEW d \in RequestRead(c)
    PROVE  TrustedOutcome(d)
<1> DEFINE c1 == [c EXCEPT !.streaming = c.req.stream]
           m  == c.req.messages
<1>1. Free(c1) /\ c1.req = c.req
  BY DEF Free, IsContext
<1>2. TrustedOutcome(Panic(c, "state"))
  BY PanicTrusted DEF Panics
<1>3. CASE c.req.body = "empty"
  BY <1>3, ResumeTrusted DEF RequestRead
<1>4. CASE c.req.body = "malformed"
  BY <1>4, ReplyTrusted DEF RequestRead
<1>5. CASE c.req.body = "json" /\ c.req.state
  BY <1>2, <1>5 DEF RequestRead
<1>6. CASE c.req.body = "json" /\ ~c.req.state /\ Asks(m) = {}
  BY <1>1, <1>6, ResumeTrusted DEF RequestRead
<1>7. CASE c.req.body = "json" /\ ~c.req.state /\ Asks(m) # {}
  <2>1. RequestRead(c) = IF m[Max(Asks(m))] = "nameless" THEN {Reply(c1, "500", "text")}
                         ELSE HttpCall(c1, "ArchFC", NoTarget, "500")
    BY <1>7 DEF RequestRead
  <2> HIDE DEF c1
  <2>2. CASE m[Max(Asks(m))] = "nameless"
    BY <1>1, <2>1, <2>2, ReplyTrusted
  <2>3. CASE m[Max(Asks(m))] # "nameless"
    BY <1>1, <1>7, <2>1, <2>3, CallTrusted DEF Asked, Handlers
  <2> QED
    BY <2>2, <2>3
<1> QED
  BY <1>3, <1>4, <1>5, <1>6, <1>7

\* An answer of brightstaff's to a conversation names a target in its first call,
\* and means nothing only when the last message is a user's.
LEMMA AnswerVerified ==
    ASSUME NEW m, NEW reply, reply.calls = NoCalls \/ 1 \in DOMAIN reply.calls,
           NEW answer, answer = FunctionCallingChatHandler(m, Tools, "string", reply)
    PROVE  /\ answer.calls # NoCalls => answer.calls[1].name \in DOMAIN Targets
           /\ ~CheckIntentMatched(answer) => LastIsUser(m)
<1> DEFINE message == FunctionCallingChat(m, Tools, FALSE, reply)
           parsed == ParseModelResponse(reply)
<1>1. answer.content = message.content /\ answer.calls = message.calls
  BY DEF FunctionCallingChatHandler, UseAgentOrchestrator
<1>2. parsed.calls = NoCalls \/ 1 \in DOMAIN parsed.calls
  BY DEF ParseModelResponse, FixJsonString, NoCalls
<1>3. CASE message = Failure
  <2>1. Failure.content # "" /\ Failure.calls = NoCalls
    BY DEF Failure
  <2> HIDE DEF message
  <2> QED
    BY <1>1, <1>3, <2>1 DEF CheckIntentMatched
<1>4. CASE LastIsUser(m) /\ message = ModelMessage(parsed, Tools, FALSE)
  <2> HIDE DEF parsed, message
  <2>1. \/ message.calls = NoCalls
        \/ message.calls = parsed.calls /\ VerifyToolCalls(Tools, parsed.calls) /\ parsed.calls # NoCalls
    BY <1>4 DEF ModelMessage, NothingMeant, AskUser, FunctionsCalled
  <2>2. DOMAIN Tools = DOMAIN Targets
    BY DEF Tools
  <2> QED
    BY <1>1, <1>2, <1>4, <2>1, <2>2 DEF VerifyToolCalls
<1> QED
  BY <1>3, <1>4 DEF FunctionCallingChat

LEMMA ArchFcTrusted ==
    ASSUME NEW c, Free(c), c.req.messages \in Seq(Message), Asked(c.req.messages), NEW answer,
           answer.calls # NoCalls => answer.calls[1].name \in DOMAIN Targets,
           ~CheckIntentMatched(answer) => LastIsUser(c.req.messages),
           NEW d \in ArchFcResponseHandler(c, answer)
    PROVE  TrustedOutcome(d)
<1> DEFINE c1 == [c EXCEPT !.calls = answer.calls]
           m == c.req.messages
<1>1. Free(c1) /\ c1.req = c.req /\ c1.calls = answer.calls
  BY DEF Free, IsContext
<1>2. CASE ~CheckIntentMatched(answer) /\ DefaultTargets # {}
  <2>1. PICK n \in DefaultTargets : d \in HttpCall(c, "DefaultTarget", n, "400")
    BY <1>2 DEF ArchFcResponseHandler, CheckIntentMatched
  <2> QED
    BY <1>2, <2>1, CallTrusted DEF Handlers
<1>3. CASE ~CheckIntentMatched(answer) /\ DefaultTargets = {}
  BY <1>3, ResumeTrusted DEF ArchFcResponseHandler, CheckIntentMatched
<1>4. CASE CheckIntentMatched(answer) /\ answer.calls = NoCalls
  BY <1>4, ReplyTrusted DEF ArchFcResponseHandler
<1>5. CASE answer.calls # NoCalls /\ Configs[config].orchestrator
  BY <1>1, <1>5, ResumeTrusted DEF ArchFcResponseHandler, CheckIntentMatched
<1>6. CASE answer.calls # NoCalls /\ ~Configs[config].orchestrator
  <2>1. d \in ScheduleApiCallRequest(c1)
    BY <1>6 DEF ArchFcResponseHandler, CheckIntentMatched
  <2> HIDE DEF c1
  <2>2. \/ d = Reply(c1, "400", "text") \/ d \in HttpCall(c1, "FunctionCall", c1.calls[1].name, "400")
    BY <1>1, <1>6, <2>1 DEF ScheduleApiCallRequest
  <2> QED
    BY <1>1, <2>2, ReplyTrusted, CallTrusted DEF Handlers
<1> QED
  BY <1>2, <1>3, <1>4, <1>5, <1>6 DEF CheckIntentMatched

LEMMA ApiCallTrusted ==
    ASSUME NEW c, Free(c), c.req.messages \in Seq(Message), NEW target, NEW answer
    PROVE  TrustedOutcome(ApiCallResponseHandler(c, target, answer))
<1> DEFINE c1 == [c EXCEPT !.result = answer.body]
           d == ApiCallResponseHandler(c, target, answer)
           messages == ConstructLlmMessages(c.req.messages, target)
<1>1. Free(c1) /\ c1.req = c.req
  BY DEF Free, IsContext
<1>2. \/ d = Reply(c, answer.status, "text") \/ d = Reply(c1, "500", "text") \/ d = Reply(c1, "200", "result")
      \/ d = Resume(c1, Front(messages) \o <<"user">>, Last(messages), "function")
      \/ d = Panic(c, "utf8")
  BY DEF ApiCallResponseHandler
<1>3. "utf8" \in Panics \ {"target", "token", "content"}
  BY DEF Panics
<1> HIDE DEF c1, d, messages
<1> QED
  BY <1>1, <1>2, <1>3, ReplyTrusted, ResumeTrusted, PanicTrusted DEF d

LEMMA DefaultTargetTrusted ==
    ASSUME NEW c, Free(c), c.req.messages \in Seq(Message), NEW target, NEW answer,
           Asked(c.req.messages), LastIsUser(c.req.messages)
    PROVE  TrustedOutcome(DefaultTargetHandler(c, target, answer))
<1> DEFINE d == DefaultTargetHandler(c, target, answer)
           messages == SystemPrompt(Targets[target].system) \o c.req.messages
<1>1. Last(messages) \notin {"nameless", "calls"}
  BY LastHasContent
<1>2. \/ d = Reply(c, "500", "text") \/ d = Reply(c, "200", "answer")
      \/ \E why \in {"utf8", "completion", "silent"} : d = Panic(c, why)
      \/ d = Resume(c, Front(messages) \o <<"user">>, Last(messages), "default")
  BY <1>1 DEF DefaultTargetHandler
<1>3. {"utf8", "completion", "silent"} \subseteq Panics \ {"target", "token", "content"}
  BY DEF Panics
<1> HIDE DEF d, messages
<1> QED
  BY <1>2, <1>3, ReplyTrusted, ResumeTrusted, PanicTrusted DEF d

LEMMA ClosedTrusted == Trusted(Closed)
<1> DEFINE c == NewContext(NoRequest)
<1>1. Free(c) /\ c.req = NoRequest
  BY DEF NewContext, Free, IsContext, NothingGot
<1> HIDE DEF c
<1>2. Closed = [c EXCEPT !.phase = "closed"]
  BY DEF Closed, c
<1>3. Closed.req = NoRequest /\ NoRequest.messages \in Seq(Message)
  BY <1>1, <1>2 DEF Free, IsContext, NoRequest
<1> QED
  BY <1>3, ClosedRests DEF Trusted, Free

LEMMA SettleKeepsTrust ==
    ASSUME TInv, NEW s \in Contexts, NEW c, TrustedOutcome(c), NEW held, NEW active,
           Without(s, held, active), Settle(s, c, held, active), UNCHANGED config
    PROVE  TInv'
<1>1. WInv'
  BY SettleKeeps DEF TInv, TrustedOutcome
<1>2. AnswersTrusted'
  BY DEF Settle, TInv, TrustedOutcome, AnswersTrusted
<1>3. ASSUME NEW x \in Contexts PROVE Trusted(stream'[x])
  <2>1. CASE c.phase \in Panics
    <3>1. stream'[x] = Closed
      BY <2>1 DEF Settle, Panics
    <3> QED
      BY <3>1, ClosedTrusted
  <2>2. CASE c.phase = "calling"
    <3>1. PICK t : Becomes(s, [c EXCEPT !.phase = "waiting", !.callouts = [y \in {t} |-> @[1]]])
      BY <2>2 DEF Settle, Panics
    <3> DEFINE e == [c EXCEPT !.phase = "waiting", !.callouts = [y \in {t} |-> @[1]]]
    <3>2. e.req = c.req /\ DOMAIN e.callouts = {t} /\ e.callouts[t] = c.callouts[1]
      BY DEF TrustedOutcome, Outcome, IsContext
    <3>3. Trusted(e)
      BY <2>2, <3>2 DEF Trusted, TrustedOutcome
    <3> HIDE DEF e
    <3> QED
      BY <3>1, <3>3 DEF Becomes, TInv, WInv, e
  <2>3. CASE c.phase \in {"upstream", "response"}
    <3>1. Becomes(s, c)
      BY <2>3 DEF Settle, Panics
    <3>2. Trusted(c)
      BY <2>3 DEF TrustedOutcome, Outcome, Free, Trusted, Panics
    <3> QED
      BY <3>1, <3>2 DEF Becomes, TInv, WInv
  <2> QED
    BY <2>1, <2>2, <2>3 DEF TrustedOutcome, Outcome
<1> QED
  BY <1>1, <1>2, <1>3 DEF TInv, Trusted

\* The steps that change no callout and no request.
LEMMA OtherKeepsTrust ==
    ASSUME TInv, NEW s \in Contexts, WInv',
           \/ Open(s) \/ OnRequestHeaders(s) \/ OnLlmAnswer(s) \/ Done(s)
    PROVE  TInv'
<1>1. PICK c : Becomes(s, c) /\ Trusted(c)
  <2>1. CASE Open(s)
    <3>1. PICK r \in Requests[config] : Becomes(s, NewContext(r))
      BY <2>1 DEF Open
    <3>2. r.messages \in Seq(Message)
      BY PromptGatewayAssumption DEF TInv, WInv
    <3> QED
      BY <3>1, <3>2 DEF NewContext, Trusted
  <2>2. CASE OnRequestHeaders(s)
    <3> DEFINE c == stream[s]
               d == [c EXCEPT !.phase = "body", !.chat = c.req.path = "chat"]
    <3>1. Free(c) /\ c.req.messages \in Seq(Message)
      BY <2>2, RestingStreams DEF OnRequestHeaders, TInv, Trusted
    <3>2. Trusted(d) /\ \A status, body : Trusted(Reply(c, status, body))
      BY <3>1 DEF Trusted, Reply, Free, IsContext
    <3>3. \/ Becomes(s, d) \/ Becomes(s, Reply(c, "500", "text")) \/ Becomes(s, Reply(c, "200", "empty"))
      BY <2>2 DEF OnRequestHeaders
    <3> QED
      BY <3>2, <3>3
  <2>3. CASE OnLlmAnswer(s)
    <3>1. Free(stream[s]) /\ stream[s].req.messages \in Seq(Message)
      BY <2>3, RestingStreams DEF OnLlmAnswer, TInv, Trusted
    <3>2. PICK status :
             Becomes(s, [stream[s] EXCEPT !.phase = "response", !.got.status = status, !.reply = "llm"])
      BY <2>3 DEF OnLlmAnswer
    <3>3. Trusted([stream[s] EXCEPT !.phase = "response", !.got.status = status, !.reply = "llm"])
      BY <3>1 DEF Trusted, Free, IsContext
    <3> QED
      BY <3>2, <3>3
  <2>4. CASE Done(s)
    BY <2>4, ClosedTrusted DEF Done
  <2> QED
    BY <2>1, <2>2, <2>3, <2>4
<1>2. AnswersTrusted'
  BY DEF Open, OnRequestHeaders, OnLlmAnswer, Done, TInv, AnswersTrusted
<1>3. \A x \in Contexts : Trusted(stream'[x])
  BY <1>1 DEF Becomes, TInv, WInv
<1> QED
  BY <1>2, <1>3 DEF TInv, Trusted

LEMMA RequestBodyKeepsTrust ==
    ASSUME TInv, NEW s \in Contexts, OnRequestBody(s)
    PROVE  TInv'
<1>1. Free(stream[s]) /\ stream[s].req.body \in {"empty", "malformed", "json"}
      /\ Without(s, calls, gauge) /\ stream[s].req.messages \in Seq(Message)
  BY RestingStreams DEF OnRequestBody, TInv, Trusted
<1>2. PICK c \in RequestRead(stream[s]) : Settle(s, c, calls, gauge)
  BY DEF OnRequestBody
<1> QED
  BY <1>1, <1>2, RequestReadTrusted, SettleKeepsTrust DEF OnRequestBody

\* The panics of a result that is missing and of metadata that are no object are
\* none of these.
LEMMA BodyTrusted ==
    ASSUME NEW c, Free(c), c.phase = "response", c.req.messages \in Seq(Message), NEW part
    PROVE  TrustedOutcome(ResponseBody(c, part))
<1>1. Free(StreamedPart(c)) /\ StreamedPart(c).phase = "response" /\ StreamedPart(c).req = c.req
  BY DEF StreamedPart, Free, IsContext
<1>2. /\ Free(WholePart(c, part)) /\ WholePart(c, part).req = c.req
      /\ WholePart(c, part).phase \in {"response", "result", "metadata"}
  BY DEF WholePart, Panic, Free, IsContext
<1> DEFINE c1 == IF ~c.chat \/ part \in {"nothing", "cut"} THEN c
                 ELSE IF c.streaming THEN StreamedPart(c) ELSE WholePart(c, part)
<1>3. Free(c1) /\ c1.phase \in {"response", "result", "metadata"} /\ c1.req = c.req
  BY <1>1, <1>2
<1>4. ResponseBody(c, part)
        = IF part = "nothing" THEN c1
          ELSE [c1 EXCEPT !.got.parts = @ + 1, !.got.body = part,
                             !.got.texts = @ + (IF part = "cut" THEN 0 ELSE 1)]
  BY DEF ResponseBody
<1> HIDE DEF c1
<1>5. ResponseBody(c, part).phase = c1.phase /\ ResponseBody(c, part).req = c1.req
  BY <1>3, <1>4 DEF Free, IsContext
<1>6. Outcome(ResponseBody(c, part))
  BY BodyOutcome
<1> QED
  BY <1>3, <1>5, <1>6 DEF TrustedOutcome

LEMMA ResponseKeepsTrust ==
    ASSUME TInv, NEW s \in Contexts, OnResponseBody(s) \/ OnReplyBody(s)
    PROVE  TInv'
<1>1. Free(stream[s]) /\ stream[s].phase = "response" /\ Without(s, calls, gauge)
      /\ stream[s].req.messages \in Seq(Message) /\ UNCHANGED config
  BY RestingStreams DEF OnResponseBody, OnReplyBody, TInv, Trusted
<1>2. PICK c, part : /\ Free(c) /\ c.phase = "response" /\ c.req = stream[s].req
                     /\ Settle(s, ResponseBody(c, part), calls, gauge)
  <2>1. CASE OnResponseBody(s)
    BY <1>1, <2>1 DEF OnResponseBody
  <2>2. CASE OnReplyBody(s)
    <3> DEFINE c    == stream[s]
               base == IF c.reply = "result" THEN [c EXCEPT !.got.results = 1] ELSE c
    <3>1. Free(base) /\ base.phase = "response" /\ base.req = c.req
      BY <1>1 DEF Free, IsContext
    <3>2. PICK part : Settle(s, ResponseBody(base, part), calls, gauge)
      BY <2>2 DEF OnReplyBody
    <3> HIDE DEF base
    <3> QED
      BY <3>1, <3>2
  <2> QED
    BY <2>1, <2>2
<1> QED
  BY <1>1, <1>2, BodyTrusted, SettleKeepsTrust

LEMMA CallResponseKeepsTrust ==
    ASSUME TInv, NEW s \in Contexts, OnHttpCallResponse(s)
    PROVE  TInv'
<1> DEFINE context(t) == [stream[s] EXCEPT !.callouts = Restrict(@, DOMAIN @ \ {t})]
<1>1. PICK t \in DOMAIN calls :
         LET outcomes == IF t \in DOMAIN stream[s].callouts
                         THEN UNION {CallResponse(context(t), stream[s].callouts[t], a) :
                                       a \in Answers(context(t), stream[s].callouts[t].handler)}
                         ELSE {Panic(context(t), "token")}
         IN  /\ calls[t] = s
             /\ \E d \in outcomes : Settle(s, d, Restrict(calls, DOMAIN calls \ {t}), gauge - 1)
  BY DEF OnHttpCallResponse
<1>2. /\ DOMAIN stream[s].callouts = {t} /\ stream[s].callouts[t].handler \in Handlers
      /\ Free(context(t)) /\ Without(s, Restrict(calls, DOMAIN calls \ {t}), gauge - 1)
  BY <1>1, CalloutAnswered DEF TInv
<1> DEFINE callout == stream[s].callouts[t]
           c == context(t)
           m == c.req.messages
<1>3. m = stream[s].req.messages /\ m \in Seq(Message) /\ Vetted(callout, m)
  BY <1>2 DEF TInv, Trusted, WInv, Rests, IsContext
<1> DEFINE held == Restrict(calls, DOMAIN calls \ {t})
<1>4. PICK a \in Answers(c, callout.handler) : \E d \in CallResponse(c, callout, a) :
         Settle(s, d, held, gauge - 1)
  BY <1>1, <1>2
<1>5. PICK d \in CallResponse(c, callout, a) : Settle(s, d, held, gauge - 1)
  BY <1>4
<1>6. TrustedOutcome(d)
  <2> HIDE DEF c, callout
  <2>1. \/ d = Reply(c, a.status, "text") \/ d = Reply(c, "500", "text") \/ d = Panic(c, "utf8")
        \/ /\ callout.handler = "ArchFC" /\ a.body = "answer" /\ d \in ArchFcResponseHandler(c, a)
        \/ d = ApiCallResponseHandler(c, callout.target, a)
        \/ callout.handler = "DefaultTarget" /\ d = DefaultTargetHandler(c, callout.target, a)
    BY <1>2, <1>5 DEF CallResponse, Handlers, callout
  <2>2. CASE callout.handler = "ArchFC" /\ a.body = "answer" /\ d \in ArchFcResponseHandler(c, a)
    <3>1. PICK r \in Replies[config] : a = FunctionCallingChatHandler(m, Tools, "string", r)
      BY <1>4, <2>2 DEF Answers
    <3>2. r.calls = NoCalls \/ 1 \in DOMAIN r.calls
      BY PromptGatewayAssumption DEF TInv, WInv
    <3> QED
      BY <1>2, <1>3, <2>2, <3>1, <3>2, AnswerVerified, ArchFcTrusted DEF Vetted, c
  <2>3. CASE callout.handler = "DefaultTarget" /\ d = DefaultTargetHandler(c, callout.target, a)
    BY <1>2, <1>3, <2>3, DefaultTargetTrusted DEF Vetted, c
  <2>4. "utf8" \in Panics \ {"target", "token", "content"}
    BY DEF Panics
  <2> QED
    BY <1>2, <1>3, <2>1, <2>2, <2>3, <2>4, ReplyTrusted, ApiCallTrusted, PanicTrusted DEF c
<1> QED
  BY <1>2, <1>5, <1>6, SettleKeepsTrust DEF OnHttpCallResponse

LEMMA InitTrusts == Init => TInv
<1> SUFFICES ASSUME Init PROVE TInv
  OBVIOUS
<1>1. \A s \in Contexts : stream[s] = Closed
  BY DEF Init
<1> QED
  BY <1>1, InitWaits, ClosedTrusted DEF Init, TInv, AnswersTrusted

LEMMA StepKeepsTrust == TInv /\ [Next]_vars => TInv'
<1> SUFFICES ASSUME TInv, [Next]_vars PROVE TInv'
  OBVIOUS
<1>1. WInv'
  BY StepKeepsWaiting DEF TInv
<1>2. CASE UNCHANGED vars
  BY <1>1, <1>2 DEF vars, TInv, AnswersTrusted, Trusted
<1>3. ASSUME NEW s \in Contexts,
             \/ Open(s) \/ OnRequestHeaders(s) \/ OnRequestBody(s) \/ OnHttpCallResponse(s)
             \/ OnLlmAnswer(s) \/ OnResponseBody(s) \/ OnReplyBody(s) \/ Done(s)
      PROVE  TInv'
  BY <1>1, <1>3, OtherKeepsTrust, RequestBodyKeepsTrust, CallResponseKeepsTrust, ResponseKeepsTrust
<1> QED
  BY <1>2, <1>3 DEF Next

\* Whatever is configured and whatever Arch-Function writes, what brightstaff lets
\* through names a prompt target and belongs to a callout of the stream, and a
\* default target's answer never goes into a user's or an assistant's message
\* without content: none of these three unwraps panics the VM
\* (schedule_api_call_request, on_http_call_response, default_target_handler;
\* verify_tool_calls, process_messages).  It says nothing of the unwraps that
\* nobody's check guards: of a tool's message without content, and of what
\* clients, the targets' endpoints and the LLM send.
THEOREM AnswersDoNotPanic == Spec => []AnswersTrusted
<1>1. Init => TInv
  BY InitTrusts
<1>2. TInv /\ [Next]_vars => TInv'
  BY StepKeepsTrust
<1>3. TInv => AnswersTrusted
  BY DEF TInv
<1> QED
  BY <1>1, <1>2, <1>3, PTL DEF Spec

-----------------------------------------------------------------------------
(* The function's result reaches the client once *)

\* Nothing has been given to the client, and no result has come.
Fresh(c) == c.got = NothingGot /\ c.reply # "llm" /\ c.result = "none"

\* The LLM is sent a conversation with the result of a call, or without a call
\* that has one.
Handed(c) ==
    /\ c.sent.by = "function" => c.calls # NoCalls /\ c.result # "none"
    /\ c.sent.by # "function" => c.calls = NoCalls \/ c.result = "none"

\* ResultOnce of a stream the LLM answers.
OnceIn(c) ==
    c.got.results = IF /\ c.chat /\ c.sent.by = "function"
                       /\ IF c.streaming THEN c.got.texts > 0 ELSE c.got.body = "object"
                    THEN 1 ELSE 0

\* The calls are kept until the result has been given with them, in a stream,
\* and for good in an answer that is read whole.
Given(c) ==
    /\ c.got.parts \in Nat /\ c.got.texts \in Nat /\ OnceIn(c)
    /\ c.sent.by = "function" => c.result # "none"
    /\ c.sent.by # "function" => c.calls = NoCalls \/ c.result = "none"
    /\ c.sent.by = "function" =>
          (c.calls = NoCalls <=> c.chat /\ c.streaming /\ c.got.texts > 0)

\* What is known in each phase; `handlers' are those of its callouts.
Progress(c, handlers) ==
    /\ c.phase \in {"closed", "headers", "body", "waiting", "calling"} => Fresh(c)
    /\ c.phase \in {"headers", "body"} => c.calls = NoCalls
    /\ c.phase \in {"waiting", "calling"} =>
          \A h \in handlers : c.calls = NoCalls <=> h # "FunctionCall"
    /\ c.phase = "upstream" => c.got = NothingGot /\ c.reply # "llm" /\ Handed(c)
    /\ c.phase = "response" /\ c.reply = "llm" => Given(c)

HandlersOf(c) == {c.callouts[t].handler : t \in DOMAIN c.callouts}

RInv == WInv /\ \A s \in Contexts : Progress(stream[s], HandlersOf(stream[s]))

ProgressOutcome(d) == Outcome(d) /\ Progress(d, {d.callouts[1].handler})

LEMMA ReplyProgress ==
    ASSUME NEW c, Free(c), NEW status, NEW body, body # "llm", NEW handlers
    PROVE  ProgressOutcome(Reply(c, status, body)) /\ Progress(Reply(c, status, body), handlers)
<1> DEFINE d == Reply(c, status, body)
<1>1. Outcome(d)
  BY ReplyOutcome
<1>2. d.phase = "response" /\ d.reply = body
  BY DEF Reply, Free, IsContext
<1> HIDE DEF d
<1>3. \A hs : Progress(d, hs)
  BY <1>2 DEF Progress
<1>4. ProgressOutcome(d) /\ Progress(d, handlers)
  BY <1>1, <1>3 DEF ProgressOutcome
<1>5. QED BY <1>4 DEF d

LEMMA ResumeProgress ==
    ASSUME NEW c, Free(c), c.got = NothingGot, c.reply # "llm", NEW m, NEW q, NEW by,
           by = "function" => c.calls # NoCalls /\ c.result # "none",
           by # "function" => c.calls = NoCalls \/ c.result = "none"
    PROVE  ProgressOutcome(Resume(c, m, q, by))
<1> DEFINE d == Resume(c, m, q, by)
<1>1. /\ d.phase = "upstream" /\ d.got = c.got /\ d.reply = c.reply /\ d.calls = c.calls
      /\ d.result = c.result /\ d.sent.by = by
  BY DEF Resume, Free, IsContext
<1> QED
  BY <1>1, ResumeOutcome DEF ProgressOutcome, Progress, Handed

LEMMA PanicProgress ==
    ASSUME NEW c, Free(c), NEW why \in Panics
    PROVE  ProgressOutcome(Panic(c, why))
<1>1. Panic(c, why).phase = why
  BY DEF Panic, Free, IsContext
<1> QED
  BY <1>1, PanicOutcome DEF ProgressOutcome, Progress, Panics

LEMMA CallProgress ==
    ASSUME NEW c, Free(c), Fresh(c), NEW handler \in Handlers, NEW target, NEW refusal,
           c.calls = NoCalls <=> handler # "FunctionCall",
           NEW d \in HttpCall(c, handler, target, refusal), refusal # "llm"
    PROVE  ProgressOutcome(d)
<1>1. CASE d = Reply(c, refusal, "text")
  BY <1>1, ReplyProgress
<1>2. CASE d = [c EXCEPT !.phase = "calling", !.callouts = <<[handler |-> handler, target |-> target]>>]
  <2>1. /\ d.phase = "calling" /\ d.got = c.got /\ d.reply = c.reply /\ d.result = c.result
        /\ d.calls = c.calls /\ d.callouts[1].handler = handler
    BY <1>2 DEF Free, IsContext
  <2> QED
    BY <2>1, CallOutcome DEF ProgressOutcome, Progress, Fresh
<1> QED
  BY <1>1, <1>2 DEF HttpCall

LEMMA RequestReadProgress ==
    ASSUME NEW c, Free(c), Fresh(c), c.calls = NoCalls,
           c.req.body \in {"empty", "malformed", "json"}, NEW d \in RequestRead(c)
    PROVE  ProgressOutcome(d)
<1> DEFINE c1 == [c EXCEPT !.streaming = c.req.stream]
           m  == c.req.messages
<1>1. Free(c1) /\ Fresh(c1) /\ c1.calls = NoCalls
  BY DEF Free, Fresh, IsContext
<1>2. CASE c.req.body = "empty"
  BY <1>2, ResumeProgress DEF RequestRead, Fresh
<1>3. CASE c.req.body = "malformed"
  BY <1>3, ReplyProgress DEF RequestRead
<1>4. CASE c.req.body = "json" /\ c.req.state
  BY <1>4, PanicProgress DEF RequestRead, Panics
<1>5. CASE c.req.body = "json" /\ ~c.req.state /\ Asks(m) = {}
  BY <1>1, <1>5, ResumeProgress DEF RequestRead, Fresh
<1>6. CASE c.req.body = "json" /\ ~c.req.state /\ Asks(m) # {}
  <2>1. d = Reply(c1, "500", "text") \/ d \in HttpCall(c1, "ArchFC", NoTarget, "500")
    BY <1>6 DEF RequestRead
  <2> HIDE DEF c1
  <2> QED
    BY <1>1, <2>1, ReplyProgress, CallProgress DEF Handlers
<1> QED
  BY <1>2, <1>3, <1>4, <1>5, <1>6

LEMMA ArchFcProgress ==
    ASSUME NEW c, Free(c), Fresh(c), c.calls = NoCalls, NEW answer,
           NEW d \in ArchFcResponseHandler(c, answer)
    PROVE  ProgressOutcome(d)
<1> DEFINE c1 == [c EXCEPT !.calls = answer.calls]
           m == c.req.messages
<1>1. Free(c1) /\ Fresh(c1) /\ c1.calls = answer.calls
  BY DEF Free, Fresh, IsContext
<1>2. CASE ~CheckIntentMatched(answer) /\ DefaultTargets # {}
  <2>1. PICK n \in DefaultTargets : d \in HttpCall(c, "DefaultTarget", n, "400")
    BY <1>2 DEF ArchFcResponseHandler, CheckIntentMatched
  <2> QED
    BY <1>2, <2>1, CallProgress DEF Handlers
<1>3. CASE ~CheckIntentMatched(answer) /\ DefaultTargets = {}
  BY <1>3, ResumeProgress DEF ArchFcResponseHandler, CheckIntentMatched, Fresh
<1>4. CASE CheckIntentMatched(answer) /\ answer.calls = NoCalls
  BY <1>4, ReplyProgress DEF ArchFcResponseHandler
<1>5. CASE answer.calls # NoCalls /\ Configs[config].orchestrator
  <2>1. d = Resume(c1, ConstructLlmMessages(m, answer.calls[1].name), Last(m), "agent")
    BY <1>5 DEF ArchFcResponseHandler, CheckIntentMatched
  <2> HIDE DEF c1
  <2> QED
    BY <1>1, <2>1, ResumeProgress DEF Fresh
<1>6. CASE answer.calls # NoCalls /\ ~Configs[config].orchestrator
  <2>1. d \in ScheduleApiCallRequest(c1)
    BY <1>6 DEF ArchFcResponseHandler, CheckIntentMatched
  <2> HIDE DEF c1
  <2>2. \/ d = Panic(c1, "target") \/ d = Reply(c1, "400", "text")
        \/ d \in HttpCall(c1, "FunctionCall", c1.calls[1].name, "400")
    BY <2>1 DEF ScheduleApiCallRequest
  <2> QED
    BY <1>1, <1>6, <2>2, ReplyProgress, CallProgress, PanicProgress DEF Handlers, Panics
<1> QED
  BY <1>2, <1>3, <1>4, <1>5, <1>6 DEF CheckIntentMatched

LEMMA ApiCallProgress ==
    ASSUME NEW c, Free(c), Fresh(c), c.calls # NoCalls, NEW target, NEW answer,
           answer.body # "none"
    PROVE  ProgressOutcome(ApiCallResponseHandler(c, target, answer))
<1> DEFINE c1 == [c EXCEPT !.result = answer.body]
           d == ApiCallResponseHandler(c, target, answer)
           messages == ConstructLlmMessages(c.req.messages, target)
<1>1. /\ Free(c1) /\ c1.got = NothingGot /\ c1.reply # "llm" /\ c1.calls # NoCalls
      /\ c1.result # "none"
  BY DEF Free, Fresh, IsContext
<1>2. \/ d = Reply(c, answer.status, "text") \/ d = Reply(c1, "500", "text") \/ d = Reply(c1, "200", "result")
      \/ d = Resume(c1, Front(messages) \o <<"user">>, Last(messages), "function")
      \/ d = Panic(c, "utf8")
  BY DEF ApiCallResponseHandler
<1>3. "utf8" \in Panics
  BY DEF Panics
<1> HIDE DEF c1, d
<1> QED
  BY <1>1, <1>2, <1>3, ReplyProgress, ResumeProgress, PanicProgress DEF d

LEMMA DefaultTargetProgress ==
    ASSUME NEW c, Free(c), Fresh(c), c.calls = NoCalls, NEW target, NEW answer
    PROVE  ProgressOutcome(DefaultTargetHandler(c, target, answer))
<1> DEFINE d == DefaultTargetHandler(c, target, answer)
           messages == SystemPrompt(Targets[target].system) \o c.req.messages
<1>1. \/ d = Reply(c, "500", "text") \/ d = Reply(c, "200", "answer")
      \/ \E why \in {"utf8", "completion", "silent", "content"} : d = Panic(c, why)
      \/ d = Resume(c, Front(messages) \o <<"user">>, Last(messages), "default")
  BY DEF DefaultTargetHandler
<1>2. {"utf8", "completion", "silent", "content"} \subseteq Panics
  BY DEF Panics
<1> HIDE DEF d
<1> QED
  BY <1>1, <1>2, ReplyProgress, ResumeProgress, PanicProgress DEF Fresh, d

\* A part of the LLM's answer: the result is added with the first one that is
\* text, or with the whole.
LEMMA BodyProgress ==
    ASSUME NEW c, Free(c), c.phase = "response", c.reply = "llm", Given(c), NEW part,
           c.got.body # "object", part = "object" => c.got.parts = 0
    PROVE  ProgressOutcome(ResponseBody(c, part))
<1> DEFINE d == ResponseBody(c, part)
<1>1. Outcome(d)
  BY BodyOutcome
<1>2. CASE part = "nothing"
  <2>1. d = c
    BY <1>2 DEF ResponseBody
  <2> QED
    BY <1>1, <2>1 DEF ProgressOutcome, Progress
<1> DEFINE Counted(e) ==
             [e EXCEPT !.got.parts = @ + 1, !.got.body = part,
                       !.got.texts = @ + (IF part = "cut" THEN 0 ELSE 1)]
<1>3. ASSUME NEW e, Free(e)
      PROVE  /\ Counted(e).phase = e.phase /\ Counted(e).reply = e.reply
             /\ Counted(e).got.results = e.got.results /\ Counted(e).got.parts = e.got.parts + 1
             /\ Counted(e).got.body = part /\ Counted(e).calls = e.calls
             /\ Counted(e).got.texts = e.got.texts + (IF part = "cut" THEN 0 ELSE 1)
             /\ Counted(e).result = e.result /\ Counted(e).sent = e.sent
             /\ Counted(e).chat = e.chat /\ Counted(e).streaming = e.streaming
  BY <1>3 DEF Free, IsContext
<1> HIDE DEF Counted
<1>4. ASSUME NEW e, Free(e), part # "cut"
      PROVE  Counted(e).got.texts = e.got.texts + 1
  BY <1>3, <1>4
<1>5. CASE part # "nothing" /\ (~c.chat \/ part = "cut")
  <2>1. d = Counted(c)
    BY <1>5 DEF ResponseBody, Counted
  <2>2. Given(Counted(c))
    BY <1>3, <1>5 DEF Given, OnceIn
  <2> QED
    BY <1>1, <1>3, <2>1, <2>2 DEF ProgressOutcome, Progress
<1>6. CASE part \notin {"nothing", "cut"} /\ c.chat /\ c.streaming
  <2> DEFINE e == StreamedPart(c)
  <2>1. d = Counted(e)
    BY <1>6 DEF ResponseBody, Counted
  <2>2. /\ Free(e) /\ e.phase = c.phase /\ e.reply = c.reply /\ e.sent = c.sent /\ e.result = c.result
        /\ e.chat = c.chat /\ e.streaming = c.streaming /\ e.got.parts = c.got.parts
        /\ e.calls = NoCalls /\ e.got.texts = c.got.texts
        /\ e.got.results = IF c.calls = NoCalls \/ c.result = "none" THEN c.got.results
                           ELSE c.got.results + 1
    <3>1. c.got.results \in Nat
      BY DEF Given, OnceIn
    <3>2. CASE c.calls = NoCalls
      BY <3>2 DEF StreamedPart
    <3>3. CASE c.calls # NoCalls /\ c.result = "none"
      <4> DEFINE g(n) == [c EXCEPT !.calls = NoCalls, !.got.results = n]
      <4>1. ASSUME NEW n
            PROVE  /\ Free(g(n)) /\ g(n).phase = c.phase /\ g(n).reply = c.reply /\ g(n).sent = c.sent
                   /\ g(n).result = c.result /\ g(n).chat = c.chat /\ g(n).streaming = c.streaming
                   /\ g(n).got.parts = c.got.parts /\ g(n).calls = NoCalls /\ g(n).got.results = n
                   /\ g(n).got.texts = c.got.texts
        BY DEF Free, IsContext
      <4>2. StreamedPart(c) = g(c.got.results + 0)
        BY <3>3 DEF StreamedPart
      <4>3. c.got.results + 0 = c.got.results
        BY <3>1
      <4> HIDE DEF g
      <4> QED
        BY <3>3, <4>1, <4>2, <4>3
    <3>4. CASE c.calls # NoCalls /\ c.result # "none"
      BY <3>4 DEF StreamedPart, Free, IsContext
    <3> QED
      BY <3>2, <3>3, <3>4
  <2> HIDE DEF e
  <2> DEFINE f == Counted(e)
  <2>3. /\ f.sent = c.sent /\ f.result = c.result /\ f.chat = c.chat /\ f.streaming = c.streaming
        /\ f.got.parts = c.got.parts + 1 /\ f.calls = NoCalls /\ f.got.results = e.got.results
        /\ f.phase = c.phase /\ f.reply = c.reply /\ f.got.texts = c.got.texts + 1
    <3>1. Free(e) /\ part # "cut"
      BY <1>6, <2>2
    <3>2. f.got.texts = e.got.texts + 1
      BY <1>4, <3>1
    <3> QED
      BY <1>3, <2>2, <3>2
  <2> HIDE DEF f
  <2>4. c.got.parts \in Nat /\ c.got.parts + 1 \in Nat
       /\ c.got.texts \in Nat /\ c.got.texts + 1 \in Nat /\ c.got.texts + 1 > 0
    BY DEF Given
  <2>5. f.got.results = IF c.sent.by = "function" THEN 1 ELSE 0
    <3>1. CASE c.sent.by = "function" /\ c.got.texts > 0
      BY <1>6, <2>2, <2>3, <3>1 DEF Given, OnceIn
    <3>2. CASE c.sent.by = "function" /\ ~(c.got.texts > 0)
      <4>1. c.got.results = 0
        BY <1>6, <3>2 DEF Given, OnceIn
      <4>2. c.calls # NoCalls /\ c.result # "none"
        BY <3>2 DEF Given
      <4> QED
        BY <2>2, <2>3, <3>2, <4>1, <4>2
    <3>3. CASE c.sent.by # "function"
      BY <2>2, <2>3, <3>3 DEF Given, OnceIn
    <3> QED
      BY <3>1, <3>2, <3>3
  <2>6. Given(f)
    BY <1>6, <2>3, <2>4, <2>5 DEF Given, OnceIn
  <2> QED
    BY <1>1, <2>1, <2>3, <2>6 DEF ProgressOutcome, Progress, f
<1>7. CASE part \notin {"nothing", "cut"} /\ c.chat /\ ~c.streaming
  <2> DEFINE e == WholePart(c, part)
  <2>1. d = Counted(e)
    BY <1>7 DEF ResponseBody, Counted
  <2>2. Free(e) /\ \/ e.phase \in {"result", "metadata"}
                    \/ /\ e.phase = c.phase /\ e.reply = c.reply /\ e.sent = c.sent /\ e.result = c.result
                       /\ e.chat = c.chat /\ e.streaming = c.streaming /\ e.got.parts = c.got.parts
                       /\ e.calls = c.calls /\ e.got.texts = c.got.texts
                       /\ e.got.results = IF c.calls # NoCalls /\ part = "object" THEN c.got.results + 1
                                          ELSE c.got.results
                       /\ c.calls # NoCalls /\ part = "object" => c.result # "none"
    BY DEF WholePart, Panic, Free, IsContext
  <2> HIDE DEF e
  <2>3. CASE e.phase \in {"result", "metadata"}
    BY <1>1, <1>3, <2>1, <2>2, <2>3 DEF ProgressOutcome, Progress
  <2>4. CASE e.phase \notin {"result", "metadata"}
    <3> DEFINE f == Counted(e)
    <3>1. /\ f.sent = c.sent /\ f.result = c.result /\ f.chat = c.chat /\ f.streaming = c.streaming
          /\ f.got.parts = c.got.parts + 1 /\ f.calls = c.calls /\ f.got.results = e.got.results
          /\ f.got.body = part /\ f.phase = c.phase /\ f.reply = c.reply /\ f.got.texts = c.got.texts + 1
      <4>1. Free(e) /\ part # "cut"
        BY <1>7, <2>2
      <4>2. f.got.texts = e.got.texts + 1
        BY <1>4, <4>1
      <4> QED
        BY <1>3, <2>2, <2>4, <4>2
    <3> HIDE DEF f
    <3>2. c.got.parts + 1 \in Nat /\ c.got.texts + 1 \in Nat /\ c.got.results = 0
      BY <1>7 DEF Given, OnceIn
    <3>3. f.got.results = IF c.sent.by = "function" /\ part = "object" THEN 1 ELSE 0
      <4>1. CASE c.calls # NoCalls /\ part = "object"
        BY <2>2, <2>4, <3>1, <3>2, <4>1 DEF Given
      <4>2. CASE ~(c.calls # NoCalls /\ part = "object")
        BY <1>7, <2>2, <2>4, <3>1, <3>2, <4>2 DEF Given
      <4> QED
        BY <4>1, <4>2
    <3>4. Given(f)
      BY <1>7, <3>1, <3>2, <3>3 DEF Given, OnceIn
    <3> QED
      BY <1>1, <2>1, <3>1, <3>4 DEF ProgressOutcome, Progress, f
  <2> QED
    BY <2>3, <2>4
<1> QED
  BY <1>2, <1>5, <1>6, <1>7

\* What passes the callbacks of a reply of the filter's own stays that.
LEMMA ReplyBodyProgress ==
    ASSUME NEW c, Free(c), c.phase = "response", c.reply # "llm", NEW part
    PROVE  ProgressOutcome(ResponseBody(c, part))
<1> DEFINE d == ResponseBody(c, part)
<1>1. Outcome(d)
  BY BodyOutcome
<1>2. /\ Free(StreamedPart(c)) /\ StreamedPart(c).phase = "response" /\ StreamedPart(c).reply = c.reply
      /\ Free(WholePart(c, part)) /\ WholePart(c, part).phase \in {"response", "result", "metadata"}
      /\ WholePart(c, part).reply = c.reply
  BY DEF StreamedPart, WholePart, Panic, Free, IsContext
<1> DEFINE c1 == IF ~c.chat \/ part \in {"nothing", "cut"} THEN c
                 ELSE IF c.streaming THEN StreamedPart(c) ELSE WholePart(c, part)
<1>3. Free(c1) /\ c1.phase \in {"response", "result", "metadata"} /\ c1.reply = c.reply
  BY <1>2
<1>4. d = IF part = "nothing" THEN c1
          ELSE [c1 EXCEPT !.got.parts = @ + 1, !.got.body = part,
                             !.got.texts = @ + (IF part = "cut" THEN 0 ELSE 1)]
  BY DEF ResponseBody
<1> HIDE DEF c1
<1>5. d.phase \in {"response", "result", "metadata"} /\ d.reply = c.reply
  BY <1>3, <1>4 DEF Free, IsContext
<1> QED
  BY <1>1, <1>5 DEF ProgressOutcome, Progress

LEMMA ClosedProgress == Progress(Closed, HandlersOf(Closed))
<1> DEFINE c == NewContext(NoRequest)
<1>1. Free(c) /\ Fresh(c)
  BY DEF NewContext, Free, IsContext, NothingGot, Fresh
<1> HIDE DEF c
<1>2. Closed = [c EXCEPT !.phase = "closed"]
  BY DEF Closed, c
<1>3. Closed.phase = "closed" /\ Fresh(Closed)
  BY <1>1, <1>2 DEF Free, IsContext, Fresh
<1> QED
  BY <1>3 DEF Progress

LEMMA SettleKeepsProgress ==
    ASSUME RInv, NEW s \in Contexts, NEW c, ProgressOutcome(c), NEW held, NEW active,
           Without(s, held, active), Settle(s, c, held, active), UNCHANGED config
    PROVE  RInv'
<1>1. WInv'
  BY SettleKeeps DEF RInv, ProgressOutcome
<1>2. ASSUME NEW x \in Contexts PROVE Progress(stream'[x], HandlersOf(stream'[x]))
  <2>1. CASE c.phase \in Panics
    <3>1. stream'[x] = Closed
      BY <2>1 DEF Settle, Panics
    <3> QED
      BY <3>1, ClosedProgress
  <2>2. CASE c.phase = "calling"
    <3>1. PICK t : Becomes(s, [c EXCEPT !.phase = "waiting", !.callouts = [y \in {t} |-> @[1]]])
      BY <2>2 DEF Settle, Panics
    <3> DEFINE e == [c EXCEPT !.phase = "waiting", !.callouts = [y \in {t} |-> @[1]]]
    <3>2. /\ e.phase = "waiting" /\ e.got = c.got /\ e.reply = c.reply /\ e.result = c.result
          /\ e.calls = c.calls /\ DOMAIN e.callouts = {t} /\ e.callouts[t] = c.callouts[1]
      BY DEF ProgressOutcome, Outcome, IsContext
    <3> HIDE DEF e
    <3>3. Progress(e, HandlersOf(e))
      BY <2>2, <3>2 DEF Progress, ProgressOutcome, HandlersOf, Fresh
    <3> QED
      BY <3>1, <3>3 DEF Becomes, RInv, WInv, e
  <2>3. CASE c.phase \in {"upstream", "response"}
    <3>1. Becomes(s, c)
      BY <2>3 DEF Settle, Panics
    <3>2. Progress(c, HandlersOf(c))
      BY <2>3 DEF ProgressOutcome, Progress
    <3> QED
      BY <3>1, <3>2 DEF Becomes, RInv, WInv
  <2> QED
    BY <2>1, <2>2, <2>3 DEF ProgressOutcome, Outcome
<1> QED
  BY <1>1, <1>2 DEF RInv, Progress, HandlersOf, Fresh, Handed, Given, OnceIn

LEMMA StreamProgress ==
    ASSUME RInv, NEW s \in Contexts, stream[s].phase # "waiting"
    PROVE  /\ Free(stream[s]) /\ Without(s, calls, gauge) /\ Progress(stream[s], HandlersOf(stream[s]))
           /\ stream[s].phase \in {"headers", "body"} =>
                 stream[s].req.body \in {"empty", "malformed", "json"}
BY RestingStreams DEF RInv

\* The steps that make no outcome.
LEMMA OtherKeepsProgress ==
    ASSUME RInv, NEW s \in Contexts, WInv',
           \/ Open(s) \/ OnRequestHeaders(s) \/ OnLlmAnswer(s) \/ Done(s)
    PROVE  RInv'
<1>1. PICK c : Becomes(s, c) /\ Progress(c, HandlersOf(c))
  <2>1. CASE Open(s)
    <3>1. PICK r \in Requests[config] : Becomes(s, NewContext(r))
      BY <2>1 DEF Open
    <3> DEFINE c == NewContext(r)
    <3>2. c.phase = "headers" /\ Fresh(c) /\ c.calls = NoCalls
      BY DEF NewContext, Fresh
    <3> HIDE DEF c
    <3>3. Progress(c, HandlersOf(c))
      BY <3>2 DEF Progress
    <3> QED
      BY <3>1, <3>3 DEF c
  <2>2. CASE OnRequestHeaders(s)
    <3> DEFINE c == stream[s]
               d == [c EXCEPT !.phase = "body", !.chat = c.req.path = "chat"]
    <3>1. Free(c) /\ Fresh(c) /\ c.calls = NoCalls
      BY <2>2, StreamProgress DEF OnRequestHeaders, Progress
    <3>2. d.phase = "body" /\ Fresh(d) /\ d.calls = NoCalls
      BY <3>1 DEF Fresh, Free, IsContext
    <3> HIDE DEF d
    <3>3. Progress(d, HandlersOf(d))
      BY <3>2 DEF Progress
    <3>4. \A status : \A body \in {"text", "empty"} :
             Progress(Reply(c, status, body), HandlersOf(Reply(c, status, body)))
      BY <3>1, ReplyProgress
    <3>5. \/ Becomes(s, d) \/ Becomes(s, Reply(c, "500", "text")) \/ Becomes(s, Reply(c, "200", "empty"))
      BY <2>2 DEF OnRequestHeaders, d
    <3> QED
      BY <3>3, <3>4, <3>5
  <2>3. CASE OnLlmAnswer(s)
    <3> DEFINE c == stream[s]
    <3>1. Free(c) /\ c.got = NothingGot /\ Handed(c)
      BY <2>3, StreamProgress DEF OnLlmAnswer, Progress
    <3>2. PICK status : Becomes(s, [c EXCEPT !.phase = "response", !.got.status = status, !.reply = "llm"])
      BY <2>3 DEF OnLlmAnswer
    <3> DEFINE d == [c EXCEPT !.phase = "response", !.got.status = status, !.reply = "llm"]
    <3>3. /\ d.phase = "response" /\ d.got.parts = c.got.parts /\ d.got.results = c.got.results
          /\ d.got.body = c.got.body /\ d.sent = c.sent /\ d.calls = c.calls /\ d.result = c.result
          /\ d.got.texts = c.got.texts
      BY <3>1 DEF Free, IsContext
    <3> HIDE DEF d
    <3>4. c.got.parts = 0 /\ c.got.results = 0 /\ c.got.body = "none" /\ c.got.texts = 0
      BY <3>1 DEF NothingGot
    <3>5. Given(d)
      BY <3>1, <3>3, <3>4 DEF Given, OnceIn, Handed
    <3>6. Progress(d, HandlersOf(d))
      BY <3>3, <3>5 DEF Progress
    <3> QED
      BY <3>2, <3>6 DEF d
  <2>4. CASE Done(s)
    BY <2>4, ClosedProgress DEF Done
  <2> QED
    BY <2>1, <2>2, <2>3, <2>4
<1>2. \A x \in Contexts : Progress(stream'[x], HandlersOf(stream'[x]))
  BY <1>1 DEF Becomes, RInv, WInv
<1> QED
  BY <1>2 DEF RInv, Progress, HandlersOf, Fresh, Handed, Given, OnceIn

LEMMA RequestBodyKeepsProgress ==
    ASSUME RInv, NEW s \in Contexts, OnRequestBody(s)
    PROVE  RInv'
<1>1. Free(stream[s]) /\ stream[s].req.body \in {"empty", "malformed", "json"}
      /\ Without(s, calls, gauge) /\ Fresh(stream[s]) /\ stream[s].calls = NoCalls
  BY StreamProgress DEF OnRequestBody, Progress
<1>2. PICK c \in RequestRead(stream[s]) : Settle(s, c, calls, gauge)
  BY DEF OnRequestBody
<1> QED
  BY <1>1, <1>2, RequestReadProgress, SettleKeepsProgress DEF OnRequestBody

LEMMA ResponseKeepsProgress ==
    ASSUME RInv, NEW s \in Contexts, OnResponseBody(s) \/ OnReplyBody(s)
    PROVE  RInv'
<1> DEFINE c == stream[s]
<1>1. /\ Free(c) /\ c.phase = "response" /\ Without(s, calls, gauge) /\ UNCHANGED config
      /\ c.reply = "llm" => Given(c)
  BY StreamProgress DEF OnResponseBody, OnReplyBody, Progress
<1>2. CASE OnResponseBody(s)
  <2>1. PICK part : /\ part = "object" => c.got.parts = 0
                    /\ Settle(s, ResponseBody(c, part), calls, gauge)
    BY <1>2 DEF OnResponseBody
  <2>2. c.reply = "llm" /\ c.got.body # "object"
    BY <1>2 DEF OnResponseBody
  <2> QED
    BY <1>1, <2>1, <2>2, BodyProgress, SettleKeepsProgress
<1>3. CASE OnReplyBody(s)
  <2> DEFINE base == IF c.reply = "result" THEN [c EXCEPT !.got.results = 1] ELSE c
  <2>1. Free(base) /\ base.phase = "response" /\ base.reply # "llm"
    <3>1. c.reply # "llm"
      BY <1>3 DEF OnReplyBody
    <3> QED
      BY <1>1, <3>1 DEF Free, IsContext
  <2>2. PICK part : Settle(s, ResponseBody(base, part), calls, gauge)
    BY <1>3 DEF OnReplyBody
  <2> HIDE DEF base
  <2> QED
    BY <1>1, <2>1, <2>2, ReplyBodyProgress, SettleKeepsProgress
<1> QED
  BY <1>2, <1>3

LEMMA CallResponseKeepsProgress ==
    ASSUME RInv, NEW s \in Contexts, OnHttpCallResponse(s)
    PROVE  RInv'
<1> DEFINE context(t) == [stream[s] EXCEPT !.callouts = Restrict(@, DOMAIN @ \ {t})]
<1>1. PICK t \in DOMAIN calls :
         LET outcomes == IF t \in DOMAIN stream[s].callouts
                         THEN UNION {CallResponse(context(t), stream[s].callouts[t], a) :
                                       a \in Answers(context(t), stream[s].callouts[t].handler)}
                         ELSE {Panic(context(t), "token")}
         IN  /\ calls[t] = s
             /\ \E d \in outcomes : Settle(s, d, Restrict(calls, DOMAIN calls \ {t}), gauge - 1)
  BY DEF OnHttpCallResponse
<1> DEFINE callout == stream[s].callouts[t]
           c == context(t)
           held == Restrict(calls, DOMAIN calls \ {t})
<1>2. /\ DOMAIN stream[s].callouts = {t} /\ callout.handler \in Handlers
      /\ Free(c) /\ Without(s, held, gauge - 1)
  BY <1>1, CalloutAnswered DEF RInv
<1>3. stream[s].phase = "waiting"
  BY <1>2 DEF RInv, WInv, Rests
<1>4. Fresh(stream[s]) /\ (stream[s].calls = NoCalls <=> callout.handler # "FunctionCall")
  BY <1>2, <1>3 DEF RInv, Progress, HandlersOf
<1>5. Fresh(c) /\ (c.calls = NoCalls <=> callout.handler # "FunctionCall")
  <2>1. IsContext(stream[s])
    BY DEF RInv, WInv, Rests
  <2>2. c.got = stream[s].got /\ c.reply = stream[s].reply /\ c.result = stream[s].result
        /\ c.calls = stream[s].calls
    BY <2>1 DEF IsContext
  <2> QED
    BY <1>4, <2>2 DEF Fresh
<1>6. PICK a \in Answers(c, callout.handler) : \E d \in CallResponse(c, callout, a) :
         Settle(s, d, held, gauge - 1)
  BY <1>1, <1>2
<1>7. PICK d \in CallResponse(c, callout, a) : Settle(s, d, held, gauge - 1)
  BY <1>6
<1>8. ProgressOutcome(d)
  <2> HIDE DEF c, callout
  <2>1. \/ a.status \notin {"200", "201", "none"} /\ d = Reply(c, a.status, "text")
        \/ d = Reply(c, "500", "text") \/ d = Panic(c, "utf8")
        \/ callout.handler = "ArchFC" /\ d \in ArchFcResponseHandler(c, a)
        \/ callout.handler = "FunctionCall" /\ d = ApiCallResponseHandler(c, callout.target, a)
        \/ callout.handler = "DefaultTarget" /\ d = DefaultTargetHandler(c, callout.target, a)
    BY <1>2, <1>7 DEF CallResponse, Handlers, callout
  <2>2. CASE callout.handler = "ArchFC" /\ d \in ArchFcResponseHandler(c, a)
    BY <1>2, <1>5, <2>2, ArchFcProgress DEF c
  <2>3. CASE callout.handler = "FunctionCall" /\ d = ApiCallResponseHandler(c, callout.target, a)
    <3>1. a.body # "none"
      BY <1>6, <2>3 DEF Answers
    <3> QED
      BY <1>2, <1>5, <2>3, <3>1, ApiCallProgress DEF c
  <2>4. CASE callout.handler = "DefaultTarget" /\ d = DefaultTargetHandler(c, callout.target, a)
    BY <1>2, <1>5, <2>4, DefaultTargetProgress DEF c
  <2>5. "utf8" \in Panics
    BY DEF Panics
  <2> QED
    BY <1>2, <2>1, <2>2, <2>3, <2>4, <2>5, ReplyProgress, PanicProgress DEF c
<1> QED
  BY <1>2, <1>7, <1>8, SettleKeepsProgress DEF OnHttpCallResponse

LEMMA InitProgress == Init => RInv
<1> SUFFICES ASSUME Init PROVE RInv
  OBVIOUS
<1>1. \A s \in Contexts : stream[s] = Closed
  BY DEF Init
<1> QED
  BY <1>1, InitWaits, ClosedProgress DEF RInv

LEMMA StepKeepsProgress == RInv /\ [Next]_vars => RInv'
<1> SUFFICES ASSUME RInv, [Next]_vars PROVE RInv'
  OBVIOUS
<1>1. WInv'
  BY StepKeepsWaiting DEF RInv
<1>2. CASE UNCHANGED vars
  BY <1>1, <1>2 DEF vars, RInv, Progress, HandlersOf, Fresh, Handed, Given, OnceIn
<1>3. ASSUME NEW s \in Contexts,
             \/ Open(s) \/ OnRequestHeaders(s) \/ OnRequestBody(s) \/ OnHttpCallResponse(s)
             \/ OnLlmAnswer(s) \/ OnResponseBody(s) \/ OnReplyBody(s) \/ Done(s)
      PROVE  RInv'
  BY <1>1, <1>3, OtherKeepsProgress, RequestBodyKeepsProgress, CallResponseKeepsProgress,
     ResponseKeepsProgress
<1> QED
  BY <1>2, <1>3 DEF Next

LEMMA ProgressGivesOnce == RInv => ResultOnce
<1> SUFFICES ASSUME RInv, NEW s \in Contexts, stream[s].reply = "llm"
             PROVE  OnceIn(stream[s])
  BY DEF ResultOnce, OnceIn
<1>1. stream[s].phase \in {"closed", "headers", "body", "waiting", "upstream", "response"}
  BY DEF RInv, WInv, Rests
<1> QED
  BY <1>1 DEF RInv, Progress, Fresh, Given

\* Whatever is configured and asked, the result of the function is in what the
\* LLM answers exactly once: with the first part of a stream that is text by
\* itself, or with an answer that is read whole; and in no answer of a stream
\* that called no function, nor before such a part has come: parts cut within a
\* character pass without it (api_call_response_handler, on_http_response_body).
THEOREM ResultReachesOnce == Spec => []ResultOnce
<1>1. Init => RInv
  BY InitProgress
<1>2. RInv /\ [Next]_vars => RInv'
  BY StepKeepsProgress
<1>3. RInv => ResultOnce
  BY ProgressGivesOnce
<1> QED
  BY <1>1, <1>2, <1>3, PTL DEF Spec

-----------------------------------------------------------------------------
(* What the LLM is asked is what the user said *)

\* Induction over the natural numbers: a set of them that is not empty has a
\* least element.
LEMMA LeastNumber ==
    ASSUME NEW T \in SUBSET Nat, T # {}
    PROVE  \E n \in T : \A m \in T : n <= m
<1> DEFINE Below(n) == {m \in Nat : m < n}
           B == {Below(n) : n \in T}
<1>1. ASSUME NEW n \in Nat PROVE IsFiniteSet(Below(n))
  <2>1. Below(n) \in SUBSET Nat /\ \A s \in Below(n) : s <= n
    OBVIOUS
  <2>2. QED BY <2>1, FS_BoundedSetOfNaturals
<1>2. B \subseteq FiniteSubsetsOf(Nat) /\ B # {}
  BY <1>1 DEF FiniteSubsetsOf
<1>3. PICK b \in B : \A y \in B : ~(<<y, b>> \in StrictSubsetOrdering(Nat))
  BY <1>2, FS_StrictSubsetOrderingWellFounded, WFMin
<1>4. PICK n \in T : b = Below(n)
  BY <1>3
<1>5. ASSUME NEW m \in T, m < n PROVE FALSE
  <2>1. Below(m) \in B
    OBVIOUS
  <2>2. Below(m) \subseteq Below(n) /\ Below(m) # Below(n)
    BY <1>5
  <2>3. <<Below(m), b>> \in StrictSubsetOrdering(Nat)
    BY <2>2, <1>4 DEF StrictSubsetOrdering
  <2>4. QED BY <2>1, <2>3, <1>3
<1>6. QED BY <1>5

\* The same as a step from n to n + 1, up to a bound: for the set of the
\* numbers that have a property.
LEMMA UpTo ==
    ASSUME NEW N \in Nat, NEW S, 0 \in S, \A n \in 0..(N - 1) : n \in S => n + 1 \in S
    PROVE  0..N \subseteq S
<1> SUFFICES ASSUME {n \in 0..N : n \notin S} # {} PROVE FALSE
  OBVIOUS
<1> DEFINE T == {k \in 0..N : k \notin S}
<1>1. PICK n \in T : \A m \in T : n <= m
  <2>1. T \in SUBSET Nat /\ T # {}
    OBVIOUS
  <2>2. QED BY <2>1, LeastNumber
<1>2. n # 0 /\ n - 1 \in 0..(N - 1)
  BY <1>1
<1>3. n - 1 \in S
  BY <1>1, <1>2
<1>4. QED BY <1>1, <1>2, <1>3

\* A list and one more.
LEMMA Appended ==
    ASSUME NEW S, NEW s \in Seq(S), NEW e
    PROVE  /\ Append(s, e) \in Seq(S \cup {e})
           /\ DOMAIN s = 1 .. Len(s) /\ Len(s) \in Nat
           /\ DOMAIN Append(s, e) = 1 .. Len(s) + 1
           /\ \A i \in 1 .. Len(s) : Append(s, e)[i] = s[i]
           /\ Append(s, e)[Len(s) + 1] = e
<1>1. s \in Seq(S \cup {e}) /\ e \in S \cup {e}
  OBVIOUS
<1> QED
  BY <1>1

\* A list and its last member.
LEMMA FrontLast ==
    ASSUME NEW S, NEW a \in Seq(S), NEW z \in S
    PROVE  /\ a \o <<z>> \in Seq(S) /\ a \o <<z>> # <<>>
           /\ Front(a \o <<z>>) = a /\ Last(a \o <<z>>) = z
<1> DEFINE s == a \o <<z>>
<1>1. /\ s \in Seq(S) /\ Len(s) = Len(a) + 1 /\ Len(a) \in Nat
      /\ s[Len(a) + 1] = z /\ \A i \in 1..Len(a) : s[i] = a[i]
  OBVIOUS
<1> HIDE DEF s
<1>2. Last(s) = z /\ s # <<>>
  BY <1>1 DEF Last
<1>3. Front(s) = a
  <2>1. Front(s) = SubSeq(s, 1, Len(a))
    BY <1>1 DEF Front
  <2>2. SubSeq(s, 1, Len(a)) \in Seq(S) /\ Len(SubSeq(s, 1, Len(a))) = Len(a)
        /\ \A i \in 1..Len(a) : SubSeq(s, 1, Len(a))[i] = a[i]
    BY <1>1
  <2>3. QED BY <2>1, <2>2
<1>4. QED BY <1>1, <1>2, <1>3 DEF s

LEMMA LastFront ==
    ASSUME NEW S, NEW t \in Seq(S), t # <<>>
    PROVE  Front(t) \in Seq(S) /\ Last(t) \in S /\ t = Front(t) \o <<Last(t)>>
<1>1. Front(t) \in Seq(S) /\ Len(Front(t)) = Len(t) - 1 /\ Len(t) \in Nat \ {0}
      /\ \A i \in 1..(Len(t) - 1) : Front(t)[i] = t[i]
  <2>1. Len(t) \in Nat \ {0} /\ Front(t) = SubSeq(t, 1, Len(t) - 1)
    BY DEF Front
  <2>2. SubSeq(t, 1, Len(t) - 1) \in Seq(S) /\ Len(SubSeq(t, 1, Len(t) - 1)) = Len(t) - 1
        /\ \A i \in 1..(Len(t) - 1) : SubSeq(t, 1, Len(t) - 1)[i] = t[i]
    <3> DEFINE k == Len(t) - 1
    <3>1. k \in Nat /\ k < Len(t) /\ \A i \in 1..k : t[i] \in S
      BY <2>1
    <3> HIDE DEF k
    <3>2. SubSeq(t, 1, k) = [i \in 1..k |-> t[i]]
      BY <3>1
    <3>3. [i \in 1..k |-> t[i]] \in Seq(S) /\ Len([i \in 1..k |-> t[i]]) = k
      BY <3>1
    <3>4. QED BY <3>2, <3>3 DEF k
  <2>3. QED BY <2>1, <2>2
<1>2. Last(t) = t[Len(t)] /\ Last(t) \in S
  BY DEF Last
<1> HIDE DEF Front, Last
<1>3. QED BY <1>1, <1>2

\* The messages of some kinds are taken one by one.
LEMMA OfKindsIs ==
    ASSUME NEW list, Len(list) \in Nat, NEW kinds
    PROVE  \E upTo :
              /\ upTo[0] = <<>> /\ OfKinds(list, kinds) = upTo[Len(list)]
              /\ \A n \in 1..Len(list) :
                    upTo[n] = IF list[n] \in kinds THEN Append(upTo[n - 1], list[n]) ELSE upTo[n - 1]
<1> DEFINE N == Len(list)
           Step(b, n) == IF list[n] \in kinds THEN Append(b, list[n]) ELSE b
           F(g, n) == [k \in 0..n |-> IF k = 0 THEN <<>> ELSE Step(g[k - 1], k)]
           IsAfter(g, n) == g = F(g, n)
           S == {n \in 0..N : \E g : IsAfter(g, n)}
<1>0. N \in Nat
  OBVIOUS
<1>a. OfKinds(list, kinds) = (CHOOSE g : g = F(g, N))[N]
  BY DEF OfKinds
<1> HIDE DEF N, Step
<1>1. 0 \in S
  <2>1. IsAfter([k \in 0..0 |-> <<>>], 0)
    OBVIOUS
  <2>2. \E g : IsAfter(g, 0)
    BY <2>1
  <2>3. QED BY <2>2, <1>0
<1>2. ASSUME NEW n \in 0..(N - 1), n \in S PROVE n + 1 \in S
  <2>1. PICK g : IsAfter(g, n)
    BY <1>2
  <2> DEFINE h == [k \in 0..(n + 1) |-> IF k = n + 1 THEN Step(g[n], n + 1) ELSE g[k]]
  <2>2. ASSUME NEW k \in 0..(n + 1)
        PROVE  h[k] = IF k = 0 THEN <<>> ELSE Step(h[k - 1], k)
    <3>1. CASE k = n + 1
      BY <3>1, <1>0
    <3>2. CASE k \in 0..n
      BY <3>2, <2>1, <1>0
    <3>3. QED BY <3>1, <3>2, <1>0
  <2>3. IsAfter(h, n + 1)
    BY <2>2
  <2>4. \E f : IsAfter(f, n + 1)
    BY <2>3
  <2>5. QED BY <2>4, <1>0
<1>3. N \in S
  <2> HIDE DEF S
  <2>1. 0..N \subseteq S
    BY <1>0, <1>1, <1>2, UpTo
  <2>2. QED BY <2>1, <1>0
<1> DEFINE upTo == CHOOSE g : g = F(g, N)
<1>4. upTo = F(upTo, N)
  <2>1. \E g : g = F(g, N)
    BY <1>3
  <2> HIDE DEF F
  <2>2. QED BY <2>1
<1>5. upTo[0] = <<>> /\ \A n \in 1..N : upTo[n] = Step(upTo[n - 1], n)
  <2> HIDE DEF upTo
  <2>1. QED BY <1>0, <1>4
<1>6. OfKinds(list, kinds) = upTo[N]
  BY <1>a
<1> HIDE DEF upTo
<1>7. QED BY <1>5, <1>6 DEF N, Step

\* One message more is taken if it is of the kinds.
LEMMA OfKindsMore ==
    ASSUME NEW S, NEW a \in Seq(S), NEW z, NEW kinds
    PROVE  OfKinds(Append(a, z), kinds) =
             IF z \in kinds THEN Append(OfKinds(a, kinds), z) ELSE OfKinds(a, kinds)
<1> DEFINE longer == Append(a, z)
           N == Len(a)
<1>1. /\ N \in Nat /\ Len(longer) = N + 1 /\ Len(longer) \in Nat
      /\ \A n \in 1..N : longer[n] = a[n]
      /\ longer[N + 1] = z
  BY Appended
<1> HIDE DEF longer
<1>a. Len(a) \in Nat
  OBVIOUS
<1>2. PICK u : /\ u[0] = <<>> /\ OfKinds(a, kinds) = u[Len(a)]
               /\ \A n \in 1..Len(a) :
                     u[n] = IF a[n] \in kinds THEN Append(u[n - 1], a[n]) ELSE u[n - 1]
  BY <1>a, OfKindsIs
<1>3. PICK v : /\ v[0] = <<>> /\ OfKinds(longer, kinds) = v[Len(longer)]
               /\ \A n \in 1..Len(longer) :
                     v[n] = IF longer[n] \in kinds THEN Append(v[n - 1], longer[n]) ELSE v[n - 1]
  BY <1>1, OfKindsIs
<1> HIDE DEF N
<1>u. u[0] = <<>> /\ OfKinds(a, kinds) = u[N]
      /\ \A n \in 1..N : u[n] = IF a[n] \in kinds THEN Append(u[n - 1], a[n]) ELSE u[n - 1]
  BY <1>2 DEF N
<1>v. v[0] = <<>> /\ OfKinds(longer, kinds) = v[N + 1]
      /\ \A n \in 1..(N + 1) : v[n] = IF longer[n] \in kinds THEN Append(v[n - 1], longer[n]) ELSE v[n - 1]
  BY <1>1, <1>3
<1> DEFINE Same == {n \in 0..N : v[n] = u[n]}
<1>4. 0 \in Same
  BY <1>1, <1>u, <1>v
<1>5. ASSUME NEW n \in 0..(N - 1), n \in Same PROVE n + 1 \in Same
  <2>1. n + 1 \in 1..N /\ n + 1 \in 1..(N + 1) /\ (n + 1) - 1 = n
    BY <1>1
  <2>2. /\ v[n + 1] = IF longer[n + 1] \in kinds THEN Append(v[n], longer[n + 1]) ELSE v[n]
        /\ u[n + 1] = IF a[n + 1] \in kinds THEN Append(u[n], a[n + 1]) ELSE u[n]
    BY <1>u, <1>v, <2>1
  <2>3. QED BY <1>1, <1>5, <2>1, <2>2
<1>6. v[N] = u[N]
  <2> HIDE DEF Same
  <2>1. 0..N \subseteq Same
    BY <1>1, <1>4, <1>5, UpTo
  <2>2. QED BY <1>1, <2>1 DEF Same
<1>7. v[N + 1] = IF z \in kinds THEN Append(v[N], z) ELSE v[N]
  <2>1. N + 1 \in 1..(N + 1) /\ (N + 1) - 1 = N
    BY <1>1
  <2>2. QED BY <1>1, <1>v, <2>1
<1>8. QED BY <1>6, <1>7, <1>u, <1>v DEF longer

\* A message of another kind at the front is left out.
LEMMA OfKindsAfter ==
    ASSUME NEW S, NEW a \in Seq(S), NEW z, NEW kinds, z \notin kinds
    PROVE  OfKinds(<<z>> \o a, kinds) = OfKinds(a, kinds)
<1> DEFINE longer == <<z>> \o a
           N == Len(a)
<1>1. /\ N \in Nat /\ Len(longer) = N + 1 /\ Len(longer) \in Nat
      /\ \A n \in 1..N : longer[n + 1] = a[n]
      /\ longer[1] = z
  <2> DEFINE T == S \cup {z}
  <2>1. <<z>> \in Seq(T) /\ a \in Seq(T) /\ Len(<<z>>) = 1 /\ <<z>>[1] = z
    OBVIOUS
  <2> HIDE DEF T
  <2>2. QED BY <2>1
<1> HIDE DEF longer
<1>a. Len(a) \in Nat
  OBVIOUS
<1>2. PICK u : /\ u[0] = <<>> /\ OfKinds(a, kinds) = u[Len(a)]
               /\ \A n \in 1..Len(a) :
                     u[n] = IF a[n] \in kinds THEN Append(u[n - 1], a[n]) ELSE u[n - 1]
  BY <1>a, OfKindsIs
<1>3. PICK v : /\ v[0] = <<>> /\ OfKinds(longer, kinds) = v[Len(longer)]
               /\ \A n \in 1..Len(longer) :
                     v[n] = IF longer[n] \in kinds THEN Append(v[n - 1], longer[n]) ELSE v[n - 1]
  BY <1>1, OfKindsIs
<1> HIDE DEF N
<1>u. u[0] = <<>> /\ OfKinds(a, kinds) = u[N]
      /\ \A n \in 1..N : u[n] = IF a[n] \in kinds THEN Append(u[n - 1], a[n]) ELSE u[n - 1]
  BY <1>2 DEF N
<1>v. v[0] = <<>> /\ OfKinds(longer, kinds) = v[N + 1]
      /\ \A n \in 1..(N + 1) : v[n] = IF longer[n] \in kinds THEN Append(v[n - 1], longer[n]) ELSE v[n - 1]
  BY <1>1, <1>3
<1> DEFINE Same == {n \in 0..N : v[n + 1] = u[n]}
<1>4. 0 \in Same
  <2>1. 1 \in 1..(N + 1) /\ 1 - 1 = 0 /\ 0 + 1 = 1 /\ 0 \in 0..N
    BY <1>1
  <2>2. v[1] = v[0]
    BY <1>1, <1>v, <2>1
  <2>3. QED BY <1>u, <1>v, <2>1, <2>2
<1>5. ASSUME NEW n \in 0..(N - 1), n \in Same PROVE n + 1 \in Same
  <2>1. n + 1 \in 1..N /\ (n + 1) + 1 \in 1..(N + 1) /\ (n + 1) - 1 = n /\ ((n + 1) + 1) - 1 = n + 1
    BY <1>1
  <2>2. longer[(n + 1) + 1] = a[n + 1]
    BY <1>1, <2>1
  <2>3. /\ v[(n + 1) + 1] = IF longer[(n + 1) + 1] \in kinds
                            THEN Append(v[n + 1], longer[(n + 1) + 1]) ELSE v[n + 1]
        /\ u[n + 1] = IF a[n + 1] \in kinds THEN Append(u[n], a[n + 1]) ELSE u[n]
    BY <1>u, <1>v, <2>1
  <2>4. v[(n + 1) + 1] = u[n + 1]
    BY <1>5, <2>2, <2>3
  <2>5. QED BY <2>1, <2>4, <1>1
<1>6. v[N + 1] = u[N]
  <2> HIDE DEF Same
  <2>1. 0..N \subseteq Same
    BY <1>1, <1>4, <1>5, UpTo
  <2>2. QED BY <1>1, <2>1 DEF Same
<1>8. QED BY <1>6, <1>u, <1>v DEF longer

\* What is taken is of the kinds, and taking from it kinds among them takes
\* what they are.
LEMMA OfKindsIn ==
    ASSUME NEW S, NEW a \in Seq(S), NEW kinds
    PROVE  /\ OfKinds(a, kinds) \in Seq(S \cap kinds)
           /\ \A few : few \subseteq kinds => OfKinds(OfKinds(a, kinds), few) = OfKinds(a, few)
<1> DEFINE N == Len(a)
           T == S \cap kinds
<1>1. N \in Nat /\ \A n \in 1..N : a[n] \in S
  OBVIOUS
<1>2. PICK u : /\ u[0] = <<>> /\ OfKinds(a, kinds) = u[Len(a)]
               /\ \A n \in 1..Len(a) :
                     u[n] = IF a[n] \in kinds THEN Append(u[n - 1], a[n]) ELSE u[n - 1]
  BY <1>1, OfKindsIs
<1> HIDE DEF N
<1>u. u[0] = <<>> /\ OfKinds(a, kinds) = u[N]
      /\ \A n \in 1..N : u[n] = IF a[n] \in kinds THEN Append(u[n - 1], a[n]) ELSE u[n - 1]
  BY <1>2 DEF N
<1> DEFINE In == {n \in 0..N : u[n] \in Seq(T)}
<1>3. 0 \in In
  <2>1. <<>> \in Seq(T) /\ 0 \in 0..N
    BY <1>1
  <2>2. QED BY <1>u, <2>1
<1>4. ASSUME NEW n \in 0..(N - 1), n \in In PROVE n + 1 \in In
  <2>1. n + 1 \in 1..N /\ (n + 1) - 1 = n /\ u[n] \in Seq(T) /\ n + 1 \in 0..N
    BY <1>1, <1>4
  <2>2. u[n + 1] = IF a[n + 1] \in kinds THEN Append(u[n], a[n + 1]) ELSE u[n]
    BY <1>u, <2>1
  <2>3. a[n + 1] \in kinds => Append(u[n], a[n + 1]) \in Seq(T)
    BY <1>1, <2>1
  <2>4. QED BY <2>1, <2>2, <2>3
<1>5. 0..N \subseteq In
  <2> HIDE DEF In
  <2>1. QED BY <1>1, <1>3, <1>4, UpTo
<1>6. u[N] \in Seq(T)
  BY <1>1, <1>5
<1>7. ASSUME NEW few, few \subseteq kinds
      PROVE  OfKinds(u[N], few) = OfKinds(a, few)
  <2>1. PICK w : /\ w[0] = <<>> /\ OfKinds(a, few) = w[Len(a)]
                 /\ \A n \in 1..Len(a) :
                       w[n] = IF a[n] \in few THEN Append(w[n - 1], a[n]) ELSE w[n - 1]
    BY <1>1, OfKindsIs DEF N
  <2>w. w[0] = <<>> /\ OfKinds(a, few) = w[N]
        /\ \A n \in 1..N : w[n] = IF a[n] \in few THEN Append(w[n - 1], a[n]) ELSE w[n - 1]
    BY <2>1 DEF N
  <2> DEFINE Same == {n \in 0..N : OfKinds(u[n], few) = w[n]}
  <2>2. 0 \in Same
    <3>1. Len(<<>>) = 0 /\ Len(<<>>) \in Nat
      OBVIOUS
    <3> DEFINE nil == <<>>
    <3> HIDE DEF nil
    <3>2. PICK x : x[0] = <<>> /\ OfKinds(nil, few) = x[Len(nil)]
      <4>1. Len(nil) \in Nat
        BY <3>1 DEF nil
      <4>2. QED BY <4>1, OfKindsIs
    <3>3. OfKinds(<<>>, few) = <<>>
      BY <3>1, <3>2 DEF nil
    <3>4. 0 \in 0..N
      BY <1>1
    <3>5. QED BY <1>u, <2>w, <3>3, <3>4
  <2>3. ASSUME NEW n \in 0..(N - 1), n \in Same PROVE n + 1 \in Same
    <3>1. n + 1 \in 1..N /\ (n + 1) - 1 = n /\ n + 1 \in 0..N /\ n \in 0..N
      BY <1>1
    <3>2. /\ u[n + 1] = IF a[n + 1] \in kinds THEN Append(u[n], a[n + 1]) ELSE u[n]
          /\ w[n + 1] = IF a[n + 1] \in few THEN Append(w[n], a[n + 1]) ELSE w[n]
      BY <1>u, <2>w, <3>1
    <3>3. u[n] \in Seq(T)
      BY <1>5, <3>1
    <3> DEFINE z == a[n + 1]
               s == u[n]
    <3> HIDE DEF z, s, T
    <3>4. s \in Seq(T)
      BY <3>3 DEF s
    <3>5. OfKinds(Append(s, z), few) = IF z \in few THEN Append(OfKinds(s, few), z) ELSE OfKinds(s, few)
      BY <3>4, OfKindsMore
    <3>6. OfKinds(s, few) = w[n]
      BY <2>3 DEF s
    <3>7. OfKinds(u[n + 1], few) = w[n + 1]
      <4>1. CASE z \in kinds
        BY <3>2, <3>5, <3>6, <4>1 DEF z, s
      <4>2. CASE z \notin kinds
        BY <1>7, <3>2, <3>6, <4>2 DEF z, s
      <4>3. QED BY <4>1, <4>2
    <3>8. QED BY <3>1, <3>7
  <2>4. 0..N \subseteq Same
    <3> HIDE DEF Same
    <3>1. QED BY <1>1, <2>2, <2>3, UpTo
  <2>5. QED BY <1>1, <2>w, <2>4
<1>8. QED BY <1>6, <1>7, <1>u

-----------------------------------------------------------------------------
\* What the LLM is sent says what the user has said (ConversationKept).
Says(asked, sent) ==
    /\ Said(sent.messages) = Said(asked)
    /\ Last(sent.messages) = "user" /\ sent.question = "user"
    /\ sent.by \in {"arch", "agent", "function"} =>
          \A m \in Range(sent.messages) : m \notin {"tool", "calls"}

Spoken(asked, sent) ==
    sent.by \notin {"none", "client"} /\ Last(asked) = "user" => Says(asked, sent)

\* It does, and what a callout is made for has a message.
Kept(c) ==
    /\ Spoken(c.req.messages, c.sent)
    /\ DOMAIN c.callouts # {} => c.req.messages # <<>>

KInv == TInv /\ \A s \in Contexts : Kept(stream[s])

KeptOutcome(d) == Outcome(d) /\ Kept(d) /\ (d.phase = "calling" => d.req.messages # <<>>)

\* A system prompt in front is not the user's, and leaves the last message.
LEMMA Prompted ==
    ASSUME NEW K, K \subseteq Message, "system" \in K, NEW m \in Seq(K), m # <<>>, NEW given
    PROVE  /\ SystemPrompt(given) \o m \in Seq(K) /\ SystemPrompt(given) \o m # <<>>
           /\ Said(SystemPrompt(given) \o m) = Said(m)
           /\ Last(SystemPrompt(given) \o m) = Last(m)
<1> DEFINE s == SystemPrompt(given) \o m
<1>1. CASE SystemPrompt(given) = <<>>
  <2>1. s = m
    BY <1>1
  <2>2. QED BY <2>1
<1>2. CASE SystemPrompt(given) = <<"system">>
  <2>1. s = <<"system">> \o m
    BY <1>2
  <2> HIDE DEF s
  <2>2. /\ <<"system">> \in Seq(K) /\ Len(<<"system">>) = 1 /\ Len(m) \in Nat \ {0}
    OBVIOUS
  <2>3. s \in Seq(K) /\ Len(s) = Len(m) + 1 /\ s[Len(m) + 1] = m[Len(m)]
    BY <2>1, <2>2
  <2>4. Last(s) = Last(m) /\ s # <<>>
    BY <2>2, <2>3 DEF Last
  <2>5. "system" \notin {"user"}
    OBVIOUS
  <2>6. OfKinds(<<"system">> \o m, {"user"}) = OfKinds(m, {"user"})
    BY <2>5, OfKindsAfter
  <2>7. QED BY <2>1, <2>3, <2>4, <2>6 DEF Said, s
<1>3. QED BY <1>1, <1>2 DEF SystemPrompt

\* What is not Arch-Function's says what the user has said.
LEMMA Constructed ==
    ASSUME NEW m \in Seq(Message), m # <<>>, Last(m) = "user", NEW target
    PROVE  LET s == ConstructLlmMessages(m, target)
           IN  /\ s \in Seq(Message \ {"tool", "silent", "calls", "nameless"}) /\ s # <<>>
               /\ Said(s) = Said(m) /\ Last(s) = "user"
<1> DEFINE K == Message \ {"tool", "silent", "calls", "nameless"}
           F == OfKinds(m, K)
           a == Front(m)
<1>1. a \in Seq(Message) /\ m = a \o <<"user">>
  BY LastFront
<1>2. K \subseteq Message /\ "user" \in K /\ "system" \in K /\ {"user"} \subseteq K
      /\ Message \cap K = K
  BY DEF Message
<1> HIDE DEF a, K
<1>3. m = Append(a, "user")
  BY <1>1
<1>4. F = Append(OfKinds(a, K), "user")
  <2>1. a \in Seq(Message)
    BY <1>1
  <2>2. OfKinds(Append(a, "user"), K) =
           IF "user" \in K THEN Append(OfKinds(a, K), "user") ELSE OfKinds(a, K)
    BY <2>1, OfKindsMore
  <2>3. QED BY <1>2, <1>3, <2>2
<1>5. OfKinds(a, K) \in Seq(K)
  BY <1>1, <1>2, OfKindsIn
<1>6. F \in Seq(K) /\ F # <<>> /\ Last(F) = "user"
  <2> DEFINE g == OfKinds(a, K)
  <2>1. g \in Seq(K) /\ F = Append(g, "user")
    BY <1>4, <1>5
  <2> HIDE DEF g, F
  <2>2. QED BY <1>2, <2>1 DEF Last
<1>7. Said(F) = Said(m)
  BY <1>2, OfKindsIn DEF Said
<1> DEFINE given == Configs[config].system \/ (target # NoTarget /\ Targets[target].system)
<1>8. ConstructLlmMessages(m, target) = SystemPrompt(given) \o F
  BY DEF ConstructLlmMessages, FilterOutArchMessages, K
<1> HIDE DEF F, given
<1>9. /\ SystemPrompt(given) \o F \in Seq(K) /\ SystemPrompt(given) \o F # <<>>
      /\ Said(SystemPrompt(given) \o F) = Said(F) /\ Last(SystemPrompt(given) \o F) = Last(F)
  BY <1>2, <1>6, Prompted
<1>10. QED BY <1>6, <1>7, <1>8, <1>9 DEF K

\* The last message is replaced by one of the user's.
LEMMA ReplacedLast ==
    ASSUME NEW K, NEW s \in Seq(K), s # <<>>, Last(s) = "user"
    PROVE  Front(s) \o <<"user">> = s
BY LastFront

LEMMA RangeIn ==
    ASSUME NEW K, NEW s \in Seq(K)
    PROVE  \A x \in Range(s) : x \in K
BY DEF Range

-----------------------------------------------------------------------------
LEMMA ReplyKept ==
    ASSUME NEW c, Free(c), Spoken(c.req.messages, c.sent), NEW status, NEW body
    PROVE  KeptOutcome(Reply(c, status, body))
<1> DEFINE d == Reply(c, status, body)
<1>1. d.req = c.req /\ d.sent = c.sent /\ d.callouts = c.callouts /\ d.phase = "response"
  BY DEF Reply, Free, IsContext
<1>2. QED BY <1>1, ReplyOutcome DEF KeptOutcome, Kept, Free

LEMMA PanicKept ==
    ASSUME NEW c, Free(c), Spoken(c.req.messages, c.sent), NEW why \in Panics
    PROVE  KeptOutcome(Panic(c, why))
<1> DEFINE d == Panic(c, why)
<1>1. d.req = c.req /\ d.sent = c.sent /\ d.callouts = c.callouts /\ d.phase = why
  BY DEF Panic, Free, IsContext
<1>2. QED BY <1>1, PanicOutcome DEF KeptOutcome, Kept, Free, Panics

LEMMA ResumeKept ==
    ASSUME NEW c, Free(c), NEW m, NEW q, NEW by,
           Spoken(c.req.messages, [messages |-> m, question |-> q, by |-> by])
    PROVE  KeptOutcome(Resume(c, m, q, by))
<1> DEFINE d == Resume(c, m, q, by)
<1>1. /\ d.req = c.req /\ d.sent = [messages |-> m, question |-> q, by |-> by]
      /\ d.callouts = c.callouts /\ d.phase = "upstream"
  BY DEF Resume, Free, IsContext
<1>2. QED BY <1>1, ResumeOutcome DEF KeptOutcome, Kept, Free

LEMMA CallKept ==
    ASSUME NEW c, Free(c), Spoken(c.req.messages, c.sent), c.req.messages # <<>>,
           NEW handler \in Handlers, NEW target, NEW refusal,
           NEW d \in HttpCall(c, handler, target, refusal)
    PROVE  KeptOutcome(d)
<1>1. CASE d = Reply(c, refusal, "text")
  BY <1>1, ReplyKept
<1>2. CASE d = [c EXCEPT !.phase = "calling", !.callouts = <<[handler |-> handler, target |-> target]>>]
  <2>1. d.req = c.req /\ d.sent = c.sent
    BY <1>2 DEF Free, IsContext
  <2>2. QED BY <2>1, CallOutcome DEF KeptOutcome, Kept
<1>3. QED BY <1>1, <1>2 DEF HttpCall

LEMMA RequestReadKept ==
    ASSUME NEW c, Free(c), Spoken(c.req.messages, c.sent), c.req.messages \in Seq(Message),
           c.req.body \in {"empty", "malformed", "json"}, NEW d \in RequestRead(c)
    PROVE  KeptOutcome(d)
<1> DEFINE c1 == [c EXCEPT !.streaming = c.req.stream]
           m  == c.req.messages
<1>1. Free(c1) /\ c1.req = c.req /\ c1.sent = c.sent
  BY DEF Free, IsContext
<1>2. Spoken(m, [messages |-> m, question |-> "none", by |-> "client"])
  BY DEF Spoken
<1>3. CASE c.req.body = "empty"
  BY <1>2, <1>3, ResumeKept DEF RequestRead
<1>4. CASE c.req.body = "malformed"
  BY <1>4, ReplyKept DEF RequestRead
<1>5. CASE c.req.body = "json" /\ c.req.state
  <2>1. d = Panic(c, "state") /\ "state" \in Panics
    BY <1>5 DEF RequestRead, Panics
  <2>2. QED BY <2>1, PanicKept
<1>6. CASE c.req.body = "json" /\ ~c.req.state /\ Asks(m) = {}
  BY <1>1, <1>2, <1>6, ResumeKept DEF RequestRead
<1>7. CASE c.req.body = "json" /\ ~c.req.state /\ Asks(m) # {}
  <2>1. RequestRead(c) = IF m[Max(Asks(m))] = "nameless" THEN {Reply(c1, "500", "text")}
                         ELSE HttpCall(c1, "ArchFC", NoTarget, "500")
    BY <1>7 DEF RequestRead
  <2>2. m # <<>>
    BY <1>7 DEF Asks
  <2> HIDE DEF c1
  <2>3. \/ d = Reply(c1, "500", "text") \/ d \in HttpCall(c1, "ArchFC", NoTarget, "500")
    BY <2>1
  <2>4. "ArchFC" \in Handlers /\ Spoken(c1.req.messages, c1.sent) /\ c1.req.messages # <<>>
    BY <1>1, <2>2 DEF Handlers
  <2>5. QED BY <1>1, <2>3, <2>4, ReplyKept, CallKept
<1>8. QED BY <1>3, <1>4, <1>5, <1>6, <1>7

\* The conversation without Arch-Function's messages is sent as it is.
LEMMA ConstructedSpoken ==
    ASSUME NEW m \in Seq(Message), m # <<>>, NEW target, NEW by
    PROVE  Spoken(m, [messages |-> ConstructLlmMessages(m, target), question |-> Last(m), by |-> by])
<1> DEFINE s == ConstructLlmMessages(m, target)
           sent == [messages |-> s, question |-> Last(m), by |-> by]
<1>1. sent.messages = s /\ sent.question = Last(m)
  OBVIOUS
<1> SUFFICES ASSUME Last(m) = "user" PROVE Says(m, sent)
  BY DEF Spoken
<1>2. /\ s \in Seq(Message \ {"tool", "silent", "calls", "nameless"}) /\ s # <<>>
      /\ Said(s) = Said(m) /\ Last(s) = "user"
  BY Constructed
<1> HIDE DEF s, sent
<1>3. \A x \in Range(s) : x \notin {"tool", "calls"}
  BY <1>2, RangeIn
<1>4. QED BY <1>1, <1>2, <1>3 DEF Says

LEMMA ArchFcKept ==
    ASSUME NEW c, Free(c), Spoken(c.req.messages, c.sent), c.req.messages \in Seq(Message),
           c.req.messages # <<>>, NEW answer, NEW d \in ArchFcResponseHandler(c, answer)
    PROVE  KeptOutcome(d)
<1> DEFINE c1 == [c EXCEPT !.calls = answer.calls]
           m == c.req.messages
<1>1. Free(c1) /\ c1.req = c.req /\ c1.sent = c.sent
  BY DEF Free, IsContext
<1>2. CASE ~CheckIntentMatched(answer) /\ DefaultTargets # {}
  <2>1. PICK n \in DefaultTargets : d \in HttpCall(c, "DefaultTarget", n, "400")
    BY <1>2 DEF ArchFcResponseHandler, CheckIntentMatched
  <2>2. QED BY <2>1, CallKept DEF Handlers
<1>3. CASE ~CheckIntentMatched(answer) /\ DefaultTargets = {}
  <2>1. d = Resume(c, ConstructLlmMessages(m, NoTarget), Last(m), "arch")
    BY <1>3 DEF ArchFcResponseHandler, CheckIntentMatched
  <2>2. QED BY <2>1, ConstructedSpoken, ResumeKept
<1>4. CASE CheckIntentMatched(answer) /\ answer.calls = NoCalls
  BY <1>4, ReplyKept DEF ArchFcResponseHandler
<1>5. CASE answer.calls # NoCalls /\ Configs[config].orchestrator
  <2> DEFINE target == answer.calls[1].name
  <2>1. d = Resume(c1, ConstructLlmMessages(m, target), Last(m), "agent")
    BY <1>5 DEF ArchFcResponseHandler, CheckIntentMatched
  <2> HIDE DEF c1, target
  <2>2. Spoken(c1.req.messages,
               [messages |-> ConstructLlmMessages(m, target), question |-> Last(m), by |-> "agent"])
    BY <1>1, ConstructedSpoken
  <2>3. QED BY <1>1, <2>1, <2>2, ResumeKept
<1>6. CASE answer.calls # NoCalls /\ ~Configs[config].orchestrator
  <2>1. d \in ScheduleApiCallRequest(c1)
    BY <1>6 DEF ArchFcResponseHandler, CheckIntentMatched
  <2> HIDE DEF c1
  <2>2. \/ d = Panic(c1, "target") \/ d = Reply(c1, "400", "text")
        \/ d \in HttpCall(c1, "FunctionCall", c1.calls[1].name, "400")
    BY <2>1 DEF ScheduleApiCallRequest
  <2>3. "FunctionCall" \in Handlers /\ "target" \in Panics
    BY DEF Handlers, Panics
  <2>4. Spoken(c1.req.messages, c1.sent) /\ c1.req.messages # <<>>
    BY <1>1
  <2>5. QED BY <1>1, <2>2, <2>3, <2>4, ReplyKept, CallKept, PanicKept
<1>7. QED BY <1>2, <1>3, <1>4, <1>5, <1>6 DEF CheckIntentMatched

\* The last of the filtered messages is the user's, and is replaced by one.
LEMMA ApiCallKept ==
    ASSUME NEW c, Free(c), Spoken(c.req.messages, c.sent), c.req.messages \in Seq(Message),
           c.req.messages # <<>>, NEW target, NEW answer
    PROVE  KeptOutcome(ApiCallResponseHandler(c, target, answer))
<1> DEFINE c1 == [c EXCEPT !.result = answer.body]
           d == ApiCallResponseHandler(c, target, answer)
           m == c.req.messages
           messages == ConstructLlmMessages(m, target)
           sent == [messages |-> Front(messages) \o <<"user">>, question |-> Last(messages),
                    by |-> "function"]
<1>1. Free(c1) /\ c1.req = c.req /\ c1.sent = c.sent
  BY DEF Free, IsContext
<1>2. \/ d = Reply(c, answer.status, "text") \/ d = Reply(c1, "500", "text") \/ d = Reply(c1, "200", "result")
      \/ d = Resume(c1, Front(messages) \o <<"user">>, Last(messages), "function")
      \/ d = Panic(c, "utf8")
  BY DEF ApiCallResponseHandler
<1>3. Spoken(m, sent)
  <2>1. sent.messages = Front(messages) \o <<"user">> /\ sent.question = Last(messages)
    OBVIOUS
  <2> SUFFICES ASSUME Last(m) = "user" PROVE Says(m, sent)
    BY DEF Spoken
  <2>2. /\ messages \in Seq(Message \ {"tool", "silent", "calls", "nameless"}) /\ messages # <<>>
        /\ Said(messages) = Said(m) /\ Last(messages) = "user"
    BY Constructed
  <2> HIDE DEF messages, sent
  <2>3. Front(messages) \o <<"user">> = messages
    BY <2>2, ReplacedLast
  <2>4. \A x \in Range(messages) : x \notin {"tool", "calls"}
    BY <2>2, RangeIn
  <2>5. QED BY <2>1, <2>2, <2>3, <2>4 DEF Says
<1>4. Spoken(c1.req.messages, c1.sent) /\ Spoken(c1.req.messages, sent)
  BY <1>1, <1>3
<1> HIDE DEF c1, d, messages
<1>5. "utf8" \in Panics
  BY DEF Panics
<1>6. QED BY <1>1, <1>2, <1>4, <1>5, ReplyKept, ResumeKept, PanicKept DEF d

LEMMA DefaultTargetKept ==
    ASSUME NEW c, Free(c), Spoken(c.req.messages, c.sent), c.req.messages \in Seq(Message),
           c.req.messages # <<>>, NEW target, NEW answer
    PROVE  KeptOutcome(DefaultTargetHandler(c, target, answer))
<1> DEFINE d == DefaultTargetHandler(c, target, answer)
           m == c.req.messages
           given == Targets[target].system
           messages == SystemPrompt(given) \o m
           sent == [messages |-> Front(messages) \o <<"user">>, question |-> Last(messages),
                    by |-> "default"]
<1>1. \/ d = Reply(c, "500", "text") \/ d = Reply(c, "200", "answer")
      \/ \E why \in {"utf8", "completion", "silent", "content"} : d = Panic(c, why)
      \/ d = Resume(c, Front(messages) \o <<"user">>, Last(messages), "default")
  BY DEF DefaultTargetHandler
<1>2. Spoken(m, sent)
  <2>1. sent.messages = Front(messages) \o <<"user">> /\ sent.question = Last(messages)
        /\ sent.by = "default"
    OBVIOUS
  <2> SUFFICES ASSUME Last(m) = "user" PROVE Says(m, sent)
    BY DEF Spoken
  <2>2. /\ messages \in Seq(Message) /\ messages # <<>>
        /\ Said(messages) = Said(m) /\ Last(messages) = Last(m)
    <3> HIDE DEF given
    <3>1. "system" \in Message
      BY DEF Message
    <3>2. QED BY <3>1, Prompted
  <2> HIDE DEF messages, sent
  <2>3. Front(messages) \o <<"user">> = messages
    BY <2>2, ReplacedLast
  <2>4. QED BY <2>1, <2>2, <2>3 DEF Says
<1> HIDE DEF d, messages
<1>3. {"utf8", "completion", "silent", "content"} \subseteq Panics
  BY DEF Panics
<1>4. QED BY <1>1, <1>2, <1>3, ReplyKept, ResumeKept, PanicKept DEF d

\* A part of an answer changes neither the request nor what the LLM was sent.
LEMMA BodyKept ==
    ASSUME NEW c, Free(c), c.phase = "response", Spoken(c.req.messages, c.sent), NEW part
    PROVE  KeptOutcome(ResponseBody(c, part))
<1> DEFINE d == ResponseBody(c, part)
           c1 == IF ~c.chat \/ part \in {"nothing", "cut"} THEN c
                 ELSE IF c.streaming THEN StreamedPart(c) ELSE WholePart(c, part)
<1>1. /\ Free(StreamedPart(c)) /\ StreamedPart(c).phase = "response"
      /\ StreamedPart(c).req = c.req /\ StreamedPart(c).sent = c.sent
      /\ Free(WholePart(c, part)) /\ WholePart(c, part).phase \in {"response", "result", "metadata"}
      /\ WholePart(c, part).req = c.req /\ WholePart(c, part).sent = c.sent
  BY DEF StreamedPart, WholePart, Panic, Free, IsContext
<1>2. Free(c1) /\ c1.req = c.req /\ c1.sent = c.sent /\ c1.phase # "calling"
  BY <1>1
<1>3. d = IF part = "nothing" THEN c1
          ELSE [c1 EXCEPT !.got.parts = @ + 1, !.got.body = part,
                             !.got.texts = @ + (IF part = "cut" THEN 0 ELSE 1)]
  BY DEF ResponseBody
<1> HIDE DEF c1
<1>4. d.req = c.req /\ d.sent = c.sent /\ d.phase # "calling" /\ DOMAIN d.callouts = {}
  BY <1>2, <1>3 DEF Free, IsContext
<1>5. QED BY <1>4, BodyOutcome DEF KeptOutcome, Kept

LEMMA ClosedKept == Kept(Closed)
<1> DEFINE c == NewContext(NoRequest)
<1>1. Free(c) /\ c.sent = NotSent
  BY DEF NewContext, Free, IsContext, NothingGot
<1> HIDE DEF c
<1>2. Closed = [c EXCEPT !.phase = "closed"]
  BY DEF Closed, c
<1>3. Closed.sent = NotSent /\ NotSent.by = "none"
  BY <1>1, <1>2 DEF Free, IsContext, NotSent
<1>4. QED BY <1>3, ClosedRests DEF Kept, Spoken, Free

LEMMA SettleKeepsSaying ==
    ASSUME KInv, NEW s \in Contexts, NEW c, KeptOutcome(c), NEW held, NEW active,
           Settle(s, c, held, active)
    PROVE  \A x \in Contexts : Kept(stream'[x])
<1> SUFFICES ASSUME NEW x \in Contexts PROVE Kept(stream'[x])
  OBVIOUS
<1>1. CASE c.phase \in Panics
  <2>1. stream'[x] = Closed
    BY <1>1 DEF Settle, Panics
  <2>2. QED BY <2>1, ClosedKept
<1>2. CASE c.phase = "calling"
  <2>1. PICK t : Becomes(s, [c EXCEPT !.phase = "waiting", !.callouts = [y \in {t} |-> @[1]]])
    BY <1>2 DEF Settle, Panics
  <2> DEFINE e == [c EXCEPT !.phase = "waiting", !.callouts = [y \in {t} |-> @[1]]]
  <2>2. e.req = c.req /\ e.sent = c.sent
    BY DEF KeptOutcome, Outcome, IsContext
  <2> HIDE DEF e
  <2>3. Kept(e)
    BY <1>2, <2>2 DEF Kept, KeptOutcome
  <2>4. QED BY <2>1, <2>3 DEF Becomes, KInv, TInv, WInv, e
<1>3. CASE c.phase \in {"upstream", "response"}
  <2>1. Becomes(s, c)
    BY <1>3 DEF Settle, Panics
  <2>2. QED BY <2>1 DEF Becomes, KInv, TInv, WInv, KeptOutcome
<1>4. QED BY <1>1, <1>2, <1>3 DEF KeptOutcome, Outcome

LEMMA OtherKeepsSaying ==
    ASSUME KInv, NEW s \in Contexts,
           \/ Open(s) \/ OnRequestHeaders(s) \/ OnLlmAnswer(s) \/ Done(s)
    PROVE  \A x \in Contexts : Kept(stream'[x])
<1>1. PICK c : Becomes(s, c) /\ Kept(c)
  <2>1. CASE Open(s)
    <3>1. PICK r \in Requests[config] : Becomes(s, NewContext(r))
      BY <2>1 DEF Open
    <3>2. Kept(NewContext(r))
      BY DEF NewContext, Kept, Spoken, NotSent
    <3>3. QED BY <3>1, <3>2
  <2>2. CASE OnRequestHeaders(s)
    <3> DEFINE c == stream[s]
               d == [c EXCEPT !.phase = "body", !.chat = c.req.path = "chat"]
    <3>1. Free(c) /\ Kept(c)
      BY <2>2, RestingStreams DEF OnRequestHeaders, KInv, TInv
    <3>2. d.req = c.req /\ d.sent = c.sent /\ d.callouts = c.callouts
      BY <3>1 DEF Free, IsContext
    <3>3. Kept(d)
      BY <3>1, <3>2 DEF Kept
    <3>4. \A status, body : Kept(Reply(c, status, body))
      BY <3>1, ReplyKept DEF Kept, KeptOutcome
    <3>5. \/ Becomes(s, d) \/ Becomes(s, Reply(c, "500", "text")) \/ Becomes(s, Reply(c, "200", "empty"))
      BY <2>2 DEF OnRequestHeaders
    <3> HIDE DEF d
    <3>6. QED BY <3>3, <3>4, <3>5
  <2>3. CASE OnLlmAnswer(s)
    <3> DEFINE c == stream[s]
               d(status) == [c EXCEPT !.phase = "response", !.got.status = status, !.reply = "llm"]
    <3>1. Free(c) /\ Kept(c)
      BY <2>3, RestingStreams DEF OnLlmAnswer, KInv, TInv
    <3>2. PICK status : Becomes(s, d(status))
      BY <2>3 DEF OnLlmAnswer
    <3>3. d(status).req = c.req /\ d(status).sent = c.sent /\ d(status).callouts = c.callouts
      BY <3>1 DEF Free, IsContext
    <3> HIDE DEF d
    <3>4. Kept(d(status))
      BY <3>1, <3>3 DEF Kept
    <3>5. QED BY <3>2, <3>4
  <2>4. CASE Done(s)
    BY <2>4, ClosedKept DEF Done
  <2>5. QED BY <2>1, <2>2, <2>3, <2>4
<1>2. QED BY <1>1 DEF Becomes, KInv, TInv, WInv

LEMMA RequestBodyKeepsSaying ==
    ASSUME KInv, NEW s \in Contexts, OnRequestBody(s)
    PROVE  \A x \in Contexts : Kept(stream'[x])
<1>1. /\ Free(stream[s]) /\ stream[s].req.body \in {"empty", "malformed", "json"}
      /\ stream[s].req.messages \in Seq(Message) /\ Spoken(stream[s].req.messages, stream[s].sent)
  BY RestingStreams DEF OnRequestBody, KInv, Kept, TInv, Trusted
<1>2. PICK c \in RequestRead(stream[s]) : Settle(s, c, calls, gauge)
  BY DEF OnRequestBody
<1>3. QED BY <1>1, <1>2, RequestReadKept, SettleKeepsSaying

LEMMA ResponseKeepsSaying ==
    ASSUME KInv, NEW s \in Contexts, OnResponseBody(s) \/ OnReplyBody(s)
    PROVE  \A x \in Contexts : Kept(stream'[x])
<1>1. /\ Free(stream[s]) /\ stream[s].phase = "response"
      /\ Spoken(stream[s].req.messages, stream[s].sent)
  BY RestingStreams DEF OnResponseBody, OnReplyBody, KInv, Kept, TInv
<1>2. PICK c, part : /\ Free(c) /\ c.phase = "response" /\ Spoken(c.req.messages, c.sent)
                     /\ Settle(s, ResponseBody(c, part), calls, gauge)
  <2>1. CASE OnResponseBody(s)
    BY <1>1, <2>1 DEF OnResponseBody
  <2>2. CASE OnReplyBody(s)
    <3> DEFINE c    == stream[s]
               base == IF c.reply = "result" THEN [c EXCEPT !.got.results = 1] ELSE c
    <3>1. Free(base) /\ base.phase = "response" /\ base.req = c.req /\ base.sent = c.sent
      BY <1>1 DEF Free, IsContext
    <3>2. PICK part : Settle(s, ResponseBody(base, part), calls, gauge)
      BY <2>2 DEF OnReplyBody
    <3> HIDE DEF base
    <3>3. Spoken(base.req.messages, base.sent)
      BY <1>1, <3>1
    <3>4. QED BY <3>1, <3>2, <3>3
  <2>3. QED BY <2>1, <2>2
<1>3. QED BY <1>2, BodyKept, SettleKeepsSaying

LEMMA CallResponseKeepsSaying ==
    ASSUME KInv, NEW s \in Contexts, OnHttpCallResponse(s)
    PROVE  \A x \in Contexts : Kept(stream'[x])
<1> DEFINE context(t) == [stream[s] EXCEPT !.callouts = Restrict(@, DOMAIN @ \ {t})]
<1>1. PICK t \in DOMAIN calls :
         LET outcomes == IF t \in DOMAIN stream[s].callouts
                         THEN UNION {CallResponse(context(t), stream[s].callouts[t], a) :
                                       a \in Answers(context(t), stream[s].callouts[t].handler)}
                         ELSE {Panic(context(t), "token")}
         IN  /\ calls[t] = s
             /\ \E d \in outcomes : Settle(s, d, Restrict(calls, DOMAIN calls \ {t}), gauge - 1)
  BY DEF OnHttpCallResponse
<1> DEFINE callout == stream[s].callouts[t]
           c == context(t)
           held == Restrict(calls, DOMAIN calls \ {t})
<1>2. DOMAIN stream[s].callouts = {t} /\ callout.handler \in Handlers /\ Free(c)
  BY <1>1, CalloutAnswered DEF KInv, TInv
<1>3. c.req = stream[s].req /\ c.sent = stream[s].sent
  <2>1. IsContext(stream[s])
    BY DEF KInv, TInv, WInv, Rests
  <2>2. QED BY <2>1 DEF IsContext
<1>4. /\ c.req.messages \in Seq(Message) /\ c.req.messages # <<>>
      /\ Spoken(c.req.messages, c.sent)
  BY <1>2, <1>3 DEF KInv, Kept, TInv, Trusted
<1>5. PICK a \in Answers(c, callout.handler) : \E d \in CallResponse(c, callout, a) :
         Settle(s, d, held, gauge - 1)
  BY <1>1, <1>2
<1>6. PICK d \in CallResponse(c, callout, a) : Settle(s, d, held, gauge - 1)
  BY <1>5
<1>7. KeptOutcome(d)
  <2> HIDE DEF c, callout
  <2>1. \/ d = Reply(c, a.status, "text") \/ d = Reply(c, "500", "text") \/ d = Panic(c, "utf8")
        \/ d \in ArchFcResponseHandler(c, a)
        \/ d = ApiCallResponseHandler(c, callout.target, a)
        \/ d = DefaultTargetHandler(c, callout.target, a)
    BY <1>2, <1>6 DEF CallResponse, Handlers, callout
  <2>2. "utf8" \in Panics
    BY DEF Panics
  <2>3. QED BY <1>2, <1>4, <2>1, <2>2, ReplyKept, PanicKept, ArchFcKept, ApiCallKept, DefaultTargetKept
            DEF c
<1>8. QED BY <1>6, <1>7, SettleKeepsSaying

LEMMA InitSays == Init => KInv
<1> SUFFICES ASSUME Init PROVE KInv
  OBVIOUS
<1>1. \A s \in Contexts : stream[s] = Closed
  BY DEF Init
<1>2. QED BY <1>1, InitTrusts, ClosedKept DEF KInv

LEMMA StepKeepsSaying == KInv /\ [Next]_vars => KInv'
<1> SUFFICES ASSUME KInv, [Next]_vars PROVE KInv'
  OBVIOUS
<1>1. TInv'
  BY StepKeepsTrust DEF KInv
<1>2. CASE UNCHANGED vars
  BY <1>1, <1>2 DEF vars, KInv, Kept
<1>3. ASSUME NEW s \in Contexts,
             \/ Open(s) \/ OnRequestHeaders(s) \/ OnRequestBody(s) \/ OnHttpCallResponse(s)
             \/ OnLlmAnswer(s) \/ OnResponseBody(s) \/ OnReplyBody(s) \/ Done(s)
      PROVE  KInv'
  <2>1. \A x \in Contexts : Kept(stream'[x])
    BY <1>3, OtherKeepsSaying, RequestBodyKeepsSaying, CallResponseKeepsSaying, ResponseKeepsSaying
  <2>2. QED BY <1>1, <2>1 DEF KInv, Kept
<1>4. QED BY <1>2, <1>3 DEF Next

LEMMA SayingGivesKept == KInv => ConversationKept
BY DEF KInv, Kept, Spoken, Says, ConversationKept

\* Whatever conversation is asked and whatever is configured, what the LLM is
\* sent instead of it has what the user said, in order, asks last what the user
\* said last, and, but for a default target's, has none of Arch-Function's
\* messages (construct_llm_messages, api_call_response_handler,
\* default_target_handler).
THEOREM ConversationAlwaysKept == Spec => []ConversationKept
<1>1. Init => KInv
  BY InitSays
<1>2. KInv /\ [Next]_vars => KInv'
  BY StepKeepsSaying
<1>3. KInv => ConversationKept
  BY SayingGivesKept
<1>4. QED BY <1>1, <1>2, <1>3, PTL DEF Spec

=============================================================================
