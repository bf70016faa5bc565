----------------------------- MODULE PromptGateway -----------------------------
(***************************************************************************)
(* The prompt_gateway filter (prompt_gateway, http_context.rs, context.rs, *)
(* stream_context.rs).  It holds a request back while it asks, by HTTP     *)
(* callouts, brightstaff for the function the user means, then the         *)
(* function's endpoint or the default target; it answers the client itself, *)
(* or sends the conversation on to the LLM and adds the tool's result to   *)
(* the answer.  brightstaff's side is FunctionCalling.                     *)
(***************************************************************************)
EXTENDS FunctionCalling, FiniteSets, FiniteSetsExt

CONSTANTS
    Contexts,     \* stream contexts of a worker's VM
    Tokens,       \* tokens of callouts: as many as there may be at once
    Configs,      \* by deployment: prompt targets and overrides
    Requests,     \* by deployment: requests that reach the filter
    Replies,      \* by deployment: what Arch-Function may write
    MaxRequests,  \* by deployment: bound: requests
    MaxParts      \* bound: parts of an answer

ASSUME PromptGatewayAssumption ==
    /\ MaxParts \in Nat \ {0}
    /\ \A d \in DOMAIN Configs :
          /\ MaxRequests[d] \in Nat
          /\ Configs[d].endpoints \in {"none", "one", "other"}
          /\ \A r \in Requests[d] :
                r.body \in {"empty", "malformed", "json"} /\ r.messages \in Seq(Message)
          /\ \A r \in Replies[d] : r.calls = NoCalls \/ 1 \in DOMAIN r.calls

VARIABLES
    vm,       \* "running", or why it panicked
    config,   \* the deployment
    stream,   \* the context of each stream
    calls,    \* the callouts Envoy holds: by token, the stream they are for
    gauge,    \* active_http_calls
    opened    \* history. requests that have been opened

vars == <<vm, config, stream, calls, gauge, opened>>

Targets == Configs[config].targets

\* The prompt targets as functions the model may call.
Tools == [n \in DOMAIN Targets |-> [required |-> Targets[n].required, types |-> Targets[n].types]]

NoTarget == "none"
\* What is unwrapped and may be missing: the target a call names, the content of
\* a message (of a tool's: "silent"), a function's result, the state that a
\* request or the metadata that an answer carries, the context of a callout, the
\* content of a default target's completion, and text where bytes are not UTF-8.
Panics == {"target", "content", "silent", "result", "state", "metadata", "token", "completion", "utf8"}
NotSent == [messages |-> <<>>, question |-> "none", by |-> "none"]
NothingGot == [status |-> "none", body |-> "none", results |-> 0, parts |-> 0, texts |-> 0]

\* StreamContext::new; of the rest, `got' is what the client has received, in
\* `texts' how many of its parts were text, which one cut within a character is not.
NewContext(r) ==
    [phase |-> "headers", req |-> r, chat |-> FALSE, streaming |-> FALSE,
     callouts |-> <<>>, calls |-> NoCalls, result |-> "none",
     sent |-> NotSent, reply |-> "none", got |-> NothingGot]

\* No stream.
NoRequest == [path |-> "none", body |-> "none", messages |-> <<>>, stream |-> FALSE, state |-> FALSE]
Closed == [NewContext(NoRequest) EXCEPT !.phase = "closed"]

Init ==
    /\ vm = "running" /\ config \in DOMAIN Configs
    /\ stream = [s \in Contexts |-> Closed]
    /\ calls = <<>> /\ gauge = 0 /\ opened = 0

Becomes(s, context) == stream' = [stream EXCEPT ![s] = context]

\* send_http_response: a reply of the filter's own, in one part.
Reply(context, status, body) ==
    [context EXCEPT !.phase = "response", !.reply = body, !.got.status = status]

\* set_http_request_body and resume_http_request: the conversation goes to the
\* LLM; `question' is the message the last one was made of.
Resume(context, messages, question, by) ==
    [context EXCEPT !.phase = "upstream",
                    !.sent = [messages |-> messages, question |-> question, by |-> by]]

\* What a callback does with its stream, other than to go on: a callout that is
\* dispatched, or a panic.
Panic(context, why) == [context EXCEPT !.phase = why]

\* Fault: a callout that could not be dispatched is only logged.
HttpCallUnanswered(context, handler, target, refusal) ==
    {[context EXCEPT !.phase = "calling", !.callouts = <<[handler |-> handler, target |-> target]>>],
     [context EXCEPT !.phase = "waiting"]}

\* Client::http_call: the callout is dispatched, or it is not and the client
\* is answered.
HttpCall(context, handler, target, refusal) ==
    {[context EXCEPT !.phase = "calling", !.callouts = <<[handler |-> handler, target |-> target]>>],
     Reply(context, refusal, "text")}

\* What the callback's outcome makes of the VM, when it leaves `held' and `active'
\* of the callouts.  A callout gets a free token, and its context is kept under
\* it (add_call_context).  A panic ends every stream of the worker (Envoy).
Settle(s, c, held, active) ==
    CASE c.phase \in Panics ->
           /\ vm' = c.phase /\ stream' = [x \in Contexts |-> Closed]
           /\ calls' = <<>> /\ gauge' = active
      [] c.phase = "calling" ->
           \E t \in Tokens \ DOMAIN held :
               /\ Becomes(s, [c EXCEPT !.phase = "waiting", !.callouts = [x \in {t} |-> @[1]]])
               /\ calls' = [x \in DOMAIN held \cup {t} |-> IF x = t THEN s ELSE held[x]]
               /\ gauge' = active + 1 /\ UNCHANGED vm
      [] OTHER ->
           /\ Becomes(s, c)
           /\ calls' = held /\ gauge' = active /\ UNCHANGED vm

Open(s) ==
    /\ vm = "running" /\ stream[s].phase = "closed" /\ opened < MaxRequests[config]
    /\ \E r \in Requests[config] : Becomes(s, NewContext(r))
    /\ opened' = opened + 1
    /\ UNCHANGED <<vm, config, calls, gauge>>

\* on_http_request_headers: an orchestrator must be the one endpoint, but no
\* endpoints at all are not looked into.
OnRequestHeaders(s) ==
    LET c       == stream[s]
        several == Configs[config].orchestrator /\ Configs[config].endpoints = "other"
    IN  /\ vm = "running" /\ c.phase = "headers"
        /\ Becomes(s, CASE several -> Reply(c, "500", "text")
                        [] ~several /\ c.req.path = "health" ->
                              Reply(c, "200", "empty")
                        [] OTHER -> [c EXCEPT !.phase = "body", !.chat = c.req.path = "chat"])
        /\ UNCHANGED <<vm, config, calls, gauge, opened>>

\* on_http_request_body of the whole body; one without a user's message passes.
Asks(messages) == {i \in DOMAIN messages : messages[i] \in {"user", "nameless"}}

RequestRead(c) ==
    LET c1 == [c EXCEPT !.streaming = c.req.stream]
        m  == c.req.messages
    IN  CASE c.req.body = "empty" -> {Resume(c, m, "none", "client")}
          [] c.req.body = "malformed" -> {Reply(c, "400", "text")}
          [] c.req.body = "json" /\ c.req.state -> {Panic(c, "state")}
          [] c.req.body = "json" /\ ~c.req.state /\ Asks(m) = {} -> {Resume(c1, m, "none", "client")}
          [] c.req.body = "json" /\ ~c.req.state /\ Asks(m) # {} ->
                IF m[Max(Asks(m))] = "nameless"
                THEN {Reply(c1, "500", "text")}
                ELSE HttpCall(c1, "ArchFC", NoTarget, "500")

OnRequestBody(s) ==
    /\ vm = "running" /\ stream[s].phase = "body"
    /\ \E c \in RequestRead(stream[s]) : Settle(s, c, calls, gauge)
    /\ UNCHANGED <<config, opened>>

\* The messages of some kinds, in order.
OfKinds(messages, kinds) ==
    LET upTo[n \in 0..Len(messages)] ==
            IF n = 0 THEN <<>>
            ELSE IF messages[n] \in kinds THEN Append(upTo[n - 1], messages[n]) ELSE upTo[n - 1]
    IN  upTo[Len(messages)]

\* filter_out_arch_messages
FilterOutArchMessages(messages) == OfKinds(messages, Message \ {"tool", "silent", "calls", "nameless"})

SystemPrompt(given) == IF given THEN <<"system">> ELSE <<>>

\* Fault: the system prompt follows the conversation.
ConstructAppendingPrompt(messages, target) ==
    FilterOutArchMessages(messages)
        \o SystemPrompt(Configs[config].system \/ (target # NoTarget /\ Targets[target].system))

\* construct_llm_messages, get_system_prompt: the target's own, else the common one.
ConstructLlmMessages(messages, target) ==
    SystemPrompt(Configs[config].system \/ (target # NoTarget /\ Targets[target].system))
        \o FilterOutArchMessages(messages)

\* compute_request_path_body: parameters that are lists or objects are left
\* out, and then one that the path names may be missing.
ComputeRequestPathBody(target, arguments) ==
    LET values == arguments.values
        scalar == {p \in DOMAIN values : values[p] \notin {"list", "dict"}}
    IN  IF Targets[target].path \subseteq scalar THEN "ok" ELSE "error"

\* schedule_api_call_request: of the calls the first is made.
ScheduleApiCallRequest(c) ==
    LET target == c.calls[1].name
    IN  IF target \notin DOMAIN Targets
        THEN {Panic(c, "target")}
        ELSE IF ComputeRequestPathBody(target, c.calls[1].arguments) = "error"
             THEN {Reply(c, "400", "text")}
             ELSE HttpCall(c, "FunctionCall", target, "400")

CheckIntentMatched(answer) == answer.content # "" \/ answer.calls # NoCalls

DefaultTargets == {n \in DOMAIN Targets : Targets[n].default}

\* arch_fc_response_handler of an answer that can be read.
ArchFcResponseHandler(c, answer) ==
    LET c1 == [c EXCEPT !.calls = answer.calls]
        m  == c.req.messages
    IN  CASE ~CheckIntentMatched(answer) /\ DefaultTargets # {} ->
               UNION {HttpCall(c, "DefaultTarget", n, "400") : n \in DefaultTargets}
          [] ~CheckIntentMatched(answer) /\ DefaultTargets = {} ->
               {Resume(c, ConstructLlmMessages(m, NoTarget), Last(m), "arch")}
          [] CheckIntentMatched(answer) /\ answer.calls = NoCalls ->
               {Reply(c, "200", "question")}
          [] answer.calls # NoCalls /\ Configs[config].orchestrator ->
               {Resume(c1, ConstructLlmMessages(m, answer.calls[1].name), Last(m), "agent")}
          [] answer.calls # NoCalls /\ ~Configs[config].orchestrator ->
               ScheduleApiCallRequest(c1)

\* api_call_response_handler: a response without status is taken for a 200, its
\* body for text, and the last of the filtered messages for the user's.
ApiCallResponseHandler(c, target, answer) ==
    LET c1       == [c EXCEPT !.result = answer.body]
        messages == ConstructLlmMessages(c.req.messages, target)
        done     == answer.body # "binary" /\ answer.status \in {"200", "none"}
    IN  CASE answer.body = "binary" -> Panic(c, "utf8")
          [] answer.body # "binary" /\ answer.status \notin {"200", "none"} -> Reply(c, answer.status, "text")
          [] done /\ messages = <<>> -> Reply(c1, "500", "text")
          [] done /\ messages # <<>> ->
                IF ~Targets[target].auto
                THEN Reply(c1, "200", "result")
                ELSE Resume(c1, Front(messages) \o <<"user">>, Last(messages), "function")

\* default_target_handler: the target's answer is handed on as it is, or read as
\* a completion, which the code takes to say something (a "bare" one does not).
\* The messages are not filtered here, and the last is taken to have content.
DefaultTargetHandler(c, target, answer) ==
    LET reads    == c.streaming \/ Targets[target].auto
        messages == SystemPrompt(Targets[target].system) \o c.req.messages
    IN  CASE answer.body = "binary" -> Panic(c, "utf8")
          [] answer.body # "binary" /\ ~reads -> Reply(c, "200", "answer")
          [] answer.body \notin {"binary", "bare", "completion"} /\ reads -> Reply(c, "500", "text")
          [] answer.body = "bare" /\ reads -> Panic(c, "completion")
          [] answer.body = "completion" /\ reads ->
               IF ~Targets[target].auto THEN Reply(c, "200", "answer")
               ELSE IF Last(messages) = "silent" THEN Panic(c, "silent")
               ELSE IF Last(messages) \in {"nameless", "calls"} THEN Panic(c, "content")
               ELSE Resume(c, Front(messages) \o <<"user">>, Last(messages), "default")

\* What a callout may come back with.  A timeout or a connection that breaks is
\* an error status of Envoy's, or a response without headers.  What the endpoints
\* of prompt targets answer is any bytes.
Answers(c, handler) ==
    [status : {"503", "none"}, body : {"nothing"}]
    \cup CASE handler = "ArchFC" ->
                {FunctionCallingChatHandler(c.req.messages, Tools, "string", r) : r \in Replies[config]}
           [] handler = "FunctionCall" -> [status : {"200", "201", "503"}, body : {"data", "binary"}]
           [] handler = "DefaultTarget" ->
                [status : {"200", "503"}, body : {"completion", "bare", "data", "binary"}]

\* on_http_call_response once the callout's context is removed: an error status
\* is passed on with its text, an answer of brightstaff's that cannot be read is
\* an error.
CallResponse(c, callout, answer) ==
    CASE answer.status \notin {"200", "201", "none"} ->
            IF answer.body = "binary" THEN {Panic(c, "utf8")} ELSE {Reply(c, answer.status, "text")}
      [] answer.status \in {"200", "201", "none"} /\ callout.handler = "ArchFC" ->
            IF answer.body # "answer" THEN {Reply(c, "500", "text")} ELSE ArchFcResponseHandler(c, answer)
      [] answer.status \in {"200", "201", "none"} /\ callout.handler = "FunctionCall" ->
            {ApiCallResponseHandler(c, callout.target, answer)}
      [] answer.status \in {"200", "201", "none"} /\ callout.handler = "DefaultTarget" ->
            {DefaultTargetHandler(c, callout.target, answer)}

OnHttpCallResponse(s) ==
    /\ vm = "running"
    /\ \E t \in DOMAIN calls :
          LET c        == [stream[s] EXCEPT !.callouts = Restrict(@, DOMAIN @ \ {t})]
              callout  == stream[s].callouts[t]
              outcomes == IF t \in DOMAIN stream[s].callouts
                          THEN UNION {CallResponse(c, callout, a) : a \in Answers(c, callout.handler)}
                          ELSE {Panic(c, "token")}
          IN  /\ calls[t] = s
              /\ \E d \in outcomes : Settle(s, d, Restrict(calls, DOMAIN calls \ {t}), gauge - 1)
    /\ UNCHANGED <<config, opened>>

\* Fault: the calls are kept, so that every part is given the result.
StreamedPartAgain(c) ==
    IF c.calls = NoCalls THEN c
    ELSE [c EXCEPT !.got.results = @ + (IF c.result = "none" THEN 0 ELSE 1)]

\* What the filter adds to a part of an answer of a function's call: its result
\* before the first part of a stream, or the messages of the call in the
\* metadata of an answer that is read as a whole.
StreamedPart(c) ==
    IF c.calls = NoCalls THEN c
    ELSE [c EXCEPT !.calls = NoCalls, !.got.results = @ + (IF c.result = "none" THEN 0 ELSE 1)]

WholePart(c, part) ==
    CASE c.calls = NoCalls \/ part \notin {"object", "labelled"} -> c
      [] c.calls # NoCalls /\ part = "labelled" -> Panic(c, "metadata")
      [] c.calls # NoCalls /\ part = "object" /\ c.result = "none" -> Panic(c, "result")
      [] c.calls # NoCalls /\ part = "object" /\ c.result # "none" -> [c EXCEPT !.got.results = @ + 1]

\* on_http_response_body: a part that is no UTF-8 passes as it is.
ResponseBody(c, part) ==
    LET c1 == IF ~c.chat \/ part \in {"nothing", "cut"} THEN c
              ELSE IF c.streaming THEN StreamedPart(c)
              ELSE WholePart(c, part)
    IN  IF part = "nothing" THEN c1
        ELSE [c1 EXCEPT !.got.parts = @ + 1, !.got.body = part, !.got.texts = @ + (IF part = "cut" THEN 0 ELSE 1)]

\* The LLM answers: with events if a stream was asked for, else with an object,
\* "labelled" if its metadata is no object, in one part or in several, some of
\* which may end within a character; or with an error.
Parts(c) ==
    {"cut", "text"} \cup IF c.req.stream THEN {"events", "nothing"} ELSE {"object", "labelled", "part"}

OnLlmAnswer(s) ==
    LET c == stream[s]
    IN  /\ vm = "running"
        /\ c.phase = "upstream"
        /\ \E status \in {"200", "500"} :
              Becomes(s, [c EXCEPT !.phase = "response", !.got.status = status, !.reply = "llm"])
        /\ UNCHANGED <<vm, config, calls, gauge, opened>>

OnResponseBody(s) ==
    LET c == stream[s]
    IN  /\ vm = "running" /\ c.phase = "response" /\ c.reply = "llm"
        /\ c.got.parts < MaxParts /\ c.got.body \notin {"object", "labelled"}
        /\ \E part \in Parts(c) :
              /\ part \in {"object", "labelled"} => c.got.parts = 0
              /\ Settle(s, ResponseBody(c, part), calls, gauge)
        /\ UNCHANGED <<config, opened>>

\* A reply of the filter's own passes the same callbacks, as one part.
OnReplyBody(s) ==
    LET c    == stream[s]
        kind == IF c.reply = "result" THEN {"object", "text"} ELSE {"text"}
        base == IF c.reply = "result" THEN [c EXCEPT !.got.results = 1] ELSE c
    IN  /\ vm = "running" /\ c.phase = "response" /\ c.reply # "llm" /\ c.got.parts = 0
        /\ \E part \in kind : Settle(s, ResponseBody(base, part), calls, gauge)
        /\ UNCHANGED <<config, opened>>

\* Envoy ends a stream: it has been answered, or its client has left.  It
\* cancels the stream's callouts; the gauge keeps counting them.
Done(s) ==
    /\ vm = "running" /\ stream[s].phase # "closed"
    /\ Becomes(s, Closed)
    /\ calls' = Restrict(calls, {t \in DOMAIN calls : calls[t] # s})
    /\ UNCHANGED <<vm, config, gauge, opened>>

Next == \E s \in Contexts :
    \/ Open(s) \/ OnRequestHeaders(s) \/ OnRequestBody(s) \/ OnHttpCallResponse(s)
    \/ OnLlmAnswer(s) \/ OnResponseBody(s) \/ OnReplyBody(s) \/ Done(s)

\* Envoy calls back for every callout: each has a timeout.
Spec == Init /\ [][Next]_vars /\ \A s \in Contexts : WF_vars(OnHttpCallResponse(s))

-----------------------------------------------------------------------------
(* Properties *)

\* A stream whose request is held back waits for exactly one callout, one Envoy
\* will call back for, and no other stream has one: no request hangs, and no
\* answer comes for a stream that has gone on (http_call and its callers).  The
\* gauge counts every callout there is (add_call_context).
WaitsForOneCall ==
    /\ \A s \in Contexts :
          LET mine == {t \in DOMAIN calls : calls[t] = s}
          IN  /\ mine = DOMAIN stream[s].callouts
              /\ Cardinality(mine) = IF stream[s].phase = "waiting" THEN 1 ELSE 0
    /\ gauge >= Cardinality(DOMAIN calls)

\* Of what the filter takes for granted, this holds because brightstaff checks
\* it: a call names a prompt target (verify_tool_calls), and the message a default
\* target's answer goes into is none of a user or an assistant that lacks content
\* (process_messages refuses the assistant's, the filter the user's); and a
\* callout's context is found.  None of these unwraps panics the worker's VM
\* (schedule_api_call_request, default_target_handler, on_http_call_response).
\* Nobody checks the rest: a tool's message without content that comes last, and
\* what clients, endpoints and the LLM send, can panic it.
AnswersTrusted == vm \notin {"target", "token", "content"}

\* Whatever the LLM is asked instead of the request, it is what the user said,
\* in order, and what the user said last is asked last (construct_llm_messages,
\* api_call_response_handler, default_target_handler).
Said(messages) == OfKinds(messages, {"user"})
ConversationKept ==
    \A s \in Contexts :
       LET c == stream[s]
       IN  c.sent.by \notin {"none", "client"} /\ Last(c.req.messages) = "user" =>
             /\ Said(c.sent.messages) = Said(c.req.messages)
             /\ Last(c.sent.messages) = "user" /\ c.sent.question = "user"
             /\ c.sent.by \in {"arch", "agent", "function"} =>
                   \A m \in Range(c.sent.messages) : m \notin {"tool", "calls"}

\* The result of the function reaches the client exactly once in what the LLM
\* answers: with the first part of a stream that is text by itself and no later
\* one, or in an answer that comes whole; no answer of a stream that called none
\* has one (api_call_response_handler, on_http_response_body).  Parts cut within a
\* character go before it, and without it if there are no others.
ResultOnce ==
    \A s \in Contexts :
       LET c     == stream[s]
           first == IF c.streaming THEN c.got.texts > 0 ELSE c.got.body = "object"
       IN  c.reply = "llm" =>
             c.got.results = IF c.chat /\ c.sent.by = "function" /\ first THEN 1 ELSE 0

\* Every request that is held back is answered or goes on to the LLM.
EveryRequestSettles ==
    \A s \in Contexts : stream[s].phase = "waiting" ~> stream[s].phase # "waiting"
=============================================================================
