------------------------------ MODULE LlmGateway ------------------------------
(***************************************************************************)
(* The llm_gateway filter (llm_gateway, stream_context.rs): for every      *)
(* request it selects the provider, rewrites path, credentials and body to *)
(* the provider's API, enforces the rate limits, and converts the answer   *)
(* back.  Envoy calls one stream context per request, the contexts of a    *)
(* worker share one VM, its limits and its fate: a panic ends them all.    *)
(***************************************************************************)
EXTENDS ProviderTable, RateLimits

CONSTANTS
    Contexts,      \* stream contexts of a worker's VM
    Configs,       \* by deployment: its model_providers
    Requests,      \* by deployment: the requests that reach the filter
    MaxRequests,   \* by deployment: bound: requests
    Values,        \* values of the headers that select a rate limit
    MaxTicks       \* bound: ticks of the rate limits' clock

\* The items as the CLI renders them: a wildcard is never the default
\* (config_generator.py, Validate wildcard constraints).
Items ==
    {it \in [name : STRING \X STRING, model : STRING, kind : STRING \ {"none"},
             default : BOOLEAN, key : BOOLEAN, passthrough : BOOLEAN, endpoint : BOOLEAN] :
        it.default => it.model # "*"}

\* The requests as Envoy hands them over; brightstaff's header says that a
\* request is streamed only where its body does (Prepared).
RequestSpace ==
    {r \in [client   : Clients \cup {"healthz", "unknown"},
            hint     : {NoHint, DefaultHint} \cup STRING \X STRING,
            header   : {"true", "false", "omitted"},
            stream   : {"true", "false", "omitted"},
            selector : {NoSelector} \cup STRING \X Values,
            tokens   : Nat,
            body     : {"empty", "malformed", "json"},
            auth     : [authorization : {"absent", "client"}, xapikey : {"absent", "client"}]] :
        r.header = "true" => r.stream = "true"}

ASSUME GatewayAssumption ==
    /\ MaxTicks \in Nat
    /\ \A d \in DOMAIN Configs :
          /\ MaxRequests[d] \in Nat
          /\ Configs[d] \in Seq(Items)
          /\ Requests[d] \subseteq RequestSpace

VARIABLES
    vm,       \* "running" or "failed"
    config,   \* the deployment
    used,     \* tokens taken from each count of each limit
    now,      \* ticks gone by
    stream,   \* the context of each stream
    opened,   \* history. requests that have been opened
    log       \* history. the tokens the limits have let through

vars == <<vm, config, used, now, stream, opened, log>>

Providers == Configs[config]

\* on_configure: the table the filter keeps for its streams.
Tables == [d \in DOMAIN Configs |-> BuildTable(Configs[d])]

Counts == (DOMAIN Ratelimits) \X (Values \cup {""})

NotSent == [api |-> "none", streamed |-> FALSE, model |-> "none"]

\* StreamContext::new, and what the history knows of the stream.
NewContext(r) ==
    [phase |-> "headers", req |-> r, provider |-> NoProvider, streaming |-> FALSE,
     resolved |-> "none", path |-> "none", auth |-> r.auth, selector |-> NoSelector,
     bodySent |-> FALSE, sent |-> NotSent, status |-> 0, tokens |-> 0,
     read |-> {}]

\* No stream.
NoAuth == [authorization |-> "absent", xapikey |-> "absent"]
NoRequest == [client |-> "none", hint |-> NoHint, auth |-> NoAuth]
Closed == [NewContext(NoRequest) EXCEPT !.phase = "closed"]

\* The request brightstaff sends to a candidate: prepared once, for the
\* primary, whatever provider the candidate has.
Prepared(client, asked, primary) ==
    LET api == CompatibleApi(primary, client, asked = "true")
    IN  [header |-> IF asked = "true" THEN "true" ELSE "false",
         stream |-> NormalizedStream(primary, client, api, asked)]

Init ==
    /\ vm = "running"
    /\ config \in DOMAIN Configs /\ Tables[config].ok
    /\ used = [c \in Counts |-> 0] /\ now = 0
    /\ stream = [s \in Contexts |-> Closed]
    /\ opened = 0 /\ log = <<>>

Becomes(s, context) == stream' = [stream EXCEPT ![s] = context]

\* send_http_response: the reply passes the response callbacks of the filter.
Reply(context, status) == [context EXCEPT !.phase = "response", !.status = status]

\* create_http_context
Open(s) ==
    /\ vm = "running" /\ stream[s].phase = "closed" /\ opened < MaxRequests[config]
    /\ \E r \in Requests[config] : Becomes(s, NewContext(r))
    /\ opened' = opened + 1
    /\ UNCHANGED <<vm, config, used, now, log>>

\* modify_auth_headers: the credential, in the header the provider's API reads.
ModifyAuth(provider, resolved, auth) ==
    LET held       == {h \in DOMAIN auth : auth[h] # "absent"}
        credential == IF provider.passthrough THEN "client" ELSE "provider"
    IN  IF provider.passthrough /\ held = {}
        THEN auth
        ELSE [authorization |-> IF resolved = "messages" THEN "absent" ELSE credential,
              xapikey       |-> IF resolved = "messages" THEN credential ELSE "absent"]

\* on_http_request_headers of a request that has a provider and an API.
Routed(context, provider) ==
    LET r         == context.req
        streaming == r.header = "true"
        resolved  == CompatibleApi(provider.kind, r.client, streaming)
        c == [context EXCEPT !.provider = provider, !.streaming = streaming,
                             !.resolved = resolved,
                             !.path = TargetApi(provider.kind, r.client, streaming),
                             !.selector = r.selector]
        keyed == provider.passthrough \/ provider.key
    IN  CASE keyed -> [c EXCEPT !.phase = "body", !.auth = ModifyAuth(provider, resolved, @)]
          [] ~keyed /\ (provider.endpoint \/ provider.kind = "plano") -> [c EXCEPT !.phase = "body"]
          [] ~keyed /\ ~provider.endpoint /\ provider.kind # "plano" -> Reply(c, 400)

OnRequestHeaders(s) ==
    LET c == stream[s]
        p == SelectLlmProvider(Tables[config], c.req.hint)
    IN  /\ vm = "running" /\ c.phase = "headers"
        /\ Becomes(s, CASE c.req.client = "healthz" -> Reply(c, 200)
                        [] c.req.client # "healthz" /\ p = NoProvider -> Reply(c, 400)
                        [] c.req.client = "unknown" /\ p # NoProvider ->
                              Reply([c EXCEPT !.provider = p], 404)
                        [] c.req.client \in Clients /\ p # NoProvider -> Routed(c, p))
        /\ UNCHANGED <<vm, config, used, now, opened, log>>

\* on_http_request_body of a part that is not the last: Action::Pause.
OnRequestBodyPart(s) ==
    /\ vm = "running" /\ stream[s].phase = "body" /\ ~stream[s].bodySent
    /\ Becomes(s, [stream[s] EXCEPT !.bodySent = TRUE])
    /\ UNCHANGED <<vm, config, used, now, opened, log>>

\* The rest of on_http_request_body once the limits have let the request
\* through: the body in the provider's API, or why there is none.
Forwarded(c) ==
    LET shape  == RequestShape(c.req.client, c.resolved)
        asks   == NormalizedStream(c.provider.kind, shape, c.resolved, c.req.stream)
    IN  IF "error" \in {shape, asks}
        THEN Reply(c, 400)
        ELSE [c EXCEPT !.phase = "upstream",
                       !.sent = [api |-> shape, streamed |-> asks = "true", model |-> c.provider.model]]

\* on_http_request_body of the whole body.
OnRequestBody(s) ==
    LET r     == stream[s].req
        c     == [stream[s] EXCEPT !.bodySent = TRUE]
        \* the model is set, the streaming flag read, the selector taken
        p     == [c EXCEPT !.streaming = @ \/ r.stream = "true", !.selector = NoSelector]
        count == CountOf(c.provider.model, c.selector)
    IN  /\ vm = "running" /\ c.phase = "body"
        /\ \/ /\ r.body = "empty"
              /\ Becomes(s, [c EXCEPT !.phase = "upstream"])
              /\ UNCHANGED <<vm, used, log>>
           \/ /\ r.body = "malformed"
              /\ Becomes(s, Reply(c, 400))
              /\ UNCHANGED <<vm, used, log>>
           \/ /\ r.body = "json"
              /\ c.selector = NoSelector \/ (r.tokens > 0 /\ count[1] = 0)
              /\ Becomes(s, Forwarded(p))
              /\ UNCHANGED <<vm, used, log>>
           \/ /\ r.body = "json" /\ c.selector # NoSelector /\ r.tokens > 0 /\ count[1] # 0
              /\ IF Admits(count[1], used[count], r.tokens)
                 THEN /\ Becomes(s, Forwarded(p))
                      /\ used' = [used EXCEPT ![count] = @ + r.tokens]
                      /\ log' = Append(log, [model |-> c.provider.model, selector |-> c.selector,
                                             tokens |-> r.tokens, at |-> now])
                 ELSE /\ Becomes(s, Reply(p, 429))
                      /\ UNCHANGED <<used, log>>
              /\ UNCHANGED vm
        /\ UNCHANGED <<config, now, opened>>

\* A panic in a callback: the VM fails and Envoy resets its streams.
Trap ==
    /\ vm' = "failed"
    /\ stream' = [s \in Contexts |-> Closed]

\* enforce_ratelimits of a request without a token: NonZero::new(0).unwrap().
CountNoToken(s) ==
    /\ vm = "running" /\ stream[s].phase = "body" /\ stream[s].req.body = "json"
    /\ stream[s].selector # NoSelector /\ stream[s].req.tokens = 0
    /\ Trap
    /\ UNCHANGED <<config, used, now, opened, log>>

\* on_http_response_headers of the provider's answer.
OnResponseHeaders(s) ==
    /\ vm = "running" /\ stream[s].phase = "upstream"
    /\ \E status \in {200, 500} :
          Becomes(s, [stream[s] EXCEPT !.phase = "response", !.status = status])
    /\ UNCHANGED <<vm, config, used, now, opened, log>>

\* Fault: an error is read like any answer.
PassesErrors(c) == ~c.bodySent

\* Whether on_http_response_body leaves the answer alone.
Passes(c) == ~c.bodySent \/ c.status >= 400

\* handle_streaming_response: a chunk of a stream, which may hold a token.
ReadChunk(c, tokens) ==
    [c EXCEPT !.read = @ \cup {<<CompatibleApi(c.provider.kind, c.req.client, TRUE), TRUE>>},
              !.tokens = IF tokens > @ THEN tokens ELSE @]

\* handle_non_streaming_response: an answer that is there in one part; its
\* usage says how many tokens it has.
ReadWhole(c, tokens) ==
    [c EXCEPT !.read = @ \cup {<<ResponseApi(c.provider.kind, c.req.client), FALSE>>},
              !.tokens = tokens]

\* on_http_response_body of a part of the answer that is not empty, the last
\* one or not.  A part of an answer that is not streamed cannot be parsed: the
\* reply to it comes after the headers, and Envoy ends the stream.
OnResponseBody(s) ==
    LET c == stream[s] IN
    /\ vm = "running" /\ c.phase = "response"
    /\ \E last \in BOOLEAN, tokens \in 0..1 :
          LET After(context) == [context EXCEPT !.phase = IF last THEN "over" ELSE @] IN
          \/ /\ Passes(c)
             /\ Becomes(s, After([c EXCEPT !.read = @ \cup {<<"raw", FALSE>>}]))
          \/ /\ ~Passes(c) /\ c.streaming
             /\ Becomes(s, After(ReadChunk(c, tokens)))
          \/ /\ ~Passes(c) /\ ~c.streaming
             /\ Becomes(s, After(ReadWhole(c, tokens)))
          \/ /\ ~Passes(c) /\ ~c.streaming
             /\ Becomes(s, [c EXCEPT !.phase = "over"])
    /\ UNCHANGED <<vm, config, used, now, opened, log>>

\* on_http_response_body of an empty last part: the metrics.  A token that
\* took less than a millisecond is a division by zero.
OnResponseEnd(s) ==
    LET c == stream[s] IN
    /\ vm = "running" /\ c.phase = "response"
    /\ \/ /\ Becomes(s, [c EXCEPT !.phase = "over"])
          /\ UNCHANGED vm
       \/ /\ c.bodySent /\ c.tokens > 0
          /\ Trap
    /\ UNCHANGED <<config, used, now, opened, log>>

\* External: the stream is over, or the client or the provider goes away, and
\* Envoy drops the context.
Drop(s) ==
    /\ stream[s].phase # "closed"
    /\ Becomes(s, Closed)
    /\ UNCHANGED <<vm, config, used, now, opened, log>>

\* External: the time in which each limit takes one token back.
Tick ==
    /\ vm = "running" /\ now < MaxTicks
    /\ now' = now + 1
    /\ used' = [c \in Counts |-> IF used[c] > 0 THEN used[c] - 1 ELSE 0]
    /\ UNCHANGED <<vm, config, stream, opened, log>>

Next ==
    \/ \E s \in Contexts :
          \/ Open(s) \/ OnRequestHeaders(s)
          \/ OnRequestBodyPart(s) \/ OnRequestBody(s) \/ CountNoToken(s)
          \/ OnResponseHeaders(s) \/ OnResponseBody(s) \/ OnResponseEnd(s)
          \/ Drop(s)
    \/ Tick

Spec == Init /\ [][Next]_vars

-----------------------------------------------------------------------------
\* Whether a request of the log is counted by the i-th configured limit, for
\* the value v of its header.
FallsUnder(e, i, v) ==
    LET NamedFor(value) == Named(e.model, e.selector[1], value)
    IN  /\ e.selector[2] = v
        /\ i \in NamedFor(IF NamedFor(v) # {} THEN v ELSE "")
        /\ \A j \in Named(Ratelimits[i].model, Ratelimits[i].key, Ratelimits[i].value) : i <= j

\* The tokens of the first n of some entries of the log that the limit counts,
\* for every n.
Passed(entries, i, v) ==
    LET sum[n \in 0..Len(entries)] ==
            IF n = 0 THEN 0
            ELSE sum[n - 1] + IF FallsUnder(entries[n], i, v) THEN entries[n].tokens ELSE 0
    IN  sum

\* Between any two requests, whatever streams they are of and however they
\* interleave, no more tokens pass under a limit, for a value of its header,
\* than the limit and the time between them allow; and a value that has a
\* limit of its own never uses up that of the others (ratelimit.rs,
\* check_limit under the streams of a worker).
LimitsHold ==
    \A i \in DOMAIN Ratelimits, v \in Values, a, b \in DOMAIN log :
        a <= b => Passed(log, i, v)[b] - Passed(log, i, v)[a - 1]
                      <= Burst(i) + log[b].at - log[a].at

\* A request that is sent on fits its provider in everything: the path, the
\* body and the API the context has resolved are the same API, the model is
\* the provider's, never the wildcard unless the request names it, and its
\* credential is in the header of that API and no client's credential beside
\* it (on_http_request_headers and _body).
UpstreamFits ==
    \A s \in Contexts :
        LET c == stream[s] IN
        c.sent # NotSent =>
            /\ c.sent.api = c.path /\ c.path = c.resolved
            /\ c.sent.model = c.provider.model
            /\ c.sent.model = "*" => Len(c.req.hint) = 2 /\ c.req.hint[2] = "*"
            /\ c.provider.key /\ ~c.provider.passthrough =>
                  c.auth = IF c.path = "messages"
                           THEN [authorization |-> "absent", xapikey |-> "provider"]
                           ELSE [authorization |-> "provider", xapikey |-> "absent"]

\* Whether a later item, of the first n, has a model whose bare name is the
\* name of the i-th.
Taken(items, i, n) ==
    \E j \in (i + 1)..n :
        LET it == items[j]
            models == IF it.model = "*" THEN Covered(it, SpecificNames(items)) ELSE {it.model}
        IN  items[i].name \in {Bare(m) : m \in models}

\* A model that is configured on its own is served with that configuration,
\* in whatever order it and a wildcard that covers it are listed
\* (llm_providers.rs; supported_providers.rst, Overriding Wildcard Models),
\* unless a later item's model has just that name.
SpecificWins ==
    \A s \in Contexts, i \in DOMAIN Providers :
        /\ stream[s].provider # NoProvider
        /\ stream[s].req.hint = Providers[i].name
        /\ Providers[i].model # "*" /\ ~Taken(Providers, i, Len(Providers))
        => stream[s].provider = Providers[i]

\* The answer is read in the API, and as the stream or the whole, that the
\* request sent on asks for.
ReadAsSent(c) == c.read \subseteq {<<"raw", FALSE>>, <<c.sent.api, c.sent.streamed>>}

\* An answer is read as what was asked for, errors and the filter's own
\* replies are left alone.  Two requests are excepted: one whose header did
\* not say that it is streamed, to Amazon Bedrock, whose API was chosen by
\* that header; and one that says nothing of streaming to ChatGPT, which
\* normalize_for_upstream makes a stream (on_http_response_body).
AnswerReadAsAsked ==
    \A s \in Contexts :
        LET c == stream[s] IN
        /\ c.sent # NotSent
        /\ c.provider.kind = "amazon_bedrock" => (c.req.header = "true" <=> c.streaming)
        /\ c.provider.kind = "chatgpt" /\ c.req.client = "responses" => c.req.stream # "omitted"
        => /\ ReadAsSent(c)
           /\ c.status >= 400 => c.read \subseteq {<<"raw", FALSE>>}

===============================================================================
