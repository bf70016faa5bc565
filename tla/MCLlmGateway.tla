----------------------------- MODULE MCLlmGateway -----------------------------
(* The configurations and the requests under which TLC checks LlmGateway. *)
EXTENDS LlmGateway, TLC

MCNested == "openai/m1" :> <<"openai", "m1">> @@ "openai/m9" :> <<"openai", "m9">>
MCRegistry == [openai |-> <<"m1", "m2">>, anthropic |-> <<"c1">>]

Default(it) == [it EXCEPT !.default = TRUE]
OpenAi1 == [Item(<<"openai", "m1">>, "m1", "openai") EXCEPT !.endpoint = TRUE]
OpenAiAll == Item(<<"openai", "*">>, "*", "openai")

\* Every way to be spoken to, and every way to hold a key.
EveryKind == <<OpenAi1, OpenAiAll, Item(<<"anthropic", "*">>, "*", "anthropic"),
               Default(Item(<<"amazon_bedrock", "b1">>, "b1", "amazon_bedrock")),
               Item(<<"xai", "x1">>, "x1", "xai"), Item(<<"vercel", "*">>, "*", "vercel"),
               Item(<<"chatgpt", "g1">>, "g1", "chatgpt"), Item(<<"groq", "q1">>, "q1", "groq"),
               [Item(<<"local", "l1">>, "l1", "openai") EXCEPT !.key = FALSE, !.endpoint = TRUE],
               [Item(<<"mistral", "n1">>, "n1", "mistral") EXCEPT !.key = FALSE],
               [Item(<<"deepseek", "d1">>, "d1", "deepseek") EXCEPT !.passthrough = TRUE]>>

Kinds == <<"openai", "anthropic", "amazon_bedrock", "xai", "vercel", "chatgpt", "groq",
           "openai", "mistral", "deepseek">>
Hints == <<<<"openai", "m1">>, <<"anthropic", "c1">>, <<"amazon_bedrock", "b1">>, <<"xai", "x1">>,
           <<"vercel", "v1">>, <<"chatgpt", "g1">>, <<"groq", "q1">>, <<"local", "l1">>,
           <<"mistral", "n1">>, <<"deepseek", "d1">>>>

AuthOf(client) ==
    IF client = "messages" THEN [NoAuth EXCEPT !.xapikey = "client"]
    ELSE [NoAuth EXCEPT !.authorization = "client"]

Request(client, hint, header, asks, selector, tokens) ==
    [client |-> client, hint |-> hint, header |-> header, stream |-> asks,
     selector |-> selector, tokens |-> tokens, body |-> "json", auth |-> AuthOf(client)]

\* brightstaff's, for the primary p and sent to the candidate k.
FromBrightstaff(client, asked, p, k) ==
    LET b == Prepared(client, asked, Kinds[p])
    IN  Request(client, Hints[k], b.header, b.stream, NoSelector, 1)

Plain == Request("chat", Hints[1], "false", "false", NoSelector, 1)

EveryRequest ==
    {r \in {FromBrightstaff(c, a, p, k) : c \in Clients, a \in {"true", "false", "omitted"},
                                          p \in {1, 3, 6}, k \in DOMAIN Hints} : r.stream # "error"}
    \* from the prompt_gateway filter
    \cup {Request("chat", h, "omitted", f, NoSelector, 1) :
            h \in {NoHint, DefaultHint, <<"", "m2">>, <<"none", "such">>}, f \in {"true", "omitted"}}
    \cup {[Plain EXCEPT !.body = b] : b \in {"empty", "malformed"}}
    \cup {[Plain EXCEPT !.client = c] : c \in {"healthz", "unknown"}}
    \cup {[Plain EXCEPT !.hint = <<"deepseek", "d1">>, !.auth = NoAuth]}

LimitedRequests ==
    {Request("chat", <<"openai", "m1">>, "false", "false", <<"user", x[1]>>, x[2]) :
            x \in {"a", "b"} \X {1, 2} \cup {<<"a", 3>>, <<"b", 0>>}}
    \cup {Request("chat", <<"openai", "m2">>, "false", "false", <<"user", "a">>, 1),
          Request("chat", NoHint, "false", "false", NoSelector, 1)}

\* Every kind of provider and request; rate limits that streams share, with no
\* default provider; a wildcard of a provider that is not in the registry, and
\* models whose names collide.
MCConfigs == [every   |-> EveryKind,
              limited |-> <<OpenAi1, OpenAiAll>>,
              custom  |-> <<OpenAi1, Item(<<"litellm", "*">>, "*", "litellm"),
                            Item(<<"together_ai", "openai/m9">>, "openai/m9", "together_ai"),
                            Item(<<"openai", "m9">>, "m9", "openai"),
                            Item(<<"groq", "openai/m1">>, "openai/m1", "groq")>>]
MCRequests == [every   |-> EveryRequest,
               limited |-> LimitedRequests,
               custom  |-> {[Plain EXCEPT !.hint = <<"litellm", m>>] : m \in {"m1", "m7", "*"}}
                          \cup {[Plain EXCEPT !.hint = h] :
                                   h \in {<<"openai", "m1">>, <<"openai", "m9">>, <<"", "m9">>, <<"together_ai", "openai/m9">>}}]
MCMaxRequests == [every |-> 1, limited |-> 3, custom |-> 1]

\* A value with a limit of its own, the others' each their own, a repeated one.
MCRatelimits ==
    <<[model |-> "m1", key |-> "user", value |-> "a", tokens |-> 2, unit |-> "minute"],
      [model |-> "m1", key |-> "user", value |-> "", tokens |-> 72, unit |-> "day"],
      [model |-> "m1", key |-> "user", value |-> "a", tokens |-> 9, unit |-> "minute"]>>

Symmetry == Permutations(Contexts)
===============================================================================
