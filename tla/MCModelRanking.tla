---------------------------- MODULE MCModelRanking ----------------------------
(***************************************************************************)
(* A reseller of models.dev that lists a model under its maker's name, and *)
(* a latency source with a model that has no measurements yet.             *)
(***************************************************************************)
EXTENDS ModelRanking

A == <<"anthropic", "claude">>
O == <<"openai", "gpt">>
B == <<"local", "llama">>

Sold(provider, key, input, output) ==
    [provider |-> provider, key |-> key, cost |-> [input |-> input, output |-> output]]
Listed(id, pricing) == [id |-> id, pricing |-> pricing]

MCAnswers ==
    [p \in {"digitalocean", "models.dev", "prometheus"} |->
        CASE p = "digitalocean" ->
               <<<<Listed(A, [input |-> 2, output |-> 1]), Listed(O, [input |-> 1, output |-> 2]),
                  Listed(B, Absent)>>,
                <<Listed(B, [input |-> 1, output |-> Absent]), Listed(<<"d", "gpt">>, [input |-> 0, output |-> 1])>>>>
          [] p = "models.dev" ->
               <<{Sold("anthropic", <<"claude">>, 2, 2), Sold("reseller", A, 1, 1),
                 Sold("openai", <<"gpt">>, 1, 2)},
                {Sold("reseller", O, 1, 1), Sold("local", <<"llama">>, 1, Absent)}>>
          [] p = "prometheus" ->
               <<<<[model_name |-> A, value |-> 3], [model_name |-> O, value |-> NaN],
                  [model_name |-> B, value |-> 3]>>,
                <<[model_name |-> O, value |-> 1], [model_name |-> Absent, value |-> 1],
                  [model_name |-> B, value |-> Absent]>>>>]

Source(provider, refresh, aliases) ==
    [provider |-> provider, refresh |-> refresh, aliases |-> aliases]
Pref(name, models, prefer) == [name |-> name, models |-> models, prefer |-> prefer]
Config(sources, prefs) == [sources |-> sources, prefs |-> prefs, declared |-> {A, O, B}]

DevSource == Source("models.dev", TRUE, NoData)
DoSource == Source("digitalocean", FALSE, [n \in {<<"d", "gpt">>} |-> O])
PromSource == Source("prometheus", TRUE, NoData)

MCConfigs ==
    {Config(<<DevSource, PromSource>>, <<Pref("code", <<B, A, O>>, "cheapest"), Pref("chat", <<O, B, A>>, "fastest")>>),
     Config(<<DoSource>>, <<Pref("code", <<B, A, O>>, "cheapest")>>),
     Config(<<>>, <<Pref("code", <<A, O>>, "none")>>),
     Config(<<>>, <<Pref("code", <<A, O>>, "cheapest")>>),
     Config(<<DevSource, DoSource>>, Absent),
     Config(<<PromSource>>, Absent)}

MCInlines ==
    {Absent, <<>>, <<Pref("chat", <<A, B>>, "cheapest")>>,
     <<Pref("sql", <<O>>, "none"), Pref("sql", <<B, O, B>>, "fastest")>>}

MCReplies == {<<>>, <<"code">>, <<"", "chat">>, <<"sql", "code">>}
=============================================================================
