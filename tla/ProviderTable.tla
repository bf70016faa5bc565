---------------------------- MODULE ProviderTable ----------------------------
(***************************************************************************)
(* The table of LLM providers (common, llm_providers.rs) that brightstaff  *)
(* and the llm_gateway filter build from `model_providers`, the choice of  *)
(* a provider by name (routing.rs), and the API each provider is spoken to *)
(* in (hermesllm, providers/id.rs and clients/endpoints.rs).               *)
(*                                                                         *)
(* A name is a pair <<prefix, model>>: "openai/gpt-4o" is <<"openai",      *)
(* "gpt-4o">>, the bare "gpt-4o" is <<"", "gpt-4o">>.  The bare name of a  *)
(* model that has a "/" of its own is itself such a pair.                  *)
(***************************************************************************)
EXTENDS Naturals, Sequences, Functions

CONSTANTS
    Registry,   \* provider_models.yaml: prefix -> sequence of its models
    Nested      \* a model that has a "/" of its own -> the pair it is split into

ASSUME RegistryAssumption ==
    \A prefix \in DOMAIN Registry :
        /\ Registry[prefix] \in Seq(STRING)
        /\ Range(Registry[prefix]) \cap ({"*"} \cup DOMAIN Nested) = {}

NoProvider == [name |-> <<"", "">>, model |-> "", kind |-> "none"]

\* An item of model_providers, as the CLI renders it: its own name, or its
\* model's; "*" for every model of the prefix.
Item(name, model, kind) ==
    [name |-> name, model |-> model, kind |-> kind, default |-> FALSE,
     key |-> TRUE, passthrough |-> FALSE, endpoint |-> FALSE]

Bare(model) == IF model \in DOMAIN Nested THEN Nested[model] ELSE <<"", model>>

\* The models that items of their own configure, by prefix.
SpecificNames(items) == {items[i].name : i \in {j \in DOMAIN items : items[j].model # "*"}}

EmptyTable == [ok |-> TRUE, providers |-> <<>>, default |-> NoProvider,
               wildcards |-> <<>>, names |-> {}]

Refused(table) == [table EXCEPT !.ok = FALSE]

Insert(f, key, value) == [k \in DOMAIN f \cup {key} |-> IF k = key THEN value ELSE f[k]]

\* The models of the registry that a wildcard item stands for.
Covered(it, specific) ==
    {m \in IF it.name[1] \in DOMAIN Registry THEN Range(Registry[it.name[1]]) ELSE {} :
        <<it.name[1], m>> \notin specific}

\* The full and the bare names of some models.
NamesOf(prefix, models) == {<<prefix, m>> : m \in models} \cup {Bare(m) : m \in models}

\* A wildcard item: kept under its prefix, and expanded to the models the
\* registry has for it, each under its full and its bare name.
AddWildcard(table, it, specific) ==
    LET prefix == it.name[1]
        names  == NamesOf(prefix, Covered(it, specific))
    IN  [table EXCEPT
            !.wildcards = Insert(@, prefix, it),
            !.providers = [n \in DOMAIN table.providers \cup names |->
                              IF n \in names
                              THEN [it EXCEPT !.model = n[2], !.name = <<prefix, n[2]>>]
                              ELSE table.providers[n]]]

AddSpecific(table, it) ==
    IF it.name \in table.names
    THEN Refused(table)
    ELSE [table EXCEPT !.names = @ \cup {it.name},
                       !.providers = Insert(Insert(@, it.name, it), Bare(it.model), it)]

AddItem(table, it, specific) ==
    IF ~table.ok \/ (it.default /\ table.default # NoProvider)
    THEN Refused(table)
    ELSE LET t == [table EXCEPT !.default = IF it.default THEN it ELSE @]
         IN  IF it.model = "*" THEN AddWildcard(t, it, specific) ELSE AddSpecific(t, it)

\* The table after each of the items, a wildcard not standing for `specific`.
Built(items, specific) ==
    LET table[n \in 0..Len(items)] ==
            IF n = 0 THEN EmptyTable ELSE AddItem(table[n - 1], items[n], specific)
    IN  table

\* Fault: a wildcard also expands to the models configured on their own.
BuildTableExpandingAll(items) ==
    IF items = <<>> THEN Refused(EmptyTable) ELSE Built(items, {})[Len(items)]

\* LlmProviders::try_from
BuildTable(items) ==
    IF items = <<>> THEN Refused(EmptyTable)
    ELSE Built(items, SpecificNames(items))[Len(items)]

\* LlmProviders::get
Get(table, name) ==
    CASE name \in DOMAIN table.providers -> table.providers[name]
      [] /\ name \notin DOMAIN table.providers
         /\ name[1] # "" /\ Bare(name[2]) \in DOMAIN table.providers ->
            table.providers[Bare(name[2])]
      [] /\ name \notin DOMAIN table.providers
         /\ name[1] # "" /\ Bare(name[2]) \notin DOMAIN table.providers
         /\ name[1] \in DOMAIN table.wildcards ->
            [table.wildcards[name[1]] EXCEPT !.model = name[2]]
      [] OTHER -> NoProvider

NoHint == <<>>
DefaultHint == <<"default">>

\* routing::get_llm_provider
GetLlmProvider(table, hint) ==
    CASE hint = NoHint      -> NoProvider
      [] hint = DefaultHint -> table.default
      [] OTHER              -> Get(table, hint)

\* select_llm_provider: the hinted one, or else the default.
SelectLlmProvider(table, hint) ==
    LET hinted == GetLlmProvider(table, hint)
    IN  IF hinted = NoProvider THEN table.default ELSE hinted

-----------------------------------------------------------------------------
Clients == {"chat", "messages", "responses"}

\* ProviderId::compatible_api_for_client
CompatibleApi(kind, client, streaming) ==
    CASE kind = "amazon_bedrock" -> IF streaming THEN "converse_stream" ELSE "converse"
      [] kind \in {"anthropic", "vercel"} /\ client = "messages" -> "messages"
      [] kind \in {"openai", "xai", "chatgpt", "vercel"} /\ client = "responses" -> "responses"
      [] OTHER -> "chat"

\* Fault: one provider of the Responses API is missing from the endpoints.
TargetApiWithoutXai(kind, client, streaming) ==
    CASE kind = "amazon_bedrock" -> IF streaming THEN "converse_stream" ELSE "converse"
      [] kind \in {"anthropic", "vercel"} /\ client = "messages" -> "messages"
      [] kind \in {"openai", "chatgpt", "vercel"} /\ client = "responses" -> "responses"
      [] OTHER -> "chat"

\* SupportedAPIsFromClient::target_endpoint_for_provider: the API whose path,
\* with whatever prefix the provider has, the request is sent to.
TargetApi(kind, client, streaming) ==
    CASE client = "messages" /\ kind \in {"anthropic", "vercel"} -> "messages"
      [] client = "responses" /\ kind \in {"openai", "xai", "chatgpt", "vercel"} -> "responses"
      [] kind = "amazon_bedrock" /\ streaming -> "converse_stream"
      [] kind = "amazon_bedrock" /\ ~streaming -> "converse"
      [] OTHER -> "chat"

\* TryFrom<(ProviderRequestType, &SupportedUpstreamAPIs)>: the shape of the
\* body, "error" when there is no such conversion.
RequestShape(client, api) ==
    IF api = "responses" /\ client # "responses" THEN "error" ELSE api

\* TryFrom<(&[u8], &SupportedAPIsFromClient, &ProviderId)>: the API in which a
\* response that is not streamed is read.
ResponseApi(kind, client) == CompatibleApi(kind, client, FALSE)

\* normalize_for_upstream of a request in the shape of one API for another:
\* what its `stream` says then ("omitted" when it says nothing), or "error".
NormalizedStream(kind, shape, api, stream) ==
    CASE shape = "chat" /\ api = "chat" -> IF stream = "omitted" THEN "false" ELSE stream
      [] shape = "responses" /\ kind = "chatgpt" -> IF stream = "false" THEN "error" ELSE "true"
      [] shape = "converse" -> "false"
      [] shape = "converse_stream" -> "true"
      [] OTHER -> stream
=============================================================================
