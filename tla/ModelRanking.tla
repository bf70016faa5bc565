---------------------------- MODULE ModelRanking ----------------------------
(***************************************************************************)
(* How brightstaff ranks the models of a route (router/model_metrics.rs,   *)
(* router/orchestrator.rs determine_route): prices and latencies that are  *)
(* fetched when it starts and, by a task per source, after every refresh   *)
(* interval, and routes of the configuration or of the request itself.     *)
(*                                                                         *)
(* A name is a sequence of segments, <<"openai", "gpt-4o">>.  A map of      *)
(* metrics is a function whose domain are the names it knows.  Nothing     *)
(* bounds the wait for a source's answer: the client has no timeout.       *)
(***************************************************************************)
EXTENDS Integers, SequencesExt

CONSTANTS
    Configs,      \* configurations: sources, prefs, declared (names of model_providers)
    Answers,      \* Answers[provider]: what that source may answer, a sequence
    Inlines,      \* routing_preferences that requests carry
    Absent,       \* no such list
    Replies,      \* routes the orchestrator names, in order
    NaN,          \* what Prometheus answers for 0/0
    MaxChanges    \* bound: times that a source changes its answer

VARIABLES config, phase, started, feed, changes, data, task, call

rankingVars == <<config, phase, started, feed, changes, data, task, call>>

Metric == {"cost", "latency"}
MetricOf(s) == IF s.provider = "prometheus" THEN "latency" ELSE "cost"
NoData == [n \in {} |-> 0]

\* What the program can read: routing_preferences, a model of DigitalOcean's list and
\* one of models.dev, a result of Prometheus, with nothing where no number is.
Preference == [name : STRING, models : Seq(Seq(STRING)), prefer : {"cheapest", "fastest", "none"}]
Number == Int \cup {Absent}
DoModel == [id : Seq(STRING), pricing : [input : Number, output : Number] \cup {Absent}]
ModelsDevModel == [provider : STRING, key : Seq(STRING), cost : [input : Number, output : Number]]
PrometheusResult == [model_name : Seq(STRING) \cup {Absent}, value : Number \cup {NaN}]

ASSUME RankingAssumption ==
    /\ \A c \in Configs :
          /\ c.prefs = Absent \/ c.prefs \in Seq(Preference)
          /\ c.sources \in Seq(Range(c.sources))
          /\ \A s \in Range(c.sources) : s.provider \in {"digitalocean", "models.dev", "prometheus"}
    /\ \A prefs \in Inlines : prefs = Absent \/ prefs \in Seq(Preference)
    /\ Replies \subseteq Seq(STRING)
    /\ \A f \in DOMAIN Answers["digitalocean"] : Answers["digitalocean"][f] \in Seq(DoModel)
    /\ \A f \in DOMAIN Answers["models.dev"] :
          IsFiniteSet(Answers["models.dev"][f]) /\ Answers["models.dev"][f] \subseteq ModelsDevModel
    /\ \A f \in DOMAIN Answers["prometheus"] : Answers["prometheus"][f] \in Seq(PrometheusResult)

(***************************************************************************)
(* From an answer to a map.  Entries of a JSON object come in any order.   *)
(***************************************************************************)
Alias(s, n) == IF n \in DOMAIN s.aliases THEN s.aliases[n] ELSE n

Insert(map, n, v) == [m \in DOMAIN map \cup {n} |-> IF m = n THEN v ELSE map[m]]
OrInsert(map, n, v) == IF n \in DOMAIN map THEN map ELSE Insert(map, n, v)

Given(price) == IF price = Absent THEN 0 ELSE price

\* fetch_do_pricing: a price that is missing counts nothing.
DoPricing(s, map, m) ==
    IF m.pricing = Absent THEN map
    ELSE Insert(map, Alias(s, m.id), Given(m.pricing.input) + Given(m.pricing.output))

\* A model of models.dev: under its provider's name and, as a fallback, its own.
Register(s, map, m) ==
    IF Absent \in {m.cost.input, m.cost.output} THEN map
    ELSE LET total == m.cost.input + m.cost.output
         IN OrInsert(Insert(map, Alias(s, <<m.provider>> \o m.key), total), m.key, total)

PrometheusMetrics(map, r) ==
    IF Absent \in {r.model_name, r.value} THEN map ELSE Insert(map, r.model_name, r.value)

Entered(s, map, entry) ==
    CASE s.provider = "digitalocean" -> DoPricing(s, map, entry)
      [] s.provider = "models.dev" -> Register(s, map, entry)
      [] s.provider = "prometheus" -> PrometheusMetrics(map, entry)

\* The map that is made of a list, entry after entry.
MapOf(s, list) ==
    LET map[n \in 0..Len(list)] ==
            IF n = 0 THEN NoData ELSE Entered(s, map[n - 1], list[n])
    IN map[Len(list)]

\* Orders in which the models are met: those of one provider follow each other.
Iterations(models) ==
    {seq \in SetToSeqs(models) : \A i, j, k \in DOMAIN seq :
        (i < j /\ j < k /\ seq[i].provider = seq[k].provider) => seq[j].provider = seq[i].provider}

ParseModelsDevPricing(s, models) == {MapOf(s, seq) : seq \in Iterations(models)}

\* The maps that may be made of answer f; of none, or one that does not parse, the
\* empty one.
Unreachable == 0

Readings(s, f) ==
    CASE f = Unreachable -> {NoData}
      [] f # Unreachable /\ s.provider = "models.dev" -> ParseModelsDevPricing(s, Answers["models.dev"][f])
      [] f # Unreachable /\ s.provider # "models.dev" -> {MapOf(s, Answers[s.provider][f])}

(***************************************************************************)
(* rank_by_ascending_metric: models with data, ascending, a stable sort;   *)
(* then those without.                                                     *)
(***************************************************************************)
Has(map, n) == n \in DOMAIN map /\ map[n] # NaN

\* The names of a list that are in a set, in the list's order.
Among(list, names) ==
    LET kept[n \in 0..Len(list)] ==
            IF n = 0 THEN <<>>
            ELSE IF list[n] \in names THEN Append(kept[n - 1], list[n]) ELSE kept[n - 1]
    IN kept[Len(list)]

StableSort(models, map) ==
    LET place(i) == Cardinality({j \in DOMAIN models : \/ map[models[j]] < map[models[i]]
                                                       \/ /\ map[models[j]] = map[models[i]]
                                                          /\ j =< i})
    IN [k \in DOMAIN models |-> models[CHOOSE i \in DOMAIN models : place(i) = k]]

\* Fault: a model without data counts as one that costs nothing.
RankUnknownFirst(models, map) ==
    StableSort(models, [n \in Range(models) |-> IF Has(map, n) THEN map[n] ELSE 0])

RankByAscendingMetric(models, map) ==
    LET known == {n \in Range(models) : Has(map, n)}
    IN StableSort(Among(models, known), map) \o Among(models, Range(models) \ known)

RankModels(pref) ==
    CASE pref.prefer = "cheapest" -> RankByAscendingMetric(pref.models, data.cost)
      [] pref.prefer = "fastest" -> RankByAscendingMetric(pref.models, data.latency)
      [] pref.prefer = "none" -> pref.models

(***************************************************************************)
(* Preferences by name: of two with one name the later counts.             *)
(***************************************************************************)
NamesIn(prefs) == IF prefs = Absent THEN {} ELSE {prefs[i].name : i \in DOMAIN prefs}
Named(prefs, n) == prefs[Max({i \in DOMAIN prefs : prefs[i].name = n})]

Effective(inline) == IF inline # Absent THEN inline ELSE config.prefs

NoCall == [at |-> "idle", inline |-> Absent, route |-> Absent, models |-> <<>>, error |-> FALSE]

Sources(k) == {i \in DOMAIN config.sources : MetricOf(config.sources[i]) = k}
SourceOf(k) == config.sources[CHOOSE i \in Sources(k) : TRUE]

\* The answers the source of k may give, the failure among them.
Feeds(k) ==
    {Unreachable} \cup (IF Sources(k) = {} THEN {} ELSE DOMAIN Answers[SourceOf(k).provider])

RankingInit ==
    /\ config \in Configs
    /\ phase = "checking"
    /\ started = 0
    /\ feed \in {[k \in Metric |-> IF k = "cost" THEN c ELSE l] : c \in Feeds("cost"), l \in Feeds("latency")}
    /\ changes = 0
    /\ data = [k \in Metric |-> NoData]
    /\ task = [k \in Metric |-> [at |-> "none", read |-> NoData]]
    /\ call = NoCall

(***************************************************************************)
(* Start: the configuration is checked, each source is fetched, and that   *)
(* there is a source for what the preferences need is checked after that.  *)
(***************************************************************************)
Declared == config.prefs # Absent =>
    \A i \in DOMAIN config.prefs : Range(config.prefs[i].models) \subseteq config.declared

CheckConfig ==
    /\ phase = "checking"
    /\ phase' = IF Declared /\ \A k \in Metric : Cardinality(Sources(k)) =< 1
                THEN "fetching" ELSE "failed"
    /\ UNCHANGED <<config, started, feed, changes, data, task, call>>

FetchAtStart ==
    /\ phase = "fetching"
    /\ started < Len(config.sources)
    /\ LET s == config.sources[started + 1]
           k == MetricOf(s)
       IN \E map \in Readings(s, feed[k]) :
              /\ data' = [data EXCEPT ![k] = map]
              /\ task' = [task EXCEPT ![k] = [at |-> IF s.refresh THEN "sleeping" ELSE "none", read |-> map]]
    /\ started' = started + 1
    /\ UNCHANGED <<config, phase, feed, changes, call>>

Needed == {k \in Metric : config.prefs # Absent /\ \E i \in DOMAIN config.prefs :
              config.prefs[i].prefer = (IF k = "cost" THEN "cheapest" ELSE "fastest")}

CheckPolicies ==
    /\ phase = "fetching"
    /\ started = Len(config.sources)
    /\ phase' = IF \A k \in Needed : Sources(k) # {} THEN "serving" ELSE "failed"
    /\ UNCHANGED <<config, started, feed, changes, data, task, call>>

(***************************************************************************)
(* The task of a source: what was fetched replaces the map, under a lock    *)
(* that waits for readers and makes later readers wait.                     *)
(***************************************************************************)
\* Fault: a fetch that fails ends the task.
FetchUntilItFails(k) ==
    /\ task[k].at = "sleeping"
    /\ \E map \in Readings(SourceOf(k), feed[k]) :
           task' = [task EXCEPT ![k] = [at |-> IF feed[k] = Unreachable THEN "none" ELSE "writing",
                                        read |-> map]]
    /\ UNCHANGED <<config, phase, started, feed, changes, data, call>>

Fetch(k) ==
    /\ task[k].at = "sleeping"
    /\ \E map \in Readings(SourceOf(k), feed[k]) :
           task' = [task EXCEPT ![k] = [at |-> "writing", read |-> map]]
    /\ UNCHANGED <<config, phase, started, feed, changes, data, call>>

Write(k) ==
    /\ task[k].at = "writing"
    /\ k = "cost" => call.at # "ranking"
    /\ data' = [data EXCEPT ![k] = task[k].read]
    /\ task' = [task EXCEPT ![k].at = "sleeping"]
    /\ UNCHANGED <<config, phase, started, feed, changes, call>>

\* The source answers something else from now on, or nothing.
FeedChanges(k) ==
    /\ changes < MaxChanges
    /\ \E f \in Feeds(k) \ {feed[k]} : feed' = [feed EXCEPT ![k] = f]
    /\ changes' = changes + 1
    /\ UNCHANGED <<config, phase, started, data, task, call>>

(***************************************************************************)
(* determine_route.                                                        *)
(***************************************************************************)
Ended(route, models) ==
    [call EXCEPT !.at = "done", !.route = route, !.models = models]

Ask(inline, empty) ==
    /\ phase = "serving"
    /\ call.at \in {"idle", "done"}
    /\ call' = [NoCall EXCEPT !.inline = inline,
                    !.at = IF empty \/ NamesIn(Effective(inline)) = {} THEN "done" ELSE "asked"]
    /\ UNCHANGED <<config, phase, started, feed, changes, data, task>>

\* Fault: a route that the preferences do not name counts too.
ParseAnyRoute(reply) == Among(reply, Range(reply) \ {""})

\* parse_response: of the routes named, those that were offered.
ParseResponse(reply) == Among(reply, NamesIn(Effective(call.inline)) \ {""})

PrefOf(n) ==
    IF n \in NamesIn(call.inline) THEN Named(call.inline, n)
    ELSE IF n \in NamesIn(config.prefs) THEN Named(config.prefs, n) ELSE Absent

NoService == config.sources = <<>>

Reply(reply) ==
    /\ call.at = "asked"
    /\ LET routes == ParseResponse(reply)
       IN call' = CASE routes = <<>> \/ (routes # <<>> /\ PrefOf(Head(routes)) = Absent) -> Ended(Absent, <<>>)
                    [] routes # <<>> /\ PrefOf(Head(routes)) # Absent /\ NoService ->
                           Ended(Head(routes), PrefOf(Head(routes)).models)
                    [] OTHER -> [call EXCEPT !.at = "chosen", !.route = Head(routes)]
    /\ UNCHANGED <<config, phase, started, feed, changes, data, task>>

OrchestratorFails ==
    /\ call.at = "asked"
    /\ call' = [Ended(Absent, <<>>) EXCEPT !.error = TRUE]
    /\ UNCHANGED <<config, phase, started, feed, changes, data, task>>

\* rank_models reads the prices, then the latencies, behind writers that wait.
ReadCost ==
    /\ call.at = "chosen"
    /\ task.cost.at # "writing"
    /\ call' = [call EXCEPT !.at = "ranking"]
    /\ UNCHANGED <<config, phase, started, feed, changes, data, task>>

Rank ==
    /\ call.at = "ranking"
    /\ task.latency.at # "writing"
    /\ call' = Ended(call.route, RankModels(PrefOf(call.route)))
    /\ UNCHANGED <<config, phase, started, feed, changes, data, task>>

Start == CheckConfig \/ FetchAtStart \/ CheckPolicies

RankingNext ==
    \/ Start
    \/ \E k \in Metric : Fetch(k) \/ Write(k) \/ FeedChanges(k)
    \/ \E inline \in Inlines, empty \in BOOLEAN : Ask(inline, empty)
    \/ \E reply \in Replies : Reply(reply)
    \/ OrchestratorFails
    \/ ReadCost
    \/ Rank

RankingSpec == RankingInit /\ [][RankingNext]_rankingVars

\* The runtime runs every task; that a source answers, if only an error, and
\* that the lock serves its waiters in turn, is assumed of them.
FairSpec ==
    /\ RankingSpec
    /\ WF_rankingVars(Start)
    /\ \A k \in Metric : WF_rankingVars(Fetch(k)) /\ WF_rankingVars(Write(k))
    /\ SF_rankingVars(ReadCost) /\ SF_rankingVars(Rank)

(***************************************************************************)
(* Properties.                                                             *)
(***************************************************************************)
\* A route is one of those the request brought, or of the configuration's if it
\* brought none, and its models are those it has there, none lost and none added,
\* whatever the orchestrator names and the sources answer
\* (determine_route, parse_response, rank_models).
RoutedByItsPreferences ==
    call.at = "done" /\ call.route # Absent =>
        LET prefs == Effective(call.inline)
        IN /\ call.route \in NamesIn(prefs)
           /\ \A m \in Range(call.models) \cup Range(Named(prefs, call.route).models) :
                  Cardinality({i \in DOMAIN call.models : call.models[i] = m})
                    = LET models == Named(prefs, call.route).models
                      IN Cardinality({i \in DOMAIN models : models[i] = m})

\* A ranking is by the map that is in force when it is given, models without data
\* last, and in the order of the preference where the data make no difference
\* (rank_by_ascending_metric, and the locks of rank_models).
InOrder(ranked, pref, map) ==
    LET models == pref.models
        precedes(i, j) == CASE Has(map, models[i]) /\ Has(map, models[j]) ->
                                   \/ map[models[i]] < map[models[j]]
                                   \/ map[models[i]] = map[models[j]] /\ i < j
                            [] Has(map, models[i]) # Has(map, models[j]) -> Has(map, models[i])
                            [] OTHER -> i < j
    IN \E from \in [DOMAIN ranked -> DOMAIN models] :
           /\ \A k \in DOMAIN ranked : ranked[k] = models[from[k]]
           /\ \A j, k \in DOMAIN ranked : j < k => precedes(from[j], from[k])

RankingFollowsData ==
    [][call.at = "ranking" /\ call'.at = "done" =>
           LET pref == Named(Effective(call.inline), call.route)
           IN InOrder(call'.models, pref, CASE pref.prefer = "cheapest" -> data.cost
                                            [] pref.prefer = "fastest" -> data.latency
                                            [] pref.prefer = "none" -> NoData)]_rankingVars

\* A failed fetch empties the map, but not for good: once its source settles, a map
\* that is refreshed is what the source answers (the tasks of ModelMetricsService::new).
CatchesUp ==
    \A k \in Metric : <>[](phase = "serving" /\ (\E i \in Sources(k) : config.sources[i].refresh) =>
                               data[k] \in Readings(SourceOf(k), feed[k]))
=============================================================================
