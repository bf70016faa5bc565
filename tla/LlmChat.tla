------------------------------ MODULE LlmChat ------------------------------
(***************************************************************************)
(* The LLM path of brightstaff: the handler of chat requests               *)
(* (handlers/llm/mod.rs) with its attempt loop over the candidates of an   *)
(* alias, and the routing service (handlers/routing_service.rs), which     *)
(* shares the session cache with it.  Requests run concurrently; each      *)
(* action is the code between two awaits.                                  *)
(*                                                                         *)
(* The session cache appears as what it promises in RouteCache: per        *)
(* session the last route put there, which it may lose at any time.        *)
(***************************************************************************)
EXTENDS ModelHealth, Sequences

CONSTANTS
    Request,        \* concurrent requests
    Session,        \* values of the X-Model-Affinity header
    Alias,          \* names a client can put in the `model` field
    Targets,        \* Targets[a]: the backends alias a stands for
    Configured,     \* backends with a configured provider
    RouterModels,   \* what the orchestrator can select
    Statuses,       \* HTTP statuses an upstream can answer with
    RetryAfters,    \* integer values of a Retry-After header
    RedisCache,     \* TRUE: the session cache is in Redis, FALSE: in memory
    NoSession, NoModel, NoAlias,
    Sentinel        \* the model name "none" of a router without a route

ASSUME LlmChatAssumption ==
    /\ Sentinel \in Model
    /\ Configured \subseteq Model \ {Sentinel}
    /\ RouterModels \subseteq Model \ {Sentinel}
    /\ Targets \in [Alias -> SUBSET Model]
    /\ NoModel \notin Model
    /\ NoSession \notin Session
    /\ NoAlias \notin Alias
    /\ Statuses \subseteq Nat
    /\ RetryAfters \subseteq Nat
    /\ RedisCache \in BOOLEAN
    /\ IsFiniteSet(Model)

VARIABLES
    pins,    \* pins[s]: model of the cached route of session s
    req      \* req[r]: the request of slot r

vars == <<cooldowns, pins, req>>

\* One request: where it is; its session, whether it is internal and the pin
\* it read; the alias in its body; the candidates in the order the attempt
\* loop takes them and how many it has taken; the response.  The last three
\* are history, read by properties only: the single model a pin or the router
\* imposed, the candidates available when they were ordered, and the models
\* that failed for this request.
Requests == [
    pc : {"idle", "parse", "route", "send", "await", "decide", "done"},
    session : Session \cup {NoSession}, internal : BOOLEAN,
    pinned : Model \cup {NoModel}, asked : Alias \cup {NoAlias},
    order : Seq(Model), pos : Nat,
    outcome : {"none", "relayed", "unreachable", "rejected", "decided"}, status : Nat,
    chosen : Model \cup {NoModel}, healthy : SUBSET Model, failed : SUBSET Model]

NoRequest == [
    pc |-> "idle",
    session |-> NoSession, internal |-> FALSE,
    pinned |-> NoModel, asked |-> NoAlias,
    order |-> <<>>, pos |-> 0,
    outcome |-> "none", status |-> 0,
    chosen |-> NoModel, healthy |-> {}, failed |-> {}]

\* What alias a resolves to, without what has no configured provider.
Candidates(a) == Targets[a] \cap Configured

\* The model of the attempt under way, and whether the iterator is exhausted.
Current(r) == req[r].order[req[r].pos]
IsLast(r) == req[r].pos = Len(req[r].order)

IsRetryableStatus(status) == status \in {401, 404, 429, 500, 502, 503, 504}

Cache == INSTANCE RouteCache WITH Route <- Model, NoRoute <- NoModel

\* What a look-up of session s can find.
GetCachedRoute(s) == IF s = NoSession THEN {NoModel} ELSE Cache!Lookups(s)

CacheRoute(s, m) == IF s = NoSession THEN UNCHANGED pins ELSE Cache!Put(s, m)

\* The handler returns: the client gets its response.
Respond(r, outcome, status) ==
    req' = [req EXCEPT ![r].pc = "done", ![r].outcome = outcome, ![r].status = status]

Init ==
    /\ HealthInit
    /\ Cache!CacheInit
    /\ req = [r \in Request |-> NoRequest]

-----------------------------------------------------------------------------
(* llm_chat *)

\* Fault: the pin is read for internal calls too.
ReceiveChatUnguarded(r) ==
    /\ req[r].pc = "idle"
    /\ \E s \in Session \cup {NoSession}, internal \in BOOLEAN :
         \E found \in GetCachedRoute(s) :
             req' = [req EXCEPT ![r].pc = "parse", ![r].session = s,
                                ![r].internal = internal, ![r].pinned = found]
    /\ UNCHANGED <<cooldowns, pins>>

\* A chat request comes in.  The pin of its session is read here, before the
\* body; an internal call never reads it.
ReceiveChat(r) ==
    /\ req[r].pc = "idle"
    /\ \E s \in Session \cup {NoSession}, internal \in BOOLEAN :
         \E found \in (IF internal THEN {NoModel} ELSE GetCachedRoute(s)) :
             req' = [req EXCEPT ![r].pc = "parse", ![r].session = s,
                                ![r].internal = internal, ![r].pinned = found]
    /\ UNCHANGED <<cooldowns, pins>>

\* parse_and_validate_request: the alias's configured candidates, by health.
Parse(r) ==
    /\ req[r].pc = "parse"
    /\ \E a \in Alias :
         /\ Candidates(a) # {}
         /\ \E s \in OrderCandidates(Candidates(a)) :
              req' = [req EXCEPT ![r].pc = "route", ![r].asked = a, ![r].order = s,
                                 ![r].healthy = {m \in Candidates(a) : IsAvailable(m)}]
    /\ UNCHANGED <<cooldowns, pins>>

\* None of the candidates is configured.
UnknownModel(r) ==
    /\ req[r].pc = "parse"
    /\ \E a \in Alias : Candidates(a) = {}
    /\ Respond(r, "rejected", 400)
    /\ UNCHANGED <<cooldowns, pins>>

\* Early returns: an unreadable or unparsable body, an unsupported endpoint,
\* an input filter's error, a request that cannot be normalised, a missing
\* previous response, a router error.
Abandon(r) ==
    /\ req[r].pc \in {"parse", "route", "decide"}
    /\ \E status \in {400, 409, 500} : Respond(r, "rejected", status)
    /\ UNCHANGED <<cooldowns, pins>>

\* Fault: serving from the pin stores it again.
UsePinAndStore(r) ==
    /\ req[r].pc = "route"
    /\ req[r].pinned # NoModel
    /\ req' = [req EXCEPT ![r].pc = "send", ![r].order = <<req[r].pinned>>,
                          ![r].chosen = req[r].pinned]
    /\ CacheRoute(req[r].session, req[r].pinned)
    /\ UNCHANGED cooldowns

\* A pinned model stands in for routing and is the only candidate.
UsePin(r) ==
    /\ req[r].pc = "route"
    /\ req[r].pinned # NoModel
    /\ req' = [req EXCEPT ![r].pc = "send", ![r].order = <<req[r].pinned>>,
                          ![r].chosen = req[r].pinned]
    /\ UNCHANGED <<cooldowns, pins>>

\* The router has picked a model of its own, which is then the only candidate,
\* and is cached for the session; an internal call's too.
RouteTo(r) ==
    /\ req[r].pc = "route"
    /\ req[r].pinned = NoModel
    /\ \E m \in RouterModels :
         /\ req' = [req EXCEPT ![r].pc = "send", ![r].order = <<m>>, ![r].chosen = m]
         /\ CacheRoute(req[r].session, m)
    /\ UNCHANGED cooldowns

\* The router has found no route: the candidates of the alias stand, and the
\* first of them is cached before it is ever tried.
NoRoute(r) ==
    /\ req[r].pc = "route"
    /\ req[r].pinned = NoModel
    /\ req' = [req EXCEPT ![r].pc = "send"]
    /\ CacheRoute(req[r].session, req[r].order[1])
    /\ UNCHANGED cooldowns

\* send_upstream takes the next candidate, stamps it on the request and posts.
Send(r) ==
    /\ req[r].pc = "send"
    /\ ~IsLast(r)
    /\ req' = [req EXCEPT ![r].pc = "await", ![r].pos = @ + 1]
    /\ UNCHANGED <<cooldowns, pins>>

\* The attempt failed: the loop goes on while there is a candidate left, and
\* the last failure is what the client gets.
TryNext(r, outcome, status) ==
    \/ /\ ~IsLast(r)
       /\ req' = [req EXCEPT ![r].pc = "send", ![r].failed = @ \cup {Current(r)}]
    \/ /\ IsLast(r)
       /\ req' = [req EXCEPT ![r].pc = "done", ![r].failed = @ \cup {Current(r)},
                             ![r].outcome = outcome, ![r].status = status]

\* A retryable status puts the model in cooldown.
UpstreamFails(r) ==
    /\ req[r].pc = "await"
    /\ \E status \in Statuses, retryAfter \in RetryAfters \cup {NoRetryAfter} :
         /\ IsRetryableStatus(status)
         /\ MarkUnhealthy(Current(r), retryAfter)
         /\ TryNext(r, "relayed", status)
    /\ UNCHANGED pins

\* Fault: the primary is blamed, not the candidate that was tried.
UpstreamUnreachableBlamesPrimary(r) ==
    /\ req[r].pc = "await"
    /\ MarkUnhealthy(req[r].order[1], NoRetryAfter)
    /\ TryNext(r, "unreachable", 500)
    /\ UNCHANGED pins

\* No answer at all counts as a failure with the default cooldown.
UpstreamUnreachable(r) ==
    /\ req[r].pc = "await"
    /\ MarkUnhealthy(Current(r), NoRetryAfter)
    /\ TryNext(r, "unreachable", 500)
    /\ UNCHANGED pins

\* Any other status ends the loop and clears the model's cooldown.
UpstreamAnswers(r) ==
    /\ req[r].pc = "await"
    /\ \E status \in Statuses :
         /\ ~IsRetryableStatus(status)
         /\ Respond(r, "relayed", status)
    /\ MarkHealthy(Current(r))
    /\ UNCHANGED pins

-----------------------------------------------------------------------------
(* routing_decision *)

\* A client asks for a decision only, and the session has none.
ReceiveDecision(r) ==
    /\ req[r].pc = "idle"
    /\ \E s \in Session \cup {NoSession} :
         /\ NoModel \in GetCachedRoute(s)
         /\ req' = [req EXCEPT ![r].pc = "decide", ![r].session = s]
    /\ UNCHANGED <<cooldowns, pins>>

\* A pinned decision is returned at once, before the body is read.
PinnedDecision(r) ==
    /\ req[r].pc = "idle"
    /\ \E s \in Session :
         /\ pins[s] # NoModel
         /\ req' = [req EXCEPT ![r].pc = "done", ![r].session = s, ![r].pinned = pins[s],
                               ![r].chosen = pins[s], ![r].outcome = "decided",
                               ![r].status = 200]
    /\ UNCHANGED <<cooldowns, pins>>

\* The router's model_name is cached and returned, the sentinel included.
Decide(r) ==
    /\ req[r].pc = "decide"
    /\ \E m \in RouterModels \cup {Sentinel} :
         /\ CacheRoute(req[r].session, m)
         /\ req' = [req EXCEPT ![r].pc = "done", ![r].chosen = m, ![r].outcome = "decided",
                               ![r].status = 200]
    /\ UNCHANGED cooldowns

-----------------------------------------------------------------------------
(* The environment *)

\* A request is over; its slot stands for a later one.
Leave(r) ==
    /\ req[r].pc = "done"
    /\ req' = [req EXCEPT ![r] = NoRequest]
    /\ UNCHANGED <<cooldowns, pins>>

Tick == Elapse /\ UNCHANGED <<pins, req>>

\* The session cache loses a route.
Forget(s) ==
    /\ Cache!Forget({s})
    /\ UNCHANGED <<cooldowns, req>>

\* brightstaff restarts: cooldowns, requests and an in-memory cache are gone.
Restart ==
    /\ cooldowns' = [m \in Model |-> 0]
    /\ Cache!Forget(IF RedisCache THEN {} ELSE Session)
    /\ req' = [r \in Request |-> NoRequest]

\* What the runtime and the upstreams keep doing for a request in progress.
Progress(r) ==
    \/ Parse(r) \/ UnknownModel(r) \/ Abandon(r)
    \/ UsePin(r) \/ RouteTo(r) \/ NoRoute(r)
    \/ Send(r) \/ UpstreamFails(r) \/ UpstreamUnreachable(r) \/ UpstreamAnswers(r)
    \/ Decide(r)

Next ==
    \/ \E r \in Request :
         \/ ReceiveChat(r) \/ ReceiveDecision(r) \/ PinnedDecision(r)
         \/ Progress(r) \/ Leave(r)
    \/ \E s \in Session : Forget(s)
    \/ Tick
    \/ Restart

Spec == Init /\ [][Next]_vars

-----------------------------------------------------------------------------
(* Properties *)

\* Cooldowns stay within MAX_COOLDOWN, pins and requests are well formed.
TypeOK ==
    /\ CooldownType
    /\ Cache!CacheType
    /\ req \in [Request -> Requests]

\* What request r may be served by: the model imposed on it, or its alias.
Pool(r) ==
    IF req[r].chosen # NoModel THEN {req[r].chosen}
    ELSE IF req[r].asked # NoAlias THEN Candidates(req[r].asked) ELSE {}

\* The statuses FORK.md calls retryable.
DocumentedRetryable == {429, 500, 502, 503, 504}

GaveUp(r) ==
    \/ req[r].outcome = "unreachable"
    \/ req[r].outcome = "relayed" /\ req[r].status \in DocumentedRetryable

\* A client is told of a rate limit, a server error or an unreachable backend
\* only after every model that could have served it failed: the attempt loop
\* drops no candidate, those in cooldown included, and ends for no other error.
NoEarlyGiveUp == \A r \in Request : GaveUp(r) => req[r].failed = Pool(r)

\* The loop posts a request to a model at most once, and only to a model of
\* its pool: the one a pin or the router imposed, or those of its alias.
EachCandidateOnce ==
    \A r \in Request : req[r].pc = "await" =>
        /\ Current(r) \in Pool(r)
        /\ Current(r) \notin req[r].failed

\* A model that was in cooldown when the candidates were ordered is a last
\* resort: it gets a request only after all the healthy ones failed for it.
HealthyFirst ==
    \A r \in Request :
        req[r].pc = "await" /\ req[r].chosen = NoModel /\ Current(r) \notin req[r].healthy
            => req[r].healthy \subseteq req[r].failed

\* The `model` of an internal call is never overridden by a decision pinned
\* for its session: whatever other requests pin, it goes to its own alias or
\* to what the router says about it.
InternalNotPinned ==
    \A r \in Request :
        req[r].pc = "await" /\ req[r].internal
            => Current(r) \in Candidates(req[r].asked) \cup RouterModels

\* The cooldown of a model moves with time, or because an attempt on that very
\* model came to an end; the failure of one backend never blames another.
OnlyOwnAnswersCount ==
    [][\A m \in Model :
          cooldowns'[m] \notin {cooldowns[m], cooldowns[m] - 1}
            => \/ \E r \in Request :
                    /\ req[r].pc = "await" /\ Current(r) = m
                    /\ req'[r].pc \in {"send", "done"}
               \/ req' = [r \in Request |-> NoRequest]]_vars

\* A pin changes to another model only through a request that saw no pin: a
\* turn served from the pin never writes it back, so it cannot undo a newer
\* decision made while it was in flight.
PinnedTurnsDoNotRepin ==
    [][\A s \in Session :
          pins'[s] \notin {pins[s], NoModel}
            => \E r \in Request :
                 /\ req[r].session = s /\ req[r].pinned = NoModel
                 /\ req[r].pc \in {"route", "decide"} /\ req'[r].pc \in {"send", "done"}]_vars

=============================================================================
