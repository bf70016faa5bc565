----------------------------- MODULE RouteCache -----------------------------
(***************************************************************************)
(* What a session cache promises to brightstaff, whatever its backend      *)
(* (session_cache/mod.rs, trait SessionCache): for a session, the route    *)
(* that was last put, or nothing.  A route may be lost at any time.        *)
(*                                                                         *)
(* The Redis backend turns every error into a miss or a lost write, so     *)
(* that, with Redis, a get may miss a route that is there and a put may    *)
(* leave the previous route in place.                                      *)
(***************************************************************************)
CONSTANTS
    Session,    \* session keys
    Route,      \* what can be cached
    NoRoute,    \* a miss
    RedisCache  \* TRUE: the Redis backend, FALSE: the one in memory

VARIABLE pins   \* pins[s]: the route the cache holds for session s

CacheInit == pins = [s \in Session |-> NoRoute]

CacheType == pins \in [Session -> Route \cup {NoRoute}]

\* What a get of s can return.
Lookups(s) == {pins[s]} \cup (IF RedisCache THEN {NoRoute} ELSE {})

\* The cache holds route m for s, and has lost what it held for `lost`.
Store(s, m, lost) ==
    pins' = [t \in Session |-> IF t \in lost THEN NoRoute
                               ELSE IF t = s THEN m ELSE pins[t]]

Put(s, m) ==
    \/ \E lost \in SUBSET Session : Store(s, m, lost)
    \/ RedisCache /\ UNCHANGED pins

Forget(lost) == pins' = [s \in Session |-> IF s \in lost THEN NoRoute ELSE pins[s]]

CacheNext ==
    \/ \E s \in Session, m \in Route : Put(s, m)
    \/ \E lost \in SUBSET Session : Forget(lost)

CacheSpec == CacheInit /\ [][CacheNext]_pins

=============================================================================
