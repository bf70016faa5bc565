---------------------------- MODULE SessionCache ----------------------------
(***************************************************************************)
(* The session cache in memory (session_cache/memory.rs): an LRU cache     *)
(* whose entries also expire, with a task that sweeps out the expired      *)
(* ones.  Every operation holds the mutex throughout, hence is one action. *)
(*                                                                         *)
(* The recency list of the lru crate is kept as, for each entry, the set   *)
(* of the entries used after it; the least recently used entry is the one  *)
(* all others were used after.  An entry's insertion instant is kept as    *)
(* the ticks left of its TTL.                                              *)
(***************************************************************************)
EXTENDS Naturals, FiniteSets

CONSTANTS
    Session, Route, NoRoute,
    TTL,              \* session_ttl, in ticks
    SessionMaxEntries,   \* routing.session_max_entries
    MaxSessionMaxEntries \* MAX_SESSION_MAX_ENTRIES, which is also the default

ASSUME SessionCacheAssumption ==
    /\ NoRoute \notin Route
    /\ TTL \in Nat
    /\ SessionMaxEntries \in Nat
    /\ MaxSessionMaxEntries \in Nat \ {0}
    /\ IsFiniteSet(Session)

VARIABLES
    route,   \* route[s]: the route in the entry of s, NoRoute without an entry
    left,    \* left[s]: what is left of the entry's TTL
    newer,   \* newer[s]: the entries used after that of s
    last,    \* history. last[s]: the last route put for s, unless it was removed
    fresh,   \* history. fresh[s]: what is left of TTL since that put
    since    \* history. since[s]: the sessions used after s last was

vars == <<route, left, newer, last, fresh, since>>

\* The configured capacity is cut to the maximum; 0 means the maximum.
Capacity ==
    IF SessionMaxEntries \in 1..MaxSessionMaxEntries THEN SessionMaxEntries
    ELSE MaxSessionMaxEntries

Nothing == [s \in Session |-> NoRoute]
Zero == [s \in Session |-> 0]
None == [s \in Session |-> {}]

Stored == {s \in Session : route[s] # NoRoute}
Expired(s) == s \in Stored /\ left[s] = 0

\* What get returns: the entry's route, unless it has expired.
Served(s) == IF left[s] > 0 THEN route[s] ELSE NoRoute

LeastRecent == {s \in Stored : newer[s] = Stored \ {s}}

Init ==
    /\ route = Nothing /\ left = Zero /\ newer = None
    /\ last = Nothing /\ fresh = Zero /\ since = None

\* The history of a use of s.
Used(s) == since' = [t \in Session |-> IF t = s THEN {} ELSE since[t] \cup {s}]

\* The entries of `gone` leave the cache.
Drop(gone) ==
    /\ route' = [s \in Session |-> IF s \in gone THEN NoRoute ELSE route[s]]
    /\ left' = [s \in Session |-> IF s \in gone THEN 0 ELSE left[s]]
    /\ newer' = [s \in Session |-> IF s \in gone THEN {} ELSE newer[s] \ gone]

\* Fault: the entry is only looked at, as LruCache::peek does.
GetPeeked(s) ==
    /\ s \in Stored
    /\ Used(s)
    /\ UNCHANGED <<route, left, newer, last, fresh>>

\* Fault: a hit restarts the TTL.
GetSliding(s) ==
    /\ s \in Stored
    /\ newer' = [t \in Session |->
                    IF t = s \/ t \notin Stored THEN {} ELSE newer[t] \cup {s}]
    /\ left' = [left EXCEPT ![s] = TTL]
    /\ Used(s)
    /\ UNCHANGED <<route, last, fresh>>

\* get: finding an entry makes it the most recent, even where it has expired
\* and nothing is returned.
Get(s) ==
    /\ s \in Stored
    /\ newer' = [t \in Session |->
                    IF t = s \/ t \notin Stored THEN {} ELSE newer[t] \cup {s}]
    /\ Used(s)
    /\ UNCHANGED <<route, left, last, fresh>>

\* What a put of s pushes out: in a full cache, a new entry takes the place of
\* the least recently used one, even where another has expired.
Evicted(s) ==
    IF s \in Stored \/ Cardinality(Stored) < Capacity THEN {} ELSE LeastRecent

\* put: the entry of s is the most recent, with a TTL of its own.
Put(s, m) ==
    LET gone == Evicted(s)
    IN  /\ route' = [t \in Session |->
                        IF t = s THEN m ELSE IF t \in gone THEN NoRoute ELSE route[t]]
        /\ left' = [t \in Session |->
                        IF t = s THEN TTL ELSE IF t \in gone THEN 0 ELSE left[t]]
        /\ newer' = [t \in Session |->
                        IF t = s \/ t \in gone \/ t \notin Stored THEN {}
                        ELSE (newer[t] \ gone) \cup {s}]
        /\ last' = [last EXCEPT ![s] = m]
        /\ fresh' = [fresh EXCEPT ![s] = TTL]
        /\ Used(s)

RemoveRoute(s) ==
    /\ s \in Stored
    /\ Drop({s})
    /\ last' = [last EXCEPT ![s] = NoRoute]
    /\ UNCHANGED <<fresh, since>>

\* evict_expired, which a task runs every five minutes.
EvictExpired ==
    /\ \E s \in Session : Expired(s)
    /\ Drop({s \in Session : Expired(s)})
    /\ UNCHANGED <<last, fresh, since>>

Tick ==
    /\ left' = [s \in Session |-> IF left[s] > 0 THEN left[s] - 1 ELSE 0]
    /\ fresh' = [s \in Session |-> IF fresh[s] > 0 THEN fresh[s] - 1 ELSE 0]
    /\ UNCHANGED <<route, newer, last, since>>

\* brightstaff restarts with an empty cache.
Restart ==
    /\ route' = Nothing /\ left' = Zero /\ newer' = None
    /\ last' = Nothing /\ fresh' = Zero /\ since' = None

Next ==
    \/ \E s \in Session : Get(s) \/ RemoveRoute(s)
    \/ \E s \in Session, m \in Route : Put(s, m)
    \/ EvictExpired
    \/ Tick
    \/ Restart

Spec == Init /\ [][Next]_vars

-----------------------------------------------------------------------------
(* Properties *)

\* Entries are well formed and never more than the capacity, nor than the
\* maximum whatever is configured, and the recency order is one: of two
\* entries, exactly one was used after the other.
TypeOK ==
    /\ route \in [Session -> Route \cup {NoRoute}]
    /\ left \in [Session -> 0..TTL]
    /\ newer \in [Session -> SUBSET Stored]
    /\ Cardinality(Stored) <= Capacity /\ Cardinality(Stored) <= MaxSessionMaxEntries
    /\ \A s \in Stored : s \notin newer[s]
    /\ \A s, t \in Stored : s # t => (s \in newer[t] <=> t \notin newer[s])

\* What the affinity guide promises with "LRU capacity" and "how long affinity
\* lasts": a route put less than the TTL ago is served as long as fewer
\* sessions than the capacity were used after its own last was.
RecentlyUsedServed ==
    \A s \in Session :
        fresh[s] > 0 /\ last[s] # NoRoute /\ Cardinality(since[s]) < Capacity
            => Served(s) = last[s]

Promise == INSTANCE RouteCache WITH
    pins <- [s \in Session |-> Served(s)], RedisCache <- FALSE

\* The cache implements RouteCache, put by put: what it serves for a session
\* comes from a put and may then be lost, but no get, sweep or eviction brings
\* an older or an expired route back.
KeepsPromise ==
    /\ Promise!CacheInit
    /\ [][\/ \E s \in Session, m \in Route : Put(s, m) /\ Promise!Put(s, m)
          \/ \E lost \in SUBSET Session : Promise!Forget(lost)]_vars

=============================================================================
