--------------------------- MODULE RoutingProofs ----------------------------
(***************************************************************************)
(* What holds of a session's pinned route and of a route's ranking, the    *)
(* two states brightstaff routes by.                                       *)
(*                                                                         *)
(* The session cache, for any sessions, routes, TTL and capacity: the      *)
(* inductive invariant adds to the type invariant that the recency order   *)
(* is transitive, which gives a full cache an entry to evict, and that the *)
(* history of an entry agrees with it.                                     *)
(*                                                                         *)
(* The ranking, for any configuration, answers of the sources, routes      *)
(* named and preferences a request brings: the invariant adds that a       *)
(* metric has one source, that the maps are of numbers, and that the route *)
(* of a call is one of the preferences that count for it.                  *)
(***************************************************************************)
EXTENDS SessionCache, ModelRanking, FiniteSetTheorems, WellFoundedInduction, TLAPS

-----------------------------------------------------------------------------
(* The session cache *)

\* The conjuncts of TypeOK that are about the recency order, and transitivity.
Order ==
    /\ newer \in [Session -> SUBSET Stored]
    /\ \A s \in Stored : s \notin newer[s]
    /\ \A s, t \in Stored : s # t => (s \in newer[t] <=> t \notin newer[s])
    /\ \A s, t \in Session : s \in newer[t] => newer[s] \subseteq newer[t]

Types ==
    /\ route \in [Session -> Route \cup {NoRoute}]
    /\ left \in [Session -> 0..TTL]
    /\ last \in [Session -> Route \cup {NoRoute}]
    /\ fresh \in [Session -> 0..TTL]
    /\ since \in [Session -> SUBSET Session]

\* An entry is as its history says, and only pressure removes it.
Remembered ==
    /\ \A s \in Stored : last[s] = route[s] /\ fresh[s] = left[s] /\ newer[s] \subseteq since[s]
    /\ \A s \in Session :
          fresh[s] > 0 /\ last[s] # NoRoute /\ Cardinality(since[s]) < Capacity
              => s \in Stored

WithinCapacity == Cardinality(Stored) <= Capacity

IInv == Types /\ Order /\ WithinCapacity /\ Remembered

-----------------------------------------------------------------------------

\* 0 entries, or more than the maximum, mean the maximum.
LEMMA CapacityPositive == Capacity \in Nat \ {0}
BY SessionCacheAssumption DEF Capacity

LEMMA StoredFinite == IsFiniteSet(Stored) /\ Cardinality(Stored) \in Nat
<1>1. IsFiniteSet(Stored)
  BY SessionCacheAssumption, FS_Subset DEF Stored
<1> QED
  BY <1>1, FS_CardinalityType

\* One element for another leaves the size of a set as it is.
LEMMA Replaced ==
    ASSUME NEW S, IsFiniteSet(S), NEW e \in S, NEW s, s \notin S
    PROVE  /\ IsFiniteSet((S \ {e}) \cup {s})
           /\ Cardinality((S \ {e}) \cup {s}) = Cardinality(S)
<1> DEFINE T == S \ {e}
<1>1. IsFiniteSet(T) /\ Cardinality(T) = Cardinality(S) - 1
  BY FS_RemoveElement
<1>2. s \notin T /\ Cardinality(S) \in Nat
  BY FS_CardinalityType
<1> HIDE DEF T
<1>3. IsFiniteSet(T \cup {s}) /\ Cardinality(T \cup {s}) = Cardinality(T) + 1
  BY <1>1, <1>2, FS_AddElement
<1> QED
  BY <1>1, <1>2, <1>3 DEF T

\* Every non-empty cache has a least recently used entry.
LEMMA LeastRecentExists ==
    ASSUME Order, Stored # {}
    PROVE  LeastRecent # {}
<1> DEFINE rest(s) == Stored \ newer[s]
<1> DEFINE T == {rest(s) : s \in Stored}
<1> DEFINE R == StrictSubsetOrdering(Stored)
<1>1. T \subseteq FiniteSubsetsOf(Stored) /\ T # {}
  <2>1. FiniteSubsetsOf(Stored) = SUBSET Stored
    BY StoredFinite, FS_FiniteSubsetsOfFinite
  <2>2. T \subseteq SUBSET Stored /\ T # {}
    OBVIOUS
  <2> QED
    BY <2>1, <2>2
<1>2. IsWellFoundedOn(R, FiniteSubsetsOf(Stored))
  BY FS_StrictSubsetOrderingWellFounded
<1> HIDE DEF R
<1>3. PICK x \in T : \A y \in T : ~(<<y, x>> \in R)
  BY <1>1, <1>2, WFMin
<1>4. PICK s \in Stored : x = rest(s)
  BY <1>3
<1>5. ASSUME NEW t \in Stored, t # s, t \notin newer[s]
      PROVE  FALSE
  <2>1. s \in newer[t] /\ newer[s] \subseteq newer[t] /\ s \notin newer[s]
    BY <1>5 DEF Order, Stored
  <2>2. rest(t) \subseteq rest(s) /\ rest(t) # rest(s)
    BY <2>1
  <2>3. <<rest(t), rest(s)>> \in R
    BY <2>2 DEF R, StrictSubsetOrdering
  <2> QED
    BY <1>3, <1>4, <2>3
<1>6. newer[s] = Stored \ {s}
  BY <1>5 DEF Order, Stored
<1> QED
  BY <1>6 DEF LeastRecent

LEMMA InitKeeps == Init => IInv
<1> SUFFICES ASSUME Init PROVE IInv
  OBVIOUS
<1>1. Stored = {}
  BY DEF Init, Stored, Nothing
<1>2. WithinCapacity
  BY <1>1, CapacityPositive, FS_EmptySet DEF WithinCapacity
<1>3. Types
  BY SessionCacheAssumption DEF Init, Types, Nothing, Zero, None
<1>4. Order
  BY <1>1 DEF Order, Init, None
<1>5. Remembered
  BY <1>1 DEF Remembered, Init, Nothing
<1> QED
  BY <1>2, <1>3, <1>4, <1>5 DEF IInv

\* Dropping entries keeps the order of the others.
LEMMA DropKeeps ==
    ASSUME IInv, NEW gone \in SUBSET Session, Drop(gone)
    PROVE  /\ Stored' = Stored \ gone
           /\ route' \in [Session -> Route \cup {NoRoute}] /\ left' \in [Session -> 0..TTL]
           /\ Order' /\ WithinCapacity'
           /\ \A s \in Stored' : route'[s] = route[s] /\ left'[s] = left[s]
                                 /\ newer'[s] \subseteq newer[s]
<1>1. Stored' = Stored \ gone
  BY DEF Drop, Stored
<1>2. route' \in [Session -> Route \cup {NoRoute}] /\ left' \in [Session -> 0..TTL]
  BY SessionCacheAssumption DEF Drop, IInv, Types
<1>3. Order'
  BY <1>1 DEF Drop, IInv, Order, Stored
<1>4. Cardinality(Stored') <= Cardinality(Stored) /\ Cardinality(Stored') \in Nat
  BY <1>1, StoredFinite, FS_Subset, FS_CardinalityType
<1>5. WithinCapacity'
  BY <1>4, StoredFinite, CapacityPositive DEF IInv, WithinCapacity, Capacity
<1>6. \A s \in Stored' : route'[s] = route[s] /\ left'[s] = left[s]
                         /\ newer'[s] \subseteq newer[s]
  BY <1>1 DEF Drop, Stored
<1> QED
  BY <1>1, <1>2, <1>3, <1>5, <1>6

\* What a use of s leaves in the history.
LEMMA UsedTyped ==
    ASSUME IInv, NEW s \in Session, Used(s)
    PROVE  /\ since' \in [Session -> SUBSET Session]
           /\ since'[s] = {}
           /\ \A t \in Session : t # s => since'[t] = since[t] \cup {s}
           /\ \A t \in Session : t # s => Cardinality(since[t]) <= Cardinality(since'[t])
<1>1. /\ since' \in [Session -> SUBSET Session]
      /\ since'[s] = {}
      /\ \A t \in Session : t # s => since'[t] = since[t] \cup {s}
  BY DEF Used, IInv, Types
<1>2. ASSUME NEW t \in Session, t # s
      PROVE  Cardinality(since[t]) <= Cardinality(since'[t])
  <2>1. since'[t] \in SUBSET Session /\ since[t] \subseteq since'[t]
    BY <1>1, <1>2
  <2>2. IsFiniteSet(since'[t])
    BY <2>1, SessionCacheAssumption, FS_Subset
  <2> QED
    BY <2>1, <2>2, FS_Subset
<1> QED
  BY <1>1, <1>2

LEMMA GetKeeps ==
    ASSUME IInv, NEW s \in Session, Get(s)
    PROVE  IInv'
<1>1. Stored' = Stored /\ s \in Stored
  BY DEF Get, Stored
<1>2. Types'
  BY UsedTyped DEF Get, IInv, Types
<1>3. Order'
  BY <1>1 DEF Get, IInv, Order, Stored
<1>4. WithinCapacity'
  BY <1>1 DEF IInv, WithinCapacity, Capacity
<1>5. \A t \in Stored : newer'[t] \subseteq since'[t]
  BY UsedTyped DEF Get, IInv, Remembered, Stored
<1>6. ASSUME NEW t \in Session,
             fresh'[t] > 0, last'[t] # NoRoute, Cardinality(since'[t]) < Capacity
      PROVE  t \in Stored
  <2>1. CASE t = s
    BY <1>1, <2>1
  <2>2. CASE t # s
    <3>1. Cardinality(since[t]) <= Cardinality(since'[t])
      BY <2>2, UsedTyped DEF Get
    <3>2. Cardinality(since[t]) \in Nat /\ Cardinality(since'[t]) \in Nat
      BY <1>2, SessionCacheAssumption, FS_Subset, FS_CardinalityType DEF IInv, Types
    <3>3. Cardinality(since[t]) < Capacity
      BY <1>6, <3>1, <3>2, CapacityPositive
    <3> QED
      BY <1>6, <3>3 DEF Get, IInv, Remembered
  <2> QED
    BY <2>1, <2>2
<1>7. Remembered'
  BY <1>1, <1>5, <1>6 DEF Get, IInv, Remembered, Capacity
<1> QED
  BY <1>2, <1>3, <1>4, <1>7 DEF IInv

LEMMA PutKeeps ==
    ASSUME IInv, NEW s \in Session, NEW m \in Route, Put(s, m)
    PROVE  IInv'
<1> DEFINE gone == Evicted(s)
<1> DEFINE full == s \notin Stored /\ ~(Cardinality(Stored) < Capacity)
<1>1. gone \subseteq Stored \ {s} /\ (~full => gone = {}) /\ (full => gone = LeastRecent)
  BY DEF Evicted, LeastRecent
<1>2. Stored' = (Stored \ gone) \cup {s}
  BY <1>1, SessionCacheAssumption DEF Put, Stored
<1>3. Types'
  BY UsedTyped, SessionCacheAssumption DEF Put, IInv, Types
<1>4. /\ \A t \in Stored' : newer'[t] = IF t = s THEN {} ELSE (newer[t] \ gone) \cup {s}
      /\ \A t \in Session \ Stored' : newer'[t] = {}
      /\ newer' = [t \in Session |-> newer'[t]]
  BY <1>1, <1>2 DEF Put, Stored
<1> HIDE DEF gone
<1>5. Order'
  <2>1. newer' \in [Session -> SUBSET Stored']
    <3>1. ASSUME NEW t \in Session PROVE newer'[t] \subseteq Stored'
      <4>1. newer[t] \subseteq Stored
        BY DEF IInv, Order
      <4>2. newer'[t] \subseteq (newer[t] \ gone) \cup {s}
        BY <1>4
      <4> QED
        BY <1>2, <4>1, <4>2
    <3> QED
      BY <1>4, <3>1
  <2>2. \A t \in Stored' : t \notin newer'[t]
    BY <1>1, <1>2, <1>4 DEF IInv, Order, Stored
  <2>3. \A t, u \in Stored' : t # u => (t \in newer'[u] <=> u \notin newer'[t])
    BY <1>1, <1>2, <1>4 DEF IInv, Order, Stored
  <2>4. ASSUME NEW t \in Session, NEW u \in Session, t \in newer'[u]
        PROVE  newer'[t] \subseteq newer'[u]
    <3>1. u \in Stored' /\ u # s
      BY <1>4, <2>4
    <3>2. CASE t = s
      BY <1>2, <1>4, <3>2
    <3>3. CASE t # s
      BY <1>4, <2>4, <3>1, <3>3, <1>2 DEF IInv, Order, Stored
    <3> QED
      BY <3>2, <3>3
  <2> QED
    BY <2>1, <2>2, <2>3, <2>4 DEF Order
<1>6. WithinCapacity'
  <2>1. Capacity' = Capacity
    BY DEF Capacity
  <2>2. CASE s \in Stored
    <3>1. Stored' = Stored
      BY <1>1, <1>2, <2>2
    <3> QED
      BY <2>1, <3>1 DEF IInv, WithinCapacity
  <2>3. CASE s \notin Stored /\ Cardinality(Stored) < Capacity
    <3>1. Stored' = Stored \cup {s}
      BY <1>1, <1>2, <2>3
    <3>2. Cardinality(Stored') = Cardinality(Stored) + 1
      BY <2>3, <3>1, StoredFinite, FS_AddElement
    <3> QED
      BY <2>1, <2>3, <3>2, StoredFinite, CapacityPositive DEF WithinCapacity
  <2>4. CASE full
    <3>1. Stored # {}
      BY <2>4, FS_EmptySet, CapacityPositive
    <3>2. PICK e \in gone : TRUE
      BY <1>1, <2>4, <3>1, LeastRecentExists DEF IInv
    <3>3. e \in Stored /\ e # s
      BY <1>1, <3>2
    <3>5. /\ IsFiniteSet((Stored \ {e}) \cup {s})
          /\ Cardinality((Stored \ {e}) \cup {s}) = Cardinality(Stored)
      BY <2>4, <3>3, StoredFinite, Replaced
    <3>6. Stored' \subseteq (Stored \ {e}) \cup {s}
      BY <1>2, <3>2
    <3>7. Cardinality(Stored') <= Cardinality(Stored)
      BY <3>5, <3>6, FS_Subset
    <3>8. Cardinality(Stored') \in Nat
      BY <3>5, <3>6, FS_Subset, FS_CardinalityType
    <3> QED
      BY <2>1, <3>7, <3>8, StoredFinite, CapacityPositive DEF IInv, WithinCapacity
  <2> QED
    BY <2>2, <2>3, <2>4
<1>7. \A t \in Stored' : last'[t] = route'[t] /\ fresh'[t] = left'[t]
  BY <1>1, <1>2 DEF Put, IInv, Types, Remembered, Stored, gone
<1>8. \A t \in Stored' : newer'[t] \subseteq since'[t]
  BY <1>2, <1>4, UsedTyped DEF Put, IInv, Remembered, Stored
<1>9. ASSUME NEW t \in Session,
             fresh'[t] > 0, last'[t] # NoRoute, Cardinality(since'[t]) < Capacity
      PROVE  t \in Stored'
  <2>1. CASE t = s
    BY <1>2, <2>1
  <2>2. CASE t # s /\ t \in gone
    <3>1. full /\ newer[t] = Stored \ {t} /\ t \in Stored
      BY <1>1, <2>2 DEF LeastRecent
    <3>2. (Stored \ {t}) \cup {s} \subseteq since'[t]
      BY <2>2, <3>1, UsedTyped DEF Put, IInv, Remembered
    <3>4. Cardinality((Stored \ {t}) \cup {s}) = Cardinality(Stored)
      BY <3>1, StoredFinite, Replaced
    <3>5. IsFiniteSet(since'[t])
      BY <1>3, SessionCacheAssumption, FS_Subset DEF Types
    <3>6. Cardinality(Stored) <= Cardinality(since'[t]) /\ Cardinality(since'[t]) \in Nat
      BY <3>2, <3>4, <3>5, FS_Subset, FS_CardinalityType
    <3> QED
      BY <1>9, <3>1, <3>6, StoredFinite, CapacityPositive
  <2>3. CASE t # s /\ t \notin gone
    <3>1. Cardinality(since[t]) <= Cardinality(since'[t])
      BY <2>3, UsedTyped DEF Put
    <3>2. Cardinality(since[t]) \in Nat /\ Cardinality(since'[t]) \in Nat
      BY <1>3, SessionCacheAssumption, FS_Subset, FS_CardinalityType DEF IInv, Types
    <3>3. Cardinality(since[t]) < Capacity
      BY <1>9, <3>1, <3>2, CapacityPositive
    <3>4. fresh'[t] = fresh[t] /\ last'[t] = last[t]
      BY <2>3 DEF Put, IInv, Types
    <3>5. t \in Stored
      BY <1>9, <3>3, <3>4 DEF IInv, Remembered
    <3> QED
      BY <1>2, <2>3, <3>5
  <2> QED
    BY <2>1, <2>2, <2>3
<1>10. Remembered'
  BY <1>7, <1>8, <1>9 DEF Remembered, Capacity
<1> QED
  BY <1>3, <1>5, <1>6, <1>10 DEF IInv

\* Removal and the sweep keep the invariant: what the history demands is
\* either not dropped or forgotten with it.
LEMMA RemovalKeeps ==
    ASSUME IInv, (\E s \in Session : RemoveRoute(s)) \/ EvictExpired
    PROVE  IInv'
<1> DEFINE Kept == /\ fresh' = fresh /\ since' = since
                   /\ last' \in [Session -> Route \cup {NoRoute}]
                   /\ \A s \in Stored' : last'[s] = last[s]
<1>1. ASSUME NEW gone \in SUBSET Session, Drop(gone), Kept,
             \A s \in gone : fresh[s] = 0 \/ last'[s] = NoRoute,
             \A s \in Session \ gone : last'[s] = last[s]
      PROVE  IInv'
  <2>1. /\ Stored' = Stored \ gone
        /\ route' \in [Session -> Route \cup {NoRoute}] /\ left' \in [Session -> 0..TTL]
        /\ Order' /\ WithinCapacity'
        /\ \A s \in Stored' : route'[s] = route[s] /\ left'[s] = left[s]
                              /\ newer'[s] \subseteq newer[s]
    BY <1>1, DropKeeps
  <2>2. Types'
    BY <1>1, <2>1 DEF IInv, Types
  <2>3. \A s \in Stored' : last'[s] = route'[s] /\ fresh'[s] = left'[s]
                           /\ newer'[s] \subseteq since'[s]
    BY <1>1, <2>1 DEF IInv, Remembered, Stored
  <2>4. ASSUME NEW s \in Session,
               fresh'[s] > 0, last'[s] # NoRoute, Cardinality(since'[s]) < Capacity
        PROVE  s \in Stored'
    BY <1>1, <2>1, <2>4 DEF IInv, Remembered
  <2>5. Remembered'
    BY <2>3, <2>4 DEF Remembered, Capacity
  <2> QED
    BY <2>1, <2>2, <2>5 DEF IInv
<1>2. ASSUME NEW s \in Session, RemoveRoute(s)
      PROVE  IInv'
  <2>1. /\ Drop({s}) /\ UNCHANGED <<fresh, since>>
        /\ last' = [last EXCEPT ![s] = NoRoute]
    BY <1>2 DEF RemoveRoute
  <2>2. s \notin Stored' /\ last'[s] = NoRoute
    BY <2>1, DropKeeps DEF IInv, Types
  <2>3. Kept /\ \A t \in Session \ {s} : last'[t] = last[t]
    BY <2>1, <2>2 DEF IInv, Types, Stored
  <2> QED
    BY <1>1, <2>1, <2>2, <2>3
<1>3. CASE EvictExpired
  <2> DEFINE gone == {s \in Session : Expired(s)}
  <2>1. Drop(gone) /\ UNCHANGED <<last, fresh, since>>
    BY <1>3 DEF EvictExpired
  <2>2. \A s \in gone : fresh[s] = 0
    BY DEF Expired, IInv, Remembered
  <2>3. Kept
    BY <2>1 DEF IInv, Types
  <2> HIDE DEF gone
  <2>4. gone \in SUBSET Session
    BY DEF gone
  <2> QED
    BY <1>1, <2>1, <2>2, <2>3, <2>4
<1> QED
  BY <1>2, <1>3

LEMMA TickKeeps ==
    ASSUME IInv, Tick
    PROVE  IInv'
<1>1. Stored' = Stored /\ Capacity' = Capacity
  BY DEF Tick, Stored, Capacity
<1>2. Types'
  BY SessionCacheAssumption DEF Tick, IInv, Types
<1>3. Order' /\ WithinCapacity'
  BY <1>1 DEF Tick, IInv, Order, WithinCapacity
<1>4. \A s \in Session : fresh'[s] > 0 => fresh[s] > 0
  BY SessionCacheAssumption DEF Tick, IInv, Types
<1>5. \A s \in Stored : fresh'[s] = left'[s]
  BY DEF Tick, IInv, Remembered, Stored
<1>6. Remembered'
  BY <1>1, <1>4, <1>5 DEF Tick, IInv, Remembered
<1> QED
  BY <1>2, <1>3, <1>6 DEF IInv

LEMMA StepKeepsIInv == IInv /\ [Next]_vars => IInv'
<1> SUFFICES ASSUME IInv, [Next]_vars PROVE IInv'
  OBVIOUS
<1>1. CASE Restart
  <2>1. Stored' = {} /\ Capacity' = Capacity
    BY <1>1 DEF Restart, Stored, Nothing, Capacity
  <2>2. WithinCapacity'
    BY <2>1, CapacityPositive, FS_EmptySet DEF WithinCapacity
  <2>3. Types'
    BY <1>1, SessionCacheAssumption DEF Restart, Types, Nothing, Zero, None
  <2>4. Order'
    BY <1>1, <2>1 DEF Order, Restart, None
  <2>5. Remembered'
    BY <1>1, <2>1 DEF Remembered, Restart, Nothing
  <2> QED
    BY <2>2, <2>3, <2>4, <2>5 DEF IInv
<1>2. CASE UNCHANGED vars
  BY <1>2 DEF vars, IInv, Types, Order, WithinCapacity, Remembered, Stored, Capacity
<1> QED
  BY <1>1, <1>2, GetKeeps, PutKeeps, RemovalKeeps, TickKeeps DEF Next

LEMMA Invariance == Spec => []IInv
BY InitKeeps, StepKeepsIInv, PTL DEF Spec

-----------------------------------------------------------------------------

\* The cache never holds more than its capacity, and its recency order is one.
THEOREM CacheTypeCorrect == Spec => []TypeOK
<1>1. Capacity <= MaxSessionMaxEntries
  BY SessionCacheAssumption DEF Capacity
<1>2. IInv => Cardinality(Stored) <= Capacity /\ Cardinality(Stored) <= MaxSessionMaxEntries
  BY <1>1, CapacityPositive, StoredFinite, SessionCacheAssumption DEF IInv, WithinCapacity
<1>3. IInv => TypeOK
  BY <1>2 DEF IInv, Types, Order, TypeOK
<1> QED
  BY <1>3, Invariance, PTL

\* A route is served for its TTL unless as many other sessions as the cache
\* holds are used after it.
THEOREM WorkingSetServed == Spec => []RecentlyUsedServed
<1>1. IInv => RecentlyUsedServed
  BY DEF IInv, Remembered, RecentlyUsedServed, Served
<1> QED
  BY <1>1, Invariance, PTL

\* SessionCache implements RouteCache, put by put.
THEOREM ImplementsRouteCache == Spec => KeepsPromise
<1> DEFINE Step ==
      \/ \E s \in Session, m \in Route : Put(s, m) /\ Promise!Put(s, m)
      \/ \E lost \in SUBSET Session : Promise!Forget(lost)
<1>1. Init => Promise!CacheInit
  BY DEF Init, Promise!CacheInit, Served, Zero
<1>2. IInv /\ [Next]_vars => [Step]_vars
  <2> SUFFICES ASSUME IInv, Next PROVE Step
    BY DEF Step
  <2>1. ASSUME NEW s \in Session, NEW m \in Route, Put(s, m)
        PROVE  Promise!Put(s, m)
    <3> DEFINE lost == IF TTL > 0 THEN Evicted(s) ELSE Evicted(s) \cup {s}
    <3>1. Evicted(s) \in SUBSET (Session \ {s}) /\ lost \in SUBSET Session
      BY DEF Evicted, LeastRecent, Stored
    <3>2. \A t \in Session : Served(t)' = IF t \in lost THEN NoRoute
                                          ELSE IF t = s THEN m ELSE Served(t)
      BY <2>1, <3>1, SessionCacheAssumption DEF Put, Served
    <3> HIDE DEF lost
    <3>3. Promise!Store(s, m, lost)
      BY <3>2 DEF Promise!Store
    <3> QED
      BY <3>1, <3>3 DEF Promise!Put
  <2>2. ASSUME NEW lost \in SUBSET Session,
               \A t \in Session : Served(t)' = IF t \in lost THEN NoRoute ELSE Served(t)
        PROVE  Step
    BY <2>2 DEF Promise!Forget
  <2>3. ASSUME NEW s \in Session, Get(s)
        PROVE  Step
    BY <2>2, <2>3 DEF Get, Served
  <2>4. ASSUME NEW gone \in SUBSET Session, Drop(gone)
        PROVE  Step
    BY <2>2, <2>4 DEF Drop, Served
  <2>5. CASE EvictExpired \/ \E s \in Session : RemoveRoute(s)
    BY <2>4, <2>5 DEF EvictExpired, RemoveRoute
  <2>6. CASE Tick
    <3>1. \A t \in Session : Served(t)' = IF t \in {u \in Session : left[u] <= 1}
                                         THEN NoRoute ELSE Served(t)
      BY <2>6, SessionCacheAssumption DEF Tick, Served, IInv, Types
    <3> QED
      BY <2>2, <3>1
  <2>7. CASE Restart
    BY <2>2, <2>7 DEF Restart, Served, Nothing, Zero
  <2> QED
    BY <2>1, <2>3, <2>5, <2>6, <2>7 DEF Next
<1> QED
  BY <1>1, <1>2, Invariance, PTL DEF Spec, KeepsPromise

\* Hence every behaviour of SessionCache, seen through what it serves, is one
\* of RouteCache.
THEOREM RefinesRouteCache == Spec => Promise!CacheSpec
<1> DEFINE Step ==
      \/ \E s \in Session, m \in Route : Put(s, m) /\ Promise!Put(s, m)
      \/ \E lost \in SUBSET Session : Promise!Forget(lost)
<1>1. [Step]_vars => [Promise!CacheNext]_([s \in Session |-> Served(s)])
  <2>1. CASE Step
    BY <2>1 DEF Promise!CacheNext
  <2>2. CASE UNCHANGED vars
    BY <2>2 DEF vars, Served
  <2> QED
    BY <2>1, <2>2
<1> QED
  BY <1>1, ImplementsRouteCache, PTL DEF KeepsPromise, Promise!CacheSpec

-----------------------------------------------------------------------------

\* Induction over the natural numbers: a set of them that is not empty has a
\* least element.
LEMMA LeastNumber ==
    ASSUME NEW T \in SUBSET Nat, T # {}
    PROVE  \E n \in T : \A m \in T : n <= m
<1> DEFINE Below(n) == {m \in Nat : m < n}
           B == {Below(n) : n \in T}
<1>1. ASSUME NEW n \in Nat PROVE IsFiniteSet(Below(n))
  <2>1. Below(n) \in SUBSET Nat /\ \A s \in Below(n) : s <= n
    OBVIOUS
  <2>2. QED BY <2>1, FS_BoundedSetOfNaturals
<1>2. B \subseteq FiniteSubsetsOf(Nat) /\ B # {}
  BY <1>1 DEF FiniteSubsetsOf
<1>3. PICK b \in B : \A y \in B : ~(<<y, b>> \in StrictSubsetOrdering(Nat))
  BY <1>2, FS_StrictSubsetOrderingWellFounded, WFMin
<1>4. PICK n \in T : b = Below(n)
  BY <1>3
<1>5. ASSUME NEW m \in T, m < n PROVE FALSE
  <2>1. Below(m) \in B
    OBVIOUS
  <2>2. Below(m) \subseteq Below(n) /\ Below(m) # Below(n)
    BY <1>5
  <2>3. <<Below(m), b>> \in StrictSubsetOrdering(Nat)
    BY <2>2, <1>4 DEF StrictSubsetOrdering
  <2>4. QED BY <2>1, <2>3, <1>3
<1>6. QED BY <1>5

\* The same as a step from n to n + 1, up to a bound: for the set of the
\* numbers that have a property.
LEMMA UpTo ==
    ASSUME NEW N \in Nat, NEW S, 0 \in S, \A n \in 0..(N - 1) : n \in S => n + 1 \in S
    PROVE  0..N \subseteq S
<1> SUFFICES ASSUME {n \in 0..N : n \notin S} # {} PROVE FALSE
  OBVIOUS
<1> DEFINE T == {k \in 0..N : k \notin S}
<1>1. PICK n \in T : \A m \in T : n <= m
  <2>1. T \in SUBSET Nat /\ T # {}
    OBVIOUS
  <2>2. QED BY <2>1, LeastNumber
<1>2. n # 0 /\ n - 1 \in 0..(N - 1)
  BY <1>1
<1>3. n - 1 \in S
  BY <1>1, <1>2
<1>4. QED BY <1>1, <1>2, <1>3

-----------------------------------------------------------------------------
(* Lists *)

\* The names of a list are taken one by one.
LEMMA AmongIs ==
    ASSUME NEW list, Len(list) \in Nat, NEW names
    PROVE  \E upTo :
              /\ upTo[0] = <<>> /\ Among(list, names) = upTo[Len(list)]
              /\ \A n \in 1..Len(list) :
                    upTo[n] = IF list[n] \in names THEN Append(upTo[n - 1], list[n]) ELSE upTo[n - 1]
<1> DEFINE N == Len(list)
           Step(b, n) == IF list[n] \in names THEN Append(b, list[n]) ELSE b
           F(g, n) == [k \in 0..n |-> IF k = 0 THEN <<>> ELSE Step(g[k - 1], k)]
           IsAfter(g, n) == g = F(g, n)
           S == {n \in 0..N : \E g : IsAfter(g, n)}
<1>0. N \in Nat
  OBVIOUS
<1>a. Among(list, names) = (CHOOSE g : g = F(g, N))[N]
  BY DEF Among
<1> HIDE DEF N, Step
<1>1. 0 \in S
  <2>1. IsAfter([k \in 0..0 |-> <<>>], 0)
    OBVIOUS
  <2>2. \E g : IsAfter(g, 0)
    BY <2>1
  <2>3. QED BY <2>2, <1>0
<1>2. ASSUME NEW n \in 0..(N - 1), n \in S PROVE n + 1 \in S
  <2>1. PICK g : IsAfter(g, n)
    BY <1>2
  <2> DEFINE h == [k \in 0..(n + 1) |-> IF k = n + 1 THEN Step(g[n], n + 1) ELSE g[k]]
  <2>2. ASSUME NEW k \in 0..(n + 1)
        PROVE  h[k] = IF k = 0 THEN <<>> ELSE Step(h[k - 1], k)
    <3>1. CASE k = n + 1
      BY <3>1, <1>0
    <3>2. CASE k \in 0..n
      BY <3>2, <2>1, <1>0
    <3>3. QED BY <3>1, <3>2, <1>0
  <2>3. IsAfter(h, n + 1)
    BY <2>2
  <2>4. \E f : IsAfter(f, n + 1)
    BY <2>3
  <2>5. QED BY <2>4, <1>0
<1>3. N \in S
  <2> HIDE DEF S
  <2>1. 0..N \subseteq S
    BY <1>0, <1>1, <1>2, UpTo
  <2>2. QED BY <2>1, <1>0
<1> DEFINE upTo == CHOOSE g : g = F(g, N)
<1>4. upTo = F(upTo, N)
  <2>1. \E g : g = F(g, N)
    BY <1>3
  <2> HIDE DEF F
  <2>2. QED BY <2>1
<1>5. upTo[0] = <<>> /\ \A n \in 1..N : upTo[n] = Step(upTo[n - 1], n)
  <2> HIDE DEF upTo
  <2>1. QED BY <1>0, <1>4
<1>6. Among(list, names) = upTo[N]
  BY <1>a
<1> HIDE DEF upTo
<1>7. QED BY <1>5, <1>6 DEF N, Step

\* at grows strictly.
Rising(at) == \A a, b \in DOMAIN at : a < b => at[a] < at[b]

\* part is what list has at the positions that at names, in their order.
Picks(part, list, at) ==
    /\ at \in [1..Len(part) -> 1..Len(list)]
    /\ Rising(at)
    /\ \A k \in 1..Len(part) : part[k] = list[at[k]]

\* They are what the list has at the positions of those names, in its order.
LEMMA AmongPicks ==
    ASSUME NEW T, NEW list \in Seq(T), NEW names
    PROVE  /\ Among(list, names) \in Seq(T)
           /\ \E at : /\ Picks(Among(list, names), list, at)
                     /\ {at[k] : k \in 1..Len(Among(list, names))}
                          = {i \in 1..Len(list) : list[i] \in names}
<1>1. PICK upTo :
        /\ upTo[0] = <<>> /\ Among(list, names) = upTo[Len(list)]
        /\ \A n \in 1..Len(list) :
              upTo[n] = IF list[n] \in names THEN Append(upTo[n - 1], list[n]) ELSE upTo[n - 1]
  BY AmongIs
<1> DEFINE N == Len(list)
           Here(n) == {i \in 1..n : list[i] \in names}
           Done(part, n, at) == /\ at \in [1..Len(part) -> 1..n]
                                /\ Rising(at)
                                /\ \A k \in 1..Len(part) : part[k] = list[at[k]]
                                /\ {at[k] : k \in 1..Len(part)} = Here(n)
           S == {n \in 0..N : upTo[n] \in Seq(T) /\ \E at : Done(upTo[n], n, at)}
<1>2. N \in Nat
  OBVIOUS
<1>3. 0 \in S
  <2>1. Done(<<>>, 0, <<>>)
    BY DEF Rising
  <2> HIDE DEF Done, N
  <2>2. upTo[0] \in Seq(T) /\ 0 \in 0..N
    BY <1>1, <1>2
  <2>3. \E at : Done(upTo[0], 0, at)
    BY <1>1, <2>1
  <2>4. QED BY <2>2, <2>3
<1>4. ASSUME NEW n \in 0..(N - 1), n \in S PROVE n + 1 \in S
  <2> DEFINE one == upTo[n]
             two == upTo[n + 1]
  <2>1. one \in Seq(T) /\ n + 1 \in 1..N /\ n + 1 \in 0..N /\ n + 1 - 1 = n
    BY <1>4
  <2>2. PICK at : Done(one, n, at)
    BY <1>4
  <2>3. two = IF list[n + 1] \in names THEN Append(one, list[n + 1]) ELSE one
    BY <1>1, <2>1
  <2>4. CASE list[n + 1] \notin names
    <3>1. two = one /\ Here(n + 1) = Here(n)
      BY <2>1, <2>3, <2>4
    <3>2. Done(one, n + 1, at)
      BY <2>1, <2>2, <3>1
    <3> HIDE DEF Done, N, Here
    <3>3. upTo[n + 1] \in Seq(T) /\ Done(upTo[n + 1], n + 1, at)
      BY <2>1, <3>1, <3>2
    <3>4. \E f : Done(upTo[n + 1], n + 1, f)
      BY <3>3
    <3>5. QED BY <2>1, <3>3, <3>4
  <2>5. CASE list[n + 1] \in names
    <3> DEFINE L == Len(one)
               more == [k \in 1..(L + 1) |-> IF k = L + 1 THEN n + 1 ELSE at[k]]
    <3>1. /\ two \in Seq(T) /\ Len(two) = L + 1 /\ two[L + 1] = list[n + 1]
          /\ \A k \in 1..L : two[k] = one[k]
          /\ L \in Nat
      BY <2>1, <2>3, <2>5
    <3>2. \A k \in 1..L : at[k] \in 1..n /\ at[k] < n + 1
      BY <2>2, <2>1
    <3>3. more \in [1..Len(two) -> 1..(n + 1)]
      <4> HIDE DEF L, one, two, Done
      <4>1. QED BY <3>1, <3>2, <2>1
    <3>4. Rising(more)
      <4> SUFFICES ASSUME NEW a \in 1..(L + 1), NEW b \in 1..(L + 1), a < b PROVE more[a] < more[b]
        BY <3>3 DEF Rising
      <4>1. a \in 1..L
        BY <3>1
      <4>2. CASE b = L + 1
        BY <3>1, <3>2, <4>1, <4>2
      <4>3. CASE b \in 1..L
        BY <2>2, <3>1, <4>1, <4>3 DEF Rising
      <4>4. QED BY <3>1, <4>2, <4>3
    <3>5. \A k \in 1..Len(two) : two[k] = list[more[k]]
      <4> SUFFICES ASSUME NEW k \in 1..(L + 1) PROVE two[k] = list[more[k]]
        BY <3>1
      <4>1. CASE k = L + 1
        BY <3>1, <4>1
      <4>2. CASE k \in 1..L
        BY <2>2, <3>1, <4>2
      <4>3. QED BY <3>1, <4>1, <4>2
    <3>6. {more[k] : k \in 1..Len(two)} = Here(n + 1)
      <4>1. {more[k] : k \in 1..(L + 1)} = {at[k] : k \in 1..L} \cup {n + 1}
        <5> HIDE DEF L, one, two, Done, Here
        <5>1. \A k \in 1..L : k \in 1..(L + 1) /\ more[k] = at[k]
          BY <3>1
        <5>2. L + 1 \in 1..(L + 1) /\ more[L + 1] = n + 1
          BY <3>1
        <5>3. \A k \in 1..(L + 1) : k = L + 1 \/ k \in 1..L
          BY <3>1
        <5> HIDE DEF more
        <5>4. QED BY <5>1, <5>2, <5>3
      <4>2. Here(n + 1) = Here(n) \cup {n + 1}
        BY <2>1, <2>5
      <4>3. {at[k] : k \in 1..L} = Here(n)
        BY <2>2
      <4> HIDE DEF L, one, two, Done, Here, more
      <4>4. QED BY <3>1, <4>1, <4>2, <4>3
    <3>7. Done(two, n + 1, more)
      BY <3>3, <3>4, <3>5, <3>6
    <3> HIDE DEF Done, more, two, N
    <3>8. \E f : Done(two, n + 1, f)
      BY <3>7
    <3>9. QED BY <2>1, <3>1, <3>8 DEF two
  <2>6. QED BY <2>4, <2>5
<1>5. N \in S
  <2> HIDE DEF S
  <2>1. 0..N \subseteq S
    BY <1>2, <1>3, <1>4, UpTo
  <2>2. QED BY <2>1, <1>2
<1>6. upTo[N] \in Seq(T) /\ \E at : Done(upTo[N], N, at)
  BY <1>5
<1>7. QED BY <1>1, <1>6 DEF Picks

-----------------------------------------------------------------------------
(* The sort *)

\* All of a list have a number.
Measured(list, map) == \A i \in 1..Len(list) : map[list[i]] \in Int

AtOrBefore(list, map, i, j) ==
    \/ map[list[i]] < map[list[j]]
    \/ map[list[i]] = map[list[j]] /\ i =< j

UpToIt(list, map, i) == {j \in DOMAIN list : AtOrBefore(list, map, j, i)}
Place(list, map, i) == Cardinality(UpToIt(list, map, i))

LEMMA SortedIs ==
    ASSUME NEW list, NEW map
    PROVE  StableSort(list, map) =
             [k \in DOMAIN list |-> list[CHOOSE i \in DOMAIN list : Place(list, map, i) = k]]
BY DEF StableSort, Place, UpToIt, AtOrBefore

LEMMA UpToItFinite ==
    ASSUME NEW T, NEW list \in Seq(T), NEW map, NEW i
    PROVE  /\ UpToIt(list, map, i) \subseteq 1..Len(list)
           /\ IsFiniteSet(UpToIt(list, map, i))
           /\ Place(list, map, i) \in 0..Len(list)
<1> DEFINE N == Len(list)
           B == UpToIt(list, map, i)
<1>1. N \in Nat /\ 1 \in Int /\ DOMAIN list = 1..N
  OBVIOUS
<1>2. B \in SUBSET (1..N)
  BY <1>1 DEF UpToIt
<1> HIDE DEF N, B
<1>3. IsFiniteSet(1..N) /\ Cardinality(1..N) = N
  BY <1>1, FS_Interval
<1>4. IsFiniteSet(B) /\ Cardinality(B) =< N
  BY <1>2, <1>3, FS_Subset
<1>5. Cardinality(B) \in Nat
  BY <1>4, FS_CardinalityType
<1>6. QED BY <1>1, <1>2, <1>4, <1>5 DEF B, N, Place

\* Of two models the one that comes before has the lower place.
LEMMA PlaceRises ==
    ASSUME NEW T, NEW list \in Seq(T), NEW map, Measured(list, map),
           NEW i \in 1..Len(list), NEW j \in 1..Len(list), i # j,
           AtOrBefore(list, map, i, j)
    PROVE  Place(list, map, i) < Place(list, map, j)
<1> DEFINE A == UpToIt(list, map, i)
           B == UpToIt(list, map, j)
           v(k) == map[list[k]]
<1>1. \A k \in 1..Len(list) : v(k) \in Int
  BY DEF Measured
<1>2. DOMAIN list = 1..Len(list)
  OBVIOUS
<1>3. v(i) < v(j) \/ (v(i) = v(j) /\ i < j)
  BY DEF AtOrBefore
<1>4. j \in B /\ j \notin A
  <2>1. v(i) \in Int /\ v(j) \in Int
    BY <1>1
  <2>2. AtOrBefore(list, map, j, j) /\ ~AtOrBefore(list, map, j, i)
    BY <2>1, <1>3 DEF AtOrBefore
  <2>3. QED BY <1>2, <2>2 DEF UpToIt
<1>5. A \subseteq B
  <2> SUFFICES ASSUME NEW k \in 1..Len(list), AtOrBefore(list, map, k, i)
               PROVE  AtOrBefore(list, map, k, j)
    BY <1>2 DEF UpToIt
  <2>1. v(i) \in Int /\ v(j) \in Int /\ v(k) \in Int
    BY <1>1
  <2>2. v(k) < v(i) \/ (v(k) = v(i) /\ k =< i)
    BY DEF AtOrBefore
  <2>3. v(k) < v(j) \/ (v(k) = v(j) /\ k =< j)
    <3> HIDE DEF v
    <3>1. QED BY <2>1, <2>2, <1>3
  <2>4. QED BY <2>3 DEF AtOrBefore
<1>6. IsFiniteSet(B) /\ Cardinality(A) \in Nat /\ Cardinality(B) \in Nat
  BY UpToItFinite DEF Place
<1> HIDE DEF A, B
<1>7. Cardinality(A) =< Cardinality(B) /\ Cardinality(A) # Cardinality(B)
  BY <1>4, <1>5, <1>6, FS_Subset
<1>8. QED BY <1>6, <1>7 DEF A, B, Place

\* ranked is what list has at from, each of its positions once.
Permutes(ranked, list, from) ==
    /\ Len(ranked) = Len(list)
    /\ from \in [1..Len(list) -> 1..Len(list)]
    /\ \A i \in 1..Len(list) : \E k \in 1..Len(list) : from[k] = i
    /\ \A j, k \in 1..Len(list) : j # k => from[j] # from[k]
    /\ \A k \in 1..Len(list) : ranked[k] = list[from[k]]

\* The sort puts every model at its place.
LEMMA Sorts ==
    ASSUME NEW T, NEW list \in Seq(T), NEW map, Measured(list, map)
    PROVE  /\ StableSort(list, map) \in Seq(T)
           /\ \E from : /\ Permutes(StableSort(list, map), list, from)
                        /\ \A j, k \in 1..Len(list) :
                              j < k => AtOrBefore(list, map, from[j], from[k])
<1> DEFINE N == Len(list)
           D == 1..N
           place == [i \in D |-> Place(list, map, i)]
           from == [k \in D |-> CHOOSE i \in D : place[i] = k]
           ranked == StableSort(list, map)
<1>1. N \in Nat /\ 1 \in Int /\ DOMAIN list = D /\ \A i \in D : list[i] \in T
  OBVIOUS
<1>2. \A i \in D : AtOrBefore(list, map, i, i)
  BY DEF Measured, AtOrBefore
<1>3. \A i \in D, j \in D : i # j => \/ AtOrBefore(list, map, i, j)
                                     \/ AtOrBefore(list, map, j, i)
  BY <1>1 DEF Measured, AtOrBefore
<1>4. \A i, j \in D : i # j /\ AtOrBefore(list, map, i, j) => place[i] < place[j]
  BY PlaceRises
<1>5. \A i \in D : place[i] \in D
  <2> SUFFICES ASSUME NEW i \in D PROVE Place(list, map, i) \in D
    OBVIOUS
  <2>1. i \in UpToIt(list, map, i)
    BY <1>1, <1>2 DEF UpToIt
  <2>2. IsFiniteSet(UpToIt(list, map, i)) /\ Place(list, map, i) \in 0..N
    BY UpToItFinite
  <2>3. Place(list, map, i) # 0
    BY <2>1, <2>2, FS_EmptySet DEF Place
  <2>4. QED BY <2>2, <2>3, <1>1
<1> HIDE DEF N, D
<1>6. D \subseteq Int
  BY <1>1 DEF D
<1>7. \A i, j \in D : place[i] = place[j] => i = j
  <2> SUFFICES ASSUME NEW i \in D, NEW j \in D, i # j PROVE place[i] # place[j]
    OBVIOUS
  <2>1. place[i] < place[j] \/ place[j] < place[i]
    BY <1>3, <1>4
  <2>2. place[i] \in Int /\ place[j] \in Int
    BY <1>5, <1>6
  <2> HIDE DEF place
  <2>3. QED BY <2>1, <2>2
<1>8. place \in Injection(D, D)
  BY <1>5, <1>7 DEF Injection, IsInjective
<1>9. place \in Surjection(D, D)
  <2>1. IsFiniteSet(D)
    BY <1>1, FS_Interval DEF D
  <2> HIDE DEF place
  <2>2. QED BY <1>8, <2>1, FS_Injection
<1>10. \A k \in D : \E i \in D : place[i] = k
  BY <1>9 DEF Surjection
<1> HIDE DEF place
<1>11. \A k \in D : from[k] \in D /\ place[from[k]] = k
  BY <1>10
<1>12. ranked = [k \in D |-> list[from[k]]]
  <2>1. \A k \in D : list[from[k]] = list[CHOOSE i \in DOMAIN list : Place(list, map, i) = k]
    BY <1>1 DEF place
  <2>2. QED BY <1>1, <2>1, SortedIs
<1>13. from \in [D -> D]
  BY <1>11
<1>14. \A k \in D : ranked[k] = list[from[k]]
  BY <1>12
<1> HIDE DEF from
<1>15. ranked \in Seq(T) /\ Len(ranked) = N
  <2>1. ranked \in [D -> T]
    BY <1>1, <1>11, <1>12
  <2> HIDE DEF ranked
  <2>2. ranked \in [1..N -> T]
    BY <2>1 DEF D
  <2>3. QED BY <1>1, <2>2
<1>16. \A i \in D : from[place[i]] = i
  BY <1>5, <1>7, <1>11
<1>17. Permutes(ranked, list, from)
  <2>1. \A i \in D : \E k \in D : from[k] = i
    BY <1>5, <1>16
  <2>2. \A j, k \in D : j # k => from[j] # from[k]
    BY <1>11
  <2> HIDE DEF ranked
  <2>3. QED BY <1>13, <1>14, <1>15, <2>1, <2>2 DEF Permutes, D, N
<1>18. \A j, k \in D : j < k => AtOrBefore(list, map, from[j], from[k])
  <2> SUFFICES ASSUME NEW j \in D, NEW k \in D, j < k, ~AtOrBefore(list, map, from[j], from[k])
               PROVE  FALSE
    OBVIOUS
  <2>1. from[j] \in D /\ from[k] \in D /\ from[j] # from[k] /\ j \in Int /\ k \in Int
    BY <1>6, <1>11
  <2>2. place[from[k]] < place[from[j]]
    BY <1>3, <1>4, <2>1
  <2>3. k < j
    BY <1>11, <2>2
  <2>4. QED BY <2>1, <2>3
<1>19. QED BY <1>15, <1>17, <1>18 DEF D, N

\* a, then b.
Joined(a, b, L, M) == [k \in 1..(L + M) |-> IF k =< L THEN a[k] ELSE b[k - L]]

Values(f, n) == {f[k] : k \in 1..n}
OneToOne(f, n) == \A j, k \in 1..n : j # k => f[j] # f[k]

\* Of the first N positions a takes those of H, b the others, each of them once.
Halves(N, L, M, H, a, b) ==
    /\ N \in Nat /\ L \in Nat /\ M \in Nat /\ H \in SUBSET (1..N)
    /\ a \in [1..L -> 1..N] /\ OneToOne(a, L) /\ Values(a, L) = H
    /\ b \in [1..M -> 1..N] /\ OneToOne(b, M) /\ Values(b, M) = (1..N) \ H

Covers(from, N) ==
    /\ from \in [1..N -> 1..N]
    /\ \A i \in 1..N : \E k \in 1..N : from[k] = i
    /\ OneToOne(from, N)

\* What has data, then what has none: each position once.
LEMMA TwoParts ==
    ASSUME NEW N, NEW L, NEW M, NEW H, NEW a, NEW b, Halves(N, L, M, H, a, b)
    PROVE  L + M = N /\ Covers(Joined(a, b, L, M), N)
<1> DEFINE from == Joined(a, b, L, M)
<1>0. /\ N \in Nat /\ L \in Nat /\ M \in Nat /\ H \in SUBSET (1..N)
      /\ a \in [1..L -> 1..N] /\ OneToOne(a, L) /\ Values(a, L) = H
      /\ b \in [1..M -> 1..N] /\ OneToOne(b, M) /\ Values(b, M) = (1..N) \ H
  BY DEF Halves
<1> DEFINE D == 1..(L + M)
           R == 1..N
<1>1. \A k \in D : \/ k \in 1..L /\ from[k] = a[k]
                   \/ k \notin 1..L /\ k - L \in 1..M /\ from[k] = b[k - L]
  BY <1>0 DEF Joined
<1>2. \A k \in 1..L : k \in D /\ from[k] = a[k]
  BY <1>0 DEF Joined
<1>3. \A k \in 1..M : k + L \in D /\ from[k + L] = b[k]
  <2> SUFFICES ASSUME NEW k \in 1..M PROVE k + L \in D /\ from[k + L] = b[k]
    OBVIOUS
  <2>1. k + L \in D /\ ~(k + L =< L) /\ (k + L) - L = k
    BY <1>0
  <2>2. QED BY <2>1 DEF Joined
<1>4. from \in [D -> R]
  <2>1. \A k \in D : from[k] \in R
    BY <1>0, <1>1
  <2>2. QED BY <2>1 DEF Joined
<1>5. \A i \in R : \E k \in D : from[k] = i
  <2> SUFFICES ASSUME NEW i \in R PROVE \E k \in D : from[k] = i
    OBVIOUS
  <2>1. CASE i \in H
    <3>1. PICK k \in 1..L : a[k] = i
      BY <1>0, <2>1 DEF Values
    <3>2. QED BY <1>2, <3>1
  <2>2. CASE i \notin H
    <3>1. PICK k \in 1..M : b[k] = i
      BY <1>0, <2>2 DEF Values
    <3>2. QED BY <1>3, <3>1
  <2>3. QED BY <2>1, <2>2
<1>6. \A j, k \in D : j # k => from[j] # from[k]
  <2> SUFFICES ASSUME NEW j \in D, NEW k \in D, j # k PROVE from[j] # from[k]
    OBVIOUS
  <2>1. \A i \in 1..L : a[i] \in H
    BY <1>0 DEF Values
  <2>2. \A i \in 1..M : b[i] \notin H
    BY <1>0 DEF Values
  <2>3. CASE j \in 1..L /\ k \in 1..L
    BY <1>0, <1>1, <2>3 DEF OneToOne
  <2>4. CASE j \in 1..L /\ k \notin 1..L
    BY <1>1, <2>1, <2>2, <2>4
  <2>5. CASE j \notin 1..L /\ k \in 1..L
    BY <1>1, <2>1, <2>2, <2>5
  <2>6. CASE j \notin 1..L /\ k \notin 1..L
    <3>1. j - L \in 1..M /\ k - L \in 1..M /\ j - L # k - L
      BY <1>0, <1>1, <2>6
    <3>2. from[j] = b[j - L] /\ from[k] = b[k - L]
      BY <1>1, <2>6
    <3>3. QED BY <1>0, <3>1, <3>2 DEF OneToOne
  <2>7. QED BY <2>3, <2>4, <2>5, <2>6
<1>7. L + M = N
  <2>1. from \in Bijection(D, R)
    BY <1>4, <1>5, <1>6 DEF Bijection, Injection, Surjection, IsInjective
  <2>2. ExistsBijection(D, R)
    BY <2>1 DEF ExistsBijection
  <2>3. IsFiniteSet(D) /\ Cardinality(D) = L + M
    BY <1>0, FS_Interval
  <2>4. Cardinality(R) = N
    BY <1>0, FS_Interval
  <2> HIDE DEF D, R
  <2>5. QED BY <2>2, <2>3, <2>4, FS_Bijection
<1>8. Covers(from, N)
  BY <1>4, <1>5, <1>6, <1>7 DEF Covers, OneToOne
<1>9. QED BY <1>7, <1>8

\* Model i is ranked before model j.
Precedes(models, map, i, j) ==
    CASE Has(map, models[i]) /\ Has(map, models[j]) ->
             \/ map[models[i]] < map[models[j]]
             \/ map[models[i]] = map[models[j]] /\ i < j
      [] Has(map, models[i]) # Has(map, models[j]) -> Has(map, models[i])
      [] OTHER -> i < j

\* Every model is ranked once: with data by them, then those without.
LEMMA Ranks ==
    ASSUME NEW T, NEW models \in Seq(T), NEW map,
           \A i \in 1..Len(models) : Has(map, models[i]) => map[models[i]] \in Int
    PROVE  /\ RankByAscendingMetric(models, map) \in Seq(T)
           /\ \E from : /\ Permutes(RankByAscendingMetric(models, map), models, from)
                        /\ \A j, k \in 1..Len(models) :
                              j < k => Precedes(models, map, from[j], from[k])
<1> DEFINE N == Len(models)
           known == {n \in Range(models) : Has(map, n)}
           A == Among(models, known)
           rest == Range(models) \ known
           B == Among(models, rest)
           H == {i \in 1..N : Has(map, models[i])}
           L == Len(A)
           M == Len(B)
           S == StableSort(A, map)
           ranked == RankByAscendingMetric(models, map)
<1>1. N \in Nat /\ \A i \in 1..N : models[i] \in T /\ models[i] \in Range(models)
  BY DEF Range
<1>2. \A i \in 1..N : /\ models[i] \in known <=> i \in H
                      /\ models[i] \in rest <=> i \notin H
  BY <1>1
<1>r. ranked = S \o B
  BY DEF RankByAscendingMetric
<1> HIDE DEF known, rest, H
<1>3. PICK at : /\ Picks(A, models, at)
                /\ {at[k] : k \in 1..L} = {i \in 1..N : models[i] \in known}
  BY AmongPicks
<1>4. PICK bt : /\ Picks(B, models, bt)
                /\ {bt[k] : k \in 1..M} = {i \in 1..N : models[i] \in rest}
  BY AmongPicks
<1>5. A \in Seq(T) /\ B \in Seq(T) /\ L \in Nat /\ M \in Nat
  BY AmongPicks
<1>6. /\ Values(at, L) = H /\ Values(bt, M) = (1..N) \ H
      /\ H \in SUBSET (1..N)
  <2> HIDE DEF A, B, L, M
  <2>1. H \in SUBSET (1..N)
    BY DEF H
  <2>2. H = {i \in 1..N : models[i] \in known}
    BY <1>2, <2>1
  <2>3. (1..N) \ H = {i \in 1..N : models[i] \in rest}
    BY <1>2
  <2>4. QED BY <1>3, <1>4, <2>1, <2>2, <2>3 DEF Values
<1> HIDE DEF N, A, B, H, L, M, S, ranked
<1>7. /\ at \in [1..L -> 1..N] /\ \A j, k \in 1..L : j < k => at[j] < at[k]
      /\ \A k \in 1..L : A[k] = models[at[k]]
  BY <1>3 DEF Picks, Rising, L, N
<1>8. /\ bt \in [1..M -> 1..N] /\ \A j, k \in 1..M : j < k => bt[j] < bt[k]
      /\ \A k \in 1..M : B[k] = models[bt[k]]
  BY <1>4 DEF Picks, Rising, M, N
<1>9. \A k \in 1..L : Has(map, A[k]) /\ map[A[k]] \in Int
  <2> SUFFICES ASSUME NEW k \in 1..L PROVE Has(map, A[k]) /\ map[A[k]] \in Int
    OBVIOUS
  <2>1. at[k] \in H /\ at[k] \in 1..N
    BY <1>6, <1>7 DEF Values
  <2>2. Has(map, models[at[k]])
    BY <2>1 DEF H
  <2>3. QED BY <1>7, <2>1, <2>2 DEF N
<1>10. PICK s : /\ Permutes(S, A, s)
                /\ \A j, k \in 1..L : j < k => AtOrBefore(A, map, s[j], s[k])
  <2>1. Measured(A, map)
    BY <1>9 DEF Measured, L
  <2>2. QED BY <1>5, <2>1, Sorts DEF S, L
<1>11. S \in Seq(T) /\ Len(S) = L
  <2>1. Measured(A, map)
    BY <1>9 DEF Measured, L
  <2>2. QED BY <1>5, <1>10, <2>1, Sorts DEF S, L, Permutes
<1>12. /\ s \in [1..L -> 1..L]
       /\ \A i \in 1..L : \E k \in 1..L : s[k] = i
       /\ \A j, k \in 1..L : j # k => s[j] # s[k]
       /\ \A k \in 1..L : S[k] = A[s[k]]
  BY <1>10 DEF Permutes, L
<1> DEFINE a == [k \in 1..L |-> at[s[k]]]
           from == Joined(a, bt, L, M)
<1>13. a \in [1..L -> 1..N] /\ Values(a, L) = H
  <2>1. \A k \in 1..L : s[k] \in 1..L /\ a[k] = at[s[k]]
    BY <1>12
  <2>2. \A k \in 1..L : a[k] \in 1..N /\ a[k] \in H
    BY <1>6, <1>7, <2>1 DEF Values
  <2>3. ASSUME NEW i \in H PROVE \E k \in 1..L : a[k] = i
    <3>1. PICK m \in 1..L : at[m] = i
      BY <1>6 DEF Values
    <3>2. PICK k \in 1..L : s[k] = m
      BY <1>12
    <3>3. QED BY <2>1, <3>1, <3>2
  <2>4. a \in [1..L -> 1..N]
    BY <2>2
  <2> HIDE DEF a
  <2>5. QED BY <2>2, <2>3, <2>4 DEF Values
<1>14. OneToOne(a, L)
  <2> SUFFICES ASSUME NEW j \in 1..L, NEW k \in 1..L, j # k PROVE at[s[j]] # at[s[k]]
    BY DEF OneToOne
  <2>1. s[j] \in 1..L /\ s[k] \in 1..L /\ s[j] # s[k]
    BY <1>12
  <2>2. s[j] < s[k] \/ s[k] < s[j]
    BY <2>1
  <2>3. at[s[j]] < at[s[k]] \/ at[s[k]] < at[s[j]]
    BY <1>7, <2>1, <2>2
  <2>4. at[s[j]] \in Int /\ at[s[k]] \in Int
    BY <1>7, <2>1
  <2>5. QED BY <2>3, <2>4
<1>15. OneToOne(bt, M)
  <2> SUFFICES ASSUME NEW j \in 1..M, NEW k \in 1..M, j # k PROVE bt[j] # bt[k]
    BY DEF OneToOne
  <2>1. j < k \/ k < j
    OBVIOUS
  <2>2. bt[j] < bt[k] \/ bt[k] < bt[j]
    BY <1>8, <2>1
  <2>3. bt[j] \in Int /\ bt[k] \in Int
    BY <1>8
  <2>4. QED BY <2>2, <2>3
<1> HIDE DEF a, from
<1>16. L + M = N /\ Covers(from, N)
  <2>1. Halves(N, L, M, H, a, bt)
    BY <1>1, <1>5, <1>6, <1>8, <1>13, <1>14, <1>15 DEF Halves
  <2>2. QED BY <2>1, TwoParts DEF from
<1>17. /\ L + M = N
       /\ from \in [1..N -> 1..N]
       /\ \A i \in 1..N : \E k \in 1..N : from[k] = i
       /\ OneToOne(from, N)
  BY <1>16 DEF Covers
<1>18. /\ Len(ranked) = N
       /\ \A k \in 1..L : ranked[k] = A[s[k]]
       /\ \A k \in 1..M : ranked[L + k] = B[k]
  <2>1. Len(S) = L /\ Len(B) = M
    BY <1>11 DEF M
  <2>2. /\ Len(ranked) = L + M
        /\ \A k \in 1..L : ranked[k] = S[k]
        /\ \A k \in 1..M : ranked[L + k] = B[k]
    <3>0. S \in Seq(T) /\ B \in Seq(T)
      BY <1>5, <1>11
    <3>1. Len(ranked) = L + M
      <4>1. Len(S \o B) = Len(S) + Len(B)
        BY <3>0
      <4>2. QED BY <1>r, <2>1, <4>1
    <3>2. ASSUME NEW k \in 1..L PROVE ranked[k] = S[k]
      BY <1>5, <1>r, <2>1, <3>0
    <3>3. ASSUME NEW k \in 1..M PROVE ranked[L + k] = B[k]
      <4>1. L + k \in 1..(L + M) /\ ~(L + k =< L) /\ L + k - L = k
        BY <1>5
      <4>2. QED BY <1>5, <1>r, <2>1, <3>0, <4>1
    <3>4. QED BY <3>1, <3>2, <3>3
  <2>3. QED BY <1>12, <1>17, <2>2
<1>19. \A k \in 1..N : \/ k \in 1..L /\ from[k] = at[s[k]]
                       \/ k \notin 1..L /\ k - L \in 1..M /\ k = L + (k - L) /\ from[k] = bt[k - L]
  BY <1>5, <1>17 DEF a, from, Joined
<1>20. \A k \in 1..N : ranked[k] = models[from[k]]
  <2> SUFFICES ASSUME NEW k \in 1..N PROVE ranked[k] = models[from[k]]
    OBVIOUS
  <2>1. CASE k \in 1..L
    <3>1. s[k] \in 1..L /\ from[k] = at[s[k]] /\ ranked[k] = A[s[k]]
      BY <1>12, <1>18, <1>19, <2>1
    <3>2. QED BY <1>7, <3>1
  <2>2. CASE k \notin 1..L
    <3>1. k - L \in 1..M /\ k = L + (k - L) /\ from[k] = bt[k - L]
      BY <1>19, <2>2
    <3>2. ranked[k] = B[k - L]
      BY <1>18, <3>1
    <3>3. QED BY <1>8, <3>1, <3>2
  <2>3. QED BY <2>1, <2>2
<1>21. Permutes(ranked, models, from)
  BY <1>17, <1>18, <1>20 DEF Permutes, OneToOne, N
<1>22. ASSUME NEW j \in 1..N, NEW k \in 1..N, j < k
       PROVE  Precedes(models, map, from[j], from[k])
  <2>1. \A i \in 1..L : Has(map, models[at[i]]) /\ map[models[at[i]]] \in Int
    BY <1>7, <1>9
  <2>2. \A i \in 1..M : ~Has(map, models[bt[i]])
    BY <1>6, <1>8 DEF H, Values
  <2>3. CASE j \in 1..L /\ k \in 1..L
    <3>1. AtOrBefore(A, map, s[j], s[k]) /\ s[j] \in 1..L /\ s[k] \in 1..L /\ s[j] # s[k]
      <4>1. AtOrBefore(A, map, s[j], s[k])
        BY <1>10, <1>22, <2>3
      <4>2. s[j] \in 1..L /\ s[k] \in 1..L /\ s[j] # s[k]
        <5>1. j # k
          BY <1>22
        <5>2. QED BY <1>12, <2>3, <5>1
      <4>3. QED BY <4>1, <4>2
    <3>2. from[j] = at[s[j]] /\ from[k] = at[s[k]]
      BY <1>19, <2>3
    <3>3. \/ map[models[from[j]]] < map[models[from[k]]]
          \/ map[models[from[j]]] = map[models[from[k]]] /\ s[j] =< s[k]
      BY <1>7, <3>1, <3>2 DEF AtOrBefore
    <3>4. s[j] =< s[k] => from[j] < from[k]
      BY <1>7, <3>1, <3>2
    <3>5. Has(map, models[from[j]]) /\ Has(map, models[from[k]])
      BY <2>1, <3>1, <3>2
    <3>6. QED BY <3>3, <3>4, <3>5 DEF Precedes
  <2>4. CASE j \in 1..L /\ k \notin 1..L
    <3>1. Has(map, models[from[j]])
      BY <1>12, <1>19, <2>1, <2>4
    <3>2. ~Has(map, models[from[k]])
      BY <1>19, <2>2, <2>4
    <3>3. QED BY <3>1, <3>2 DEF Precedes
  <2>5. CASE j \notin 1..L /\ k \notin 1..L
    <3>1. from[j] = bt[j - L] /\ from[k] = bt[k - L] /\ j - L \in 1..M /\ k - L \in 1..M
      BY <1>19, <2>5
    <3>2. j - L < k - L
      BY <1>5, <1>22
    <3>3. from[j] < from[k]
      BY <1>8, <3>1, <3>2
    <3>4. Has(map, models[from[j]]) = FALSE /\ Has(map, models[from[k]]) = FALSE
      BY <2>2, <3>1 DEF Has
    <3>5. QED BY <3>3, <3>4 DEF Precedes
  <2>6. ~(j \notin 1..L /\ k \in 1..L)
    BY <1>1, <1>5, <1>22
  <2>7. QED BY <2>3, <2>4, <2>5, <2>6
<1>23. ranked \in Seq(T)
  <2>1. S \o B \in Seq(T)
    BY <1>5, <1>11
  <2>2. QED BY <1>r, <2>1
<1>24. QED BY <1>21, <1>22, <1>23 DEF ranked, N

SameModels(one, two) ==
    \A m \in Range(one) \cup Range(two) :
        Cardinality({i \in DOMAIN one : one[i] = m}) = Cardinality({i \in DOMAIN two : two[i] = m})

\* The same models as many times.
LEMMA PermutedSame ==
    ASSUME NEW T, NEW one \in Seq(T), NEW two \in Seq(T), NEW from, Permutes(one, two, from)
    PROVE  SameModels(one, two)
<1> SUFFICES ASSUME NEW m
             PROVE  Cardinality({i \in DOMAIN one : one[i] = m})
                      = Cardinality({i \in DOMAIN two : two[i] = m})
  BY DEF SameModels
<1> DEFINE D == 1..Len(two)
           A == {i \in D : one[i] = m}
           B == {i \in D : two[i] = m}
           f == [i \in A |-> from[i]]
<1>1. /\ from \in [D -> D]
      /\ \A i \in D : \E k \in D : from[k] = i
      /\ \A j, k \in D : j # k => from[j] # from[k]
      /\ \A k \in D : one[k] = two[from[k]]
      /\ DOMAIN one = D /\ DOMAIN two = D
  <2>1. DOMAIN one = 1..Len(one) /\ DOMAIN two = D
    OBVIOUS
  <2>2. QED BY <2>1 DEF Permutes
<1>2. IsFiniteSet(D)
  BY FS_Interval
<1> HIDE DEF D
<1>3. f \in [A -> B]
  BY <1>1
<1>4. \A j, k \in A : f[j] = f[k] => j = k
  BY <1>1
<1>5. \A i \in B : \E k \in A : f[k] = i
  BY <1>1
<1> HIDE DEF f
<1>6. f \in Bijection(A, B)
  BY <1>3, <1>4, <1>5 DEF Bijection, Injection, Surjection, IsInjective
<1>7. ExistsBijection(A, B)
  BY <1>6 DEF ExistsBijection
<1>8. IsFiniteSet(A)
  BY <1>2, FS_Subset
<1>9. Cardinality(A) = Cardinality(B)
  <2> HIDE DEF A, B
  <2>1. QED BY <1>7, <1>8, FS_Bijection
<1>10. QED BY <1>1, <1>9

\* A list is what it is.
LEMMA ItselfPermutes ==
    ASSUME NEW T, NEW list \in Seq(T)
    PROVE  Permutes(list, list, [k \in 1..Len(list) |-> k])
BY DEF Permutes

\* A map whose values are numbers, or NaN.
Numbers(map) == \A n \in DOMAIN map : map[n] \in Int \cup {NaN}

MapFor(pref) ==
    CASE pref.prefer = "cheapest" -> data.cost
      [] pref.prefer = "fastest" -> data.latency
      [] pref.prefer = "none" -> NoData

LEMMA InOrderIs ==
    ASSUME NEW ranked, NEW pref, NEW map, DOMAIN ranked = 1..Len(pref.models),
           DOMAIN pref.models = 1..Len(pref.models), NEW from,
           from \in [1..Len(pref.models) -> 1..Len(pref.models)],
           \A k \in 1..Len(pref.models) : ranked[k] = pref.models[from[k]],
           \A j, k \in 1..Len(pref.models) :
               j < k => Precedes(pref.models, map, from[j], from[k])
    PROVE  InOrder(ranked, pref, map)
BY DEF InOrder, Precedes

\* What a preference's models are ranked to.
LEMMA RankModelsOf ==
    ASSUME NEW pref \in Preference, Numbers(data.cost), Numbers(data.latency)
    PROVE  /\ SameModels(RankModels(pref), pref.models)
           /\ InOrder(RankModels(pref), pref, MapFor(pref))
<1> DEFINE T == Seq(STRING)
           models == pref.models
           N == Len(models)
<1>1. models \in Seq(T) /\ pref.prefer \in {"cheapest", "fastest", "none"}
  BY DEF Preference
<1>2. N \in Nat /\ DOMAIN models = 1..N
  BY <1>1
<1>3. ASSUME NEW map, Numbers(map)
      PROVE  /\ SameModels(RankByAscendingMetric(models, map), models)
             /\ InOrder(RankByAscendingMetric(models, map), pref, map)
  <2> DEFINE ranked == RankByAscendingMetric(models, map)
  <2>1. \A i \in 1..N : Has(map, models[i]) => map[models[i]] \in Int
    BY <1>3 DEF Has, Numbers
  <2>2. /\ ranked \in Seq(T)
        /\ \E from : /\ Permutes(ranked, models, from)
                     /\ \A j, k \in 1..N : j < k => Precedes(models, map, from[j], from[k])
    BY <1>1, <2>1, Ranks
  <2> HIDE DEF ranked
  <2>3. PICK from : /\ Permutes(ranked, models, from)
                    /\ \A j, k \in 1..N : j < k => Precedes(models, map, from[j], from[k])
    BY <2>2
  <2>4. SameModels(ranked, models)
    BY <1>1, <2>2, <2>3, PermutedSame
  <2>5. /\ DOMAIN ranked = 1..N /\ from \in [1..N -> 1..N]
        /\ \A k \in 1..N : ranked[k] = models[from[k]]
    BY <2>2, <2>3 DEF Permutes
  <2>6. InOrder(ranked, pref, map)
    BY <1>2, <2>3, <2>5, InOrderIs
  <2>7. QED BY <2>4, <2>6 DEF ranked
<1>4. CASE pref.prefer = "cheapest"
  <2>1. RankModels(pref) = RankByAscendingMetric(models, data.cost) /\ MapFor(pref) = data.cost
    BY <1>4 DEF RankModels, MapFor
  <2>2. QED BY <1>3, <2>1
<1>5. CASE pref.prefer = "fastest"
  <2>1. RankModels(pref) = RankByAscendingMetric(models, data.latency) /\ MapFor(pref) = data.latency
    BY <1>5 DEF RankModels, MapFor
  <2>2. QED BY <1>3, <2>1
<1>6. CASE pref.prefer = "none"
  <2>1. RankModels(pref) = models /\ MapFor(pref) = NoData
    BY <1>6 DEF RankModels, MapFor
  <2> DEFINE id == [k \in 1..N |-> k]
  <2>2. Permutes(models, models, id)
    BY <1>1, ItselfPermutes
  <2>3. SameModels(models, models)
    BY DEF SameModels
  <2>4. id \in [1..N -> 1..N] /\ \A k \in 1..N : models[k] = models[id[k]]
    OBVIOUS
  <2>5. \A n : Has(NoData, n) = FALSE
    BY DEF Has, NoData
  <2>6. \A j, k \in 1..N : j < k => Precedes(models, NoData, id[j], id[k])
    BY <2>5 DEF Precedes
  <2> HIDE DEF id
  <2>7. InOrder(models, pref, NoData)
    BY <1>2, <2>4, <2>6, InOrderIs
  <2>8. QED BY <2>1, <2>3, <2>7
<1>7. QED BY <1>1, <1>4, <1>5, <1>6

-----------------------------------------------------------------------------
(* The maps *)

\* The map is made entry by entry.
LEMMA MapOfIs ==
    ASSUME NEW list, Len(list) \in Nat, NEW s
    PROVE  \E upTo :
              /\ upTo[0] = NoData /\ MapOf(s, list) = upTo[Len(list)]
              /\ \A n \in 1..Len(list) :
                    upTo[n] = Entered(s, upTo[n - 1], list[n])
<1> DEFINE N == Len(list)
           Step(b, n) == Entered(s, b, list[n])
           F(g, n) == [k \in 0..n |-> IF k = 0 THEN NoData ELSE Step(g[k - 1], k)]
           IsAfter(g, n) == g = F(g, n)
           S == {n \in 0..N : \E g : IsAfter(g, n)}
<1>0. N \in Nat
  OBVIOUS
<1>a. MapOf(s, list) = (CHOOSE g : g = F(g, N))[N]
  BY DEF MapOf
<1> HIDE DEF N, Step
<1>1. 0 \in S
  <2>1. IsAfter([k \in 0..0 |-> NoData], 0)
    OBVIOUS
  <2>2. \E g : IsAfter(g, 0)
    BY <2>1
  <2>3. QED BY <2>2, <1>0
<1>2. ASSUME NEW n \in 0..(N - 1), n \in S PROVE n + 1 \in S
  <2>1. PICK g : IsAfter(g, n)
    BY <1>2
  <2> DEFINE h == [k \in 0..(n + 1) |-> IF k = n + 1 THEN Step(g[n], n + 1) ELSE g[k]]
  <2>2. ASSUME NEW k \in 0..(n + 1)
        PROVE  h[k] = IF k = 0 THEN NoData ELSE Step(h[k - 1], k)
    <3>1. CASE k = n + 1
      BY <3>1, <1>0
    <3>2. CASE k \in 0..n
      BY <3>2, <2>1, <1>0
    <3>3. QED BY <3>1, <3>2, <1>0
  <2>3. IsAfter(h, n + 1)
    BY <2>2
  <2>4. \E f : IsAfter(f, n + 1)
    BY <2>3
  <2>5. QED BY <2>4, <1>0
<1>3. N \in S
  <2> HIDE DEF S
  <2>1. 0..N \subseteq S
    BY <1>0, <1>1, <1>2, UpTo
  <2>2. QED BY <2>1, <1>0
<1> DEFINE upTo == CHOOSE g : g = F(g, N)
<1>4. upTo = F(upTo, N)
  <2>1. \E g : g = F(g, N)
    BY <1>3
  <2> HIDE DEF F
  <2>2. QED BY <2>1
<1>5. upTo[0] = NoData /\ \A n \in 1..N : upTo[n] = Step(upTo[n - 1], n)
  <2> HIDE DEF upTo
  <2>1. QED BY <1>0, <1>4
<1>6. MapOf(s, list) = upTo[N]
  BY <1>a
<1> HIDE DEF upTo
<1>7. QED BY <1>5, <1>6 DEF N, Step

LEMMA InsertNumbers ==
    ASSUME NEW map, Numbers(map), NEW n, NEW v \in Int \cup {NaN}
    PROVE  Numbers(Insert(map, n, v)) /\ Numbers(OrInsert(map, n, v))
BY DEF Numbers, Insert, OrInsert

\* An entry of an answer of s.
Entries(s) ==
    CASE s.provider = "digitalocean" -> DoModel
      [] s.provider = "models.dev" -> ModelsDevModel
      [] s.provider = "prometheus" -> PrometheusResult

Providers == {"digitalocean", "models.dev", "prometheus"}

\* Every entry leaves numbers.
LEMMA EnteredNumbers ==
    ASSUME NEW s, s.provider \in Providers, NEW entry \in Entries(s), NEW map, Numbers(map)
    PROVE  Numbers(Entered(s, map, entry))
<1>1. CASE s.provider = "digitalocean"
  <2>1. entry \in DoModel /\ Entered(s, map, entry) = DoPricing(s, map, entry)
    BY <1>1 DEF Entries, Entered
  <2>2. CASE entry.pricing = Absent
    BY <2>1, <2>2 DEF DoPricing
  <2>3. CASE entry.pricing # Absent
    <3> DEFINE v == Given(entry.pricing.input) + Given(entry.pricing.output)
               n == Alias(s, entry.id)
    <3>1. entry.pricing \in [input : Number, output : Number]
      BY <2>1, <2>3 DEF DoModel
    <3>2. entry.pricing.input \in Int \cup {Absent} /\ entry.pricing.output \in Int \cup {Absent}
      BY <3>1 DEF Number
    <3>3. Given(entry.pricing.input) \in Int /\ Given(entry.pricing.output) \in Int
      BY <3>2 DEF Given
    <3>4. v \in Int
      BY <3>3
    <3>5. DoPricing(s, map, entry) = Insert(map, n, v)
      BY <2>3 DEF DoPricing
    <3> HIDE DEF v, n
    <3>6. QED BY <2>1, <3>4, <3>5, InsertNumbers
  <2>4. QED BY <2>2, <2>3
<1>2. CASE s.provider = "models.dev"
  <2>1. entry \in ModelsDevModel /\ Entered(s, map, entry) = Register(s, map, entry)
    BY <1>2 DEF Entries, Entered
  <2>2. CASE Absent \in {entry.cost.input, entry.cost.output}
    BY <2>1, <2>2 DEF Register
  <2>3. CASE Absent \notin {entry.cost.input, entry.cost.output}
    <3> DEFINE v == entry.cost.input + entry.cost.output
               n == Alias(s, <<entry.provider>> \o entry.key)
    <3>1. entry.cost \in [input : Number, output : Number]
      BY <2>1 DEF ModelsDevModel
    <3>2. entry.cost.input \in Int /\ entry.cost.output \in Int
      BY <2>3, <3>1 DEF Number
    <3>3. v \in Int
      BY <3>2
    <3>4. Register(s, map, entry) = OrInsert(Insert(map, n, v), entry.key, v)
      BY <2>3 DEF Register
    <3> HIDE DEF v, n
    <3>5. Numbers(Insert(map, n, v))
      BY <3>3, InsertNumbers
    <3> DEFINE first == Insert(map, n, v)
    <3> HIDE DEF first
    <3>6. Numbers(OrInsert(first, entry.key, v))
      BY <3>3, <3>5, InsertNumbers DEF first
    <3>7. QED BY <2>1, <3>4, <3>6 DEF first
  <2>4. QED BY <2>2, <2>3
<1>3. CASE s.provider = "prometheus"
  <2>1. entry \in PrometheusResult /\ Entered(s, map, entry) = PrometheusMetrics(map, entry)
    BY <1>3 DEF Entries, Entered
  <2>2. CASE Absent \in {entry.model_name, entry.value}
    BY <2>1, <2>2 DEF PrometheusMetrics
  <2>3. CASE Absent \notin {entry.model_name, entry.value}
    <3>1. entry.value \in Int \cup {NaN}
      BY <2>1, <2>3 DEF PrometheusResult, Number
    <3>2. PrometheusMetrics(map, entry) = Insert(map, entry.model_name, entry.value)
      BY <2>3 DEF PrometheusMetrics
    <3>3. QED BY <2>1, <3>1, <3>2, InsertNumbers
  <2>4. QED BY <2>2, <2>3
<1>4. QED BY <1>1, <1>2, <1>3 DEF Providers

LEMMA NoDataNumbers == Numbers(NoData)
BY DEF Numbers, NoData

\* A map is of numbers.
LEMMA MapOfNumbers ==
    ASSUME NEW s, s.provider \in Providers, NEW list \in Seq(Entries(s))
    PROVE  Numbers(MapOf(s, list))
<1> DEFINE N == Len(list)
<1>1. N \in Nat /\ \A n \in 1..N : list[n] \in Entries(s)
  OBVIOUS
<1>2. PICK upTo :
        /\ upTo[0] = NoData /\ MapOf(s, list) = upTo[N]
        /\ \A n \in 1..N : upTo[n] = Entered(s, upTo[n - 1], list[n])
  BY <1>1, MapOfIs
<1> HIDE DEF N
<1> DEFINE S == {n \in 0..N : Numbers(upTo[n])}
<1>3. 0 \in S
  BY <1>1, <1>2, NoDataNumbers
<1>4. ASSUME NEW n \in 0..(N - 1), n \in S PROVE n + 1 \in S
  <2>1. n + 1 \in 1..N /\ n + 1 \in 0..N /\ n + 1 - 1 = n
    BY <1>1
  <2>2. Numbers(upTo[n]) /\ list[n + 1] \in Entries(s)
    BY <1>1, <1>4, <2>1
  <2>3. Numbers(Entered(s, upTo[n], list[n + 1]))
    BY <2>2, EnteredNumbers
  <2>4. upTo[n + 1] = Entered(s, upTo[n], list[n + 1])
    BY <1>2, <2>1
  <2>5. QED BY <2>1, <2>3, <2>4
<1>5. 0..N \subseteq S
  <2> HIDE DEF S
  <2>1. QED BY <1>1, <1>3, <1>4, UpTo
<1>6. N \in S
  BY <1>1, <1>5
<1>7. QED BY <1>2, <1>6

\* So is every reading of an answer that the source may give.
LEMMA ReadingsNumbers ==
    ASSUME NEW s, s.provider \in Providers,
           NEW f \in {Unreachable} \cup DOMAIN Answers[s.provider],
           NEW map \in Readings(s, f)
    PROVE  Numbers(map)
<1>1. CASE f = Unreachable
  <2>1. map = NoData
    BY <1>1 DEF Readings
  <2>2. QED BY <2>1, NoDataNumbers
<1>2. CASE f # Unreachable /\ s.provider = "models.dev"
  <2> DEFINE models == Answers["models.dev"][f]
  <2>1. map \in ParseModelsDevPricing(s, models)
    BY <1>2 DEF Readings
  <2>2. PICK seq \in SetToSeqs(models) : map = MapOf(s, seq)
    BY <2>1 DEF ParseModelsDevPricing, Iterations
  <2>3. IsFiniteSet(models) /\ models \subseteq ModelsDevModel
    BY <1>2, RankingAssumption
  <2>4. Cardinality(models) \in Nat
    BY <2>3, FS_CardinalityType
  <2>5. seq \in [1..Cardinality(models) -> models]
    BY <2>2 DEF SetToSeqs
  <2> HIDE DEF models
  <2>6. seq \in Seq(ModelsDevModel)
    <3>1. seq \in [1..Cardinality(models) -> ModelsDevModel]
      BY <2>3, <2>5
    <3>2. QED BY <2>4, <3>1
  <2>7. Entries(s) = ModelsDevModel
    BY <1>2 DEF Entries
  <2>8. QED BY <2>2, <2>6, <2>7, MapOfNumbers
<1>3. CASE f # Unreachable /\ s.provider # "models.dev"
  <2> DEFINE list == Answers[s.provider][f]
  <2>1. map = MapOf(s, list)
    BY <1>3 DEF Readings
  <2>2. f \in DOMAIN Answers[s.provider]
    BY <1>3
  <2>3. CASE s.provider = "digitalocean"
    <3>1. list \in Seq(DoModel)
      BY <2>2, <2>3, RankingAssumption
    <3>2. Entries(s) = DoModel
      BY <2>3 DEF Entries
    <3> HIDE DEF list
    <3>3. QED BY <2>1, <3>1, <3>2, MapOfNumbers
  <2>4. CASE s.provider = "prometheus"
    <3>1. list \in Seq(PrometheusResult)
      BY <2>2, <2>4, RankingAssumption
    <3>2. Entries(s) = PrometheusResult
      BY <2>4 DEF Entries
    <3> HIDE DEF list
    <3>3. QED BY <2>1, <3>1, <3>2, MapOfNumbers
  <2>5. QED BY <1>3, <2>3, <2>4 DEF Providers
<1>4. QED BY <1>1, <1>2, <1>3

-----------------------------------------------------------------------------
(* The routes *)

\* Of two preferences with one name, the later is one of the list too.
LEMMA NamedIsOne ==
    ASSUME NEW prefs \in Seq(Preference), prefs # Absent, NEW n \in NamesIn(prefs)
    PROVE  Named(prefs, n) \in Preference
<1> DEFINE N == Len(prefs)
           S == {i \in DOMAIN prefs : prefs[i].name = n}
           T == {N - i : i \in S}
<1>1. N \in Nat /\ DOMAIN prefs = 1..N
  OBVIOUS
<1>2. S # {} /\ S \in SUBSET (1..N)
  BY <1>1 DEF NamesIn
<1>3. T # {} /\ T \in SUBSET Nat
  BY <1>1, <1>2
<1>4. PICK t \in T : \A m \in T : t <= m
  BY <1>3, LeastNumber
<1>5. PICK i \in S : t = N - i
  BY <1>4
<1>6. \A j \in S : i >= j
  <2> SUFFICES ASSUME NEW j \in S PROVE i >= j
    OBVIOUS
  <2>1. N - i <= N - j
    BY <1>4, <1>5
  <2>2. i \in Int /\ j \in Int
    BY <1>2
  <2>3. QED BY <1>1, <2>1, <2>2
<1>7. Max(S) \in S
  <2> HIDE DEF S
  <2>1. QED BY <1>5, <1>6 DEF Max
<1>8. prefs[Max(S)] \in Preference
  BY <1>1, <1>2, <1>7
<1>9. QED BY <1>8 DEF Named

\* The preference of a route that the request, or the configuration, names.
LEMMA PrefOfIsOne ==
    ASSUME config \in Configs, call.inline \in Inlines \cup {Absent},
           NEW n \in NamesIn(Effective(call.inline))
    PROVE  /\ PrefOf(n) = Named(Effective(call.inline), n)
           /\ PrefOf(n) \in Preference
<1>1. config.prefs = Absent \/ config.prefs \in Seq(Preference)
  BY RankingAssumption
<1>2. call.inline = Absent \/ call.inline \in Seq(Preference)
  BY RankingAssumption
<1>3. NamesIn(Absent) = {}
  BY DEF NamesIn
<1>4. CASE call.inline = Absent
  <2>1. Effective(call.inline) = config.prefs /\ config.prefs # Absent
    BY <1>3, <1>4 DEF Effective
  <2>2. PrefOf(n) = Named(config.prefs, n)
    BY <1>3, <1>4, <2>1 DEF PrefOf
  <2>3. QED BY <1>1, <2>1, <2>2, NamedIsOne
<1>5. CASE call.inline # Absent
  <2>1. Effective(call.inline) = call.inline
    BY <1>5 DEF Effective
  <2>2. PrefOf(n) = Named(call.inline, n)
    BY <2>1 DEF PrefOf
  <2>3. QED BY <1>2, <1>5, <2>1, <2>2, NamedIsOne
<1>6. QED BY <1>4, <1>5

\* The first route that parse_response keeps was offered.
LEMMA FirstOffered ==
    ASSUME NEW reply \in Replies, ParseResponse(reply) # <<>>
    PROVE  Head(ParseResponse(reply)) \in NamesIn(Effective(call.inline))
<1> DEFINE names == NamesIn(Effective(call.inline)) \ {""}
           part == Among(reply, names)
<1>1. reply \in Seq(STRING)
  BY RankingAssumption
<1>2. part = ParseResponse(reply)
  BY DEF ParseResponse
<1> HIDE DEF names
<1>3. PICK at : /\ Picks(part, reply, at)
                /\ {at[k] : k \in 1..Len(part)} = {i \in 1..Len(reply) : reply[i] \in names}
  BY <1>1, AmongPicks
<1>4. part \in Seq(STRING)
  BY <1>1, AmongPicks
<1> HIDE DEF part
<1>5. 1 \in 1..Len(part) /\ Head(part) = part[1]
  BY <1>2, <1>4
<1>6. at[1] \in {i \in 1..Len(reply) : reply[i] \in names} /\ part[1] = reply[at[1]]
  BY <1>3, <1>5 DEF Picks
<1>7. Head(part) \in names
  BY <1>5, <1>6
<1>8. QED BY <1>2, <1>7 DEF names

-----------------------------------------------------------------------------
(* The ranking's invariant *)

\* What the sources give: a source per metric once the configuration is checked, maps
\* of numbers, and a task only where there is a source.
Sourced ==
    /\ config \in Configs /\ started \in Nat
    /\ phase = "fetching" => \A k \in Metric : Cardinality(Sources(k)) =< 1
    /\ feed = [k \in Metric |-> feed[k]]
    /\ data = [k \in Metric |-> data[k]]
    /\ task = [k \in Metric |-> [at |-> task[k].at, read |-> task[k].read]]
    /\ \A k \in Metric : /\ feed[k] \in Feeds(k)
                         /\ Numbers(data[k]) /\ Numbers(task[k].read)
                         /\ task[k].at # "none" => Sources(k) # {}

\* A call that has chosen a route has it from the preferences that count for it.
Routed ==
    /\ call = [at |-> call.at, inline |-> call.inline, route |-> call.route,
               models |-> call.models, error |-> call.error]
    /\ call.inline \in Inlines \cup {Absent}
    /\ call.at \in {"chosen", "ranking"} => call.route \in NamesIn(Effective(call.inline))

RankingInv == Sourced /\ Routed /\ RoutedByItsPreferences

LEMMA SourceOfOne ==
    ASSUME config \in Configs, NEW k \in Metric, Sources(k) # {}
    PROVE  SourceOf(k).provider \in Providers
<1>1. (CHOOSE i \in Sources(k) : TRUE) \in Sources(k)
  OBVIOUS
<1>2. SourceOf(k) \in Range(config.sources)
  BY <1>1 DEF SourceOf, Sources, Range
<1>3. QED BY <1>2, RankingAssumption DEF Providers

LEMMA SameSources ==
    ASSUME config' = config
    PROVE  \A k : /\ Sources(k)' = Sources(k) /\ Feeds(k)' = Feeds(k)
                  /\ SourceOf(k)' = SourceOf(k)
BY DEF Sources, Feeds, SourceOf

LEMMA RankingStarts == RankingInit => RankingInv
<1> SUFFICES ASSUME RankingInit PROVE RankingInv
  OBVIOUS
<1>1. PICK c \in Feeds("cost"), l \in Feeds("latency") :
          feed = [k \in Metric |-> IF k = "cost" THEN c ELSE l]
  BY DEF RankingInit
<1>2. feed = [k \in Metric |-> feed[k]] /\ \A k \in Metric : feed[k] \in Feeds(k)
  BY <1>1 DEF Metric
<1>3. Sourced
  BY <1>2, NoDataNumbers DEF RankingInit, Sourced
<1>4. Routed
  BY DEF RankingInit, Routed, NoCall
<1>5. RoutedByItsPreferences
  BY DEF RankingInit, RoutedByItsPreferences, NoCall
<1>6. QED BY <1>3, <1>4, <1>5 DEF RankingInv

\* The sources and the configuration stay: the calls' part is kept.
LEMMA CallUntouched ==
    ASSUME Routed, RoutedByItsPreferences, config' = config, call' = call
    PROVE  Routed' /\ RoutedByItsPreferences'
BY DEF Routed, RoutedByItsPreferences, Effective

LEMMA SourcesUntouched ==
    ASSUME Sourced, UNCHANGED <<config, phase, started, feed, changes, data, task>>
    PROVE  Sourced'
<1>1. \A k : Sources(k)' = Sources(k) /\ Feeds(k)' = Feeds(k)
  BY SameSources
<1>2. QED BY <1>1 DEF Sourced

\* A fetch of k leaves a map of numbers for it.
LEMMA TaskSet ==
    ASSUME Sourced, NEW k \in Metric, NEW at, NEW map, Numbers(map),
           at # "none" => Sources(k) # {},
           task' = [task EXCEPT ![k] = [at |-> at, read |-> map]],
           \/ data' = data
           \/ data' = [data EXCEPT ![k] = map],
           config' = config, feed' = feed, started' \in Nat,
           phase' = phase
    PROVE  Sourced'
<1>1. \A j : Sources(j)' = Sources(j) /\ Feeds(j)' = Feeds(j)
  BY SameSources
<1>2. /\ task' = [j \in Metric |-> [at |-> task'[j].at, read |-> task'[j].read]]
      /\ \A j \in Metric : Numbers(task'[j].read) /\ (task'[j].at # "none" => Sources(j) # {})
  <2>1. task' = [j \in Metric |-> IF j = k THEN [at |-> at, read |-> map] ELSE task[j]]
    BY DEF Sourced
  <2>2. \A j \in Metric : task[j] = [at |-> task[j].at, read |-> task[j].read]
    BY DEF Sourced
  <2>3. \A j \in Metric : task'[j] = [at |-> task'[j].at, read |-> task'[j].read]
    BY <2>1, <2>2
  <2>4. task' = [j \in Metric |-> task'[j]]
    BY <2>1
  <2>5. task' = [j \in Metric |-> [at |-> task'[j].at, read |-> task'[j].read]]
    BY <2>3, <2>4
  <2>6. ASSUME NEW j \in Metric
        PROVE  Numbers(task'[j].read) /\ (task'[j].at # "none" => Sources(j) # {})
    <3>1. CASE j = k
      <4>1. task'[j].read = map /\ task'[j].at = at
        BY <2>1, <3>1
      <4>2. QED BY <3>1, <4>1
    <3>2. CASE j # k
      <4>1. task'[j] = task[j]
        BY <2>1, <3>2
      <4>2. QED BY <4>1 DEF Sourced
    <3>3. QED BY <3>1, <3>2
  <2>7. QED BY <2>5, <2>6
<1>3. data' = [j \in Metric |-> data'[j]] /\ \A j \in Metric : Numbers(data'[j])
  <2>1. data' = data \/ data' = [j \in Metric |-> IF j = k THEN map ELSE data[j]]
    BY DEF Sourced
  <2>2. QED BY <2>1 DEF Sourced
<1>4. feed' = [j \in Metric |-> feed'[j]] /\ \A j \in Metric : feed'[j] \in Feeds(j)
  BY DEF Sourced
<1>5. config' \in Configs /\ (phase' = "fetching" => \A j \in Metric : Cardinality(Sources(j)) =< 1)
  BY DEF Sourced
<1>6. QED BY <1>1, <1>2, <1>3, <1>4, <1>5 DEF Sourced

\* The steps of the start and of the sources.
LEMMA SourceSteps ==
    ASSUME RankingInv,
           Start \/ \E k \in Metric : Fetch(k) \/ Write(k) \/ FeedChanges(k)
    PROVE  RankingInv'
<1>1. Sourced /\ Routed /\ RoutedByItsPreferences
  BY DEF RankingInv
<1>2. config' = config /\ call' = call
  BY DEF Start, CheckConfig, FetchAtStart, CheckPolicies, Fetch, Write, FeedChanges
<1>3. Routed' /\ RoutedByItsPreferences'
  BY <1>1, <1>2, CallUntouched
<1>4. \A k : Sources(k)' = Sources(k) /\ Feeds(k)' = Feeds(k) /\ SourceOf(k)' = SourceOf(k)
  BY <1>2, SameSources
<1>5. ASSUME NEW k \in Metric, Sources(k) # {}, NEW map \in Readings(SourceOf(k), feed[k])
      PROVE  Numbers(map)
  <2>1. SourceOf(k).provider \in Providers
    BY <1>1, <1>5, SourceOfOne DEF Sourced
  <2>2. feed[k] \in {Unreachable} \cup DOMAIN Answers[SourceOf(k).provider]
    BY <1>1, <1>5 DEF Sourced, Feeds
  <2>3. QED BY <2>1, <2>2, <1>5, ReadingsNumbers
<1>6. CASE CheckConfig
  <2>1. phase' = "fetching" => \A k \in Metric : Cardinality(Sources(k)) =< 1
    BY <1>6 DEF CheckConfig
  <2>2. /\ started' = started /\ feed' = feed /\ data' = data /\ task' = task
    BY <1>6 DEF CheckConfig
  <2>3. Sourced'
    BY <1>1, <1>2, <1>4, <2>1, <2>2 DEF Sourced
  <2>4. QED BY <1>3, <2>3 DEF RankingInv
<1>7. CASE FetchAtStart
  <2> DEFINE s == config.sources[started + 1]
             k == MetricOf(s)
  <2>1. PICK map \in Readings(s, feed[k]) :
          /\ data' = [data EXCEPT ![k] = map]
          /\ task' = [task EXCEPT ![k] = [at |-> IF s.refresh THEN "sleeping" ELSE "none", read |-> map]]
    BY <1>7 DEF FetchAtStart
  <2>2. /\ phase = "fetching" /\ started < Len(config.sources) /\ started' = started + 1
        /\ phase' = phase /\ feed' = feed
    BY <1>7 DEF FetchAtStart
  <2>3. k \in Metric
    BY DEF MetricOf, Metric
  <2>4. started + 1 \in Sources(k)
    <3>1. config.sources \in Seq(Range(config.sources)) /\ started \in Nat
      BY <1>1, RankingAssumption DEF Sourced
    <3>2. started + 1 \in DOMAIN config.sources
      BY <2>2, <3>1
    <3>3. QED BY <3>2 DEF Sources
  <2>5. SourceOf(k) = s
    <3>1. IsFiniteSet(Sources(k))
      <4>1. config.sources \in Seq(Range(config.sources))
        BY <1>1, RankingAssumption DEF Sourced
      <4>2. Sources(k) \in SUBSET (1..Len(config.sources)) /\ Len(config.sources) \in Nat
        BY <4>1 DEF Sources
      <4>3. IsFiniteSet(1..Len(config.sources))
        BY <4>2, FS_Interval
      <4>4. QED BY <4>2, <4>3, FS_Subset
    <3>2. Cardinality(Sources(k)) =< 1 /\ Cardinality(Sources(k)) \in Nat
      BY <1>1, <2>2, <2>3, <3>1, FS_CardinalityType DEF Sourced
    <3>3. Cardinality(Sources(k)) # 0
      BY <2>4, <3>1, FS_EmptySet
    <3>4. Cardinality(Sources(k)) = 1
      BY <3>2, <3>3
    <3>5. PICK i : Sources(k) = {i}
      BY <3>1, <3>4, FS_Singleton
    <3>6. i = started + 1
      BY <2>4, <3>5
    <3>7. QED BY <3>5, <3>6 DEF SourceOf
  <2> HIDE DEF s, k
  <2>6. Sources(k) # {}
    BY <2>4
  <2>7. Numbers(map)
    BY <1>5, <2>1, <2>3, <2>5, <2>6
  <2>8. started' \in Nat
    BY <1>1, <2>2 DEF Sourced
  <2>9. Sourced'
    BY <1>1, <1>2, <2>1, <2>2, <2>3, <2>6, <2>7, <2>8, TaskSet
  <2>10. QED BY <1>3, <2>9 DEF RankingInv
<1>8. CASE CheckPolicies
  <2>1. phase' # "fetching"
    BY <1>8 DEF CheckPolicies
  <2>2. /\ started' = started /\ feed' = feed /\ data' = data /\ task' = task
    BY <1>8 DEF CheckPolicies
  <2>3. Sourced'
    BY <1>1, <1>2, <1>4, <2>1, <2>2 DEF Sourced
  <2>4. QED BY <1>3, <2>3 DEF RankingInv
<1>9. ASSUME NEW k \in Metric, Fetch(k) PROVE RankingInv'
  <2>1. PICK map \in Readings(SourceOf(k), feed[k]) :
            task' = [task EXCEPT ![k] = [at |-> "writing", read |-> map]]
    BY <1>9 DEF Fetch
  <2>2. /\ task[k].at = "sleeping" /\ data' = data /\ feed' = feed /\ started' = started
        /\ phase' = phase
    BY <1>9 DEF Fetch
  <2>3. Sources(k) # {} /\ started' \in Nat
    BY <1>1, <2>2 DEF Sourced
  <2>4. Numbers(map)
    BY <1>5, <2>1, <2>3
  <2>5. Sourced'
    BY <1>1, <1>2, <2>1, <2>2, <2>3, <2>4, TaskSet
  <2>6. QED BY <1>3, <2>5 DEF RankingInv
<1>10. ASSUME NEW k \in Metric, Write(k) PROVE RankingInv'
  <2> DEFINE map == task[k].read
  <2>1. /\ data' = [data EXCEPT ![k] = map] /\ task' = [task EXCEPT ![k].at = "sleeping"]
        /\ task[k].at = "writing" /\ feed' = feed /\ started' = started /\ phase' = phase
    BY <1>10 DEF Write
  <2>2. task' = [task EXCEPT ![k] = [at |-> "sleeping", read |-> map]]
    <3>1. task[k] = [at |-> task[k].at, read |-> task[k].read]
      BY <1>1 DEF Sourced
    <3>2. [task[k] EXCEPT !.at = "sleeping"] = [at |-> "sleeping", read |-> map]
      BY <3>1
    <3>3. task' = [task EXCEPT ![k] = [task[k] EXCEPT !.at = "sleeping"]]
      BY <2>1
    <3>4. QED BY <3>2, <3>3
  <2>3. Sources(k) # {} /\ started' \in Nat /\ Numbers(map)
    BY <1>1, <2>1 DEF Sourced
  <2> HIDE DEF map
  <2>4. Sourced'
    BY <1>1, <1>2, <2>1, <2>2, <2>3, TaskSet
  <2>5. QED BY <1>3, <2>4 DEF RankingInv
<1>11. ASSUME NEW k \in Metric, FeedChanges(k) PROVE RankingInv'
  <2>1. PICK f \in Feeds(k) : feed' = [feed EXCEPT ![k] = f]
    BY <1>11 DEF FeedChanges
  <2>2. /\ data' = data /\ task' = task /\ started' = started /\ phase' = phase
    BY <1>11 DEF FeedChanges
  <2>3. feed' = [j \in Metric |-> IF j = k THEN f ELSE feed[j]]
    BY <1>1, <2>1 DEF Sourced
  <2>4. feed' = [j \in Metric |-> feed'[j]] /\ \A j \in Metric : feed'[j] \in Feeds(j)
    BY <1>1, <2>3 DEF Sourced
  <2>5. Sourced'
    BY <1>1, <1>2, <1>4, <2>2, <2>4 DEF Sourced
  <2>6. QED BY <1>3, <2>5 DEF RankingInv
<1>12. QED BY <1>6, <1>7, <1>8, <1>9, <1>10, <1>11 DEF Start

\* The steps of a call.
LEMMA CallSteps ==
    ASSUME RankingInv,
           \/ \E inline \in Inlines, empty \in BOOLEAN : Ask(inline, empty)
           \/ \E reply \in Replies : Reply(reply)
           \/ OrchestratorFails \/ ReadCost \/ Rank
    PROVE  RankingInv'
<1>1. Sourced /\ Routed /\ RoutedByItsPreferences
  BY DEF RankingInv
<1>2. UNCHANGED <<config, phase, started, feed, changes, data, task>>
  BY DEF Ask, Reply, OrchestratorFails, ReadCost, Rank
<1>3. Sourced'
  BY <1>1, <1>2, SourcesUntouched
<1>4. \A inline : Effective(inline)' = Effective(inline)
  BY <1>2 DEF Effective
<1> DEFINE Call(at, inl, rt, models, error) ==
             [at |-> at, inline |-> inl, route |-> rt, models |-> models, error |-> error]
<1>5. ASSUME NEW at, NEW inl \in Inlines \cup {Absent}, NEW rt, NEW models, NEW error,
             call' = Call(at, inl, rt, models, error),
             at \in {"chosen", "ranking"} => rt \in NamesIn(Effective(inl)),
             at = "done" /\ rt # Absent => /\ rt \in NamesIn(Effective(inl))
                                           /\ SameModels(models, Named(Effective(inl), rt).models)
      PROVE  RankingInv'
  <2>1. /\ call'.at = at /\ call'.inline = inl /\ call'.route = rt /\ call'.models = models
        /\ call'.error = error
    BY <1>5
  <2>2. Effective(call.inline)' = Effective(inl)
    BY <1>4, <2>1 DEF Effective
  <2>3. Routed'
    BY <1>5, <2>1, <2>2 DEF Routed
  <2>4. RoutedByItsPreferences'
    <3>1. ASSUME at = "done", rt # Absent PROVE RoutedByItsPreferences'
      <4>1. rt \in NamesIn(Effective(inl)) /\ SameModels(models, Named(Effective(inl), rt).models)
        BY <1>5, <3>1
      <4>2. QED BY <2>1, <2>2, <4>1 DEF RoutedByItsPreferences, SameModels
    <3>2. ASSUME ~(at = "done" /\ rt # Absent) PROVE RoutedByItsPreferences'
      BY <2>1, <3>2 DEF RoutedByItsPreferences
    <3>3. QED BY <3>1, <3>2
  <2>5. QED BY <1>3, <2>3, <2>4 DEF RankingInv
<1>6. call = Call(call.at, call.inline, call.route, call.models, call.error)
  BY <1>1 DEF Routed
<1>7. call.inline \in Inlines \cup {Absent}
  BY <1>1 DEF Routed
<1>8. \A rt, models : Ended(rt, models) = Call("done", call.inline, rt, models, call.error)
  <2> TAKE rt, models
  <2>1. PICK at, inl, was, had, error : call = Call(at, inl, was, had, error)
    BY <1>6
  <2>2. call.inline = inl /\ call.error = error
    BY <2>1
  <2>3. Ended(rt, models) = [Call(at, inl, was, had, error)
                               EXCEPT !.at = "done", !.route = rt, !.models = models]
    BY <2>1 DEF Ended
  <2>4. Ended(rt, models) = Call("done", inl, rt, models, error)
    BY <2>3
  <2>5. QED BY <2>2, <2>4
<1>9. ASSUME NEW inline \in Inlines, NEW empty \in BOOLEAN, Ask(inline, empty) PROVE RankingInv'
  <2>1. PICK at \in {"done", "asked"} : call' = Call(at, inline, Absent, <<>>, FALSE)
    BY <1>9 DEF Ask, NoCall
  <2> HIDE DEF Call
  <2>2. QED BY <1>5, <2>1
<1>10. ASSUME NEW reply \in Replies, Reply(reply) PROVE RankingInv'
  <2> DEFINE routes == ParseResponse(reply)
             first == Head(routes)
  <2>1. CASE call' = Ended(Absent, <<>>)
    <3>1. call' = Call("done", call.inline, Absent, <<>>, call.error)
      BY <1>8, <2>1
    <3> HIDE DEF Call
    <3>2. QED BY <1>5, <1>7, <3>1
  <2>2. CASE routes # <<>> /\ call' = Ended(first, PrefOf(first).models)
    <3>1. first \in NamesIn(Effective(call.inline))
      BY <2>2, FirstOffered
    <3> HIDE DEF first, routes
    <3>2. PrefOf(first) = Named(Effective(call.inline), first)
      BY <1>1, <1>7, <3>1, PrefOfIsOne DEF Sourced
    <3>3. call' = Call("done", call.inline, first, PrefOf(first).models, call.error)
      BY <1>8, <2>2
    <3>4. SameModels(PrefOf(first).models, Named(Effective(call.inline), first).models)
      BY <3>2 DEF SameModels
    <3> HIDE DEF Call
    <3>5. QED BY <1>5, <1>7, <3>1, <3>3, <3>4
  <2>3. CASE routes # <<>> /\ call' = [call EXCEPT !.at = "chosen", !.route = first]
    <3>1. first \in NamesIn(Effective(call.inline))
      BY <2>3, FirstOffered
    <3> HIDE DEF first, routes
    <3>2. call' = Call("chosen", call.inline, first, call.models, call.error)
      BY <1>6, <2>3
    <3> HIDE DEF Call
    <3>3. QED BY <1>5, <1>7, <3>1, <3>2
  <2>4. QED BY <1>10, <2>1, <2>2, <2>3 DEF Reply
<1>11. CASE OrchestratorFails
  <2>1. call' = Call("done", call.inline, Absent, <<>>, TRUE)
    BY <1>8, <1>11 DEF OrchestratorFails
  <2> HIDE DEF Call
  <2>2. QED BY <1>5, <1>7, <2>1
<1>12. CASE ReadCost
  <2>1. call' = Call("ranking", call.inline, call.route, call.models, call.error)
    BY <1>6, <1>12 DEF ReadCost
  <2>2. call.route \in NamesIn(Effective(call.inline))
    BY <1>1, <1>12 DEF ReadCost, Routed
  <2> HIDE DEF Call
  <2>3. QED BY <1>5, <1>7, <2>1, <2>2
<1>13. CASE Rank
  <2> DEFINE pref == PrefOf(call.route)
  <2>1. call' = Call("done", call.inline, call.route, RankModels(pref), call.error)
    BY <1>8, <1>13 DEF Rank
  <2>2. call.route \in NamesIn(Effective(call.inline))
    BY <1>1, <1>13 DEF Rank, Routed
  <2>3. pref = Named(Effective(call.inline), call.route) /\ pref \in Preference
    BY <1>1, <1>7, <2>2, PrefOfIsOne DEF Sourced
  <2>4. Numbers(data.cost) /\ Numbers(data.latency)
    BY <1>1 DEF Sourced, Metric
  <2> HIDE DEF pref
  <2>5. SameModels(RankModels(pref), Named(Effective(call.inline), call.route).models)
    BY <2>3, <2>4, RankModelsOf
  <2> HIDE DEF Call
  <2>6. QED BY <1>5, <1>7, <2>1, <2>2, <2>5
<1>14. QED BY <1>9, <1>10, <1>11, <1>12, <1>13

LEMMA RankingStep == RankingInv /\ [RankingNext]_rankingVars => RankingInv'
<1>1. ASSUME RankingInv, UNCHANGED rankingVars PROVE RankingInv'
  <2>1. Sourced' /\ Routed' /\ RoutedByItsPreferences'
    BY <1>1, SourcesUntouched, CallUntouched DEF RankingInv, rankingVars
  <2>2. QED BY <2>1 DEF RankingInv
<1>2. QED BY <1>1, SourceSteps, CallSteps DEF RankingNext

LEMMA RankingInvariance == RankingSpec => []RankingInv
BY RankingStarts, RankingStep, PTL DEF RankingSpec

\* Whatever the orchestrator names and the sources answer, at any time: a route is one
\* of those the request brought, or of the configuration's if it brought none, and its
\* models are the ones it has there, none lost and none added.
THEOREM RoutesByPreferences == RankingSpec => []RoutedByItsPreferences
BY RankingInvariance, PTL DEF RankingInv

\* A ranking is by the data in force when it is given: ascending, equal ones in the
\* preference's order, and models without data last.
THEOREM RanksByData == RankingSpec => RankingFollowsData
<1> DEFINE Pref == Named(Effective(call.inline), call.route)
           Ranked == call.at = "ranking" /\ call'.at = "done" =>
                         InOrder(call'.models, Pref, MapFor(Pref))
<1>1. RankingInv /\ [RankingNext]_rankingVars => Ranked
  <2> SUFFICES ASSUME RankingInv, [RankingNext]_rankingVars,
                      call.at = "ranking", call'.at = "done"
               PROVE  InOrder(call'.models, Pref, MapFor(Pref))
    OBVIOUS
  <2>1. Rank
    BY DEF RankingNext, rankingVars, Start, CheckConfig, FetchAtStart, CheckPolicies, Fetch,
           Write, FeedChanges, Ask, Reply, OrchestratorFails, ReadCost
  <2>2. Sourced /\ Routed
    BY DEF RankingInv
  <2>3. call.route \in NamesIn(Effective(call.inline)) /\ call.inline \in Inlines \cup {Absent}
    BY <2>2 DEF Routed
  <2>4. PrefOf(call.route) = Pref /\ PrefOf(call.route) \in Preference
    BY <2>2, <2>3, PrefOfIsOne DEF Sourced
  <2>5. call'.models = RankModels(PrefOf(call.route))
    BY <2>1, <2>2 DEF Rank, Ended, Routed
  <2>6. Numbers(data.cost) /\ Numbers(data.latency)
    BY <2>2 DEF Sourced, Metric
  <2> HIDE DEF Pref
  <2>7. QED BY <2>4, <2>5, <2>6, RankModelsOf
<1>2. Ranked => (call.at = "ranking" /\ call'.at = "done" =>
           LET pref == Named(Effective(call.inline), call.route)
           IN InOrder(call'.models, pref, CASE pref.prefer = "cheapest" -> data.cost
                                            [] pref.prefer = "fastest" -> data.latency
                                            [] pref.prefer = "none" -> NoData))
  BY DEF MapFor
<1>3. QED BY <1>1, <1>2, RankingInvariance, PTL DEF RankingSpec, RankingFollowsData

=============================================================================
