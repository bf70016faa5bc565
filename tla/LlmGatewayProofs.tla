--------------------------- MODULE LlmGatewayProofs ---------------------------
(* Theorems about LlmGateway, for any deployments, limits and requests. *)
EXTENDS LlmGateway, FiniteSetTheorems, SequenceTheorems, WellFoundedInduction, TLAPS

-----------------------------------------------------------------------------
\* Induction over the natural numbers: a set of them that is not empty has a
\* least element.
LEMMA LeastNumber ==
    ASSUME NEW T \in SUBSET Nat, T # {}
    PROVE  \E n \in T : \A m \in T : n <= m
<1> DEFINE Below(n) == {m \in Nat : m < n}
           B == {Below(n) : n \in T}
<1>1. ASSUME NEW n \in Nat PROVE IsFiniteSet(Below(n))
  <2>1. Below(n) \in SUBSET Nat /\ \A s \in Below(n) : s <= n
    OBVIOUS
  <2>2. QED BY <2>1, FS_BoundedSetOfNaturals
<1>2. B \subseteq FiniteSubsetsOf(Nat) /\ B # {}
  BY <1>1 DEF FiniteSubsetsOf
<1>3. PICK b \in B : \A y \in B : ~(<<y, b>> \in StrictSubsetOrdering(Nat))
  BY <1>2, FS_StrictSubsetOrderingWellFounded, WFMin
<1>4. PICK n \in T : b = Below(n)
  BY <1>3
<1>5. ASSUME NEW m \in T, m < n PROVE FALSE
  <2>1. Below(m) \in B
    OBVIOUS
  <2>2. Below(m) \subseteq Below(n) /\ Below(m) # Below(n)
    BY <1>5
  <2>3. <<Below(m), b>> \in StrictSubsetOrdering(Nat)
    BY <2>2, <1>4 DEF StrictSubsetOrdering
  <2>4. QED BY <2>1, <2>3, <1>3
<1>6. QED BY <1>5

\* The same as a step from n to n + 1, up to a bound: for the set of the
\* numbers that have a property.
LEMMA UpTo ==
    ASSUME NEW N \in Nat, NEW S, 0 \in S, \A n \in 0..(N - 1) : n \in S => n + 1 \in S
    PROVE  0..N \subseteq S
<1> SUFFICES ASSUME {n \in 0..N : n \notin S} # {} PROVE FALSE
  OBVIOUS
<1> DEFINE T == {k \in 0..N : k \notin S}
<1>1. PICK n \in T : \A m \in T : n <= m
  <2>1. T \in SUBSET Nat /\ T # {}
    OBVIOUS
  <2>2. QED BY <2>1, LeastNumber
<1>2. n # 0 /\ n - 1 \in 0..(N - 1)
  BY <1>1
<1>3. n - 1 \in S
  BY <1>1, <1>2
<1>4. QED BY <1>1, <1>2, <1>3

-----------------------------------------------------------------------------
\* Built is what its equation says.
LEMMA BuiltDef ==
    ASSUME NEW items \in Seq(Items), NEW specific
    PROVE  LET t == Built(items, specific) IN
           t = [n \in 0..Len(items) |->
                   IF n = 0 THEN EmptyTable ELSE AddItem(t[n - 1], items[n], specific)]
<1> DEFINE N == Len(items)
           Step(t, n) == AddItem(t, items[n], specific)
           IsBuilt(g, n) == g = [k \in 0..n |-> IF k = 0 THEN EmptyTable ELSE Step(g[k - 1], k)]
           S == {n \in 0..N : \E g : IsBuilt(g, n)}
<1>0. N \in Nat
  OBVIOUS
<1>1. 0 \in S
  <2>1. IsBuilt([k \in 0..0 |-> EmptyTable], 0)
    OBVIOUS
  <2>2. \E g : IsBuilt(g, 0)
    BY <2>1
  <2>3. QED BY <2>2, <1>0
<1> HIDE DEF Step
<1>2. ASSUME NEW n \in 0..(N - 1), n \in S PROVE n + 1 \in S
  <2>1. PICK g : IsBuilt(g, n)
    BY <1>2
  <2> DEFINE h == [k \in 0..(n + 1) |-> IF k = n + 1 THEN Step(g[n], n + 1) ELSE g[k]]
  <2>2. ASSUME NEW k \in 0..(n + 1)
        PROVE  h[k] = IF k = 0 THEN EmptyTable ELSE Step(h[k - 1], k)
    <3>1. CASE k = n + 1
      BY <3>1, <1>0
    <3>2. CASE k \in 0..n
      BY <3>2, <2>1, <1>0
    <3>3. QED BY <3>1, <3>2, <1>0
  <2>3. IsBuilt(h, n + 1)
    BY <2>2
  <2>4. \E f : IsBuilt(f, n + 1)
    BY <2>3
  <2>5. QED BY <2>4, <1>0
<1>3. N \in S
  <2> HIDE DEF S, N
  <2>1. 0..N \subseteq S
    BY <1>0, <1>1, <1>2, UpTo
  <2>2. QED BY <2>1, <1>0
<1>4. \E g : IsBuilt(g, N)
  BY <1>3
<1>5. QED BY <1>4 DEF Built, Step

-----------------------------------------------------------------------------
\* An item, or one that a wildcard has become for a model.
AnyItem ==
    [name : STRING \X STRING, model : STRING, kind : STRING \ {"none"},
     default : BOOLEAN, key : BOOLEAN, passthrough : BOOLEAN, endpoint : BOOLEAN]

ServedItem == {it \in AnyItem : it.model # "*"}

\* What holds of the table t after n of the items.
TableInv(t, items, n) ==
    /\ t \in [ok : BOOLEAN, providers : {t.providers}, default : {t.default},
              wildcards : {t.wildcards}, names : {t.names}]
    /\ t.default = NoProvider \/ (t.default \in Items /\ t.default.default)
    /\ t.providers \in [DOMAIN t.providers -> ServedItem]
    /\ t.wildcards \in [DOMAIN t.wildcards -> AnyItem]
    /\ t.ok => \A j \in 1..n :
                  items[j].model # "*" =>
                      /\ items[j].name \in t.names
                      /\ ~Taken(items, j, n) => /\ items[j].name \in DOMAIN t.providers
                                                /\ t.providers[items[j].name] = items[j]

\* A wildcard item disturbs no item that is configured on its own.
LEMMA WildcardKeepsTable ==
    ASSUME NEW items \in Seq(Items), NEW n \in 0..(Len(items) - 1), NEW t,
           TableInv(t, items, n), items[n + 1].model = "*"
    PROVE  TableInv(AddWildcard(t, items[n + 1], SpecificNames(items)), items, n + 1)
<1> DEFINE it == items[n + 1]
           names == NamesOf(it.name[1], Covered(it, SpecificNames(items)))
           u == AddWildcard(t, it, SpecificNames(items))
           Standing(k) == [it EXCEPT !.model = k[2], !.name = <<it.name[1], k[2]>>]
<1>1. it \in AnyItem
  BY DEF Items, AnyItem
<1>2. /\ u.ok = t.ok /\ u.names = t.names /\ u.default = t.default
      /\ u.wildcards = Insert(t.wildcards, it.name[1], it)
      /\ u.providers = [k \in DOMAIN t.providers \cup names |->
                           IF k \in names THEN Standing(k) ELSE t.providers[k]]
      /\ u \in [ok : BOOLEAN, providers : {u.providers}, default : {u.default},
                wildcards : {u.wildcards}, names : {u.names}]
  BY DEF TableInv, AddWildcard
<1> DEFINE covered == Covered(it, SpecificNames(items))
<1>0. /\ \A m \in covered : /\ m \in STRING /\ m # "*" /\ Bare(m) = <<"", m>>
                            /\ <<it.name[1], m>> \notin SpecificNames(items)
      /\ names = {<<it.name[1], m>> : m \in covered} \cup {Bare(m) : m \in covered}
  <2>1. names = {<<it.name[1], m>> : m \in covered} \cup {Bare(m) : m \in covered}
    BY DEF NamesOf
  <2>2. ASSUME NEW m \in covered
        PROVE  /\ m \in STRING /\ m # "*" /\ m \notin DOMAIN Nested
               /\ <<it.name[1], m>> \notin SpecificNames(items)
    <3>1. /\ it.name[1] \in DOMAIN Registry /\ m \in Range(Registry[it.name[1]])
          /\ <<it.name[1], m>> \notin SpecificNames(items)
      BY DEF Covered
    <3>2. /\ Registry[it.name[1]] \in Seq(STRING)
          /\ Range(Registry[it.name[1]]) \cap ({"*"} \cup DOMAIN Nested) = {}
      BY <3>1, RegistryAssumption
    <3>3. m \in STRING
      BY <3>1, <3>2 DEF Range
    <3>4. QED BY <3>1, <3>2, <3>3
  <2>3. QED BY <2>1, <2>2 DEF Bare
<1> HIDE DEF covered
<1>3. \A k \in names : k[2] \in STRING /\ k[2] # "*"
  <2>1. ASSUME NEW k \in names PROVE k[2] \in covered
    <3>1. PICK m \in covered : k = <<it.name[1], m>> \/ k = <<"", m>>
      <4> HIDE DEF names
      <4>1. QED BY <1>0
    <3>2. k[2] = m
      <4>1. CASE k = <<it.name[1], m>>
        BY <4>1
      <4>2. CASE k = <<"", m>>
        BY <4>2
      <4>3. QED BY <3>1, <4>1, <4>2
    <3>3. QED BY <3>2
  <2>2. QED BY <2>1, <1>0
<1>4. \A k \in names : Standing(k) \in ServedItem
  BY <1>1, <1>3 DEF AnyItem, ServedItem
<1> HIDE DEF Standing, names, u
<1>5. u.providers \in [DOMAIN u.providers -> ServedItem]
  BY <1>2, <1>4 DEF TableInv
<1>6. u.wildcards \in [DOMAIN u.wildcards -> AnyItem]
  BY <1>1, <1>2 DEF TableInv, Insert
<1>7. ASSUME NEW j \in 1..(n + 1), t.ok, items[j].model # "*"
      PROVE  /\ items[j].name \in u.names
             /\ ~Taken(items, j, n + 1) => /\ items[j].name \in DOMAIN u.providers
                                           /\ u.providers[items[j].name] = items[j]
  <2>1. j \in 1..n
    BY <1>7
  <2>2. items[j] \in Items /\ items[j].name \in SpecificNames(items)
    BY <1>7 DEF SpecificNames
  <2>3. ~Taken(items, j, n + 1) => ~Taken(items, j, n) /\ items[j].name \notin names
    <3>1. n + 1 \in (j + 1)..(n + 1) /\ (j + 1)..n \subseteq (j + 1)..(n + 1)
      BY <2>1
    <3>2. ~Taken(items, j, n + 1) => ~Taken(items, j, n)
      BY <3>1 DEF Taken
    <3>3. ~Taken(items, j, n + 1) => items[j].name \notin {Bare(m) : m \in covered}
      BY <3>1 DEF Taken, covered
    <3>4. items[j].name \notin {<<it.name[1], m>> : m \in covered}
      BY <2>2, <1>0
    <3>5. QED BY <3>2, <3>3, <3>4, <1>0
  <2>4. QED BY <2>1, <2>3, <1>2, <1>7 DEF TableInv
<1>8. u.default = NoProvider \/ (u.default \in Items /\ u.default.default)
  BY <1>2 DEF TableInv
<1>9. TableInv(u, items, n + 1)
  BY ONLY <1>2, <1>5, <1>6, <1>7, <1>8 DEF TableInv
<1>10. QED BY <1>9 DEF u

\* An item configured on its own takes its name, and no other's.
LEMMA SpecificKeepsTable ==
    ASSUME NEW items \in Seq(Items), NEW n \in 0..(Len(items) - 1), NEW t,
           TableInv(t, items, n), items[n + 1].model # "*"
    PROVE  TableInv(AddSpecific(t, items[n + 1]), items, n + 1)
<1> DEFINE it == items[n + 1]
           u == AddSpecific(t, it)
<1>1. it \in Items /\ it \in AnyItem
  BY DEF Items, AnyItem
<1>2. CASE it.name \in t.names
  <2>1. /\ u.ok = FALSE /\ u.names = t.names /\ u.default = t.default
        /\ u.wildcards = t.wildcards /\ u.providers = t.providers
        /\ u \in [ok : BOOLEAN, providers : {u.providers}, default : {u.default},
                  wildcards : {u.wildcards}, names : {u.names}]
    BY <1>2 DEF TableInv, AddSpecific, Refused
  <2>2. QED BY <2>1 DEF TableInv
<1>3. CASE it.name \notin t.names
  <2>1. /\ u.ok = t.ok /\ u.names = t.names \cup {it.name} /\ u.default = t.default
        /\ u.wildcards = t.wildcards
        /\ u.providers = Insert(Insert(t.providers, it.name, it), Bare(it.model), it)
        /\ u \in [ok : BOOLEAN, providers : {u.providers}, default : {u.default},
                  wildcards : {u.wildcards}, names : {u.names}]
    BY <1>3 DEF TableInv, AddSpecific
  <2>2. u.providers = [k \in DOMAIN t.providers \cup {it.name, Bare(it.model)} |->
                          IF k \in {it.name, Bare(it.model)} THEN it ELSE t.providers[k]]
    BY <2>1 DEF Insert
  <2>3. u.providers \in [DOMAIN u.providers -> ServedItem]
    <3>1. it \in ServedItem
      BY <1>1 DEF ServedItem
    <3>2. \A k \in DOMAIN t.providers : t.providers[k] \in ServedItem
      BY DEF TableInv
    <3> HIDE DEF u, it
    <3>3. QED BY <2>2, <3>1, <3>2
  <2>4. ASSUME NEW j \in 1..(n + 1), t.ok, items[j].model # "*"
        PROVE  /\ items[j].name \in u.names
               /\ ~Taken(items, j, n + 1) => /\ items[j].name \in DOMAIN u.providers
                                             /\ u.providers[items[j].name] = items[j]
    <3>1. CASE j = n + 1
      BY <3>1, <2>1, <2>2
    <3>2. CASE j \in 1..n
      <4>1. items[j].name \in t.names /\ items[j].name # it.name
        BY <3>2, <2>4, <1>3 DEF TableInv
      <4>2. ~Taken(items, j, n + 1) => ~Taken(items, j, n) /\ items[j].name # Bare(it.model)
        <5>1. n + 1 \in (j + 1)..(n + 1) /\ (j + 1)..n \subseteq (j + 1)..(n + 1)
          BY <3>2
        <5>2. ~Taken(items, j, n + 1) => ~Taken(items, j, n)
          BY <5>1 DEF Taken
        <5>3. ~Taken(items, j, n + 1) => items[j].name \notin {Bare(m) : m \in {it.model}}
          BY <5>1 DEF Taken
        <5>4. QED BY <5>2, <5>3
      <4>3. QED BY <4>1, <4>2, <3>2, <2>1, <2>2, <2>4 DEF TableInv
    <3>3. n \in Nat /\ (j = n + 1 \/ j \in 1..n)
      OBVIOUS
    <3> HIDE DEF u, it
    <3>4. QED BY <3>1, <3>2, <3>3
  <2>5. QED BY <2>1, <2>3, <2>4 DEF TableInv
<1>4. QED BY <1>2, <1>3

LEMMA ItemKeepsTable ==
    ASSUME NEW items \in Seq(Items), NEW n \in 0..(Len(items) - 1), NEW t,
           TableInv(t, items, n)
    PROVE  TableInv(AddItem(t, items[n + 1], SpecificNames(items)), items, n + 1)
<1> DEFINE it == items[n + 1]
           u == [t EXCEPT !.default = IF it.default THEN it ELSE @]
<1>1. CASE ~t.ok \/ (it.default /\ t.default # NoProvider)
  <2> DEFINE v == Refused(t)
  <2>1. /\ v.ok = FALSE /\ v.names = t.names /\ v.default = t.default
        /\ v.wildcards = t.wildcards /\ v.providers = t.providers
        /\ v \in [ok : BOOLEAN, providers : {v.providers}, default : {v.default},
                  wildcards : {v.wildcards}, names : {v.names}]
    BY DEF TableInv, Refused
  <2>2. TableInv(v, items, n + 1)
    BY <2>1 DEF TableInv
  <2>3. QED BY <2>2, <1>1 DEF AddItem
<1>2. CASE ~(~t.ok \/ (it.default /\ t.default # NoProvider))
  <2>1. it \in Items
    OBVIOUS
  <2>2. /\ u.ok = t.ok /\ u.names = t.names /\ u.default = IF it.default THEN it ELSE t.default
        /\ u.wildcards = t.wildcards /\ u.providers = t.providers
        /\ u \in [ok : BOOLEAN, providers : {u.providers}, default : {u.default},
                  wildcards : {u.wildcards}, names : {u.names}]
    BY DEF TableInv
  <2>3. TableInv(u, items, n)
    BY <2>1, <2>2 DEF TableInv
  <2>4. AddItem(t, it, SpecificNames(items)) = IF it.model = "*"
                                               THEN AddWildcard(u, it, SpecificNames(items))
                                               ELSE AddSpecific(u, it)
    BY <1>2 DEF AddItem
  <2> HIDE DEF u
  <2>5. QED BY <2>3, <2>4, WildcardKeepsTable, SpecificKeepsTable
<1>3. QED BY <1>1, <1>2

\* The table of a configuration that is not refused.
LEMMA TableOfItems ==
    ASSUME NEW items \in Seq(Items)
    PROVE  items # <<>> => TableInv(BuildTable(items), items, Len(items))
<1> DEFINE N == Len(items)
           t == Built(items, SpecificNames(items))
           S == {n \in 0..N : TableInv(t[n], items, n)}
<1>0. N \in Nat
  OBVIOUS
<1>1. /\ t[0] = EmptyTable
      /\ \A n \in 0..(N - 1) : t[n + 1] = AddItem(t[n], items[n + 1], SpecificNames(items))
  BY <1>0, BuiltDef
<1>2. TableInv(EmptyTable, items, 0)
  BY DEF TableInv, EmptyTable
<1>3. 0 \in S
  BY <1>0, <1>1, <1>2
<1>4. ASSUME NEW n \in 0..(N - 1), n \in S PROVE n + 1 \in S
  BY <1>0, <1>1, <1>4, ItemKeepsTable
<1>5. N \in S
  <2> HIDE DEF S, N
  <2>1. 0..N \subseteq S
    BY <1>0, <1>3, <1>4, UpTo
  <2>2. QED BY <2>1, <1>0
<1>6. QED BY <1>5 DEF BuildTable

-----------------------------------------------------------------------------
\* What a request's provider is.
LEMMA Selection ==
    ASSUME NEW items \in Seq(Items), items # <<>>, BuildTable(items).ok,
           NEW hint \in {NoHint, DefaultHint} \cup STRING \X STRING
    PROVE  LET p == SelectLlmProvider(BuildTable(items), hint) IN
           /\ p = NoProvider \/ p \in AnyItem
           /\ p.model = "*" => Len(hint) = 2 /\ hint[2] = "*"
           /\ \A i \in DOMAIN items :
                 items[i].model # "*" /\ ~Taken(items, i, Len(items)) /\ hint = items[i].name
                 => p = items[i]
<1> DEFINE t == BuildTable(items)
<1>1. TableInv(t, items, Len(items))
  BY TableOfItems
<1> HIDE DEF t
<1>2. /\ t.default = NoProvider \/ (t.default \in AnyItem /\ t.default.model # "*")
      /\ \A k \in DOMAIN t.providers : t.providers[k] \in AnyItem /\ t.providers[k].model # "*"
      /\ \A k \in DOMAIN t.wildcards : t.wildcards[k] \in AnyItem
  <2>1. \A it \in Items : it \in AnyItem /\ (it.default => it.model # "*")
    BY DEF Items, AnyItem
  <2>2. \A it \in ServedItem : it \in AnyItem /\ it.model # "*"
    BY DEF ServedItem
  <2>3. t.default = NoProvider \/ (t.default \in Items /\ t.default.default)
    BY <1>1 DEF TableInv
  <2>4. QED BY <1>1, <2>1, <2>2, <2>3 DEF TableInv
<1>3. NoProvider \notin AnyItem /\ NoProvider.model # "*"
  BY DEF NoProvider, AnyItem
<1>4. CASE hint = NoHint \/ hint = DefaultHint
  <2>1. SelectLlmProvider(t, hint) = t.default
    BY <1>4 DEF SelectLlmProvider, GetLlmProvider, NoHint, DefaultHint
  <2>2. ASSUME NEW i \in DOMAIN items PROVE hint # items[i].name
    <3>1. items[i] \in Items
      OBVIOUS
    <3>2. Len(items[i].name) = 2
      BY <3>1 DEF Items
    <3>3. Len(hint) # 2
      <4>1. Len(NoHint) = 0 /\ Len(DefaultHint) = 1
        BY DEF NoHint, DefaultHint
      <4>2. QED BY <1>4, <4>1
    <3>4. QED BY <3>2, <3>3
  <2>3. QED BY <2>1, <2>2, <1>2, <1>3 DEF t
<1>5. CASE hint \in STRING \X STRING
  <2>1. hint # NoHint /\ hint # DefaultHint /\ Len(hint) = 2 /\ hint[2] \in STRING
    <3>1. \A h \in STRING \X STRING : h # NoHint /\ h # DefaultHint
      BY DEF NoHint, DefaultHint
    <3>2. Len(hint) = 2
      BY <1>5
    <3>3. hint[2] \in STRING
      BY <1>5
    <3>4. hint # NoHint /\ hint # DefaultHint
      BY <1>5, <3>1
    <3>5. QED BY <3>2, <3>3, <3>4
  <2> DEFINE g == Get(t, hint)
  <2>2. SelectLlmProvider(t, hint) = IF g = NoProvider THEN t.default ELSE g
    BY <2>1 DEF SelectLlmProvider, GetLlmProvider
  <2>3. /\ g = NoProvider \/ g \in AnyItem
        /\ g.model = "*" => hint[2] = "*"
        /\ hint \in DOMAIN t.providers => g = t.providers[hint]
    <3>1. CASE hint \in DOMAIN t.providers
      BY <3>1, <1>2 DEF Get
    <3>2. CASE /\ hint \notin DOMAIN t.providers
               /\ hint[1] # "" /\ Bare(hint[2]) \in DOMAIN t.providers
      BY <3>2, <1>2 DEF Get
    <3>3. CASE /\ hint \notin DOMAIN t.providers
               /\ hint[1] # "" /\ Bare(hint[2]) \notin DOMAIN t.providers
               /\ hint[1] \in DOMAIN t.wildcards
      <4>1. g = [t.wildcards[hint[1]] EXCEPT !.model = hint[2]]
        BY <3>3 DEF Get
      <4>2. t.wildcards[hint[1]] \in AnyItem
        BY <3>3, <1>2
      <4>3. QED BY <4>1, <4>2, <3>3, <2>1 DEF AnyItem
    <3>4. CASE /\ hint \notin DOMAIN t.providers
               /\ hint[1] = "" \/ (Bare(hint[2]) \notin DOMAIN t.providers
                                   /\ hint[1] \notin DOMAIN t.wildcards)
      <4>1. g = NoProvider
        BY <3>4 DEF Get
      <4>2. QED BY <4>1, <3>4, <1>3
    <3>5. QED BY <3>1, <3>2, <3>3, <3>4
  <2>4. ASSUME NEW i \in DOMAIN items, items[i].model # "*",
               ~Taken(items, i, Len(items)), hint = items[i].name
        PROVE  g = items[i] /\ items[i] # NoProvider
    <3>1. i \in 1..Len(items) /\ items[i] \in Items
      OBVIOUS
    <3>2. hint \in DOMAIN t.providers /\ t.providers[hint] = items[i]
      BY <3>1, <2>4, <1>1 DEF TableInv, t
    <3>3. items[i] # NoProvider
      <4>1. items[i] \in Items => items[i].kind # "none"
        BY DEF Items
      <4>2. NoProvider.kind = "none"
        BY DEF NoProvider
      <4>3. QED BY <3>1, <4>1, <4>2
    <3>4. QED BY <3>2, <3>3, <2>3
  <2> HIDE DEF g
  <2>5. QED BY <2>1, <2>2, <2>3, <2>4, <1>2, <1>3 DEF t
<1>6. QED BY <1>4, <1>5

\* The path a request is sent to is that of the API it is converted to.
LEMMA PathIsApi ==
    ASSUME NEW kind, NEW client \in Clients, NEW streaming \in BOOLEAN
    PROVE  /\ TargetApi(kind, client, streaming) = CompatibleApi(kind, client, streaming)
           /\ RequestShape(client, CompatibleApi(kind, client, streaming))
                  = CompatibleApi(kind, client, streaming)
<1>1. CASE kind = "amazon_bedrock"
  BY <1>1 DEF TargetApi, CompatibleApi, RequestShape, Clients
<1>2. CASE kind \in {"anthropic", "vercel"} /\ client = "messages"
  BY <1>2 DEF TargetApi, CompatibleApi, RequestShape, Clients
<1>3. CASE kind \in {"openai", "xai", "chatgpt", "vercel"} /\ client = "responses"
  BY <1>3 DEF TargetApi, CompatibleApi, RequestShape, Clients
<1>4. CASE /\ kind # "amazon_bedrock"
           /\ ~(kind \in {"anthropic", "vercel"} /\ client = "messages")
           /\ ~(kind \in {"openai", "xai", "chatgpt", "vercel"} /\ client = "responses")
  BY <1>4 DEF TargetApi, CompatibleApi, RequestShape, Clients
<1>5. QED BY <1>1, <1>2, <1>3, <1>4

-----------------------------------------------------------------------------
\* The stream contexts.

\* What on_http_request_headers has settled for a request it lets through.
Settled(d, c) ==
    /\ c.req.client \in Clients
    /\ c.provider \in AnyItem
    /\ c.resolved = CompatibleApi(c.provider.kind, c.req.client, c.req.header = "true")
    /\ c.path = c.resolved
    /\ c.provider.key /\ ~c.provider.passthrough =>
          c.auth = IF c.resolved = "messages"
                   THEN [authorization |-> "absent", xapikey |-> "provider"]
                   ELSE [authorization |-> "provider", xapikey |-> "absent"]

\* What on_http_request_body has sent on.
SentOn(c) ==
    LET asks == NormalizedStream(c.provider.kind, c.resolved, c.resolved, c.req.stream)
    IN  /\ c.bodySent
        /\ asks # "error"
        /\ c.sent = [api |-> c.resolved, streamed |-> asks = "true", model |-> c.provider.model]
        /\ c.streaming = (c.req.header = "true" \/ c.req.stream = "true")

\* How a part of an answer is read.
Reading(c) ==
    IF c.streaming THEN <<CompatibleApi(c.provider.kind, c.req.client, TRUE), TRUE>>
    ELSE <<ResponseApi(c.provider.kind, c.req.client), FALSE>>

IsContext(c) ==
    c \in [phase : {c.phase}, req : {c.req}, provider : {c.provider}, streaming : BOOLEAN,
           resolved : {c.resolved}, path : {c.path}, auth : {c.auth},
           selector : {NoSelector} \cup STRING \X Values, bodySent : BOOLEAN, sent : {c.sent},
           status : Nat, tokens : Nat, read : {c.read}]

\* What holds of every context of the deployment d.
ContextInv(d, c) ==
    /\ IsContext(c)
    /\ c.phase # "closed" => c.req \in RequestSpace
    /\ c.provider # NoProvider =>
          /\ c.phase # "closed"
          /\ c.provider = SelectLlmProvider(Tables[d], c.req.hint)
    /\ c.phase \in {"closed", "headers", "body"} => c.sent = NotSent
    /\ c.phase \in {"closed", "headers", "body", "upstream"} => c.read = {}
    /\ c.phase = "body" => Settled(d, c) /\ c.streaming = (c.req.header = "true")
    /\ c.sent # NotSent => Settled(d, c) /\ SentOn(c)
    /\ \A x \in c.read : x = <<"raw", FALSE>> \/ (c.status < 400 /\ x = Reading(c))

\* The entries of the log, and the count that the i-th limit keeps for v.
Entry == [model : STRING, selector : STRING \X Values, tokens : Nat, at : Nat]
CountFor(i, v) == <<i, IF Ratelimits[i].value = v THEN "" ELSE v>>

\* A count has no more than its limit, and at least what the log says was
\* taken from it since any of its entries, less what time has given back.
LimitInv ==
    /\ used \in [Counts -> Nat]
    /\ \A c \in Counts : used[c] <= Burst(c[1])
    /\ now \in Nat
    /\ log \in Seq(Entry)
    /\ \A k \in DOMAIN log : log[k].at <= now
    /\ \A i \in DOMAIN Ratelimits, v \in Values, a \in DOMAIN log :
          Passed(log, i, v)[Len(log)] - Passed(log, i, v)[a - 1]
              <= used[CountFor(i, v)] + now - log[a].at
    /\ LimitsHold

GatewayInv ==
    /\ config \in DOMAIN Configs /\ Tables[config].ok
    /\ stream = [s \in Contexts |-> stream[s]]
    /\ \A s \in Contexts : ContextInv(config, stream[s])
    /\ LimitInv

-----------------------------------------------------------------------------
\* A reply of the filter's own ends the context's part in the request.
LEMMA ReplyIs ==
    ASSUME NEW c, IsContext(c), NEW status \in Nat
    PROVE  LET e == Reply(c, status) IN
           /\ e.phase = "response" /\ e.req = c.req /\ e.provider = c.provider
           /\ e.sent = c.sent /\ e.read = c.read /\ IsContext(e)
  BY DEF IsContext, Reply

\* What is asked of a context that the filter has nothing of its own left to send in.
LEMMA InResponse ==
    ASSUME NEW d, NEW e, IsContext(e), e.phase = "response", e.req \in RequestSpace,
           e.provider # NoProvider => e.provider = SelectLlmProvider(Tables[d], e.req.hint),
           e.sent = NotSent, e.read = {}
    PROVE  ContextInv(d, e)
  BY DEF ContextInv

LEMMA Replied ==
    ASSUME NEW d, NEW c, ContextInv(d, c), c.read = {}, c.sent = NotSent, NEW status \in Nat,
           c.phase # "closed"
    PROVE  ContextInv(d, Reply(c, status))
<1> DEFINE e == Reply(c, status)
<1>1. /\ IsContext(c) /\ c.req \in RequestSpace
      /\ c.provider # NoProvider => c.provider = SelectLlmProvider(Tables[d], c.req.hint)
  BY DEF ContextInv
<1>2. /\ e.phase = "response" /\ e.req = c.req /\ e.provider = c.provider
      /\ e.sent = NotSent /\ e.read = {} /\ IsContext(e)
  BY <1>1, ReplyIs
<1> HIDE DEF e
<1>3. ContextInv(d, e)
  BY <1>1, <1>2, InResponse
<1>4. QED BY <1>3 DEF e

\* on_http_request_headers.
LEMMA HeadersKeep ==
    ASSUME NEW d \in DOMAIN Configs, Tables[d].ok, NEW c, ContextInv(d, c), c.phase = "headers",
           NEW p, p = SelectLlmProvider(Tables[d], c.req.hint), p # NoProvider
    PROVE  /\ ContextInv(d, [c EXCEPT !.provider = p])
           /\ c.req.client \in Clients => ContextInv(d, Routed(c, p))
<1>1. c.req \in RequestSpace /\ c.sent = NotSent /\ c.read = {} /\ c.phase # "closed"
  BY DEF ContextInv
<1>2. p \in AnyItem
  <2>1. Configs[d] \in Seq(Items) /\ Configs[d] # <<>> /\ Tables[d] = BuildTable(Configs[d])
    BY GatewayAssumption DEF Tables, BuildTable, Refused, EmptyTable
  <2>2. c.req.hint \in {NoHint, DefaultHint} \cup STRING \X STRING
    BY <1>1 DEF RequestSpace
  <2>3. BuildTable(Configs[d]).ok /\ p = SelectLlmProvider(BuildTable(Configs[d]), c.req.hint)
    BY <2>1
  <2>4. p = NoProvider \/ p \in AnyItem
    BY <2>1, <2>2, <2>3, Selection
  <2>5. QED BY <2>4
<1> DEFINE e == [c EXCEPT !.provider = p]
<1>3. /\ e.phase = "headers" /\ e.req = c.req /\ e.provider = p
      /\ e.sent = NotSent /\ e.read = {} /\ IsContext(e)
  BY <1>1 DEF ContextInv, IsContext
<1>4. ContextInv(d, e)
  <2> HIDE DEF e
  <2>1. QED BY <1>1, <1>3 DEF ContextInv
<1>5. ASSUME c.req.client \in Clients PROVE ContextInv(d, Routed(c, p))
  <2> DEFINE streaming == c.req.header = "true"
             resolved == CompatibleApi(p.kind, c.req.client, streaming)
             path == TargetApi(p.kind, c.req.client, streaming)
             f == [c EXCEPT !.provider = p, !.streaming = streaming, !.resolved = resolved,
                            !.path = path, !.selector = c.req.selector]
             keyed == p.passthrough \/ p.key
             g == [f EXCEPT !.phase = "body", !.auth = ModifyAuth(p, resolved, @)]
             h == [f EXCEPT !.phase = "body"]
  <2>1. path = resolved
    BY <1>5, PathIsApi
  <2>2. c.req.selector \in {NoSelector} \cup STRING \X Values
    BY <1>1 DEF RequestSpace
  <2>0. streaming \in BOOLEAN
    OBVIOUS
  <2> HIDE DEF streaming, resolved, path
  <2>3. /\ f.phase = "headers" /\ f.req = c.req /\ f.provider = p /\ f.streaming = streaming
        /\ f.resolved = resolved /\ f.path = path /\ f.auth = c.auth
        /\ f.sent = NotSent /\ f.read = {} /\ IsContext(f)
    <3>1. IsContext(c)
      BY DEF ContextInv
    <3>2. IsContext(f)
      BY <3>1, <2>0, <2>2 DEF IsContext
    <3>3. /\ f.phase = "headers" /\ f.req = c.req /\ f.provider = p
          /\ f.sent = NotSent /\ f.read = {}
      BY <1>1, <3>1 DEF IsContext
    <3>4. f.streaming = streaming
      BY <3>1 DEF IsContext
    <3>5. f.resolved = resolved /\ f.path = path /\ f.auth = c.auth
      BY <3>1 DEF IsContext
    <3>6. QED BY <3>2, <3>3, <3>4, <3>5
  <2>4. ContextInv(d, f)
    <3> HIDE DEF f
    <3>1. QED BY <1>1, <2>3 DEF ContextInv
  <2> HIDE DEF f
  <2>5. CASE keyed
    <3>1. Routed(c, p) = g
      BY <2>5 DEF Routed, f, resolved, path, streaming
    <3>2. /\ g.phase = "body" /\ g.req = c.req /\ g.provider = p /\ g.streaming = streaming
          /\ g.resolved = resolved /\ g.path = path /\ g.auth = ModifyAuth(p, resolved, f.auth)
          /\ g.sent = NotSent /\ g.read = {} /\ IsContext(g)
      BY <2>3 DEF IsContext
    <3>3. p.key /\ ~p.passthrough =>
              g.auth = IF resolved = "messages"
                       THEN [authorization |-> "absent", xapikey |-> "provider"]
                       ELSE [authorization |-> "provider", xapikey |-> "absent"]
      BY <3>2 DEF ModifyAuth
    <3> HIDE DEF g
    <3>4. Settled(d, g)
      BY <1>2, <1>5, <2>1, <3>2, <3>3 DEF Settled, resolved, streaming
    <3>5. ContextInv(d, g)
      BY <1>1, <3>2, <3>4 DEF ContextInv, streaming
    <3>6. QED BY <3>1, <3>5
  <2>6. CASE ~keyed /\ (p.endpoint \/ p.kind = "plano")
    <3>1. Routed(c, p) = h
      BY <2>6 DEF Routed, f, resolved, path, streaming
    <3>2. /\ h.phase = "body" /\ h.req = c.req /\ h.provider = p /\ h.streaming = streaming
          /\ h.resolved = resolved /\ h.path = path
          /\ h.sent = NotSent /\ h.read = {} /\ IsContext(h)
      BY <2>3 DEF IsContext
    <3> HIDE DEF h
    <3>3. Settled(d, h)
      BY <1>2, <1>5, <2>1, <2>6, <3>2 DEF Settled, resolved, streaming
    <3>4. ContextInv(d, h)
      BY <1>1, <3>2, <3>3 DEF ContextInv, streaming
    <3>5. QED BY <3>1, <3>4
  <2>7. CASE ~keyed /\ ~p.endpoint /\ p.kind # "plano"
    <3>1. Routed(c, p) = Reply(f, 400)
      BY <2>7 DEF Routed, f, resolved, path, streaming
    <3>2. QED BY <3>1, <2>3, <2>4, Replied
  <2>8. QED BY <2>5, <2>6, <2>7
<1>6. QED BY <1>4, <1>5

\* A context that has been given the body, one whose body has been parsed, and
\* one that has passed an empty body on.
Given(c) == [c EXCEPT !.bodySent = TRUE]
Parsed(c) == [Given(c) EXCEPT !.streaming = @ \/ c.req.stream = "true", !.selector = NoSelector]
PassedOn(c) == [Given(c) EXCEPT !.phase = "upstream"]

\* on_http_request_body.
LEMMA BodyKeeps ==
    ASSUME NEW d, NEW c, ContextInv(d, c), c.phase = "body"
    PROVE  /\ ContextInv(d, Given(c))
           /\ ContextInv(d, PassedOn(c))
           /\ ContextInv(d, Reply(Given(c), 400))
           /\ ContextInv(d, Reply(Parsed(c), 429))
           /\ ContextInv(d, Forwarded(Parsed(c)))
<1> DEFINE e == [c EXCEPT !.bodySent = TRUE]
           u == [e EXCEPT !.phase = "upstream"]
           p == [e EXCEPT !.streaming = @ \/ c.req.stream = "true", !.selector = NoSelector]
           asks == NormalizedStream(c.provider.kind, c.resolved, c.resolved, c.req.stream)
           f == [p EXCEPT !.phase = "upstream",
                          !.sent = [api |-> c.resolved, streamed |-> asks = "true",
                                    model |-> c.provider.model]]
<1>0. e = Given(c) /\ u = PassedOn(c) /\ p = Parsed(c)
  BY DEF Given, PassedOn, Parsed
<1>1. /\ c.req \in RequestSpace /\ c.sent = NotSent /\ c.read = {}
      /\ Settled(d, c) /\ c.streaming = (c.req.header = "true") /\ IsContext(c)
  BY DEF ContextInv
<1>2. /\ e.phase = "body" /\ e.req = c.req /\ e.provider = c.provider /\ e.streaming = c.streaming
      /\ e.resolved = c.resolved /\ e.path = c.path /\ e.auth = c.auth
      /\ e.sent = NotSent /\ e.read = {} /\ e.bodySent /\ IsContext(e)
  BY <1>1 DEF IsContext
<1> HIDE DEF e
<1>3. Settled(d, e) /\ ContextInv(d, e)
  BY <1>1, <1>2 DEF ContextInv, Settled
<1>4. /\ u.phase = "upstream" /\ u.req = c.req /\ u.provider = c.provider
      /\ u.sent = NotSent /\ u.read = {} /\ IsContext(u)
  BY <1>2 DEF IsContext
<1>5. ContextInv(d, u)
  <2> HIDE DEF u
  <2>1. QED BY <1>1, <1>4 DEF ContextInv
<1>6. /\ p.phase = "body" /\ p.req = c.req /\ p.provider = c.provider
      /\ p.streaming = (c.req.header = "true" \/ c.req.stream = "true")
      /\ p.resolved = c.resolved /\ p.path = c.path /\ p.auth = c.auth
      /\ p.sent = NotSent /\ p.read = {} /\ p.bodySent /\ IsContext(p)
  BY <1>1, <1>2 DEF IsContext
<1> HIDE DEF p
<1> DEFINE q == Reply(p, 429)
           r == Reply(p, 400)
<1>7. ContextInv(d, q) /\ ContextInv(d, r)
  <2>1. /\ q.phase = "response" /\ q.req = c.req /\ q.provider = c.provider
        /\ q.sent = NotSent /\ q.read = {} /\ IsContext(q)
    BY <1>6, ReplyIs
  <2>2. /\ r.phase = "response" /\ r.req = c.req /\ r.provider = c.provider
        /\ r.sent = NotSent /\ r.read = {} /\ IsContext(r)
    BY <1>6, ReplyIs
  <2> HIDE DEF q, r
  <2>3. /\ c.req \in RequestSpace
        /\ c.provider # NoProvider => c.provider = SelectLlmProvider(Tables[d], c.req.hint)
    BY <1>1 DEF ContextInv
  <2>4. ContextInv(d, q)
    BY <2>1, <2>3, InResponse
  <2>5. ContextInv(d, r)
    BY <2>2, <2>3, InResponse
  <2>6. QED BY <2>4, <2>5
<1>8. RequestShape(c.req.client, c.resolved) = c.resolved /\ c.resolved # "error"
  <2>1. RequestShape(c.req.client, c.resolved) = c.resolved
    BY <1>1, PathIsApi DEF Settled
  <2>2. c.resolved # "error"
    BY <1>1 DEF Settled, CompatibleApi
  <2>3. QED BY <2>1, <2>2
<1>9. ContextInv(d, Forwarded(p))
  <2>1. CASE asks = "error"
    <3>1. Forwarded(p) = r
      BY <1>6, <1>8, <2>1 DEF Forwarded
    <3>2. QED BY <1>7, <3>1
  <2>2. CASE asks # "error"
    <3>1. Forwarded(p) = f
      BY <1>6, <1>8, <2>2 DEF Forwarded
    <3> HIDE DEF asks
    <3>2. /\ f.phase = "upstream" /\ f.req = c.req /\ f.provider = c.provider
          /\ f.streaming = (c.req.header = "true" \/ c.req.stream = "true")
          /\ f.resolved = c.resolved /\ f.path = c.path /\ f.auth = c.auth
          /\ f.sent = [api |-> c.resolved, streamed |-> asks = "true", model |-> c.provider.model]
          /\ f.read = {} /\ f.bodySent /\ IsContext(f)
      BY <1>6 DEF IsContext
    <3> HIDE DEF f
    <3>3. Settled(d, f)
      BY <1>1, <3>2 DEF Settled
    <3>4. SentOn(f)
      BY <2>2, <3>2 DEF SentOn, asks
    <3>5. ContextInv(d, f)
      BY <1>1, <3>2, <3>3, <3>4 DEF ContextInv
    <3>6. QED BY <3>1, <3>5
  <2>3. QED BY <2>1, <2>2
<1>10. ContextInv(d, Reply(e, 400))
  BY <1>2, <1>3, Replied
<1> HIDE DEF u, q
<1>11. QED BY <1>0, <1>3, <1>5, <1>7, <1>9, <1>10 DEF q

\* create_http_context and the end of a context.
LEMMA NewKeeps ==
    ASSUME NEW d \in DOMAIN Configs
    PROVE  ContextInv(d, Closed) /\ \A r \in Requests[d] : ContextInv(d, NewContext(r))
<1>1. ASSUME NEW r
      PROVE  /\ NewContext(r).phase = "headers" /\ NewContext(r).req = r
             /\ NewContext(r).provider = NoProvider /\ NewContext(r).sent = NotSent
             /\ NewContext(r).read = {} /\ IsContext(NewContext(r))
  BY DEF NewContext, IsContext
<1>2. ASSUME NEW r \in Requests[d] PROVE ContextInv(d, NewContext(r))
  <2> DEFINE c == NewContext(r)
  <2>1. r \in RequestSpace
    BY GatewayAssumption
  <2>2. /\ c.phase = "headers" /\ c.req = r /\ c.provider = NoProvider
        /\ c.sent = NotSent /\ c.read = {} /\ IsContext(c)
    BY <1>1
  <2> HIDE DEF c
  <2>3. ContextInv(d, c)
    BY <2>1, <2>2 DEF ContextInv
  <2>4. QED BY <2>3 DEF c
<1>3. /\ Closed.phase = "closed" /\ Closed.provider = NoProvider
      /\ Closed.sent = NotSent /\ Closed.read = {} /\ IsContext(Closed)
  BY <1>1 DEF Closed, IsContext
<1>4. ContextInv(d, Closed)
  BY <1>3 DEF ContextInv
<1>5. QED BY <1>2, <1>4

\* on_http_response_headers.
Answered(c, status) == [c EXCEPT !.phase = "response", !.status = status]

LEMMA PartKeeps ==
    ASSUME NEW d, NEW c, ContextInv(d, c), c.phase = "upstream", NEW status \in {200, 500}
    PROVE  ContextInv(d, Answered(c, status))
<1>1. ContextInv(d, [c EXCEPT !.phase = "response", !.status = status])
  <2> DEFINE e == [c EXCEPT !.phase = "response", !.status = status]
  <2>1. /\ e.phase = "response" /\ e.req = c.req /\ e.provider = c.provider
        /\ e.streaming = c.streaming /\ e.resolved = c.resolved /\ e.path = c.path
        /\ e.auth = c.auth /\ e.bodySent = c.bodySent /\ e.sent = c.sent /\ e.read = c.read
        /\ IsContext(e)
    <3>1. IsContext(c) /\ status \in Nat
      BY DEF ContextInv
    <3>2. IsContext(e)
      BY <3>1 DEF IsContext
    <3>3. QED BY <3>1, <3>2 DEF IsContext
  <2> HIDE DEF e
  <2>2. c.sent # NotSent => Settled(d, e) /\ SentOn(e)
    BY <2>1 DEF ContextInv, Settled, SentOn
  <2>3. c.read = {} /\ c.req \in RequestSpace
    BY DEF ContextInv
  <2>4. ContextInv(d, e)
    BY <2>1, <2>2, <2>3 DEF ContextInv
  <2>5. QED BY <2>4 DEF e
<1>2. QED BY <1>1 DEF Answered

\* What is read of an answer changes nothing else of the context.
LEMMA AnswerKeeps ==
    ASSUME NEW d, NEW c, ContextInv(d, c), c.phase = "response",
           NEW x, x = <<"raw", FALSE>> \/ (c.status < 400 /\ x = Reading(c)),
           NEW phase \in {"response", "over"}, NEW tokens \in Nat
    PROVE  /\ ContextInv(d, [c EXCEPT !.phase = phase, !.read = @ \cup {x}, !.tokens = tokens])
           /\ ContextInv(d, [c EXCEPT !.phase = phase])
<1> DEFINE e == [c EXCEPT !.phase = phase, !.read = @ \cup {x}, !.tokens = tokens]
           f == [c EXCEPT !.phase = phase]
<1>1. /\ e.phase = phase /\ e.req = c.req /\ e.provider = c.provider
      /\ e.streaming = c.streaming /\ e.resolved = c.resolved /\ e.path = c.path
      /\ e.auth = c.auth /\ e.bodySent = c.bodySent /\ e.sent = c.sent
      /\ e.read = c.read \cup {x} /\ e.status = c.status /\ IsContext(e)
  BY DEF ContextInv, IsContext
<1>2. /\ f.phase = phase /\ f.req = c.req /\ f.provider = c.provider
      /\ f.streaming = c.streaming /\ f.resolved = c.resolved /\ f.path = c.path
      /\ f.auth = c.auth /\ f.bodySent = c.bodySent /\ f.sent = c.sent
      /\ f.read = c.read /\ f.status = c.status /\ IsContext(f)
  BY DEF ContextInv, IsContext
<1> HIDE DEF e, f
<1>3. /\ Reading(e) = Reading(c) /\ Reading(f) = Reading(c)
      /\ c.sent # NotSent => Settled(d, e) /\ SentOn(e) /\ Settled(d, f) /\ SentOn(f)
  BY <1>1, <1>2 DEF ContextInv, Settled, SentOn, Reading
<1>a. /\ e.req \in RequestSpace
      /\ e.provider # NoProvider => e.provider = SelectLlmProvider(Tables[d], e.req.hint)
      /\ \A y \in c.read : y = <<"raw", FALSE>> \/ (c.status < 400 /\ y = Reading(c))
      /\ e.phase = phase /\ phase \notin {"closed", "headers", "body", "upstream"}
  BY <1>1 DEF ContextInv
<1>b. \A y \in e.read : y = <<"raw", FALSE>> \/ (e.status < 400 /\ y = Reading(e))
  <2>1. \A y \in e.read : y \in c.read \/ y = x
    BY <1>1
  <2>2. QED BY <1>1, <1>3, <1>a, <2>1
<1>c. e.sent # NotSent => Settled(d, e) /\ SentOn(e)
  BY <1>1, <1>3
<1>4. ContextInv(d, e)
  BY <1>1, <1>a, <1>b, <1>c DEF ContextInv
<1>5. ContextInv(d, f)
  BY <1>2, <1>3 DEF ContextInv
<1>6. QED BY <1>4, <1>5 DEF e, f

\* Where the filter reads the answer, and as what.
LEMMA ResponseKeeps ==
    ASSUME NEW d, NEW c, ContextInv(d, c), c.phase = "response",
           NEW last \in BOOLEAN, NEW tokens \in 0..1
    PROVE  LET After(context) == [context EXCEPT !.phase = IF last THEN "over" ELSE @] IN
           /\ Passes(c) => ContextInv(d, After([c EXCEPT !.read = @ \cup {<<"raw", FALSE>>}]))
           /\ ~Passes(c) /\ c.streaming => ContextInv(d, After(ReadChunk(c, tokens)))
           /\ ~Passes(c) /\ ~c.streaming => ContextInv(d, After(ReadWhole(c, tokens)))
           /\ ContextInv(d, [c EXCEPT !.phase = "over"])
<1> DEFINE After(context) == [context EXCEPT !.phase = IF last THEN "over" ELSE @]
           phase == IF last THEN "over" ELSE "response"
           E(x, n) == [c EXCEPT !.phase = phase, !.read = @ \cup {x}, !.tokens = n]
           most == IF tokens > c.tokens THEN tokens ELSE c.tokens
           chunk == <<CompatibleApi(c.provider.kind, c.req.client, TRUE), TRUE>>
           whole == <<ResponseApi(c.provider.kind, c.req.client), FALSE>>
<1>1. IsContext(c) /\ c.status \in Nat /\ c.tokens \in Nat /\ most \in Nat /\ tokens \in Nat
  BY DEF ContextInv, IsContext
<1>2. After([c EXCEPT !.read = @ \cup {<<"raw", FALSE>>}]) = E(<<"raw", FALSE>>, c.tokens)
  BY <1>1 DEF IsContext
<1>3. After(ReadChunk(c, tokens)) = E(chunk, most)
  BY <1>1 DEF IsContext, ReadChunk
<1>4. After(ReadWhole(c, tokens)) = E(whole, tokens)
  BY <1>1 DEF IsContext, ReadWhole
<1>5. phase \in {"response", "over"}
  OBVIOUS
<1>6. ~Passes(c) => c.status < 400
  BY <1>1 DEF Passes
<1>7. /\ c.streaming => chunk = Reading(c)
      /\ ~c.streaming => whole = Reading(c)
  BY DEF Reading
<1> HIDE DEF phase, most, chunk, whole
<1>8. ContextInv(d, E(<<"raw", FALSE>>, c.tokens))
  BY <1>1, <1>5, AnswerKeeps
<1>9. ~Passes(c) /\ c.streaming => ContextInv(d, E(chunk, most))
  BY <1>1, <1>5, <1>6, <1>7, AnswerKeeps
<1>10. ~Passes(c) /\ ~c.streaming => ContextInv(d, E(whole, tokens))
  BY <1>1, <1>5, <1>6, <1>7, AnswerKeeps
<1>11. ContextInv(d, [c EXCEPT !.phase = "over"])
  BY <1>1, AnswerKeeps
<1> HIDE DEF E, After
<1>12. QED BY <1>2, <1>3, <1>4, <1>8, <1>9, <1>10, <1>11 DEF After

-----------------------------------------------------------------------------
\* The rate limits.

\* What an entry adds to the tokens that a limit counts for a value.
Adds(e, i, v) == IF FallsUnder(e, i, v) THEN e.tokens ELSE 0

LEMMA PassedDef ==
    ASSUME NEW entries \in Seq(Entry), NEW i, NEW v
    PROVE  LET sum == Passed(entries, i, v) IN
           /\ sum \in [0..Len(entries) -> Nat]
           /\ sum[0] = 0
           /\ \A n \in 1..Len(entries) : sum[n] = sum[n - 1] + Adds(entries[n], i, v)
<1> DEFINE N == Len(entries)
           w == [n \in 1..N |-> Adds(entries[n], i, v)]
           IsSum(g, n) == g = [k \in 0..n |-> IF k = 0 THEN 0 ELSE g[k - 1] + w[k]]
           S == {n \in 0..N : \E g : IsSum(g, n)}
<1>0. N \in Nat /\ w \in [1..N -> Nat]
  <2>1. \A n \in 1..N : entries[n] \in Entry
    OBVIOUS
  <2>2. \A n \in 1..N : Adds(entries[n], i, v) \in Nat
    BY <2>1 DEF Entry, Adds
  <2>3. QED BY <2>2
<1> DEFINE F(g) == [k \in 0..N |-> IF k = 0 THEN 0 ELSE g[k - 1] + Adds(entries[k], i, v)]
<1>f. \A g : F(g) = [k \in 0..N |-> IF k = 0 THEN 0 ELSE g[k - 1] + w[k]]
  <2>1. ASSUME NEW g, NEW k \in 0..N
        PROVE  (IF k = 0 THEN 0 ELSE g[k - 1] + Adds(entries[k], i, v))
                 = IF k = 0 THEN 0 ELSE g[k - 1] + w[k]
    <3>1. k # 0 => k \in 1..N
      OBVIOUS
    <3>2. QED BY <3>1
  <2>2. QED BY <2>1
<1>p. Passed(entries, i, v) = CHOOSE g : g = F(g)
  BY DEF Passed, Adds
<1> HIDE DEF w, N, F
<1>1. 0 \in S
  <2>1. IsSum([k \in 0..0 |-> 0], 0)
    OBVIOUS
  <2>2. \E g : IsSum(g, 0)
    BY <2>1
  <2>3. QED BY <2>2, <1>0
<1>2. ASSUME NEW n \in 0..(N - 1), n \in S PROVE n + 1 \in S
  <2>1. PICK g : IsSum(g, n)
    BY <1>2
  <2> DEFINE h == [k \in 0..(n + 1) |-> IF k = n + 1 THEN g[n] + w[n + 1] ELSE g[k]]
  <2>2. ASSUME NEW k \in 0..(n + 1)
        PROVE  h[k] = IF k = 0 THEN 0 ELSE h[k - 1] + w[k]
    <3>1. CASE k = n + 1
      BY <3>1, <1>0
    <3>2. CASE k \in 0..n
      BY <3>2, <2>1, <1>0
    <3>3. QED BY <3>1, <3>2, <1>0
  <2>3. IsSum(h, n + 1)
    BY <2>2
  <2>4. \E f : IsSum(f, n + 1)
    BY <2>3
  <2>5. QED BY <2>4, <1>0
<1>3. N \in S
  <2> HIDE DEF S
  <2>1. 0..N \subseteq S
    BY <1>0, <1>1, <1>2, UpTo
  <2>2. QED BY <2>1, <1>0
<1> DEFINE sum == Passed(entries, i, v)
<1>4. IsSum(sum, N)
  <2>1. \E g : IsSum(g, N)
    BY <1>3
  <2>2. \E g : g = F(g)
    BY <2>1, <1>f
  <2>3. sum = F(sum)
    BY <2>2, <1>p
  <2>4. QED BY <2>3, <1>f
<1> HIDE DEF sum
<1>5. sum[0] = 0 /\ \A n \in 1..N : sum[n] = sum[n - 1] + w[n]
  BY <1>0, <1>4
<1> DEFINE Q == {n \in 0..N : sum[n] \in Nat}
<1>6. 0..N \subseteq Q
  <2>1. 0 \in Q
    BY <1>0, <1>5
  <2>2. \A n \in 0..(N - 1) : n \in Q => n + 1 \in Q
    <3>1. ASSUME NEW n \in 0..(N - 1), n \in Q PROVE n + 1 \in Q
      <4>1. n + 1 \in 1..N /\ sum[n + 1] = sum[n] + w[n + 1]
        BY <1>0, <1>5
      <4>2. QED BY <1>0, <3>1, <4>1
    <3>2. QED BY <3>1
  <2> HIDE DEF Q
  <2>3. QED BY <1>0, <2>1, <2>2, UpTo
<1>7. sum \in [0..N -> Nat]
  BY <1>4, <1>6
<1>8. QED BY <1>5, <1>7 DEF sum, w, N

\* An entry that is added changes no sum but the last.
LEMMA PassedAppend ==
    ASSUME NEW entries \in Seq(Entry), NEW e \in Entry, NEW i, NEW v
    PROVE  LET old == Passed(entries, i, v)
               new == Passed(Append(entries, e), i, v)
               N   == Len(entries)
           IN  /\ \A n \in 0..N : new[n] = old[n]
               /\ new[N + 1] = old[N] + Adds(e, i, v)
<1> DEFINE all == Append(entries, e)
           old == Passed(entries, i, v)
           new == Passed(all, i, v)
           N   == Len(entries)
           S   == {n \in 0..N : new[n] = old[n]}
<1>1. /\ N \in Nat /\ all \in Seq(Entry) /\ Len(all) = N + 1
      /\ \A n \in 1..N : all[n] = entries[n]
      /\ all[N + 1] = e
  <2>1. N \in Nat /\ entries \in Seq(Entry) /\ N = Len(entries)
    OBVIOUS
  <2>2. all \in Seq(Entry)
    BY AppendProperties
  <2>3. Len(all) = N + 1
    BY AppendProperties
  <2>4. all[N + 1] = e
    BY AppendProperties
  <2>5. \A n \in 1..N : all[n] = entries[n]
    BY <2>1, AppendProperties
  <2>6. QED BY <2>1, <2>2, <2>3, <2>4, <2>5
<1> HIDE DEF all
<1>2. /\ new[0] = 0
      /\ \A n \in 1..(N + 1) : new[n] = new[n - 1] + Adds(all[n], i, v)
  <2>1. all \in Seq(Entry)
    BY <1>1
  <2>2. /\ new[0] = 0
        /\ \A n \in 1..Len(all) : new[n] = new[n - 1] + Adds(all[n], i, v)
    BY <2>1, PassedDef
  <2> HIDE DEF new
  <2>3. QED BY <1>1, <2>2
<1>3. /\ old[0] = 0
      /\ \A n \in 1..N : old[n] = old[n - 1] + Adds(entries[n], i, v)
  BY PassedDef
<1> HIDE DEF old, new, N
<1>4. 0 \in S
  BY <1>1, <1>2, <1>3
<1>5. \A n \in 0..(N - 1) : n \in S => n + 1 \in S
  <2>1. ASSUME NEW n \in 0..(N - 1), n \in S PROVE n + 1 \in S
    <3>1. /\ n + 1 \in 1..N /\ n + 1 \in 1..(N + 1) /\ (n + 1) - 1 = n
          /\ all[n + 1] = entries[n + 1]
      BY <1>1
    <3>2. new[n + 1] = new[n] + Adds(all[n + 1], i, v)
      BY <3>1, <1>2
    <3>3. old[n + 1] = old[n] + Adds(entries[n + 1], i, v)
      BY <3>1, <1>3
    <3>4. QED BY <1>1, <2>1, <3>1, <3>2, <3>3
  <2>2. QED BY <2>1
<1>6. 0..N \subseteq S
  <2> HIDE DEF S
  <2>1. QED BY <1>1, <1>4, <1>5, UpTo
<1>7. new[N + 1] = new[N] + Adds(e, i, v)
  <2>1. N + 1 \in 1..(N + 1) /\ (N + 1) - 1 = N
    BY <1>1
  <2>2. QED BY <1>1, <1>2, <2>1
<1>8. N \in 0..N
  BY <1>1
<1>9. QED BY <1>6, <1>7, <1>8 DEF old, new, N, all

\* A selector's limit is the first that is configured with it.
LEMMA LimitIsFirst ==
    ASSUME NEW model, NEW key, NEW value
    PROVE  LET l == LimitAt(model, key, value) IN
           /\ Named(model, key, value) = {} => l = 0
           /\ Named(model, key, value) # {} =>
                 /\ l \in Named(model, key, value)
                 /\ l \in DOMAIN Ratelimits /\ l # 0
                 /\ \A j \in Named(model, key, value) : l <= j
<1> DEFINE same == Named(model, key, value)
<1>1. same \in SUBSET Nat /\ same \subseteq DOMAIN Ratelimits /\ 0 \notin same
  BY RatelimitsAssumption DEF Named
<1>2. CASE same # {}
  <2>1. \E i \in same : \A j \in same : i <= j
    BY <1>1, <1>2, LeastNumber
  <2>2. LimitAt(model, key, value) = CHOOSE i \in same : \A j \in same : i <= j
    BY <1>2 DEF LimitAt
  <2> HIDE DEF same
  <2>3. LimitAt(model, key, value) \in same /\ \A j \in same : LimitAt(model, key, value) <= j
    BY <2>1, <2>2
  <2>4. QED BY <1>1, <1>2, <2>3 DEF same
<1>3. QED BY <1>2 DEF LimitAt

LEMMA TheFirst ==
    ASSUME NEW model, NEW key, NEW value, NEW i \in Named(model, key, value),
           \A j \in Named(model, key, value) : i <= j
    PROVE  LimitAt(model, key, value) = i /\ i # 0
<1> DEFINE l == LimitAt(model, key, value)
<1>1. i \in Nat \ {0}
  BY RatelimitsAssumption DEF Named
<1>2. l \in Named(model, key, value) /\ l \in DOMAIN Ratelimits /\ l <= i
  BY LimitIsFirst
<1>3. l \in Nat
  BY <1>2, RatelimitsAssumption
<1>4. i <= l
  BY <1>2
<1> HIDE DEF l
<1>5. QED BY <1>1, <1>2, <1>3, <1>4 DEF l

\* The filter counts a request where the limits say that it belongs.
LEMMA CountedWhereItFalls ==
    ASSUME NEW e \in Entry, NEW i \in DOMAIN Ratelimits, NEW v \in Values, FallsUnder(e, i, v)
    PROVE  CountOf(e.model, e.selector) = CountFor(i, v)
<1> DEFINE key == e.selector[1]
           own == Named(e.model, key, v)
           each == Named(e.model, key, "")
           l == Ratelimits[i]
<1>0. e.selector[2] = v
  BY DEF FallsUnder
<1>2. CASE own # {}
  <2>1. i \in own /\ \A j \in own : i <= j
    BY <1>0, <1>2 DEF FallsUnder, Named
  <2>3. LimitAt(e.model, key, v) = i /\ i # 0
    BY <2>1, TheFirst
  <2>4. Ratelimits[i].value = v
    BY <2>1 DEF Named
  <2>5. CountOf(e.model, e.selector) = <<i, "">>
    BY <1>0, <2>3 DEF CountOf
  <2>6. QED BY <2>4, <2>5 DEF CountFor
<1>3. CASE own = {}
  <2>1. i \in each /\ \A j \in each : i <= j
    BY <1>0, <1>3 DEF FallsUnder, Named
  <2>3. LimitAt(e.model, key, "") = i /\ i # 0
    BY <2>1, TheFirst
  <2>4. Ratelimits[i].value = "" /\ v # ""
    BY <1>3, <2>1 DEF Named
  <2>5. LimitAt(e.model, key, v) = 0
    BY <1>3, LimitIsFirst
  <2>6. CountOf(e.model, e.selector) = <<i, v>>
    BY <1>0, <2>3, <2>5 DEF CountOf
  <2>7. QED BY <2>4, <2>6 DEF CountFor
<1>4. QED BY <1>2, <1>3

\* The counts there are.
LEMMA CountIsOne ==
    /\ \A i \in DOMAIN Ratelimits, v \in Values :
          CountFor(i, v) \in Counts /\ CountFor(i, v)[1] = i
    /\ \A model \in STRING, selector \in STRING \X Values :
          CountOf(model, selector)[1] # 0 => CountOf(model, selector) \in Counts
    /\ \A i \in DOMAIN Ratelimits : Burst(i) \in Nat
<1>1. ASSUME NEW i \in DOMAIN Ratelimits, NEW v \in Values
      PROVE  CountFor(i, v) \in Counts /\ CountFor(i, v)[1] = i
  BY DEF CountFor, Counts
<1>2. ASSUME NEW model \in STRING, NEW selector \in STRING \X Values,
             CountOf(model, selector)[1] # 0
      PROVE  CountOf(model, selector) \in Counts
  <2> DEFINE exact == LimitAt(model, selector[1], selector[2])
             each  == LimitAt(model, selector[1], "")
  <2>1. exact \in {0} \cup DOMAIN Ratelimits /\ each \in {0} \cup DOMAIN Ratelimits
    BY LimitIsFirst
  <2> HIDE DEF exact, each
  <2>2. CASE exact # 0
    <3>1. CountOf(model, selector) = <<exact, "">>
      BY <2>2 DEF CountOf, exact, each
    <3>2. <<exact, "">> \in Counts
      BY <2>1, <2>2 DEF Counts
    <3>3. QED BY <3>1, <3>2
  <2>3. CASE exact = 0 /\ each # 0
    <3>1. CountOf(model, selector) = <<each, selector[2]>>
      BY <2>3 DEF CountOf, exact, each
    <3>2. <<each, selector[2]>> \in Counts
      BY <2>1, <2>3 DEF Counts
    <3>3. QED BY <3>1, <3>2
  <2>4. CASE exact = 0 /\ each = 0
    <3>1. CountOf(model, selector) = <<0, "">>
      BY <2>4 DEF CountOf, exact, each
    <3>2. <<0, "">>[1] = 0
      OBVIOUS
    <3>3. QED BY <1>2, <3>1, <3>2
  <2>5. QED BY <2>2, <2>3, <2>4
<1>3. ASSUME NEW i \in DOMAIN Ratelimits PROVE Burst(i) \in Nat
  <2>1. Ratelimits[i].tokens \in Nat
    <3>1. Ratelimits[i] \in Limits
      BY RatelimitsAssumption
    <3>2. QED BY <3>1 DEF Limits
  <2>2. QED BY <2>1 DEF Burst
<1>4. QED BY <1>1, <1>2, <1>3

\* The tokens that the i-th limit counts for v, from an entry on to another.
Since(entries, i, v, a, b) == Passed(entries, i, v)[b] - Passed(entries, i, v)[a - 1]

LEMMA EntryTyped == \A e \in Entry : e.tokens \in Nat /\ e.at \in Nat
  BY DEF Entry

\* A request that is let through.
LEMMA TakeKeepsLimits ==
    ASSUME LimitInv, NEW model \in STRING, NEW selector \in STRING \X Values, NEW tokens \in Nat,
           CountOf(model, selector)[1] # 0,
           Admits(CountOf(model, selector)[1], used[CountOf(model, selector)], tokens),
           used' = [used EXCEPT ![CountOf(model, selector)] = @ + tokens],
           log' = Append(log, [model |-> model, selector |-> selector,
                               tokens |-> tokens, at |-> now]),
           now' = now
    PROVE  LimitInv'
<1> DEFINE c == CountOf(model, selector)
           e == [model |-> model, selector |-> selector, tokens |-> tokens, at |-> now]
           N == Len(log)
<1>1. /\ used \in [Counts -> Nat] /\ now \in Nat /\ log \in Seq(Entry) /\ N \in Nat
      /\ \A x \in Counts : used[x] <= Burst(x[1])
  BY DEF LimitInv
<1>2. c \in Counts
  BY CountIsOne
<1>3. e \in Entry /\ e.tokens = tokens /\ e.at = now
  BY <1>1 DEF Entry
<1>4. /\ used' = [used EXCEPT ![c] = @ + tokens] /\ log' = Append(log, e) /\ now' = now
      /\ used[c] + tokens <= Burst(c[1])
  BY DEF Admits
<1>5. \A i \in DOMAIN Ratelimits, v \in Values : FallsUnder(e, i, v) => c = CountFor(i, v)
  BY <1>3, CountedWhereItFalls
<1> HIDE DEF c, e
<1>6. used' \in [Counts -> Nat] /\ \A x \in Counts : used'[x] <= Burst(x[1]) /\ used[x] <= used'[x]
  <2>1. used[c] \in Nat /\ used[c] + tokens \in Nat
    BY <1>1, <1>2
  <2>2. \A x \in Counts : used'[x] = IF x = c THEN used[c] + tokens ELSE used[x]
    BY <1>1, <1>2, <1>4
  <2>3. used' \in [Counts -> Nat]
    BY <1>1, <1>4, <2>1
  <2>4. \A x \in Counts : used'[x] <= Burst(x[1])
    BY <1>1, <1>4, <2>2
  <2>5. \A x \in Counts : used[x] <= used'[x]
    BY <1>1, <2>1, <2>2
  <2>6. QED BY <2>3, <2>4, <2>5
<1>7. log' \in Seq(Entry) /\ Len(log') = N + 1 /\ DOMAIN log' = 1..(N + 1) /\ log'[N + 1] = e
      /\ \A k \in 1..N : log'[k] = log[k]
  BY <1>1, <1>3, <1>4
<1>8. \A k \in 1..N : log[k] \in Entry /\ log[k].at \in Nat /\ log[k].at <= now
  BY <1>1, EntryTyped DEF LimitInv
<1>9. \A k \in DOMAIN log' : log'[k].at \in Nat /\ log'[k].at <= now
  <2>1. \A k \in DOMAIN log' : k \in 1..N \/ k = N + 1
    BY <1>1, <1>7
  <2>2. QED BY <2>1, <1>1, <1>3, <1>7, <1>8
<1> HIDE DEF N
<1>10. ASSUME NEW i \in DOMAIN Ratelimits, NEW v \in Values
       PROVE  /\ \A n \in 0..N : /\ Passed(log, i, v)[n] \in Nat
                                 /\ Passed(log', i, v)[n] = Passed(log, i, v)[n]
              /\ Passed(log', i, v)[N + 1] = Passed(log, i, v)[N] + Adds(e, i, v)
              /\ Adds(e, i, v) \in Nat
              /\ used[CountFor(i, v)] \in Nat /\ used'[CountFor(i, v)] \in Nat
              /\ used[CountFor(i, v)] + Adds(e, i, v) <= used'[CountFor(i, v)]
              /\ used'[CountFor(i, v)] <= Burst(i) /\ Burst(i) \in Nat
  <2>1. CountFor(i, v) \in Counts /\ CountFor(i, v)[1] = i /\ Burst(i) \in Nat
    BY CountIsOne
  <2>2. used[CountFor(i, v)] \in Nat /\ used'[CountFor(i, v)] \in Nat
        /\ used[CountFor(i, v)] <= used'[CountFor(i, v)] /\ used'[CountFor(i, v)] <= Burst(i)
    BY <1>1, <1>6, <2>1
  <2>3. FallsUnder(e, i, v) => used'[CountFor(i, v)] = used[CountFor(i, v)] + tokens
    BY <1>1, <1>2, <1>4, <1>5
  <2>4. used[CountFor(i, v)] + Adds(e, i, v) <= used'[CountFor(i, v)] /\ Adds(e, i, v) \in Nat
    <3>1. CASE FallsUnder(e, i, v)
      BY <1>3, <2>2, <2>3, <3>1 DEF Adds
    <3>2. CASE ~FallsUnder(e, i, v)
      BY <2>2, <3>2 DEF Adds
    <3>3. QED BY <3>1, <3>2
  <2>5. \A n \in 0..N : Passed(log, i, v)[n] \in Nat
    BY <1>1, PassedDef DEF N
  <2>6. /\ \A n \in 0..N : Passed(log', i, v)[n] = Passed(log, i, v)[n]
        /\ Passed(log', i, v)[N + 1] = Passed(log, i, v)[N] + Adds(e, i, v)
    BY <1>1, <1>3, <1>4, PassedAppend DEF N
  <2>7. QED BY <2>1, <2>2, <2>4, <2>5, <2>6
<1>11. ASSUME NEW i \in DOMAIN Ratelimits, NEW v \in Values, NEW a \in DOMAIN log'
       PROVE  /\ Since(log', i, v, a, N + 1) \in Int
              /\ Since(log', i, v, a, N + 1) <= used'[CountFor(i, v)] + now - log'[a].at
  <2> DEFINE old == Passed(log, i, v)
             new == Passed(log', i, v)
             add == Adds(e, i, v)
             before == used[CountFor(i, v)]
             after == used'[CountFor(i, v)]
  <2>0. /\ a \in 1..(N + 1) /\ a - 1 \in 0..N /\ N \in 0..N
        /\ old[N] \in Nat /\ old[a - 1] \in Nat /\ new[a - 1] = old[a - 1]
        /\ new[N + 1] = old[N] + add /\ add \in Nat /\ before \in Nat /\ after \in Nat
        /\ before + add <= after
    <3>1. a \in 1..(N + 1) /\ a - 1 \in 0..N /\ N \in 0..N
      BY <1>1, <1>7
    <3>2. QED BY <3>1, <1>10
  <2>1. Since(log', i, v, a, N + 1) = (old[N] + add) - old[a - 1]
    BY <2>0 DEF Since
  <2>2. CASE a \in 1..N
    <3>1. old[N] - old[a - 1] <= before + now - log[a].at
      BY <1>1, <2>2 DEF LimitInv, N
    <3>2. log'[a] = log[a] /\ log[a].at \in Nat
      BY <1>7, <1>8, <2>2
    <3>3. \A x, y, b1, b2, d, t \in Nat :
             x - y <= b1 + now - t /\ b1 + d <= b2 => (x + d) - y <= b2 + now - t
      BY <1>1
    <3> HIDE DEF old, new, add, before, after
    <3>4. (old[N] + add) - old[a - 1] <= after + now - log[a].at
      BY <2>0, <3>1, <3>2, <3>3
    <3>5. Since(log', i, v, a, N + 1) \in Int
      BY <2>0, <2>1
    <3>6. Since(log', i, v, a, N + 1) <= after + now - log'[a].at
      BY <2>1, <3>2, <3>4
    <3>7. QED BY <3>5, <3>6 DEF after
  <2>3. CASE a = N + 1
    <3>1. log'[a].at = now /\ a - 1 = N
      BY <1>1, <1>3, <1>7, <2>3
    <3> HIDE DEF old, new, add, before, after
    <3>2. (old[N] + add) - old[a - 1] <= after + now - now
      BY <1>1, <2>0, <3>1
    <3>3. QED BY <2>0, <2>1, <3>1, <3>2 DEF after
  <2>4. QED BY <1>1, <2>0, <2>2, <2>3
<1>12. ASSUME NEW i \in DOMAIN Ratelimits, NEW v \in Values,
              NEW a \in DOMAIN log', NEW b \in DOMAIN log', a <= b
       PROVE  Since(log', i, v, a, b) <= Burst(i) + log'[b].at - log'[a].at
  <2>0. a \in 1..(N + 1) /\ b \in 1..(N + 1)
    BY <1>7
  <2>1. CASE b \in 1..N
    <3>1. a \in 1..N /\ a - 1 \in 0..N /\ b \in 0..N
      BY <1>1, <2>0, <1>12, <2>1
    <3>2. Since(log, i, v, a, b) <= Burst(i) + log[b].at - log[a].at
      BY <1>1, <1>12, <2>1, <3>1 DEF LimitInv, LimitsHold, Since, N
    <3>3. Since(log', i, v, a, b) = Since(log, i, v, a, b)
      BY <1>10, <3>1 DEF Since
    <3>4. log'[a] = log[a] /\ log'[b] = log[b]
      BY <1>7, <2>1, <3>1
    <3>5. QED BY <3>2, <3>3, <3>4
  <2>2. CASE b = N + 1
    <3>1. /\ Since(log', i, v, a, b) \in Int
          /\ Since(log', i, v, a, b) <= used'[CountFor(i, v)] + now - log'[a].at
      BY <1>11, <2>2
    <3>2. log'[b].at = now /\ log'[a].at \in Nat
      BY <1>3, <1>7, <1>9, <2>2
    <3>3. used'[CountFor(i, v)] \in Nat /\ Burst(i) \in Nat /\ used'[CountFor(i, v)] <= Burst(i)
      BY <1>10
    <3> DEFINE since == Since(log', i, v, a, b)
               after == used'[CountFor(i, v)]
               start == log'[a].at
               burst == Burst(i)
    <3>4. /\ since \in Int /\ after \in Int /\ start \in Int /\ burst \in Int /\ now \in Int
          /\ since <= after + now - start /\ after <= burst
      BY <1>1, <3>1, <3>2, <3>3
    <3> HIDE DEF since, after, start, burst
    <3>5. \A x, u, n, t, m \in Int : x <= u + n - t /\ u <= m => x <= m + n - t
      OBVIOUS
    <3>6. since <= burst + now - start
      BY <3>4, <3>5
    <3>7. QED BY <3>2, <3>6 DEF since, start, burst
  <2>3. QED BY <1>1, <2>0, <2>1, <2>2
<1>13. LimitsHold'
  BY <1>12 DEF LimitsHold, Since
<1>14. \A i \in DOMAIN Ratelimits, v \in Values, a \in DOMAIN log' :
          Passed(log', i, v)[Len(log')] - Passed(log', i, v)[a - 1]
              <= used'[CountFor(i, v)] + now' - log'[a].at
  BY <1>4, <1>7, <1>11 DEF Since
<1>15. now' \in Nat /\ \A k \in DOMAIN log' : log'[k].at <= now'
  BY <1>1, <1>4, <1>9
<1>16. QED BY <1>6, <1>7, <1>13, <1>14, <1>15 DEF LimitInv

\* A tick gives each count at most one token back.
LEMMA TickKeepsLimits ==
    ASSUME LimitInv, now' = now + 1, log' = log,
           used' = [c \in Counts |-> IF used[c] > 0 THEN used[c] - 1 ELSE 0]
    PROVE  LimitInv'
<1>1. /\ used \in [Counts -> Nat] /\ now \in Nat /\ log \in Seq(Entry) /\ Len(log) \in Nat
      /\ \A c \in Counts : used[c] <= Burst(c[1])
  BY DEF LimitInv
<1>2. \A c \in Counts : Burst(c[1]) \in Nat
  BY CountIsOne DEF Counts
<1>3. used' \in [Counts -> Nat] /\ \A c \in Counts : used'[c] <= Burst(c[1]) /\ used[c] <= used'[c] + 1
  BY <1>1, <1>2
<1>4. \A k \in DOMAIN log : log[k].at \in Nat /\ log[k].at <= now
  <2>1. \A k \in DOMAIN log : log[k] \in Entry
    BY <1>1
  <2>2. QED BY <2>1, EntryTyped DEF LimitInv
<1>5. ASSUME NEW i \in DOMAIN Ratelimits, NEW v \in Values, NEW a \in DOMAIN log
      PROVE  Passed(log, i, v)[Len(log)] - Passed(log, i, v)[a - 1]
                 <= used'[CountFor(i, v)] + (now + 1) - log[a].at
  <2> DEFINE sum == Passed(log, i, v)
             before == used[CountFor(i, v)]
             after == used'[CountFor(i, v)]
  <2>1. CountFor(i, v) \in Counts
    BY CountIsOne
  <2>2. before \in Nat /\ after \in Nat /\ before <= after + 1
    BY <1>1, <1>3, <2>1
  <2>3. sum[Len(log)] - sum[a - 1] <= before + now - log[a].at
    BY DEF LimitInv
  <2>4. sum[Len(log)] \in Nat /\ sum[a - 1] \in Nat
    <3>1. a - 1 \in 0..Len(log) /\ Len(log) \in 0..Len(log)
      BY <1>1
    <3>2. sum \in [0..Len(log) -> Nat]
      BY <1>1, PassedDef
    <3> HIDE DEF sum
    <3>3. QED BY <3>1, <3>2
  <2>a. \A x, y, b1, b2, n, t \in Int :
           x - y <= b1 + n - t /\ b1 <= b2 + 1 => x - y <= b2 + (n + 1) - t
    OBVIOUS
  <2>b. log[a].at \in Int /\ now \in Int /\ before \in Int /\ after \in Int
        /\ sum[Len(log)] \in Int /\ sum[a - 1] \in Int
    BY <1>1, <1>4, <2>2, <2>4
  <2> HIDE DEF sum, before, after
  <2>5. sum[Len(log)] - sum[a - 1] <= after + (now + 1) - log[a].at
    BY <2>2, <2>3, <2>a, <2>b
  <2>6. QED BY <2>5 DEF sum, after
<1>6. LimitsHold'
  BY DEF LimitInv, LimitsHold
<1>7. now' \in Nat /\ \A k \in DOMAIN log' : log'[k].at <= now'
  BY <1>1, <1>4
<1>8. QED BY <1>1, <1>3, <1>5, <1>6, <1>7 DEF LimitInv

-----------------------------------------------------------------------------
\* A stream that becomes a context that keeps ContextInv, the others as they are.
LEMMA BecomesKeeps ==
    ASSUME GatewayInv, NEW s \in Contexts, NEW c, ContextInv(config, c), Becomes(s, c),
           config' = config
    PROVE  /\ stream' = [x \in Contexts |-> stream'[x]]
           /\ \A x \in Contexts : ContextInv(config', stream'[x])
<1>1. stream' = [x \in Contexts |-> IF x = s THEN c ELSE stream[x]]
  BY DEF Becomes, GatewayInv
<1>2. QED BY <1>1 DEF GatewayInv

LEMMA InitGateway == Init => GatewayInv
<1> SUFFICES ASSUME Init PROVE GatewayInv
  OBVIOUS
<1>1. config \in DOMAIN Configs /\ Tables[config].ok
  BY DEF Init
<1>2. /\ stream = [s \in Contexts |-> stream[s]]
      /\ \A s \in Contexts : ContextInv(config, stream[s])
  BY <1>1, NewKeeps DEF Init
<1>3. LimitInv
  <2>1. /\ used \in [Counts -> Nat] /\ now \in Nat /\ log \in Seq(Entry) /\ DOMAIN log = {}
    BY DEF Init
  <2>2. ASSUME NEW c \in Counts PROVE used[c] <= Burst(c[1])
    <3>1. used[c] = 0
      BY DEF Init
    <3>2. Burst(c[1]) \in Nat
      BY CountIsOne DEF Counts
    <3>3. QED BY <3>1, <3>2
  <2>3. QED BY <2>1, <2>2 DEF LimitInv, LimitsHold
<1>4. QED BY <1>1, <1>2, <1>3 DEF GatewayInv

LEMMA NextGateway == GatewayInv /\ [Next]_vars => GatewayInv'
<1> SUFFICES ASSUME GatewayInv, [Next]_vars PROVE GatewayInv'
  OBVIOUS
<1>1. /\ config \in DOMAIN Configs /\ Tables[config].ok
      /\ stream = [s \in Contexts |-> stream[s]]
      /\ \A s \in Contexts : ContextInv(config, stream[s])
      /\ LimitInv
  BY DEF GatewayInv
<1>u. UNCHANGED <<used, now, log>> => LimitInv'
  BY <1>1 DEF LimitInv, LimitsHold
<1>b. ASSUME NEW s \in Contexts, NEW c, ContextInv(config, c), Becomes(s, c),
             config' = config, LimitInv'
      PROVE  GatewayInv'
  BY <1>1, <1>b, BecomesKeeps DEF GatewayInv
<1>t. ASSUME Trap, config' = config, UNCHANGED <<used, now, log>> PROVE GatewayInv'
  <2>1. stream' = [s \in Contexts |-> Closed]
    BY <1>t DEF Trap
  <2>2. ContextInv(config, Closed)
    BY <1>1, NewKeeps
  <2>3. QED BY <1>1, <1>t, <1>u, <2>1, <2>2 DEF GatewayInv
<1>2. ASSUME NEW s \in Contexts, Open(s) PROVE GatewayInv'
  <2>1. PICK r \in Requests[config] : Becomes(s, NewContext(r))
    BY <1>2 DEF Open
  <2>2. ContextInv(config, NewContext(r))
    BY <1>1, NewKeeps
  <2>3. QED BY <1>2, <2>1, <2>2, <1>b, <1>u DEF Open
<1>3. ASSUME NEW s \in Contexts, OnRequestHeaders(s) PROVE GatewayInv'
  <2> DEFINE c == stream[s]
             p == SelectLlmProvider(Tables[config], c.req.hint)
  <2>1. /\ ContextInv(config, c) /\ c.phase = "headers" /\ c.read = {} /\ c.sent = NotSent
        /\ config' = config /\ LimitInv'
    BY <1>1, <1>3, <1>u DEF OnRequestHeaders, ContextInv
  <2>2. /\ ContextInv(config, Reply(c, 200)) /\ ContextInv(config, Reply(c, 400))
    BY <2>1, Replied
  <2> HIDE DEF c
  <2>3. ASSUME p # NoProvider
        PROVE  /\ ContextInv(config, Reply([c EXCEPT !.provider = p], 404))
               /\ c.req.client \in Clients => ContextInv(config, Routed(c, p))
    <3> DEFINE e == [c EXCEPT !.provider = p]
    <3>1. ContextInv(config, e) /\ (c.req.client \in Clients => ContextInv(config, Routed(c, p)))
      BY <1>1, <2>1, <2>3, HeadersKeep
    <3>2. e.read = {} /\ e.sent = NotSent /\ e.phase = "headers"
      BY <2>1 DEF ContextInv, IsContext
    <3> HIDE DEF e
    <3>3. ContextInv(config, Reply(e, 404))
      BY <3>1, <3>2, Replied
    <3>4. QED BY <3>1, <3>3 DEF e
  <2>4. c.req.client \in Clients \cup {"healthz", "unknown"}
    BY <2>1 DEF ContextInv, RequestSpace
  <2>5. CASE c.req.client = "healthz"
    <3>1. Becomes(s, Reply(c, 200))
      BY <1>3, <2>5 DEF OnRequestHeaders, c, Clients
    <3>2. QED BY <1>b, <2>1, <2>2, <3>1
  <2>6. CASE c.req.client # "healthz" /\ p = NoProvider
    <3>1. Becomes(s, Reply(c, 400))
      BY <1>3, <2>6 DEF OnRequestHeaders, c
    <3>2. QED BY <1>b, <2>1, <2>2, <3>1
  <2>7. CASE c.req.client = "unknown" /\ p # NoProvider
    <3>1. Becomes(s, Reply([c EXCEPT !.provider = p], 404))
      BY <1>3, <2>7 DEF OnRequestHeaders, c, Clients
    <3>2. QED BY <1>b, <2>1, <2>3, <2>7, <3>1
  <2>8. CASE c.req.client \in Clients /\ p # NoProvider
    <3>1. Becomes(s, Routed(c, p))
      BY <1>3, <2>8 DEF OnRequestHeaders, c, Clients
    <3>2. QED BY <1>b, <2>1, <2>3, <2>8, <3>1
  <2>9. QED BY <2>4, <2>5, <2>6, <2>7, <2>8
<1>4. ASSUME NEW s \in Contexts, OnRequestBodyPart(s) PROVE GatewayInv'
  <2>1. ContextInv(config, Given(stream[s]))
    BY <1>1, <1>4, BodyKeeps DEF OnRequestBodyPart
  <2>2. Becomes(s, Given(stream[s]))
    BY <1>4 DEF OnRequestBodyPart, Given
  <2>3. QED BY <1>4, <2>1, <2>2, <1>b, <1>u DEF OnRequestBodyPart
<1>5. ASSUME NEW s \in Contexts, OnRequestBody(s) PROVE GatewayInv'
  <2> DEFINE old == stream[s]
             r     == old.req
             c     == Given(old)
             p     == Parsed(old)
             count == CountOf(c.provider.model, c.selector)
             entry == [model |-> c.provider.model, selector |-> c.selector,
                       tokens |-> r.tokens, at |-> now]
  <2>1. /\ ContextInv(config, old) /\ old.phase = "body" /\ config' = config /\ now' = now
        /\ c.phase = "body"
    <3>1. ContextInv(config, old)
      BY <1>1
    <3>2. old.phase = "body" /\ config' = config /\ now' = now
      BY <1>5 DEF OnRequestBody
    <3>3. IsContext(old)
      BY <3>1 DEF ContextInv
    <3>4. c.phase = "body"
      BY <3>2, <3>3 DEF Given, IsContext
    <3>5. QED BY <3>1, <3>2, <3>4
  <2>2. /\ ContextInv(config, PassedOn(old))
        /\ ContextInv(config, Reply(c, 400)) /\ ContextInv(config, Reply(p, 429))
        /\ ContextInv(config, Forwarded(p))
    <3> HIDE DEF old
    <3>1. QED BY <2>1, BodyKeeps
  <2>3. c.provider = old.provider /\ c.selector = old.selector
    BY <2>1 DEF ContextInv, IsContext, Given
  <2>4. c.provider.model \in STRING /\ r.tokens \in Nat
        /\ c.selector \in {NoSelector} \cup STRING \X Values
    <3>1. old.provider \in AnyItem /\ old.req \in RequestSpace /\ IsContext(old)
      BY <2>1 DEF ContextInv, Settled
    <3>2. old.selector \in {NoSelector} \cup STRING \X Values
      BY <3>1 DEF IsContext
    <3>3. QED BY <2>3, <3>1, <3>2 DEF AnyItem, RequestSpace
  <2>5. \/ /\ Becomes(s, PassedOn(old)) /\ UNCHANGED <<used, log>>
        \/ /\ Becomes(s, Reply(c, 400)) /\ UNCHANGED <<used, log>>
        \/ /\ Becomes(s, Forwarded(p)) /\ UNCHANGED <<used, log>>
        \/ /\ Becomes(s, Reply(p, 429)) /\ UNCHANGED <<used, log>>
        \/ /\ Becomes(s, Forwarded(p)) /\ c.selector # NoSelector /\ count[1] # 0
           /\ Admits(count[1], used[count], r.tokens)
           /\ used' = [used EXCEPT ![count] = @ + r.tokens]
           /\ log' = Append(log, entry)
    BY <1>5 DEF OnRequestBody, Given, Parsed, PassedOn
  <2> HIDE DEF c, p, count, entry
  <2>6. ASSUME UNCHANGED <<used, log>> PROVE LimitInv'
    BY <1>u, <2>1, <2>6
  <2>7. ASSUME c.selector # NoSelector, count[1] # 0,
               Admits(count[1], used[count], r.tokens),
               used' = [used EXCEPT ![count] = @ + r.tokens],
               log' = Append(log, entry)
        PROVE  LimitInv'
    <3> DEFINE m == c.provider.model
               h == c.selector
               n == r.tokens
    <3>1. m \in STRING /\ h \in STRING \X Values /\ n \in Nat /\ count = CountOf(m, h)
          /\ entry = [model |-> m, selector |-> h, tokens |-> n, at |-> now]
      BY <2>4, <2>7 DEF count, entry
    <3> HIDE DEF m, h, n
    <3>2. QED BY <1>1, <2>1, <2>7, <3>1, TakeKeepsLimits DEF n
  <2>8. QED BY <1>b, <2>1, <2>2, <2>5, <2>6, <2>7
<1>6. ASSUME NEW s \in Contexts, CountNoToken(s) PROVE GatewayInv'
  BY <1>6, <1>t DEF CountNoToken
<1>7. ASSUME NEW s \in Contexts, OnResponseHeaders(s) PROVE GatewayInv'
  <2>1. PICK status \in {200, 500} : Becomes(s, Answered(stream[s], status))
    BY <1>7 DEF OnResponseHeaders, Answered
  <2>2. ContextInv(config, Answered(stream[s], status))
    BY <1>1, <1>7, PartKeeps DEF OnResponseHeaders
  <2>3. QED BY <1>7, <2>1, <2>2, <1>b, <1>u DEF OnResponseHeaders
<1>8. ASSUME NEW s \in Contexts, OnResponseBody(s) PROVE GatewayInv'
  <2> DEFINE c == stream[s]
             After(context, last) == [context EXCEPT !.phase = IF last THEN "over" ELSE @]
  <2>1. ContextInv(config, c) /\ c.phase = "response" /\ config' = config /\ LimitInv'
    BY <1>1, <1>8, <1>u DEF OnResponseBody
  <2>2. PICK last \in BOOLEAN, tokens \in 0..1 :
           \/ /\ Passes(c)
              /\ Becomes(s, After([c EXCEPT !.read = @ \cup {<<"raw", FALSE>>}], last))
           \/ /\ ~Passes(c) /\ c.streaming
              /\ Becomes(s, After(ReadChunk(c, tokens), last))
           \/ /\ ~Passes(c) /\ ~c.streaming
              /\ Becomes(s, After(ReadWhole(c, tokens), last))
           \/ /\ ~Passes(c) /\ ~c.streaming
              /\ Becomes(s, [c EXCEPT !.phase = "over"])
    BY <1>8 DEF OnResponseBody
  <2>3. /\ Passes(c) =>
              ContextInv(config, After([c EXCEPT !.read = @ \cup {<<"raw", FALSE>>}], last))
        /\ ~Passes(c) /\ c.streaming => ContextInv(config, After(ReadChunk(c, tokens), last))
        /\ ~Passes(c) /\ ~c.streaming => ContextInv(config, After(ReadWhole(c, tokens), last))
        /\ ContextInv(config, [c EXCEPT !.phase = "over"])
    BY <2>1, ResponseKeeps
  <2> HIDE DEF c, After
  <2>4. QED BY <1>b, <2>1, <2>2, <2>3
<1>9. ASSUME NEW s \in Contexts, OnResponseEnd(s) PROVE GatewayInv'
  <2>1. ContextInv(config, stream[s]) /\ stream[s].phase = "response"
        /\ config' = config /\ UNCHANGED <<used, now, log>>
    BY <1>1, <1>9 DEF OnResponseEnd
  <2>2. ContextInv(config, [stream[s] EXCEPT !.phase = "over"])
    <3> DEFINE c == stream[s]
    <3> HIDE DEF c
    <3>1. ContextInv(config, c) /\ c.phase = "response"
      BY <2>1 DEF c
    <3>2. ContextInv(config, [c EXCEPT !.phase = "over"])
      BY <3>1, AnswerKeeps
    <3>3. QED BY <3>2 DEF c
  <2>3. Becomes(s, [stream[s] EXCEPT !.phase = "over"]) \/ Trap
    BY <1>9 DEF OnResponseEnd
  <2>4. QED BY <1>b, <1>t, <1>u, <2>1, <2>2, <2>3
<1>10. ASSUME NEW s \in Contexts, Drop(s) PROVE GatewayInv'
  <2>1. ContextInv(config, Closed)
    BY <1>1, NewKeeps
  <2>2. QED BY <1>10, <2>1, <1>b, <1>u DEF Drop
<1>11. ASSUME Tick PROVE GatewayInv'
  <2>1. LimitInv'
    BY <1>1, <1>11, TickKeepsLimits DEF Tick
  <2>2. QED BY <1>1, <1>11, <2>1 DEF Tick, GatewayInv
<1>12. ASSUME UNCHANGED vars PROVE GatewayInv'
  BY <1>1, <1>12, <1>u DEF vars, GatewayInv
<1>13. QED BY <1>2, <1>3, <1>4, <1>5, <1>6, <1>7, <1>8, <1>9, <1>10, <1>11, <1>12 DEF Next

LEMMA GatewayKept == Spec => []GatewayInv
<1>1. QED BY InitGateway, NextGateway, PTL DEF Spec

-----------------------------------------------------------------------------
\* Between any two requests that pass a limit, on whatever streams, no more
\* tokens pass under it than it and the time between them allow (ratelimit.rs,
\* check_limit, called by the streams of a worker).
THEOREM LimitsAlwaysHold == Spec => []LimitsHold
<1>1. GatewayInv => LimitsHold
  BY DEF GatewayInv, LimitInv
<1>2. QED BY <1>1, GatewayKept, PTL

\* What the table says of the provider of a context.
LEMMA ProviderOf ==
    ASSUME GatewayInv, NEW s \in Contexts, stream[s].provider # NoProvider
    PROVE  LET p == stream[s].provider
               hint == stream[s].req.hint
           IN  /\ stream[s].req \in RequestSpace
               /\ p.model = "*" => Len(hint) = 2 /\ hint[2] = "*"
               /\ \A i \in DOMAIN Providers :
                     /\ Providers[i].model # "*" /\ ~Taken(Providers, i, Len(Providers))
                     /\ hint = Providers[i].name
                     => p = Providers[i]
<1> DEFINE c == stream[s]
           items == Configs[config]
<1>1. /\ config \in DOMAIN Configs /\ Tables[config].ok
      /\ c.req \in RequestSpace /\ c.provider = SelectLlmProvider(Tables[config], c.req.hint)
  BY DEF GatewayInv, ContextInv
<1>2. Tables[config] = BuildTable(items) /\ items \in Seq(Items) /\ items # <<>>
  BY <1>1, GatewayAssumption DEF Tables, BuildTable, Refused, EmptyTable
<1>3. c.req.hint \in {NoHint, DefaultHint} \cup STRING \X STRING
  BY <1>1 DEF RequestSpace
<1>4. items = Providers
  BY DEF Providers
<1> DEFINE hint == c.req.hint
           p == SelectLlmProvider(BuildTable(items), hint)
<1>5. BuildTable(items).ok /\ c.provider = p
  BY <1>1, <1>2
<1> HIDE DEF items, hint
<1>6. /\ p.model = "*" => Len(hint) = 2 /\ hint[2] = "*"
      /\ \A i \in DOMAIN items :
            items[i].model # "*" /\ ~Taken(items, i, Len(items)) /\ hint = items[i].name
            => p = items[i]
  BY <1>2, <1>3, <1>5, Selection DEF hint
<1> HIDE DEF p
<1>7. QED BY <1>1, <1>4, <1>5, <1>6 DEF hint

\* A request that is sent on fits its provider: path, body and API agree, the
\* model is the provider's, the credential is in the header that API reads
\* (stream_context.rs, on_http_request_headers and on_http_request_body).
THEOREM UpstreamAlwaysFits == Spec => []UpstreamFits
<1>1. GatewayInv => UpstreamFits
  <2> SUFFICES ASSUME GatewayInv, NEW s \in Contexts, stream[s].sent # NotSent
               PROVE  LET c == stream[s] IN
                      /\ c.sent.api = c.path /\ c.path = c.resolved
                      /\ c.sent.model = c.provider.model
                      /\ c.sent.model = "*" => Len(c.req.hint) = 2 /\ c.req.hint[2] = "*"
                      /\ c.provider.key /\ ~c.provider.passthrough =>
                            c.auth = IF c.path = "messages"
                                     THEN [authorization |-> "absent", xapikey |-> "provider"]
                                     ELSE [authorization |-> "provider", xapikey |-> "absent"]
    BY DEF UpstreamFits
  <2> DEFINE c == stream[s]
  <2>1. Settled(config, c) /\ SentOn(c)
    BY DEF GatewayInv, ContextInv
  <2>2. c.sent.api = c.resolved /\ c.sent.model = c.provider.model
    BY <2>1 DEF SentOn
  <2>3. c.provider # NoProvider
    <3>1. NoProvider \notin AnyItem
      BY DEF NoProvider, AnyItem
    <3>2. QED BY <2>1, <3>1 DEF Settled
  <2>4. c.provider.model = "*" => Len(c.req.hint) = 2 /\ c.req.hint[2] = "*"
    BY <2>3, ProviderOf
  <2>5. QED BY <2>1, <2>2, <2>4 DEF Settled
<1>2. QED BY <1>1, GatewayKept, PTL

\* A model configured on its own is served with that configuration, wherever
\* a wildcard that covers it is listed (llm_providers.rs, try_from and get).
THEOREM SpecificAlwaysWins == Spec => []SpecificWins
<1>1. GatewayInv => SpecificWins
  BY ProviderOf DEF SpecificWins
<1>2. QED BY <1>1, GatewayKept, PTL

\* A request that has been sent on is read in its API and as it streams.
LEMMA ReadingIsSent ==
    ASSUME NEW d, NEW c, c.req \in RequestSpace, Settled(d, c), SentOn(c),
           c.provider.kind = "amazon_bedrock" => (c.req.header = "true" <=> c.streaming),
           c.provider.kind = "chatgpt" /\ c.req.client = "responses" => c.req.stream # "omitted"
    PROVE  Reading(c) = <<c.sent.api, c.sent.streamed>>
<1> DEFINE kind     == c.provider.kind
           client   == c.req.client
           header   == c.req.header = "true"
           asked    == c.req.stream
           asks     == NormalizedStream(kind, c.resolved, c.resolved, asked)
<1>1. /\ client \in Clients /\ c.resolved = CompatibleApi(kind, client, header)
      /\ asks # "error" /\ c.sent.api = c.resolved /\ c.sent.streamed = (asks = "true")
      /\ c.streaming = (header \/ asked = "true")
  BY DEF Settled, SentOn
<1>2. asked \in {"true", "false", "omitted"} /\ (header => asked = "true")
  BY DEF RequestSpace
<1>3. c.streaming \in BOOLEAN /\ c.streaming = (asked = "true")
  BY <1>1, <1>2
<1> HIDE DEF kind, client, asked, asks
<1>4. c.resolved = CompatibleApi(kind, client, c.streaming)
  <2>1. CASE kind = "amazon_bedrock"
    BY <1>1, <1>3, <2>1 DEF CompatibleApi, kind
  <2>2. CASE kind # "amazon_bedrock"
    BY <1>1, <2>2 DEF CompatibleApi
  <2>3. QED BY <2>1, <2>2
<1>5. (asks = "true") = c.streaming
  <2>1. CASE kind = "amazon_bedrock"
    BY <1>4, <1>3, <2>1 DEF CompatibleApi, NormalizedStream, asks
  <2>2. CASE kind # "amazon_bedrock"
    <3>1. c.resolved \in {"chat", "messages", "responses"}
          /\ (c.resolved = "responses" => client = "responses")
      BY <1>4, <2>2 DEF CompatibleApi
    <3>2. CASE c.resolved = "responses" /\ kind = "chatgpt"
      <4>1. asked # "omitted"
        BY <3>1, <3>2 DEF kind, client, asked
      <4>2. QED BY <1>1, <1>2, <1>3, <3>2, <4>1 DEF NormalizedStream, asks
    <3>3. CASE c.resolved = "chat"
      BY <1>2, <1>3, <3>3 DEF NormalizedStream, asks
    <3>4. CASE c.resolved = "messages" \/ (c.resolved = "responses" /\ kind # "chatgpt")
      BY <1>2, <1>3, <3>4 DEF NormalizedStream, asks
    <3>5. QED BY <3>1, <3>2, <3>3, <3>4
  <2>3. QED BY <2>1, <2>2
<1>6. CASE c.streaming
  BY <1>1, <1>4, <1>5, <1>6 DEF Reading, kind, client
<1>7. CASE ~c.streaming
  BY <1>1, <1>4, <1>5, <1>7 DEF Reading, ResponseApi, kind, client
<1>8. QED BY <1>6, <1>7

\* The answer is read as what the request that was sent on asks for, in its
\* API, and an error is left alone (stream_context.rs, on_http_response_body).
THEOREM AnswerAlwaysReadAsAsked == Spec => []AnswerReadAsAsked
<1>1. GatewayInv => AnswerReadAsAsked
  <2> SUFFICES ASSUME GatewayInv, NEW s \in Contexts, stream[s].sent # NotSent,
                      stream[s].provider.kind = "amazon_bedrock" =>
                          (stream[s].req.header = "true" <=> stream[s].streaming),
                      stream[s].provider.kind = "chatgpt" /\ stream[s].req.client = "responses" =>
                          stream[s].req.stream # "omitted"
               PROVE  /\ ReadAsSent(stream[s])
                      /\ stream[s].status >= 400 => stream[s].read \subseteq {<<"raw", FALSE>>}
    BY DEF AnswerReadAsAsked
  <2> DEFINE c == stream[s]
  <2>1. Settled(config, c) /\ SentOn(c) /\ c.phase # "closed" /\ IsContext(c)
    BY DEF GatewayInv, ContextInv
  <2>2. c.req \in RequestSpace
    BY <2>1 DEF GatewayInv, ContextInv
  <2>3. Reading(c) = <<c.sent.api, c.sent.streamed>>
    <3> HIDE DEF c
    <3>1. QED BY <2>1, <2>2, ReadingIsSent DEF c
  <2>4. \A x \in c.read : x = <<"raw", FALSE>> \/ (c.status < 400 /\ x = Reading(c))
    BY DEF GatewayInv, ContextInv
  <2>5. c.status \in Nat
    BY <2>1 DEF IsContext
  <2>6. ASSUME NEW x \in c.read
        PROVE  /\ x \in {<<"raw", FALSE>>, <<c.sent.api, c.sent.streamed>>}
               /\ c.status >= 400 => x \in {<<"raw", FALSE>>}
    <3>1. ~(c.status < 400 /\ c.status >= 400)
      BY <2>5
    <3>2. QED BY <2>3, <2>4, <2>6, <3>1
  <2>7. QED BY <2>6 DEF ReadAsSent
<1>2. QED BY <1>1, GatewayKept, PTL
===============================================================================
