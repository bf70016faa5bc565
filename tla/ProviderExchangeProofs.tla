------------------------ MODULE ProviderExchangeProofs ------------------------
(***************************************************************************)
(* What holds of the exchange, for any clients, upstreams, answers and     *)
(* any number of turns.                                                    *)
(*                                                                         *)
(* The conversions map, filter and join sequences of messages and of       *)
(* blocks, and so does what they are read for: the events they tell.  The  *)
(* proofs thus go from lists of anything, by way of what each message      *)
(* tells before and after it is converted, to whole requests and answers;  *)
(* the inductive invariant is that the history the client keeps is well    *)
(* formed and tells what was said.  From "Calls and their results" on, it  *)
(* is where in a request the calls and their results are: the invariant    *)
(* there is which results are due at the end of the history.               *)
(***************************************************************************)
EXTENDS ProviderExchange, FiniteSetTheorems, WellFoundedInduction, TLAPS

\* f has a value for every place of s.
Over(f, s) == f = [i \in DOMAIN s |-> f[i]]

-----------------------------------------------------------------------------
(* Numbers *)

\* A set of naturals that is not empty has a least element.
LEMMA LeastNumber ==
    ASSUME NEW T \in SUBSET Nat, T # {}
    PROVE  \E n \in T : \A m \in T : n <= m
<1> DEFINE Below(n) == {m \in Nat : m < n}
           B == {Below(n) : n \in T}
<1>1. ASSUME NEW n \in Nat PROVE IsFiniteSet(Below(n))
  <2>1. Below(n) \in SUBSET Nat /\ \A s \in Below(n) : s <= n
    OBVIOUS
  <2>2. QED BY <2>1, FS_BoundedSetOfNaturals
<1>2. B \subseteq FiniteSubsetsOf(Nat) /\ B # {}
  BY <1>1 DEF FiniteSubsetsOf
<1>3. PICK b \in B : \A y \in B : ~(<<y, b>> \in StrictSubsetOrdering(Nat))
  BY <1>2, FS_StrictSubsetOrderingWellFounded, WFMin
<1>4. PICK n \in T : b = Below(n)
  BY <1>3
<1>5. ASSUME NEW m \in T, m < n PROVE FALSE
  <2>1. Below(m) \in B
    OBVIOUS
  <2>2. Below(m) \subseteq Below(n) /\ Below(m) # Below(n)
    BY <1>5
  <2>3. <<Below(m), b>> \in StrictSubsetOrdering(Nat)
    BY <2>2, <1>4 DEF StrictSubsetOrdering
  <2>4. QED BY <2>1, <2>3, <1>3
<1>6. QED BY <1>5

\* The same as a step from n to n + 1, up to a bound: for the set of the
\* numbers that have a property.
LEMMA UpTo ==
    ASSUME NEW N \in Nat, NEW S, 0 \in S, \A n \in 0..(N - 1) : n \in S => n + 1 \in S
    PROVE  0..N \subseteq S
<1> SUFFICES ASSUME {n \in 0..N : n \notin S} # {} PROVE FALSE
  OBVIOUS
<1> DEFINE T == {k \in 0..N : k \notin S}
<1>1. PICK n \in T : \A m \in T : n <= m
  <2>1. T \in SUBSET Nat /\ T # {}
    OBVIOUS
  <2>2. QED BY <2>1, LeastNumber
<1>2. n # 0 /\ n - 1 \in 0..(N - 1)
  BY <1>1
<1>3. n - 1 \in S
  BY <1>1, <1>2
<1>4. QED BY <1>1, <1>2, <1>3

-----------------------------------------------------------------------------
(* Lists of anything *)

\* A list: a sequence of what it has.
IsList(s) == s \in Seq(Range(s))

\* A list of lists.
Lists(ss) == IsList(ss) /\ \A k \in DOMAIN ss : IsList(ss[k])

\* A function over the first numbers is a list.
LEMMA ListIs ==
    ASSUME NEW n \in Nat, NEW s, s = [i \in 1..n |-> s[i]]
    PROVE  IsList(s) /\ Len(s) = n /\ DOMAIN s = 1..n
<1>1. DOMAIN s = 1..n /\ \A i \in 1..n : s[i] \in Range(s)
  BY DEF Range
<1>2. s \in [1..n -> Range(s)]
  BY <1>1
<1> HIDE DEF Range
<1>3. s \in Seq(Range(s)) /\ Len(s) = n
  BY <1>1, <1>2
<1>4. QED BY <1>1, <1>3 DEF IsList

\* What a list has.
LEMMA ListHas ==
    ASSUME NEW s, IsList(s)
    PROVE  /\ Len(s) \in Nat /\ DOMAIN s = 1..Len(s)
           /\ s = [i \in 1..Len(s) |-> s[i]]
           /\ \A i \in DOMAIN s : s[i] \in Range(s)
<1>1. DEFINE T == Range(s)
<1>2. s \in Seq(T)
  BY DEF IsList
<1> HIDE DEF T
<1>3. Len(s) \in Nat /\ DOMAIN s = 1..Len(s) /\ s \in [1..Len(s) -> T]
  BY <1>2
<1>4. QED BY <1>3 DEF T

\* A sequence over a set is a list.
LEMMA TypedList ==
    ASSUME NEW T, NEW s \in Seq(T)
    PROVE  IsList(s)
<1>1. Len(s) \in Nat /\ s = [i \in 1..Len(s) |-> s[i]]
  OBVIOUS
<1>2. QED BY <1>1, ListIs

\* What a function makes of every place of a list is a list of its length.
LEMMA Mapped ==
    ASSUME NEW s, IsList(s), NEW t, t = [i \in DOMAIN s |-> t[i]]
    PROVE  IsList(t) /\ Len(t) = Len(s) /\ DOMAIN t = 1..Len(s)
<1>1. Len(s) \in Nat /\ t = [i \in 1..Len(s) |-> t[i]]
  BY ListHas
<1>2. QED BY <1>1, ListIs

\* Lists that agree in every place are the same.
LEMMA SameList ==
    ASSUME NEW s, NEW t, IsList(s), IsList(t), Len(s) = Len(t), \A i \in 1..Len(s) : s[i] = t[i]
    PROVE  s = t
<1>1. s = [i \in 1..Len(s) |-> s[i]] /\ t = [i \in 1..Len(t) |-> t[i]]
  BY ListHas
<1>2. QED BY <1>1

\* s \o t, which the provers take for more than a name.
With(s, t) == s \o t

\* Two lists in a row.
LEMMA Joined ==
    ASSUME NEW s, NEW t, IsList(s), IsList(t)
    PROVE  /\ IsList(s \o t) /\ Len(s \o t) = Len(s) + Len(t) /\ DOMAIN (s \o t) = 1..(Len(s) + Len(t))
           /\ \A i \in 1..(Len(s) + Len(t)) : (s \o t)[i] = IF i <= Len(s) THEN s[i] ELSE t[i - Len(s)]
<1> DEFINE T == Range(s) \cup Range(t)
           u == s \o t
<1>1. s \in [1..Len(s) -> T] /\ t \in [1..Len(t) -> T] /\ Len(s) \in Nat /\ Len(t) \in Nat
  <2>1. \A i \in DOMAIN s : s[i] \in T
    BY ListHas
  <2>2. \A i \in DOMAIN t : t[i] \in T
    BY ListHas
  <2> HIDE DEF T
  <2>3. QED BY <2>1, <2>2, ListHas
<1> HIDE DEF T
<1>2. s \in Seq(T) /\ t \in Seq(T)
  BY <1>1
<1>3. /\ u \in Seq(T) /\ Len(u) = Len(s) + Len(t) /\ DOMAIN u = 1..(Len(s) + Len(t))
      /\ \A i \in 1..(Len(s) + Len(t)) : u[i] = IF i <= Len(s) THEN s[i] ELSE t[i - Len(s)]
  BY <1>2
<1>4. IsList(u)
  BY <1>3, TypedList
<1>5. QED BY <1>3, <1>4

\* The empty list.
LEMMA Nothings ==
    /\ IsList(<<>>) /\ Len(<<>>) = 0 /\ DOMAIN <<>> = {}
    /\ \A s : IsList(s) => s \o <<>> = s /\ <<>> \o s = s
    /\ \A s : IsList(s) /\ Len(s) = 0 => s = <<>>
<1>1. <<>> \in Seq({}) /\ Len(<<>>) = 0 /\ DOMAIN <<>> = {}
  OBVIOUS
<1>2. IsList(<<>>)
  BY <1>1, TypedList
<1>3. ASSUME NEW s, IsList(s) PROVE s \o <<>> = s /\ <<>> \o s = s
  <2>1. Len(s) \in Nat
    BY <1>3, ListHas
  <2>2. s \o <<>> = s
    BY <1>1, <1>2, <1>3, <2>1, Joined, SameList
  <2>3. <<>> \o s = s
    BY <1>1, <1>2, <1>3, <2>1, Joined, SameList
  <2>4. QED BY <2>2, <2>3
<1>4. ASSUME NEW s, IsList(s), Len(s) = 0 PROVE s = <<>>
  BY <1>1, <1>2, <1>4, SameList
<1>5. QED BY <1>1, <1>2, <1>3, <1>4

\* A list of one.
LEMMA One ==
    ASSUME NEW x
    PROVE  IsList(<<x>>) /\ Len(<<x>>) = 1 /\ DOMAIN <<x>> = {1} /\ <<x>>[1] = x
<1>1. <<x>> \in Seq({x}) /\ Len(<<x>>) = 1 /\ DOMAIN <<x>> = {1} /\ <<x>>[1] = x
  OBVIOUS
<1>2. QED BY <1>1, TypedList

\* Three lists in a row are joined in either order.
LEMMA JoinedAgain ==
    ASSUME NEW s, NEW t, NEW u, IsList(s), IsList(t), IsList(u)
    PROVE  (s \o t) \o u = s \o (t \o u)
<1> DEFINE a == (s \o t) \o u
           b == s \o (t \o u)
<1>1. Len(s) \in Nat /\ Len(t) \in Nat /\ Len(u) \in Nat
  BY ListHas
<1>2. /\ IsList(s \o t) /\ Len(s \o t) = Len(s) + Len(t)
      /\ \A i \in 1..(Len(s) + Len(t)) : (s \o t)[i] = IF i <= Len(s) THEN s[i] ELSE t[i - Len(s)]
  BY Joined
<1>3. /\ IsList(t \o u) /\ Len(t \o u) = Len(t) + Len(u)
      /\ \A i \in 1..(Len(t) + Len(u)) : (t \o u)[i] = IF i <= Len(t) THEN t[i] ELSE u[i - Len(t)]
  BY Joined
<1>4. /\ IsList(a) /\ Len(a) = Len(s) + Len(t) + Len(u)
      /\ \A i \in 1..(Len(s) + Len(t) + Len(u)) :
            a[i] = IF i <= Len(s) + Len(t) THEN (s \o t)[i] ELSE u[i - (Len(s) + Len(t))]
  BY <1>2, Joined
<1>5. /\ IsList(b) /\ Len(b) = Len(s) + (Len(t) + Len(u))
      /\ \A i \in 1..(Len(s) + (Len(t) + Len(u))) : b[i] = IF i <= Len(s) THEN s[i] ELSE (t \o u)[i - Len(s)]
  BY <1>3, Joined
<1> HIDE DEF a, b
<1>6. ASSUME NEW i \in 1..Len(a) PROVE a[i] = b[i]
  <2>1. CASE i <= Len(s)
    BY <1>1, <1>2, <1>4, <1>5, <2>1
  <2>2. CASE ~(i <= Len(s)) /\ i <= Len(s) + Len(t)
    <3>1. /\ i - Len(s) \in 1..(Len(t) + Len(u)) /\ i - Len(s) <= Len(t) /\ i \in 1..(Len(s) + Len(t))
          /\ i \in 1..(Len(s) + Len(t) + Len(u)) /\ i \in 1..(Len(s) + (Len(t) + Len(u)))
      BY <1>1, <1>4, <2>2
    <3>2. a[i] = t[i - Len(s)]
      BY <1>2, <1>4, <2>2, <3>1
    <3>3. b[i] = t[i - Len(s)]
      BY <1>3, <1>5, <2>2, <3>1
    <3>4. QED BY <3>2, <3>3
  <2>3. CASE ~(i <= Len(s) + Len(t))
    <3>1. i - Len(s) \in 1..(Len(t) + Len(u)) /\ ~(i - Len(s) <= Len(t)) /\ ~(i <= Len(s))
      BY <1>1, <1>4, <2>3
    <3>2. i - (Len(s) + Len(t)) = (i - Len(s)) - Len(t)
      BY <1>1, <1>4
    <3>3. QED BY <1>1, <1>3, <1>4, <1>5, <2>3, <3>1, <3>2
  <2>4. QED BY <2>1, <2>2, <2>3
<1>7. Len(a) = Len(b)
  BY <1>1, <1>4, <1>5
<1>8. a = b
  BY <1>4, <1>5, <1>6, <1>7, SameList
<1>9. QED BY <1>8 DEF a, b

\* What is appended is joined.
LEMMA AppendIs ==
    ASSUME NEW s, NEW x, IsList(s)
    PROVE  Append(s, x) = s \o <<x>>
<1> DEFINE T == Range(s) \cup {x}
<1>1. \A i \in DOMAIN s : s[i] \in T
  BY ListHas
<1>2. x \in T
  OBVIOUS
<1> HIDE DEF T
<1>3. s \in Seq(T)
  BY <1>1, ListHas
<1>4. QED BY <1>2, <1>3

\* The same of joined lists, for any that the provers meet.
LEMMA WithIs ==
    /\ \A s, t : IsList(s) /\ IsList(t) => IsList(With(s, t))
    /\ \A s : IsList(s) => With(s, <<>>) = s /\ With(<<>>, s) = s
    /\ \A s, t, u : IsList(s) /\ IsList(t) /\ IsList(u) => With(With(s, t), u) = With(s, With(t, u))
  BY Joined, JoinedAgain, Nothings DEF With

-----------------------------------------------------------------------------
(* Flattening *)

\* FlattenSeq joins one list after the other.
LEMMA FlatIs ==
    ASSUME NEW ss, Lists(ss)
    PROVE  \E upTo :
              /\ upTo[0] = <<>> /\ FlattenSeq(ss) = upTo[Len(ss)]
              /\ \A n \in 1..Len(ss) : upTo[n] = With(upTo[n - 1], ss[n])
              /\ \A n \in 0..Len(ss) : IsList(upTo[n])
<1>0. Len(ss) \in Nat /\ DOMAIN ss = 1..Len(ss) /\ \A k \in 1..Len(ss) : IsList(ss[k])
  BY ListHas DEF Lists
<1>a. CASE Len(ss) = 0
  <2> DEFINE upTo == [n \in {0} |-> <<>>]
  <2>1. FlattenSeq(ss) = ss /\ ss = <<>>
    BY <1>a, Nothings DEF FlattenSeq, Lists
  <2>2. /\ upTo[0] = <<>> /\ FlattenSeq(ss) = upTo[Len(ss)]
        /\ \A n \in 1..Len(ss) : upTo[n] = With(upTo[n - 1], ss[n])
        /\ \A n \in 0..Len(ss) : IsList(upTo[n])
    BY <1>a, <2>1, Nothings
  <2> HIDE DEF upTo
  <2>3. QED BY <2>2
<1>b. CASE Len(ss) # 0
  <2> DEFINE N == Len(ss)
             F(g, n) == [i \in 1..n |-> IF i = 1 THEN ss[i] ELSE With(g[i - 1], ss[i])]
             S == {n \in 0..N : \E g : g = F(g, n)}
  <2>0. N \in Nat /\ N # 0 /\ N \in 1..N
    BY <1>0, <1>b
  <2>a. FlattenSeq(ss) = (CHOOSE g : g = F(g, N))[N]
    BY <1>b DEF FlattenSeq, With
  <2> HIDE DEF N
  <2>1. 0 \in S
    <3>1. <<>> = F(<<>>, 0)
      OBVIOUS
    <3> HIDE DEF F
    <3>2. \E g : g = F(g, 0)
      BY <3>1
    <3>3. QED BY <3>2, <2>0
  <2>2. ASSUME NEW n \in 0..(N - 1), n \in S PROVE n + 1 \in S
    <3>1. PICK g : g = F(g, n)
      BY <2>2
    <3> DEFINE h == [k \in 1..(n + 1) |-> IF k = n + 1 THEN (IF n + 1 = 1 THEN ss[n + 1] ELSE With(g[n], ss[n + 1]))
                                          ELSE g[k]]
    <3>2. ASSUME NEW k \in 1..(n + 1)
          PROVE  h[k] = IF k = 1 THEN ss[k] ELSE With(h[k - 1], ss[k])
      <4>1. CASE k = n + 1
        BY <4>1, <2>0
      <4>2. CASE k \in 1..n
        BY <4>2, <3>1, <2>0
      <4>3. QED BY <4>1, <4>2, <2>0
    <3>3. h = F(h, n + 1)
      BY <3>2
    <3>4. \E f : f = F(f, n + 1)
      BY <3>3
    <3>5. QED BY <3>4, <2>0
  <2>3. N \in S
    <3> HIDE DEF S
    <3>1. 0..N \subseteq S
      BY <2>0, <2>1, <2>2, UpTo
    <3>2. QED BY <3>1, <2>0
  <2> DEFINE f == CHOOSE g : g = F(g, N)
  <2>4. f = F(f, N)
    <3>1. \E g : g = F(g, N)
      BY <2>3
    <3> HIDE DEF F
    <3>2. QED BY <3>1
  <2>5. \A n \in 1..N : f[n] = IF n = 1 THEN ss[n] ELSE With(f[n - 1], ss[n])
    <3> HIDE DEF f
    <3>1. QED BY <2>0, <2>4
  <2>6. FlattenSeq(ss) = f[N]
    BY <2>a
  <2> HIDE DEF f
  <2> DEFINE upTo == [n \in 0..N |-> IF n = 0 THEN <<>> ELSE f[n]]
  <2>7. upTo[0] = <<>> /\ FlattenSeq(ss) = upTo[N]
    BY <2>0, <2>6
  <2>8. \A n \in 1..N : upTo[n] = With(upTo[n - 1], ss[n])
    <3> SUFFICES ASSUME NEW n \in 1..N PROVE upTo[n] = With(upTo[n - 1], ss[n])
      OBVIOUS
    <3>1. CASE n = 1
      <4>1. upTo[n] = ss[n] /\ upTo[n - 1] = <<>> /\ IsList(ss[n])
        BY <3>1, <2>0, <2>5, <1>0 DEF N
      <4> HIDE DEF upTo
      <4>2. QED BY <4>1, WithIs
    <3>2. CASE n # 1
      BY <3>2, <2>0, <2>5
    <3>3. QED BY <3>1, <3>2
  <2> HIDE DEF upTo
  <2>9. \A n \in 0..N : IsList(upTo[n])
    <3> DEFINE U == {n \in 0..N : IsList(upTo[n])}
    <3>1. 0 \in U
      BY <2>0, <2>7, Nothings
    <3>2. ASSUME NEW n \in 0..(N - 1), n \in U PROVE n + 1 \in U
      <4>1. n + 1 \in 1..N /\ n + 1 - 1 = n /\ IsList(ss[n + 1])
        BY <2>0, <1>0 DEF N
      <4>2. IsList(With(upTo[n], ss[n + 1]))
        BY <3>2, <4>1, WithIs
      <4>3. QED BY <2>8, <4>1, <4>2
    <3> HIDE DEF U
    <3>3. 0..N \subseteq U
      BY <2>0, <3>1, <3>2, UpTo
    <3>4. QED BY <3>3 DEF U
  <2>10. QED BY <2>7, <2>8, <2>9 DEF N
<1>c. QED BY <1>a, <1>b

\* Whatever is built that way is what it flattens to.
LEMMA FlatBuilt ==
    ASSUME NEW ss, Lists(ss), NEW u, u[0] = <<>>, \A n \in 1..Len(ss) : u[n] = With(u[n - 1], ss[n])
    PROVE  FlattenSeq(ss) = u[Len(ss)] /\ IsList(FlattenSeq(ss))
<1>1. PICK upTo :
        /\ upTo[0] = <<>> /\ FlattenSeq(ss) = upTo[Len(ss)]
        /\ \A n \in 1..Len(ss) : upTo[n] = With(upTo[n - 1], ss[n])
        /\ \A n \in 0..Len(ss) : IsList(upTo[n])
  BY FlatIs
<1> DEFINE N == Len(ss)
           S == {n \in 0..N : upTo[n] = u[n]}
<1>2. N \in Nat
  BY ListHas DEF Lists
<1>3. 0 \in S
  BY <1>1, <1>2
<1>4. ASSUME NEW n \in 0..(N - 1), n \in S PROVE n + 1 \in S
  <2>1. n + 1 \in 1..N /\ n + 1 - 1 = n
    BY <1>2
  <2>2. QED BY <1>1, <1>4, <2>1
<1> HIDE DEF S
<1>5. 0..N \subseteq S
  BY <1>2, <1>3, <1>4, UpTo
<1>6. upTo[N] = u[N]
  BY <1>2, <1>5 DEF S
<1>7. QED BY <1>1, <1>2, <1>6

\* A flattened list of lists is a list.
LEMMA FlatList ==
    ASSUME NEW ss, Lists(ss)
    PROVE  IsList(FlattenSeq(ss))
<1>1. Len(ss) \in Nat
  BY ListHas DEF Lists
<1>2. Len(ss) \in 0..Len(ss)
  BY <1>1
<1>3. QED BY <1>2, FlatIs

\* Nothing flattened is nothing.
LEMMA FlatNone == FlattenSeq(<<>>) = <<>>
  BY DEF FlattenSeq

\* Lists of lists in a row flatten to the flattened in a row.
LEMMA FlatJoin ==
    ASSUME NEW ss, NEW tt, Lists(ss), Lists(tt)
    PROVE  Lists(ss \o tt) /\ FlattenSeq(ss \o tt) = FlattenSeq(ss) \o FlattenSeq(tt)
<1> DEFINE M == Len(ss)
           N == Len(tt)
           both == ss \o tt
<1>1. M \in Nat /\ N \in Nat /\ DOMAIN ss = 1..M /\ DOMAIN tt = 1..N /\ IsList(ss) /\ IsList(tt)
  BY ListHas DEF Lists
<1>2. /\ IsList(both) /\ Len(both) = M + N /\ DOMAIN both = 1..(M + N)
      /\ \A i \in 1..(M + N) : both[i] = IF i <= M THEN ss[i] ELSE tt[i - M]
  BY <1>1, Joined
<1> HIDE DEF both
<1>3. Lists(both)
  <2>1. ASSUME NEW i \in 1..(M + N) PROVE IsList(both[i])
    <3>1. CASE i <= M
      BY <1>1, <1>2, <3>1 DEF Lists
    <3>2. CASE ~(i <= M)
      <4>1. i - M \in DOMAIN tt
        BY <1>1, <3>2
      <4>2. QED BY <1>1, <1>2, <3>2, <4>1 DEF Lists
    <3>3. QED BY <3>1, <3>2
  <2>2. QED BY <1>2, <2>1 DEF Lists
<1>4. PICK a :
        /\ a[0] = <<>> /\ FlattenSeq(ss) = a[M]
        /\ \A n \in 1..M : a[n] = With(a[n - 1], ss[n])
        /\ \A n \in 0..M : IsList(a[n])
  BY FlatIs
<1>5. PICK b :
        /\ b[0] = <<>> /\ FlattenSeq(tt) = b[N]
        /\ \A n \in 1..N : b[n] = With(b[n - 1], tt[n])
        /\ \A n \in 0..N : IsList(b[n])
  BY FlatIs
<1> DEFINE u == [n \in 0..(M + N) |-> IF n <= M THEN a[n] ELSE With(a[M], b[n - M])]
<1>6. u[0] = <<>>
  BY <1>1, <1>4
<1>7. IsList(a[M]) /\ With(a[M], b[0]) = a[M]
  BY <1>1, <1>4, <1>5, WithIs
<1>8. ASSUME NEW n \in 1..(M + N) PROVE u[n] = With(u[n - 1], both[n])
  <2>1. CASE n <= M
    BY <1>1, <1>2, <1>4, <2>1
  <2>2. CASE ~(n <= M)
    <3>1. n - M \in 1..N /\ n - M - 1 \in 0..N /\ n - 1 - M = n - M - 1 /\ n - 1 \in 0..(M + N)
      BY <1>1, <2>2
    <3>2. IsList(tt[n - M])
      BY <1>1, <3>1 DEF Lists
    <3>3. u[n - 1] = With(a[M], b[n - M - 1])
      <4>1. CASE n - 1 <= M
        <5>1. n - 1 = M /\ n - M - 1 = 0
          BY <1>1, <2>2, <4>1
        <5>2. QED BY <1>1, <1>7, <5>1
      <4>2. CASE ~(n - 1 <= M)
        BY <1>1, <3>1, <4>2
      <4>3. QED BY <4>1, <4>2
    <3>4. u[n] = With(a[M], With(b[n - M - 1], tt[n - M]))
      BY <1>1, <1>5, <2>2, <3>1
    <3>5. u[n] = With(With(a[M], b[n - M - 1]), tt[n - M])
      BY <1>5, <1>7, <3>1, <3>2, <3>4, WithIs
    <3>6. both[n] = tt[n - M]
      BY <1>2, <2>2
    <3>7. QED BY <3>3, <3>5, <3>6
  <2>3. QED BY <2>1, <2>2
<1>9. u[M + N] = With(a[M], b[N])
  <2>1. CASE N = 0
    BY <1>1, <1>7, <2>1
  <2>2. CASE N # 0
    BY <1>1, <2>2
  <2>3. QED BY <2>1, <2>2
<1> HIDE DEF u
<1>10. FlattenSeq(both) = u[M + N]
  <2>1. \A n \in 1..Len(both) : u[n] = With(u[n - 1], both[n])
    BY <1>2, <1>8
  <2>2. FlattenSeq(both) = u[Len(both)]
    BY <1>3, <1>6, <2>1, FlatBuilt
  <2>3. QED BY <1>2, <2>2
<1>11. QED BY <1>3, <1>4, <1>5, <1>9, <1>10 DEF both, With

\* A list of one list flattens to that.
LEMMA FlatOne ==
    ASSUME NEW x, IsList(x)
    PROVE  Lists(<<x>>) /\ FlattenSeq(<<x>>) = x
<1> DEFINE ss == <<x>>
           u == [n \in 0..1 |-> IF n = 0 THEN <<>> ELSE x]
<1>1. IsList(ss) /\ Len(ss) = 1 /\ DOMAIN ss = {1} /\ ss[1] = x
  BY One
<1> HIDE DEF ss
<1>2. Lists(ss)
  BY <1>1 DEF Lists
<1>a. u[0] = <<>> /\ u[1] = x
  OBVIOUS
<1> HIDE DEF u
<1>3. u[0] = <<>> /\ u[1] = x /\ \A n \in 1..1 : u[n] = With(u[n - 1], ss[n])
  BY <1>1, <1>a, WithIs
<1>4. FlattenSeq(ss) = x
  BY <1>1, <1>2, <1>3, FlatBuilt
<1>5. QED BY <1>2, <1>4 DEF ss

\* A list of lists of one.
LEMMA FlatOnes ==
    ASSUME NEW s, IsList(s), NEW ss, ss = [i \in DOMAIN s |-> <<s[i]>>]
    PROVE  Lists(ss) /\ FlattenSeq(ss) = s
<1> DEFINE N == Len(s)
           u == [n \in 0..N |-> [i \in 1..n |-> s[i]]]
<1>1. N \in Nat /\ DOMAIN s = 1..N /\ s = [i \in 1..N |-> s[i]]
  BY ListHas
<1>2. IsList(ss) /\ Len(ss) = N /\ DOMAIN ss = 1..N
  BY <1>1, Mapped
<1>3. Lists(ss)
  BY <1>1, <1>2, One DEF Lists
<1>4. ASSUME NEW n \in 1..N PROVE u[n] = With(u[n - 1], ss[n])
  <2> DEFINE a == u[n - 1]
             b == u[n]
  <2>1. IsList(a) /\ Len(a) = n - 1 /\ \A i \in 1..(n - 1) : a[i] = s[i]
    <3>1. n - 1 \in Nat /\ a = [i \in 1..(n - 1) |-> s[i]]
      BY <1>1
    <3> HIDE DEF a
    <3>2. QED BY <3>1, ListIs
  <2>2. IsList(b) /\ Len(b) = n /\ \A i \in 1..n : b[i] = s[i]
    <3>1. n \in Nat /\ b = [i \in 1..n |-> s[i]]
      BY <1>1
    <3> HIDE DEF b
    <3>2. QED BY <3>1, ListIs
  <2> HIDE DEF a, b
  <2>3. ss[n] = <<s[n]>>
    BY <1>1
  <2>4. /\ IsList(a \o ss[n]) /\ Len(a \o ss[n]) = n
        /\ \A i \in 1..n : (a \o ss[n])[i] = IF i <= n - 1 THEN s[i] ELSE s[n]
    <3> DEFINE o == <<s[n]>>
    <3>1. IsList(o) /\ Len(o) = 1 /\ o[1] = s[n]
      BY One
    <3> HIDE DEF o
    <3> DEFINE c == a \o o
    <3>2. /\ IsList(c) /\ Len(c) = Len(a) + Len(o)
          /\ \A i \in 1..(Len(a) + Len(o)) : c[i] = IF i <= Len(a) THEN a[i] ELSE o[i - Len(a)]
      BY <2>1, <3>1, Joined
    <3> HIDE DEF c
    <3>b. n \in Nat /\ n - 1 + 1 = n
      BY <1>1
    <3>3. ASSUME NEW i \in 1..n PROVE c[i] = IF i <= n - 1 THEN s[i] ELSE s[n]
      <4>1. CASE i <= n - 1
        BY <2>1, <3>1, <3>2, <3>b, <4>1
      <4>2. CASE ~(i <= n - 1)
        <5>1. i = n /\ i - (n - 1) = 1
          BY <3>b, <4>2
        <5>2. QED BY <2>1, <3>1, <3>2, <3>b, <4>2, <5>1
      <4>3. QED BY <4>1, <4>2
    <3>4. ss[n] = o
      BY <2>3 DEF o
    <3>5. IsList(c) /\ Len(c) = n
      BY <2>1, <3>1, <3>2, <3>b
    <3>6. QED BY <3>3, <3>4, <3>5 DEF c
  <2>5. b = a \o ss[n]
    <3>1. Len(b) = n /\ \A i \in 1..n : b[i] = (a \o ss[n])[i]
      BY <1>1, <2>2, <2>4
    <3>2. QED BY <2>2, <2>4, <3>1, SameList
  <2>6. QED BY <2>5 DEF a, b, With
<1>5. u[0] = <<>> /\ u[N] = s
  BY <1>1
<1> HIDE DEF u
<1>6. FlattenSeq(ss) = u[N]
  BY <1>2, <1>3, <1>4, <1>5, FlatBuilt
<1>7. QED BY <1>3, <1>5, <1>6

\* Lists that are all empty.
LEMMA FlatEmpty ==
    ASSUME NEW ss, IsList(ss), \A k \in DOMAIN ss : ss[k] = <<>>
    PROVE  Lists(ss) /\ FlattenSeq(ss) = <<>>
<1> DEFINE u == [n \in 0..Len(ss) |-> <<>>]
<1>1. Lists(ss) /\ Len(ss) \in Nat /\ DOMAIN ss = 1..Len(ss)
  BY Nothings, ListHas DEF Lists
<1>2. u[0] = <<>> /\ u[Len(ss)] = <<>> /\ \A n \in 1..Len(ss) : u[n] = <<>> /\ u[n - 1] = <<>>
  BY <1>1
<1> HIDE DEF u
<1>3. \A n \in 1..Len(ss) : u[n] = With(u[n - 1], ss[n])
  BY <1>1, <1>2, Nothings, WithIs
<1>4. QED BY <1>1, <1>2, <1>3, FlatBuilt

\* What is in it is in one of its lists.
LEMMA FlatIn ==
    ASSUME NEW ss, Lists(ss), NEW i \in DOMAIN FlattenSeq(ss)
    PROVE  \E k \in DOMAIN ss : \E j \in DOMAIN ss[k] : FlattenSeq(ss)[i] = ss[k][j]
<1>1. PICK upTo :
        /\ upTo[0] = <<>> /\ FlattenSeq(ss) = upTo[Len(ss)]
        /\ \A n \in 1..Len(ss) : upTo[n] = With(upTo[n - 1], ss[n])
        /\ \A n \in 0..Len(ss) : IsList(upTo[n])
  BY FlatIs
<1> DEFINE N == Len(ss)
           Known(x) == \E k \in DOMAIN ss : \E j \in DOMAIN ss[k] : x = ss[k][j]
           S == {n \in 0..N : \A a \in DOMAIN upTo[n] : Known(upTo[n][a])}
<1>2. N \in Nat /\ DOMAIN ss = 1..N
  BY ListHas DEF Lists
<1>3. 0 \in S
  BY <1>1, <1>2, Nothings
<1>4. ASSUME NEW n \in 0..(N - 1), n \in S PROVE n + 1 \in S
  <2> DEFINE s == upTo[n]
             t == ss[n + 1]
  <2>1. n + 1 \in 1..N /\ n + 1 - 1 = n /\ n \in 0..N /\ n + 1 \in 0..N
    BY <1>2
  <2>a. upTo[n + 1] = With(s, t) /\ IsList(s) /\ IsList(t)
    BY <1>1, <1>2, <2>1 DEF Lists
  <2>2. IsList(s) /\ IsList(t) /\ upTo[n + 1] = s \o t
    BY <2>a DEF With
  <2>3. \A a \in DOMAIN s : Known(s[a])
    BY <1>4
  <2>4. \A j \in DOMAIN t : Known(t[j])
    BY <1>2, <2>1
  <2>b. Len(s) \in Nat /\ Len(t) \in Nat /\ DOMAIN s = 1..Len(s) /\ DOMAIN t = 1..Len(t)
    BY <2>2, ListHas
  <2> HIDE DEF s, t, Known
  <2>5. ASSUME NEW a \in DOMAIN (s \o t) PROVE Known((s \o t)[a])
    <3>1. /\ a \in 1..(Len(s) + Len(t))
          /\ (s \o t)[a] = IF a <= Len(s) THEN s[a] ELSE t[a - Len(s)]
      BY <2>2, Joined
    <3>2. CASE a <= Len(s)
      BY <2>3, <2>b, <3>1, <3>2
    <3>3. CASE ~(a <= Len(s))
      <4>1. a - Len(s) \in DOMAIN t
        BY <2>b, <3>1, <3>3
      <4>2. QED BY <2>4, <3>1, <3>3, <4>1
    <3>4. QED BY <3>2, <3>3
  <2>6. QED BY <2>1, <2>2, <2>5
<1> HIDE DEF S
<1>5. 0..N \subseteq S
  BY <1>2, <1>3, <1>4, UpTo
<1>6. N \in S
  BY <1>2, <1>5
<1>7. QED BY <1>1, <1>6 DEF S

\* To make lists of what is in lists and flatten all, or of what each list is made.
LEMMA Fusion ==
    ASSUME NEW ss, Lists(ss), NEW all, all = FlattenSeq(ss),
           NEW g, \A k \in DOMAIN ss : \A j \in DOMAIN ss[k] : IsList(g[ss[k][j]]),
           NEW a, Over(a, all), \A i \in DOMAIN all : a[i] = g[all[i]],
           NEW c, \A k \in DOMAIN ss : Over(c[k], ss[k]) /\ \A i \in DOMAIN ss[k] : c[k][i] = g[ss[k][i]],
           NEW b, Over(b, ss), \A k \in DOMAIN ss : b[k] = FlattenSeq(c[k])
    PROVE  Lists(a) /\ Lists(b) /\ FlattenSeq(a) = FlattenSeq(b)
<1> DEFINE Made(s) == [i \in DOMAIN s |-> g[s[i]]]
           made == [k \in DOMAIN ss |-> FlattenSeq(Made(ss[k]))]
           N == Len(ss)
           Good(s) == IsList(s) /\ \A i \in DOMAIN s : IsList(g[s[i]])
<1>1. N \in Nat /\ DOMAIN ss = 1..N /\ IsList(ss)
  BY ListHas DEF Lists
<1>2. ASSUME NEW s, Good(s) PROVE Lists(Made(s)) /\ Len(Made(s)) = Len(s)
  <2> DEFINE m == Made(s)
  <2>1. m = [i \in DOMAIN s |-> m[i]] /\ \A i \in DOMAIN s : m[i] = g[s[i]]
    OBVIOUS
  <2>2. \A i \in DOMAIN s : IsList(m[i])
    BY <1>2
  <2>b. DOMAIN m = DOMAIN s
    OBVIOUS
  <2> HIDE DEF m
  <2>3. IsList(m) /\ Len(m) = Len(s)
    BY <1>2, <2>1, Mapped
  <2>4. Lists(m) /\ Len(m) = Len(s)
    BY <2>b, <2>2, <2>3 DEF Lists
  <2>5. QED BY <2>4 DEF m
<1>3. ASSUME NEW s, NEW t, Good(s), Good(t)
      PROVE  Good(s \o t) /\ Made(s \o t) = Made(s) \o Made(t)
  <2>1. /\ IsList(s \o t) /\ DOMAIN (s \o t) = 1..(Len(s) + Len(t)) /\ Len(s \o t) = Len(s) + Len(t)
        /\ \A i \in 1..(Len(s) + Len(t)) : (s \o t)[i] = IF i <= Len(s) THEN s[i] ELSE t[i - Len(s)]
    BY <1>3, Joined
  <2>2. Len(s) \in Nat /\ Len(t) \in Nat /\ DOMAIN s = 1..Len(s) /\ DOMAIN t = 1..Len(t)
    BY <1>3, ListHas
  <2>3. ASSUME NEW i \in 1..(Len(s) + Len(t)) PROVE IsList(g[(s \o t)[i]])
    <3>1. CASE i <= Len(s)
      BY <1>3, <2>1, <2>2, <3>1
    <3>2. CASE ~(i <= Len(s))
      <4>1. i - Len(s) \in DOMAIN t
        BY <2>2, <3>2
      <4>2. QED BY <1>3, <2>1, <3>2, <4>1
    <3>3. QED BY <3>1, <3>2
  <2>4. Good(s \o t)
    BY <2>1, <2>3
  <2> DEFINE x == Made(s)
             y == Made(t)
             z == Made(s \o t)
  <2>5. IsList(x) /\ IsList(y) /\ IsList(z) /\ Len(x) = Len(s) /\ Len(y) = Len(t) /\ Len(z) = Len(s) + Len(t)
    BY <1>2, <1>3, <2>1, <2>4 DEF Lists
  <2>6. /\ \A i \in 1..Len(s) : x[i] = g[s[i]]
        /\ \A i \in 1..Len(t) : y[i] = g[t[i]]
        /\ \A i \in 1..(Len(s) + Len(t)) : z[i] = g[(s \o t)[i]]
    BY <2>1, <2>2
  <2> HIDE DEF x, y, z
  <2>7. /\ IsList(x \o y) /\ Len(x \o y) = Len(s) + Len(t)
        /\ \A i \in 1..(Len(s) + Len(t)) : (x \o y)[i] = IF i <= Len(s) THEN x[i] ELSE y[i - Len(s)]
    BY <2>5, Joined
  <2>8. ASSUME NEW i \in 1..(Len(s) + Len(t)) PROVE z[i] = (x \o y)[i]
    <3>1. CASE i <= Len(s)
      BY <2>1, <2>2, <2>6, <2>7, <3>1
    <3>2. CASE ~(i <= Len(s))
      <4>1. i - Len(s) \in 1..Len(t)
        BY <2>2, <3>2
      <4>2. z[i] = g[t[i - Len(s)]]
        BY <2>1, <2>6, <3>2
      <4>3. (x \o y)[i] = y[i - Len(s)]
        BY <2>7, <3>2
      <4>4. QED BY <2>6, <4>1, <4>2, <4>3
    <3>3. QED BY <3>1, <3>2
  <2>9. z = x \o y
    <3> DEFINE w == x \o y
    <3>1. IsList(z) /\ Len(z) = Len(s) + Len(t) /\ IsList(w) /\ Len(w) = Len(s) + Len(t)
          /\ \A i \in 1..(Len(s) + Len(t)) : z[i] = w[i]
      BY <2>5, <2>7, <2>8
    <3> HIDE DEF w
    <3>2. z = w
      BY <3>1, SameList
    <3>3. QED BY <3>2 DEF w
  <2>10. QED BY <2>4, <2>9 DEF x, y, z
<1>4. \A k \in DOMAIN ss : Good(ss[k])
  BY DEF Lists
<1>5. PICK upTo :
        /\ upTo[0] = <<>> /\ FlattenSeq(ss) = upTo[N]
        /\ \A n \in 1..N : upTo[n] = With(upTo[n - 1], ss[n])
        /\ \A n \in 0..N : IsList(upTo[n])
  BY FlatIs
<1> DEFINE S == {n \in 0..N : Good(upTo[n])}
<1>6. \A n \in 0..N : Good(upTo[n])
  <2>1. 0 \in S
    BY <1>1, <1>5, Nothings
  <2>2. ASSUME NEW n \in 0..(N - 1), n \in S PROVE n + 1 \in S
    <3>1. n + 1 \in 1..N /\ n + 1 - 1 = n /\ n + 1 \in 0..N
      BY <1>1
    <3>2. Good(upTo[n]) /\ Good(ss[n + 1]) /\ upTo[n + 1] = With(upTo[n], ss[n + 1])
      BY <1>1, <1>4, <1>5, <2>2, <3>1
    <3> HIDE DEF Good
    <3>a. Good(With(upTo[n], ss[n + 1]))
      <4> DEFINE s == upTo[n]
                 t == ss[n + 1]
      <4> HIDE DEF s, t
      <4>1. Good(s) /\ Good(t) => Good(s \o t)
        BY <1>3
      <4>2. QED BY <3>2, <4>1 DEF s, t, With
    <3>3. Good(upTo[n + 1])
      BY <3>2, <3>a
    <3>4. QED BY <3>1, <3>3
  <2> HIDE DEF S
  <2>3. 0..N \subseteq S
    BY <1>1, <2>1, <2>2, UpTo
  <2>4. QED BY <2>3 DEF S
<1>7. /\ \A k \in DOMAIN ss : Lists(Made(ss[k]))
      /\ \A n \in 0..N : Lists(Made(upTo[n]))
  <2> HIDE DEF Made, Good
  <2>1. QED BY <1>2, <1>4, <1>6
<1>8. Lists(made) /\ Len(made) = N /\ DOMAIN made = 1..N /\ \A k \in 1..N : made[k] = FlattenSeq(Made(ss[k]))
  <2>1. made = [k \in DOMAIN ss |-> made[k]] /\ \A k \in 1..N : made[k] = FlattenSeq(Made(ss[k]))
    BY <1>1
  <2> HIDE DEF made, Made
  <2>2. IsList(made) /\ Len(made) = N /\ DOMAIN made = 1..N
    BY <1>1, <2>1, Mapped
  <2>3. \A k \in 1..N : IsList(made[k])
    BY <1>1, <1>7, <2>1, FlatList
  <2>4. QED BY <2>1, <2>2, <2>3 DEF Lists
<1> DEFINE u == [n \in 0..N |-> FlattenSeq(Made(upTo[n]))]
<1>9. u[0] = <<>>
  <2>1. Made(upTo[0]) = <<>> /\ 0 \in 0..N
    BY <1>1, <1>5
  <2> HIDE DEF Made
  <2>2. u[0] = FlattenSeq(Made(upTo[0]))
    BY <2>1
  <2>3. QED BY <2>1, <2>2, FlatNone
<1>10. ASSUME NEW n \in 1..N PROVE u[n] = With(u[n - 1], made[n])
  <2> HIDE DEF made, Made, Good
  <2>1. n - 1 \in 0..N /\ n \in 0..N /\ n \in DOMAIN ss
    BY <1>1
  <2>2. Made(upTo[n]) = Made(upTo[n - 1]) \o Made(ss[n])
    <3>1. Good(upTo[n - 1]) /\ Good(ss[n]) /\ upTo[n] = With(upTo[n - 1], ss[n])
      BY <1>4, <1>5, <1>6, <2>1
    <3> DEFINE s == upTo[n - 1]
               t == ss[n]
    <3> HIDE DEF s, t
    <3>2. Good(s) /\ Good(t) => Made(s \o t) = Made(s) \o Made(t)
      BY <1>3
    <3>3. Good(s) /\ Good(t) /\ upTo[n] = s \o t
      BY <3>1 DEF s, t, With
    <3>4. Made(upTo[n]) = Made(s) \o Made(t)
      BY <3>2, <3>3
    <3>5. QED BY <3>4 DEF s, t
  <2>3. FlattenSeq(Made(upTo[n])) = FlattenSeq(Made(upTo[n - 1])) \o FlattenSeq(Made(ss[n]))
    BY <1>7, <2>1, <2>2, FlatJoin
  <2>4. QED BY <1>8, <2>1, <2>3 DEF With
<1> HIDE DEF u, made
<1>11. FlattenSeq(made) = u[N]
  BY <1>8, <1>9, <1>10, FlatBuilt
<1>12. u[N] = FlattenSeq(Made(all)) /\ Lists(Made(all))
  <2>1. N \in 0..N /\ all = upTo[N]
    BY <1>1, <1>5
  <2> HIDE DEF Made
  <2>2. QED BY <1>7, <2>1 DEF u
<1>13. a = Made(all)
  BY DEF Over
<1>14. b = made
  <2>1. \A k \in DOMAIN ss : c[k] = Made(ss[k])
    BY DEF Over
  <2>2. \A k \in DOMAIN ss : b[k] = made[k]
    BY <2>1 DEF made
  <2>3. b = [k \in DOMAIN ss |-> b[k]] /\ made = [k \in DOMAIN ss |-> made[k]]
    BY DEF Over, made
  <2> HIDE DEF made
  <2>4. QED BY <2>2, <2>3
<1>15. QED BY <1>8, <1>11, <1>12, <1>13, <1>14

\* What two lists in a row have in each place.
LEMMA JoinedAt ==
    ASSUME NEW s, NEW t, IsList(s), IsList(t)
    PROVE  /\ \A i \in DOMAIN s : i \in DOMAIN (s \o t) /\ (s \o t)[i] = s[i]
           /\ \A i \in DOMAIN t : Len(s) + i \in DOMAIN (s \o t) /\ (s \o t)[Len(s) + i] = t[i]
           /\ \A i \in DOMAIN (s \o t) : \/ i \in DOMAIN s /\ (s \o t)[i] = s[i]
                                         \/ \E j \in DOMAIN t : i = Len(s) + j /\ (s \o t)[i] = t[j]
<1> DEFINE u == s \o t
<1>1. /\ Len(s) \in Nat /\ Len(t) \in Nat /\ DOMAIN s = 1..Len(s) /\ DOMAIN t = 1..Len(t)
      /\ DOMAIN u = 1..(Len(s) + Len(t))
      /\ \A i \in 1..(Len(s) + Len(t)) : u[i] = IF i <= Len(s) THEN s[i] ELSE t[i - Len(s)]
  BY ListHas, Joined
<1> HIDE DEF u
<1>2. \A i \in DOMAIN s : i \in DOMAIN u /\ u[i] = s[i]
  BY <1>1
<1>3. ASSUME NEW i \in DOMAIN t PROVE Len(s) + i \in DOMAIN u /\ u[Len(s) + i] = t[i]
  <2>1. Len(s) + i \in 1..(Len(s) + Len(t)) /\ ~(Len(s) + i <= Len(s)) /\ Len(s) + i - Len(s) = i
    BY <1>1
  <2>2. QED BY <1>1, <2>1
<1>4. ASSUME NEW i \in DOMAIN u
      PROVE \/ i \in DOMAIN s /\ u[i] = s[i]
            \/ \E j \in DOMAIN t : i = Len(s) + j /\ u[i] = t[j]
  <2>1. CASE i <= Len(s)
    BY <1>1, <2>1
  <2>2. CASE ~(i <= Len(s))
    <3>1. i - Len(s) \in DOMAIN t /\ i = Len(s) + (i - Len(s)) /\ u[i] = t[i - Len(s)]
      BY <1>1, <2>2
    <3>2. QED BY <3>1
  <2>3. QED BY <2>1, <2>2
<1>5. QED BY <1>2, <1>3, <1>4 DEF u

\* What is made of each entry of a joined list.
LEMMA MapJoin ==
    ASSUME NEW s, NEW t, IsList(s), IsList(t),
           NEW a, Over(a, s),
           NEW b, Over(b, t),
           NEW c, Over(c, s \o t),
           \A i \in DOMAIN s : c[i] = a[i],
           \A i \in DOMAIN t : c[Len(s) + i] = b[i]
    PROVE  IsList(a) /\ IsList(b) /\ IsList(c) /\ c = a \o b
<1>1. IsList(s \o t) /\ Len(s \o t) = Len(s) + Len(t) /\ Len(s) \in Nat /\ Len(t) \in Nat
  BY Joined, ListHas
<1>2. /\ IsList(a) /\ Len(a) = Len(s) /\ DOMAIN a = 1..Len(s)
      /\ IsList(b) /\ Len(b) = Len(t) /\ DOMAIN b = 1..Len(t)
  BY Mapped DEF Over
<1>3. IsList(c) /\ Len(c) = Len(s) + Len(t)
  BY <1>1, Mapped DEF Over
<1>4. DOMAIN s = 1..Len(s) /\ DOMAIN t = 1..Len(t)
  BY ListHas
<1> DEFINE u == a \o b
<1>5. IsList(u) /\ Len(u) = Len(s) + Len(t) /\ DOMAIN u = 1..(Len(s) + Len(t))
  <2>1. IsList(u) /\ Len(u) = Len(a) + Len(b) /\ DOMAIN u = 1..(Len(a) + Len(b))
    BY <1>2, Joined
  <2> HIDE DEF u
  <2>2. QED BY <1>2, <2>1
<1>6. /\ \A i \in DOMAIN a : u[i] = a[i]
      /\ \A i \in DOMAIN b : u[Len(a) + i] = b[i]
  BY <1>2, JoinedAt
<1> HIDE DEF u
<1>7. ASSUME NEW i \in 1..(Len(s) + Len(t)) PROVE c[i] = u[i]
  <2>1. CASE i <= Len(s)
    <3>1. i \in DOMAIN s /\ i \in DOMAIN a
      BY <1>1, <1>2, <1>4, <2>1
    <3>2. u[i] = a[i] /\ c[i] = a[i]
      BY <1>6, <3>1
    <3>3. QED BY <3>2
  <2>2. CASE ~(i <= Len(s))
    <3>1. i - Len(s) \in 1..Len(t) /\ i = Len(s) + (i - Len(s))
      BY <1>1, <2>2
    <3> DEFINE j == i - Len(s)
    <3> HIDE DEF j
    <3>2. j \in DOMAIN t /\ j \in DOMAIN b /\ i = Len(s) + j /\ i = Len(a) + j
      BY <1>2, <1>4, <3>1 DEF j
    <3>3. u[Len(a) + j] = b[j] /\ c[Len(s) + j] = b[j]
      BY <1>6, <3>2
    <3>4. QED BY <3>2, <3>3
  <2>3. QED BY <2>1, <2>2
<1>8. c = u
  BY <1>3, <1>5, <1>7, SameList
<1>9. QED BY <1>2, <1>3, <1>8 DEF u

\* What is mapped to lists and flattened of two lists in a row.
LEMMA FlatMapJoin ==
    ASSUME NEW s, NEW t, IsList(s), IsList(t),
           NEW a, Over(a, s), \A i \in DOMAIN s : IsList(a[i]),
           NEW b, Over(b, t), \A i \in DOMAIN t : IsList(b[i]),
           NEW c, Over(c, s \o t),
           \A i \in DOMAIN s : c[i] = a[i],
           \A i \in DOMAIN t : c[Len(s) + i] = b[i]
    PROVE  /\ Lists(a) /\ Lists(b) /\ Lists(c) /\ FlattenSeq(c) = FlattenSeq(a) \o FlattenSeq(b)
           /\ IsList(FlattenSeq(a)) /\ IsList(FlattenSeq(b)) /\ IsList(FlattenSeq(c))
<1>0. \A i \in DOMAIN s : c[i] = a[i]
  OBVIOUS
<1>b. \A i \in DOMAIN t : c[Len(s) + i] = b[i]
  OBVIOUS
<1>1. IsList(a) /\ IsList(b) /\ c = a \o b
  BY <1>0, <1>b, MapJoin
<1>2. DOMAIN a = DOMAIN s /\ DOMAIN b = DOMAIN t
  BY DEF Over
<1>3. Lists(a) /\ Lists(b)
  BY <1>1, <1>2 DEF Lists
<1>4. Lists(c) /\ FlattenSeq(c) = FlattenSeq(a) \o FlattenSeq(b)
  BY <1>1, <1>3, FlatJoin
<1>5. QED BY <1>3, <1>4, FlatList

\* A part of a list: each entry is in it or not.
LEMMA PartOf ==
    ASSUME NEW s, IsList(s), NEW p, Over(p, s),
           \A i \in DOMAIN s : p[i] = <<s[i]>> \/ p[i] = <<>>
    PROVE  /\ Lists(p) /\ IsList(FlattenSeq(p))
           /\ \A k \in DOMAIN FlattenSeq(p) : \E i \in DOMAIN s : FlattenSeq(p)[k] = s[i] /\ p[i] # <<>>
           /\ (\A i \in DOMAIN s : p[i] # <<>>) => FlattenSeq(p) = s
           /\ (\A i \in DOMAIN s : p[i] = <<>>) => FlattenSeq(p) = <<>>
<1>1. IsList(p) /\ DOMAIN p = DOMAIN s
  BY Mapped DEF Over
<1>2. \A i \in DOMAIN p : IsList(p[i])
  <2>1. \A x : IsList(<<x>>)
    BY One
  <2>2. QED BY <1>1, <2>1, Nothings
<1>3. Lists(p) /\ IsList(FlattenSeq(p))
  BY <1>1, <1>2, FlatList DEF Lists
<1>4. ASSUME NEW k \in DOMAIN FlattenSeq(p)
      PROVE \E i \in DOMAIN s : FlattenSeq(p)[k] = s[i] /\ p[i] # <<>>
  <2>1. PICK i \in DOMAIN p : \E j \in DOMAIN p[i] : FlattenSeq(p)[k] = p[i][j]
    BY <1>3, FlatIn
  <2>2. PICK j \in DOMAIN p[i] : FlattenSeq(p)[k] = p[i][j]
    BY <2>1
  <2>3. p[i] # <<>>
    BY <2>2
  <2>4. p[i] = <<s[i]>>
    BY <1>1, <2>1, <2>3
  <2>5. DOMAIN <<s[i]>> = {1} /\ <<s[i]>>[1] = s[i]
    BY One
  <2>6. FlattenSeq(p)[k] = s[i]
    BY <2>2, <2>4, <2>5
  <2>7. QED BY <1>1, <2>1, <2>3, <2>6
<1>5. ASSUME \A i \in DOMAIN s : p[i] # <<>> PROVE FlattenSeq(p) = s
  <2>1. \A i \in DOMAIN s : p[i] = <<s[i]>>
    BY <1>5
  <2>2. p = [i \in DOMAIN s |-> <<s[i]>>]
    BY <2>1 DEF Over
  <2>3. QED BY <2>2, FlatOnes
<1>6. ASSUME \A i \in DOMAIN s : p[i] = <<>> PROVE FlattenSeq(p) = <<>>
  BY <1>1, <1>6, FlatEmpty
<1>7. QED BY <1>3, <1>4, <1>5, <1>6

\* A list as it grows.
LEMMA Prefix ==
    ASSUME NEW s, IsList(s)
    PROVE  /\ SubSeq(s, 1, 0) = <<>> /\ SubSeq(s, 1, Len(s)) = s
           /\ \A n \in 0..Len(s) : IsList(SubSeq(s, 1, n)) /\ Range(SubSeq(s, 1, n)) \subseteq Range(s)
           /\ \A n \in 0..(Len(s) - 1) : SubSeq(s, 1, n + 1) = SubSeq(s, 1, n) \o <<s[n + 1]>>
<1> DEFINE P(n) == SubSeq(s, 1, n)
<1>0. Len(s) \in Nat /\ DOMAIN s = 1..Len(s) /\ s = [i \in 1..Len(s) |-> s[i]]
  BY ListHas
<1>a. DEFINE T == Range(s)
<1>b. s \in Seq(T)
  BY DEF IsList
<1> HIDE DEF T
<1>1. ASSUME NEW n \in 0..Len(s)
      PROVE  P(n) \in Seq(T) /\ Len(P(n)) = n /\ \A i \in 1..n : P(n)[i] = s[i]
  BY <1>0, <1>1, <1>b
<1> HIDE DEF P
<1>2. \A n \in 0..Len(s) : IsList(P(n))
  BY <1>1, TypedList
<1>3. ASSUME NEW n \in 0..Len(s) PROVE Range(P(n)) \subseteq Range(s)
  <2>1. DOMAIN P(n) = 1..n
    BY <1>1
  <2>2. QED BY <1>0, <1>1, <2>1 DEF Range
<1>4. P(0) = <<>>
  BY <1>0, <1>1, <1>2, Nothings
<1>5. P(Len(s)) = s
  <2>1. IsList(P(Len(s))) /\ Len(P(Len(s))) = Len(s) /\ \A i \in 1..Len(s) : P(Len(s))[i] = s[i]
    BY <1>0, <1>1, <1>2
  <2>2. QED BY <2>1, SameList
<1>6. ASSUME NEW n \in 0..(Len(s) - 1) PROVE P(n + 1) = P(n) \o <<s[n + 1]>>
  <2> DEFINE o == <<s[n + 1]>>
             u == P(n) \o o
  <2>1. IsList(o) /\ Len(o) = 1 /\ o[1] = s[n + 1]
    BY One
  <2> HIDE DEF o
  <2>2. n \in 0..Len(s) /\ n + 1 \in 0..Len(s) /\ n \in Nat
    BY <1>0
  <2>3. /\ IsList(u) /\ Len(u) = n + 1
        /\ \A i \in 1..(n + 1) : u[i] = IF i <= n THEN P(n)[i] ELSE o[i - n]
    <3> DEFINE q == P(n)
    <3>1. IsList(q) /\ Len(q) = n
      BY <1>1, <1>2, <2>2
    <3> HIDE DEF q
    <3>2. /\ IsList(q \o o) /\ Len(q \o o) = Len(q) + Len(o)
          /\ \A i \in 1..(Len(q) + Len(o)) : (q \o o)[i] = IF i <= Len(q) THEN q[i] ELSE o[i - Len(q)]
      BY <2>1, <3>1, Joined
    <3>3. u = q \o o
      BY DEF q
    <3> HIDE DEF u
    <3>4. QED BY <2>1, <3>1, <3>2, <3>3 DEF q
  <2> HIDE DEF u
  <2>4. ASSUME NEW i \in 1..(n + 1) PROVE P(n + 1)[i] = u[i]
    <3>1. CASE i <= n
      BY <1>1, <2>2, <2>3, <3>1
    <3>2. CASE ~(i <= n)
      <4>1. i = n + 1 /\ i - n = 1
        BY <2>2, <3>2
      <4>2. QED BY <1>1, <2>1, <2>2, <2>3, <3>2, <4>1
    <3>3. QED BY <3>1, <3>2
  <2>5. P(n + 1) = u
    BY <1>1, <1>2, <2>2, <2>3, <2>4, SameList
  <2>6. QED BY <2>5 DEF u, o
<1>7. QED BY <1>2, <1>3, <1>4, <1>5, <1>6 DEF P

-----------------------------------------------------------------------------
(* Blocks of content *)

IsPart(b) == \/ b.type = "text" /\ IsList(b.text)
             \/ b.type = "image" /\ b \in {Image("data"), Image("url")}

IsBlock(b) == \/ IsPart(b)
              \/ b.type = "tool_use"
              \/ b.type = "tool_result" /\ b = Result(b.id, b.content, b.error) /\ Lists(b.content)
              \/ /\ b.type = "thinking" /\ IsList(b.text)
                 /\ \A i \in DOMAIN b.text : b.text[i][1] = "thinking"

Blocks(s) == IsList(s) /\ \A i \in DOMAIN s : IsBlock(s[i])
Parts(s) == IsList(s) /\ \A i \in DOMAIN s : IsPart(s[i])

\* Lists whose texts are texts.
Worded(s) == IsList(s) /\ \A i \in DOMAIN s : s[i].type = "text" => IsList(s[i].text)

\* Parts are blocks, and blocks have texts.
LEMMA Kinds ==
    /\ \A s : Parts(s) => Blocks(s)
    /\ \A s : Blocks(s) => Worded(s)
<1>1. \A b : IsBlock(b) => (b.type = "text" => IsList(b.text))
  BY DEF IsBlock, IsPart
<1>2. QED BY <1>1 DEF Parts, Blocks, Worded, IsBlock

\* A property of the entries of two lists is one of those of both joined.
LEMMA BothHave ==
    ASSUME NEW s, NEW t, IsList(s), IsList(t), NEW S,
           \A i \in DOMAIN s : s[i] \in S, \A i \in DOMAIN t : t[i] \in S
    PROVE  \A i \in DOMAIN (s \o t) : (s \o t)[i] \in S
<1> DEFINE u == s \o t
<1>1. \A i \in DOMAIN u : \/ i \in DOMAIN s /\ u[i] = s[i]
                          \/ \E j \in DOMAIN t : i = Len(s) + j /\ u[i] = t[j]
  BY JoinedAt
<1> HIDE DEF u
<1>2. \A i \in DOMAIN u : u[i] \in S
  BY <1>1
<1>3. QED BY <1>2 DEF u

\* Blocks in a row are blocks.
LEMMA BlocksJoin ==
    ASSUME NEW s, NEW t
    PROVE  /\ Blocks(s) /\ Blocks(t) => Blocks(s \o t)
           /\ Parts(s) /\ Parts(t) => Parts(s \o t)
           /\ Worded(s) /\ Worded(t) => Worded(s \o t)
<1> DEFINE u == s \o t
<1>1. ASSUME IsList(s), IsList(t)
      PROVE  /\ IsList(u)
             /\ \A i \in DOMAIN u : \/ i \in DOMAIN s /\ u[i] = s[i]
                                    \/ \E j \in DOMAIN t : i = Len(s) + j /\ u[i] = t[j]
  BY <1>1, JoinedAt, Joined
<1> HIDE DEF u
<1>2. Blocks(s) /\ Blocks(t) => Blocks(u)
  BY <1>1 DEF Blocks
<1>3. Parts(s) /\ Parts(t) => Parts(u)
  BY <1>1 DEF Parts
<1>4. ASSUME Worded(s), Worded(t) PROVE Worded(u)
  <2>1. IsList(s) /\ IsList(t)
    BY <1>4 DEF Worded
  <2>2. ASSUME NEW i \in DOMAIN u PROVE u[i].type = "text" => IsList(u[i].text)
    <3>1. CASE i \in DOMAIN s /\ u[i] = s[i]
      BY <1>4, <3>1 DEF Worded
    <3>2. CASE \E j \in DOMAIN t : u[i] = t[j]
      BY <1>4, <3>2 DEF Worded
    <3>3. QED BY <1>1, <2>1, <3>1, <3>2
  <2>3. QED BY <1>1, <2>1, <2>2 DEF Worded
<1>5. QED BY <1>2, <1>3, <1>4 DEF u

\* Of a type.
LEMMA OfTypePart ==
    ASSUME NEW s, IsList(s), NEW T
    PROVE  /\ IsList(OfType(s, T))
           /\ \A k \in DOMAIN OfType(s, T) : \E i \in DOMAIN s : OfType(s, T)[k] = s[i] /\ s[i].type \in T
           /\ (\A i \in DOMAIN s : s[i].type \in T) => OfType(s, T) = s
           /\ (\A i \in DOMAIN s : s[i].type \notin T) => OfType(s, T) = <<>>
<1> DEFINE p == [i \in DOMAIN s |-> IF s[i].type \in T THEN <<s[i]>> ELSE <<>>]
<1>1. OfType(s, T) = FlattenSeq(p)
  BY DEF OfType, Pick, Map
<1>2. \A i \in DOMAIN s : p[i] = IF s[i].type \in T THEN <<s[i]>> ELSE <<>>
  OBVIOUS
<1>3. Over(p, s)
  BY DEF Over
<1> HIDE DEF p
<1>4. \A i \in DOMAIN s : <<s[i]>> # <<>>
  OBVIOUS
<1>5. /\ IsList(FlattenSeq(p))
      /\ \A k \in DOMAIN FlattenSeq(p) : \E i \in DOMAIN s : FlattenSeq(p)[k] = s[i] /\ p[i] # <<>>
      /\ (\A i \in DOMAIN s : p[i] # <<>>) => FlattenSeq(p) = s
      /\ (\A i \in DOMAIN s : p[i] = <<>>) => FlattenSeq(p) = <<>>
  <2>1. \A i \in DOMAIN s : p[i] = <<s[i]>> \/ p[i] = <<>>
    BY <1>2
  <2>2. QED BY <1>3, <2>1, PartOf
<1> DEFINE f == FlattenSeq(p)
<1> HIDE DEF f
<1>b. \A i \in DOMAIN s : p[i] # <<>> <=> s[i].type \in T
  BY <1>2, <1>4
<1>c. /\ IsList(f)
      /\ \A k \in DOMAIN f : \E i \in DOMAIN s : f[k] = s[i] /\ p[i] # <<>>
      /\ (\A i \in DOMAIN s : p[i] # <<>>) => f = s
      /\ (\A i \in DOMAIN s : p[i] = <<>>) => f = <<>>
  BY <1>5 DEF f
<1>d. /\ IsList(f)
      /\ \A k \in DOMAIN f : \E i \in DOMAIN s : f[k] = s[i] /\ s[i].type \in T
      /\ (\A i \in DOMAIN s : s[i].type \in T) => f = s
      /\ (\A i \in DOMAIN s : s[i].type \notin T) => f = <<>>
  BY <1>b, <1>c
<1>6. QED BY <1>1, <1>d DEF f

\* What is filtered of two lists in a row.
LEMMA OfTypeJoin ==
    ASSUME NEW s, NEW t, IsList(s), IsList(t), NEW T
    PROVE  OfType(s \o t, T) = OfType(s, T) \o OfType(t, T)
<1> DEFINE u == s \o t
           a == [i \in DOMAIN s |-> IF s[i].type \in T THEN <<s[i]>> ELSE <<>>]
           b == [i \in DOMAIN t |-> IF t[i].type \in T THEN <<t[i]>> ELSE <<>>]
           c == [i \in DOMAIN u |-> IF u[i].type \in T THEN <<u[i]>> ELSE <<>>]
<1>1. OfType(s, T) = FlattenSeq(a) /\ OfType(t, T) = FlattenSeq(b) /\ OfType(u, T) = FlattenSeq(c)
  BY DEF OfType, Pick, Map
<1>2. /\ \A i \in DOMAIN s : i \in DOMAIN u /\ u[i] = s[i]
      /\ \A i \in DOMAIN t : Len(s) + i \in DOMAIN u /\ u[Len(s) + i] = t[i]
  BY JoinedAt
<1> HIDE DEF u
<1>3. Over(a, s) /\ Over(b, t) /\ Over(c, u)
  BY DEF Over
<1>4. \A x : IsList(<<x>>)
  BY One
<1>5. /\ \A i \in DOMAIN s : IsList(a[i]) /\ c[i] = a[i]
      /\ \A i \in DOMAIN t : IsList(b[i]) /\ c[Len(s) + i] = b[i]
  BY <1>2, <1>4, Nothings
<1> HIDE DEF a, b, c
<1>6. Over(c, s \o t)
  BY <1>3 DEF u
<1>7. FlattenSeq(c) = FlattenSeq(a) \o FlattenSeq(b)
  BY <1>3, <1>5, <1>6, FlatMapJoin
<1>8. QED BY <1>1, <1>7 DEF u

\* Of two kinds, and of the one of them.
LEMMA OfTypes ==
    ASSUME NEW s, IsList(s), NEW T, NEW U, \A i \in DOMAIN s : s[i].type \in T <=> s[i].type \in U
    PROVE  OfType(s, T) = OfType(s, U)
<1>1. \A i \in DOMAIN s : (IF s[i].type \in T THEN <<s[i]>> ELSE <<>>) = (IF s[i].type \in U THEN <<s[i]>> ELSE <<>>)
  OBVIOUS
<1>2. QED BY <1>1 DEF OfType, Pick, Map

\* The text of a content.
Wordings(s) == Map(OfType(s, {"text"}), LAMBDA p : p.text)

\* The text of content is its texts in a row.
LEMMA WordingsAre ==
    ASSUME NEW s, Worded(s)
    PROVE  /\ Lists(Wordings(s)) /\ ExtractText(s) = FlattenSeq(Wordings(s))
           /\ IsList(ExtractText(s))
           /\ (\A i \in DOMAIN s : s[i].type # "text") => ExtractText(s) = <<>>
<1> DEFINE o == OfType(s, {"text"})
           w == Wordings(s)
<1>1. /\ IsList(o)
      /\ \A k \in DOMAIN o : \E i \in DOMAIN s : o[k] = s[i] /\ s[i].type = "text"
      /\ (\A i \in DOMAIN s : s[i].type # "text") => o = <<>>
  BY OfTypePart DEF Worded
<1>2. w = [k \in DOMAIN o |-> o[k].text]
  BY DEF Wordings, Map
<1>3. ExtractText(s) = FlattenSeq(w)
  BY DEF ExtractText, Wordings
<1> HIDE DEF o, w
<1>4. \A k \in DOMAIN o : IsList(o[k].text)
  BY <1>1 DEF Worded
<1>5. IsList(w) /\ DOMAIN w = DOMAIN o
  BY <1>1, <1>2, Mapped
<1>6. Lists(w)
  BY <1>2, <1>4, <1>5 DEF Lists
<1>7. ASSUME \A i \in DOMAIN s : s[i].type # "text" PROVE FlattenSeq(w) = <<>>
  <2>1. o = <<>>
    BY <1>1, <1>7
  <2>2. DOMAIN w = {}
    BY <1>5, <2>1, Nothings
  <2>3. QED BY <1>5, <2>2, FlatEmpty
<1>8. QED BY <1>3, <1>6, <1>7, FlatList DEF w

\* The text of content in a row.
LEMMA ExtractJoin ==
    ASSUME NEW s, NEW t, Worded(s), Worded(t)
    PROVE  ExtractText(s \o t) = ExtractText(s) \o ExtractText(t)
<1> DEFINE a == Wordings(s)
           b == Wordings(t)
           c == Wordings(s \o t)
           x == OfType(s, {"text"})
           y == OfType(t, {"text"})
           z == OfType(s \o t, {"text"})
<1>1. Worded(s \o t) /\ IsList(s) /\ IsList(t)
  BY BlocksJoin DEF Worded
<1>2. z = x \o y /\ IsList(x) /\ IsList(y)
  BY <1>1, OfTypePart, OfTypeJoin
<1>3. a = [k \in DOMAIN x |-> x[k].text] /\ b = [k \in DOMAIN y |-> y[k].text] /\ c = [k \in DOMAIN z |-> z[k].text]
  BY DEF Wordings, Map
<1>4. Lists(a) /\ Lists(b) /\ Lists(c) /\ ExtractText(s) = FlattenSeq(a) /\ ExtractText(t) = FlattenSeq(b)
      /\ ExtractText(s \o t) = FlattenSeq(c)
  BY <1>1, WordingsAre
<1> HIDE DEF a, b, c, x, y, z
<1>5. Over(a, x) /\ Over(b, y) /\ Over(c, z)
  BY <1>3 DEF Over
<1>6. /\ \A i \in DOMAIN x : i \in DOMAIN z /\ z[i] = x[i]
      /\ \A i \in DOMAIN y : Len(x) + i \in DOMAIN z /\ z[Len(x) + i] = y[i]
  BY <1>2, JoinedAt
<1>7. /\ \A i \in DOMAIN x : c[i] = a[i]
      /\ \A i \in DOMAIN y : c[Len(x) + i] = b[i]
  BY <1>3, <1>6
<1>8. c = a \o b
  BY <1>2, <1>5, <1>7, MapJoin
<1>9. FlattenSeq(c) = FlattenSeq(a) \o FlattenSeq(b)
  BY <1>4, <1>8, FlatJoin
<1>10. QED BY <1>4, <1>9

\* The text of a content of one entry.
LEMMA ExtractOne ==
    ASSUME NEW e
    PROVE  /\ e.type # "text" => Worded(<<e>>) /\ ExtractText(<<e>>) = <<>>
           /\ e.type = "text" /\ IsList(e.text) => Worded(<<e>>) /\ ExtractText(<<e>>) = e.text
<1> DEFINE s == <<e>>
<1>1. IsList(s) /\ DOMAIN s = {1} /\ s[1] = e
  BY One
<1> HIDE DEF s
<1>2. ASSUME e.type # "text" PROVE Worded(s) /\ ExtractText(s) = <<>>
  <2>1. Worded(s) /\ \A i \in DOMAIN s : s[i].type # "text"
    BY <1>1, <1>2 DEF Worded
  <2>2. QED BY <2>1, WordingsAre
<1>3. ASSUME e.type = "text", IsList(e.text) PROVE Worded(s) /\ ExtractText(s) = e.text
  <2>1. Worded(s) /\ \A i \in DOMAIN s : s[i].type \in {"text"}
    BY <1>1, <1>3 DEF Worded
  <2>2. OfType(s, {"text"}) = s
    BY <1>1, <2>1, OfTypePart
  <2>3. Wordings(s) = [i \in DOMAIN s |-> s[i].text]
    BY <2>2 DEF Wordings, Map
  <2>4. Wordings(s) = <<e.text>>
    BY <1>1, <2>3
  <2>5. FlattenSeq(<<e.text>>) = e.text
    BY <1>3, FlatOne
  <2>6. QED BY <2>1, <2>4, <2>5, WordingsAre
<1>4. QED BY <1>2, <1>3 DEF s

-----------------------------------------------------------------------------
(* Events *)

ResultEvents(s) == Map(OfType(s, {"tool_result"}), LAMBDA b : ResultEvent(b.id, FlattenSeq(b.content)))

\* The four sorts of events of a message.
LEMMA BlockEvents ==
    ASSUME NEW m
    PROVE  EventsOfBlocks(m) = ((ResultEvents(m.blocks) \o TextEvents(m.role, ExtractText(m.blocks)))
                                \o ImageEvents(m.blocks)) \o CallEvents(CallsIn(m.blocks))
  BY DEF EventsOfBlocks, ResultEvents

\* What is made of every entry of a list.
LEMMA Ones ==
    ASSUME NEW s, IsList(s), NEW t, Over(t, s)
    PROVE  IsList(t) /\ Len(t) = Len(s) /\ DOMAIN t = DOMAIN s /\ (s = <<>> => t = <<>>)
<1>1. IsList(t) /\ Len(t) = Len(s) /\ DOMAIN t = DOMAIN s
  BY Mapped, ListHas DEF Over
<1>2. s = <<>> => Len(t) = 0
  BY <1>1, Nothings
<1>3. QED BY <1>1, <1>2, Nothings

\* The images of a content.
LEMMA ImageAre ==
    ASSUME NEW s, IsList(s)
    PROVE  /\ IsList(ImageEvents(s))
           /\ (\A i \in DOMAIN s : s[i].type \notin {"image"}) => ImageEvents(s) = <<>>
           /\ (\A i \in DOMAIN s : s[i].type \in {"image"}) => ImageEvents(s) = [i \in DOMAIN s |-> <<"image", s[i].at>>]
<1> DEFINE o == OfType(s, {"image"})
           w == ImageEvents(s)
<1>1. /\ IsList(o)
      /\ (\A i \in DOMAIN s : s[i].type \in {"image"}) => o = s
      /\ (\A i \in DOMAIN s : s[i].type \notin {"image"}) => o = <<>>
  BY OfTypePart
<1>2. w = [k \in DOMAIN o |-> <<"image", o[k].at>>]
  BY DEF ImageEvents, Map
<1> HIDE DEF o, w
<1>3. IsList(w) /\ (o = <<>> => w = <<>>)
  BY <1>1, <1>2, Ones DEF Over
<1>4. QED BY <1>1, <1>2, <1>3 DEF w

\* The images of content in a row.
LEMMA ImageJoin ==
    ASSUME NEW s, NEW t, IsList(s), IsList(t)
    PROVE  ImageEvents(s \o t) = ImageEvents(s) \o ImageEvents(t)
<1> DEFINE a == ImageEvents(s)
           b == ImageEvents(t)
           c == ImageEvents(s \o t)
           x == OfType(s, {"image"})
           y == OfType(t, {"image"})
           z == OfType(s \o t, {"image"})
<1>1. IsList(s \o t)
  BY Joined
<1>2. z = x \o y /\ IsList(x) /\ IsList(y)
  BY <1>1, OfTypePart, OfTypeJoin
<1>3. /\ a = [k \in DOMAIN x |-> <<"image", x[k].at>>] /\ b = [k \in DOMAIN y |-> <<"image", y[k].at>>]
      /\ c = [k \in DOMAIN z |-> <<"image", z[k].at>>]
  BY DEF ImageEvents, Map
<1> HIDE DEF a, b, c, x, y, z
<1>4. Over(a, x) /\ Over(b, y) /\ Over(c, x \o y)
  BY <1>2, <1>3 DEF Over
<1>5. /\ \A i \in DOMAIN x : i \in DOMAIN z /\ z[i] = x[i]
      /\ \A i \in DOMAIN y : Len(x) + i \in DOMAIN z /\ z[Len(x) + i] = y[i]
  BY <1>2, JoinedAt
<1>6. /\ \A i \in DOMAIN x : c[i] = a[i]
      /\ \A i \in DOMAIN y : c[Len(x) + i] = b[i]
  BY <1>3, <1>5
<1>7. c = a \o b
  BY <1>2, <1>4, <1>6, MapJoin
<1>8. QED BY <1>7 DEF a, b, c

\* Its calls.
LEMMA CallsAre ==
    ASSUME NEW s, IsList(s)
    PROVE  /\ IsList(CallsIn(s))
           /\ (\A i \in DOMAIN s : s[i].type \notin {"tool_use", "server_use"}) => CallsIn(s) = <<>>
           /\ (\A i \in DOMAIN s : s[i].type \in {"tool_use", "server_use"}) => CallsIn(s) = [i \in DOMAIN s |-> s[i].call]
<1> DEFINE o == OfType(s, {"tool_use", "server_use"})
           w == CallsIn(s)
<1>1. /\ IsList(o)
      /\ (\A i \in DOMAIN s : s[i].type \in {"tool_use", "server_use"}) => o = s
      /\ (\A i \in DOMAIN s : s[i].type \notin {"tool_use", "server_use"}) => o = <<>>
  BY OfTypePart
<1>2. w = [k \in DOMAIN o |-> o[k].call]
  BY DEF CallsIn, Map
<1> HIDE DEF o, w
<1>3. IsList(w) /\ (o = <<>> => w = <<>>)
  BY <1>1, <1>2, Ones DEF Over
<1>4. QED BY <1>1, <1>2, <1>3 DEF w

\* The calls of blocks in a row.
LEMMA CallsJoin ==
    ASSUME NEW s, NEW t, IsList(s), IsList(t)
    PROVE  CallsIn(s \o t) = CallsIn(s) \o CallsIn(t)
<1> DEFINE a == CallsIn(s)
           b == CallsIn(t)
           c == CallsIn(s \o t)
           x == OfType(s, {"tool_use", "server_use"})
           y == OfType(t, {"tool_use", "server_use"})
           z == OfType(s \o t, {"tool_use", "server_use"})
<1>1. IsList(s \o t)
  BY Joined
<1>2. z = x \o y /\ IsList(x) /\ IsList(y)
  BY <1>1, OfTypePart, OfTypeJoin
<1>3. /\ a = [k \in DOMAIN x |-> x[k].call] /\ b = [k \in DOMAIN y |-> y[k].call]
      /\ c = [k \in DOMAIN z |-> z[k].call]
  BY DEF CallsIn, Map
<1> HIDE DEF a, b, c, x, y, z
<1>4. Over(a, x) /\ Over(b, y) /\ Over(c, x \o y)
  BY <1>2, <1>3 DEF Over
<1>5. /\ \A i \in DOMAIN x : i \in DOMAIN z /\ z[i] = x[i]
      /\ \A i \in DOMAIN y : Len(x) + i \in DOMAIN z /\ z[Len(x) + i] = y[i]
  BY <1>2, JoinedAt
<1>6. /\ \A i \in DOMAIN x : c[i] = a[i]
      /\ \A i \in DOMAIN y : c[Len(x) + i] = b[i]
  BY <1>3, <1>5
<1>7. c = a \o b
  BY <1>2, <1>4, <1>6, MapJoin
<1>8. QED BY <1>7 DEF a, b, c

\* Its results.
LEMMA ResultsAre ==
    ASSUME NEW s, IsList(s)
    PROVE  /\ IsList(ResultEvents(s))
           /\ (\A i \in DOMAIN s : s[i].type \notin {"tool_result"}) => ResultEvents(s) = <<>>
           /\ (\A i \in DOMAIN s : s[i].type \in {"tool_result"}) => ResultEvents(s) = [i \in DOMAIN s |-> ResultEvent(s[i].id, FlattenSeq(s[i].content))]
<1> DEFINE o == OfType(s, {"tool_result"})
           w == ResultEvents(s)
<1>1. /\ IsList(o)
      /\ (\A i \in DOMAIN s : s[i].type \in {"tool_result"}) => o = s
      /\ (\A i \in DOMAIN s : s[i].type \notin {"tool_result"}) => o = <<>>
  BY OfTypePart
<1>2. w = [k \in DOMAIN o |-> ResultEvent(o[k].id, FlattenSeq(o[k].content))]
  BY DEF ResultEvents, Map
<1> HIDE DEF o, w
<1>3. IsList(w) /\ (o = <<>> => w = <<>>)
  BY <1>1, <1>2, Ones DEF Over
<1>4. QED BY <1>1, <1>2, <1>3 DEF w

\* The results of blocks in a row.
LEMMA ResultsJoin ==
    ASSUME NEW s, NEW t, IsList(s), IsList(t)
    PROVE  ResultEvents(s \o t) = ResultEvents(s) \o ResultEvents(t)
<1> DEFINE a == ResultEvents(s)
           b == ResultEvents(t)
           c == ResultEvents(s \o t)
           x == OfType(s, {"tool_result"})
           y == OfType(t, {"tool_result"})
           z == OfType(s \o t, {"tool_result"})
<1>1. IsList(s \o t)
  BY Joined
<1>2. z = x \o y /\ IsList(x) /\ IsList(y)
  BY <1>1, OfTypePart, OfTypeJoin
<1>3. /\ a = [k \in DOMAIN x |-> ResultEvent(x[k].id, FlattenSeq(x[k].content))] /\ b = [k \in DOMAIN y |-> ResultEvent(y[k].id, FlattenSeq(y[k].content))]
      /\ c = [k \in DOMAIN z |-> ResultEvent(z[k].id, FlattenSeq(z[k].content))]
  BY DEF ResultEvents, Map
<1> HIDE DEF a, b, c, x, y, z
<1>4. Over(a, x) /\ Over(b, y) /\ Over(c, x \o y)
  BY <1>2, <1>3 DEF Over
<1>5. /\ \A i \in DOMAIN x : i \in DOMAIN z /\ z[i] = x[i]
      /\ \A i \in DOMAIN y : Len(x) + i \in DOMAIN z /\ z[Len(x) + i] = y[i]
  BY <1>2, JoinedAt
<1>6. /\ \A i \in DOMAIN x : c[i] = a[i]
      /\ \A i \in DOMAIN y : c[Len(x) + i] = b[i]
  BY <1>3, <1>5
<1>7. c = a \o b
  BY <1>2, <1>4, <1>6, MapJoin
<1>8. QED BY <1>7 DEF a, b, c

\* What of a text is said.
Speaks(x) == x[1] \notin {"blank", "thinking"}

\* What is said in a text is a list, and nothing in placeholders and thinking.
LEMMA SpokenIs ==
    ASSUME NEW s, IsList(s)
    PROVE  /\ IsList(Spoken(s))
           /\ (\A i \in DOMAIN s : ~Speaks(s[i])) => Spoken(s) = <<>>
<1> DEFINE p == [i \in DOMAIN s |-> IF Speaks(s[i]) THEN <<s[i]>> ELSE <<>>]
<1>1. Spoken(s) = FlattenSeq(p)
  BY DEF Spoken, Pick, Map, Speaks
<1>2. \A i \in DOMAIN s : p[i] = IF Speaks(s[i]) THEN <<s[i]>> ELSE <<>>
  OBVIOUS
<1>3. Over(p, s)
  BY DEF Over
<1> HIDE DEF p
<1>4. \A i \in DOMAIN s : p[i] = <<s[i]>> \/ p[i] = <<>>
  BY <1>2
<1>5. IsList(FlattenSeq(p)) /\ ((\A i \in DOMAIN s : p[i] = <<>>) => FlattenSeq(p) = <<>>)
  BY <1>3, <1>4, PartOf
<1>6. QED BY <1>1, <1>2, <1>5

\* What is said in texts in a row.
LEMMA SpokenJoin ==
    ASSUME NEW s, NEW t, IsList(s), IsList(t)
    PROVE  Spoken(s \o t) = Spoken(s) \o Spoken(t)
<1> DEFINE u == s \o t
           a == [i \in DOMAIN s |-> IF Speaks(s[i]) THEN <<s[i]>> ELSE <<>>]
           b == [i \in DOMAIN t |-> IF Speaks(t[i]) THEN <<t[i]>> ELSE <<>>]
           c == [i \in DOMAIN u |-> IF Speaks(u[i]) THEN <<u[i]>> ELSE <<>>]
<1>1. Spoken(s) = FlattenSeq(a) /\ Spoken(t) = FlattenSeq(b) /\ Spoken(u) = FlattenSeq(c)
  BY DEF Spoken, Pick, Map, Speaks
<1>2. /\ \A i \in DOMAIN s : i \in DOMAIN u /\ u[i] = s[i]
      /\ \A i \in DOMAIN t : Len(s) + i \in DOMAIN u /\ u[Len(s) + i] = t[i]
  BY JoinedAt
<1> HIDE DEF u
<1>3. Over(a, s) /\ Over(b, t) /\ Over(c, u)
  BY DEF Over
<1>4. \A x : IsList(<<x>>)
  BY One
<1>5. /\ \A i \in DOMAIN s : IsList(a[i]) /\ c[i] = a[i]
      /\ \A i \in DOMAIN t : IsList(b[i]) /\ c[Len(s) + i] = b[i]
  BY <1>2, <1>4, Nothings
<1> HIDE DEF a, b, c
<1>6. Over(c, s \o t)
  BY <1>3 DEF u
<1>7. FlattenSeq(c) = FlattenSeq(a) \o FlattenSeq(b)
  BY <1>3, <1>5, <1>6, FlatMapJoin
<1>8. QED BY <1>1, <1>7 DEF u

\* The events of a text.
LEMMA TextEventsAre ==
    ASSUME NEW s, IsList(s), NEW r
    PROVE  IsList(TextEvents(r, s)) /\ (Spoken(s) = <<>> => TextEvents(r, s) = <<>>)
<1> DEFINE o == Spoken(s)
           w == TextEvents(r, s)
<1>1. IsList(o)
  BY SpokenIs
<1>2. w = [k \in DOMAIN o |-> <<r, o[k]>>]
  BY DEF TextEvents, Map
<1> HIDE DEF o, w
<1>3. IsList(w) /\ (o = <<>> => w = <<>>)
  BY <1>1, <1>2, Ones DEF Over
<1>4. QED BY <1>3 DEF o, w

\* The events of texts in a row.
LEMMA TextEventsJoin ==
    ASSUME NEW s, NEW t, IsList(s), IsList(t), NEW r
    PROVE  TextEvents(r, s \o t) = TextEvents(r, s) \o TextEvents(r, t)
<1> DEFINE a == TextEvents(r, s)
           b == TextEvents(r, t)
           c == TextEvents(r, s \o t)
           x == Spoken(s)
           y == Spoken(t)
           z == Spoken(s \o t)
<1>1. IsList(s \o t)
  BY Joined
<1>2. z = x \o y /\ IsList(x) /\ IsList(y)
  BY <1>1, SpokenIs, SpokenJoin
<1>3. a = [k \in DOMAIN x |-> <<r, x[k]>>] /\ b = [k \in DOMAIN y |-> <<r, y[k]>>] /\ c = [k \in DOMAIN z |-> <<r, z[k]>>]
  BY DEF TextEvents, Map
<1> HIDE DEF a, b, c, x, y, z
<1>4. Over(a, x) /\ Over(b, y) /\ Over(c, x \o y)
  BY <1>2, <1>3 DEF Over
<1>5. /\ \A i \in DOMAIN x : i \in DOMAIN z /\ z[i] = x[i]
      /\ \A i \in DOMAIN y : Len(x) + i \in DOMAIN z /\ z[Len(x) + i] = y[i]
  BY <1>2, JoinedAt
<1>6. /\ \A i \in DOMAIN x : c[i] = a[i]
      /\ \A i \in DOMAIN y : c[Len(x) + i] = b[i]
  BY <1>3, <1>5
<1>7. c = a \o b
  BY <1>2, <1>4, <1>6, MapJoin
<1>8. QED BY <1>7 DEF a, b, c

\* The placeholder says nothing.
LEMMA NothingSaid ==
    /\ IsList(Blank) /\ Spoken(Blank) = <<>> /\ Spoken(<<>>) = <<>>
    /\ \A r : TextEvents(r, Blank) = <<>> /\ TextEvents(r, <<>>) = <<>>
<1> DEFINE b == <<"blank">>
<1>1. b[1] = "blank"
  OBVIOUS
<1>2. ~Speaks(b)
  BY <1>1 DEF Speaks
<1> HIDE DEF b
<1>3. IsList(<<b>>) /\ DOMAIN <<b>> = {1} /\ <<b>>[1] = b
  BY One
<1>4. Spoken(<<b>>) = <<>>
  BY <1>2, <1>3, SpokenIs
<1>5. Spoken(<<>>) = <<>>
  BY Nothings, SpokenIs
<1>6. Blank = <<b>>
  BY DEF Blank, b
<1>7. IsList(<<>>)
  BY Nothings
<1>8. QED BY <1>3, <1>4, <1>5, <1>6, <1>7, TextEventsAre

\* The events of calls.
LEMMA CallEventsAre ==
    ASSUME NEW s, IsList(s)
    PROVE  IsList(CallEvents(s)) /\ (s = <<>> => CallEvents(s) = <<>>)
<1> DEFINE w == CallEvents(s)
<1>1. w = [k \in DOMAIN s |-> <<"call", s[k]>>]
  BY DEF CallEvents, Map
<1> HIDE DEF w
<1>2. IsList(w) /\ (s = <<>> => w = <<>>)
  BY <1>1, Ones DEF Over
<1>3. QED BY <1>2 DEF w

\* The events of calls in a row.
LEMMA CallEventsJoin ==
    ASSUME NEW s, NEW t, IsList(s), IsList(t)
    PROVE  CallEvents(s \o t) = CallEvents(s) \o CallEvents(t)
<1> DEFINE a == CallEvents(s)
           b == CallEvents(t)
           c == CallEvents(s \o t)
           u == s \o t
<1>1. a = [k \in DOMAIN s |-> <<"call", s[k]>>] /\ b = [k \in DOMAIN t |-> <<"call", t[k]>>] /\ c = [k \in DOMAIN u |-> <<"call", u[k]>>]
  BY DEF CallEvents, Map
<1>2. /\ \A i \in DOMAIN s : i \in DOMAIN u /\ u[i] = s[i]
      /\ \A i \in DOMAIN t : Len(s) + i \in DOMAIN u /\ u[Len(s) + i] = t[i]
  BY JoinedAt
<1> HIDE DEF a, b, c, u
<1>3. Over(a, s) /\ Over(b, t) /\ Over(c, u)
  BY <1>1 DEF Over
<1>4. /\ \A i \in DOMAIN s : c[i] = a[i]
      /\ \A i \in DOMAIN t : c[Len(s) + i] = b[i]
  BY <1>1, <1>2
<1>5. Over(c, s \o t)
  BY <1>3 DEF u
<1>6. c = a \o b
  BY <1>3, <1>4, <1>5, MapJoin
<1>7. QED BY <1>6 DEF a, b, c

-----------------------------------------------------------------------------
(* Of lists of lists, and of lists changed entry by entry *)

\* Empty content tells nothing.
LEMMA NoWords ==
    Worded(<<>>) /\ ExtractText(<<>>) = <<>> /\ ImageEvents(<<>>) = <<>>
    /\ CallsIn(<<>>) = <<>> /\ ResultEvents(<<>>) = <<>>
<1>1. IsList(<<>>) /\ DOMAIN <<>> = {}
  BY Nothings
<1>2. Worded(<<>>)
  BY <1>1 DEF Worded
<1>3. ExtractText(<<>>) = <<>>
  BY <1>1, <1>2, WordingsAre
<1>4. ImageEvents(<<>>) = <<>> /\ CallsIn(<<>>) = <<>> /\ ResultEvents(<<>>) = <<>>
  BY <1>1, ImageAre, CallsAre, ResultsAre
<1>5. QED BY <1>2, <1>3, <1>4

\* Content in a row has texts where each has.
LEMMA WordedFlat ==
    ASSUME NEW ss, Lists(ss), \A k \in DOMAIN ss : Worded(ss[k])
    PROVE  Worded(FlattenSeq(ss))
<1> DEFINE f == FlattenSeq(ss)
<1>1. IsList(f) /\ \A i \in DOMAIN f : \E k \in DOMAIN ss : \E j \in DOMAIN ss[k] : f[i] = ss[k][j]
  BY FlatList, FlatIn
<1> HIDE DEF f
<1>2. ASSUME NEW i \in DOMAIN f PROVE f[i].type = "text" => IsList(f[i].text)
  <2>1. PICK k \in DOMAIN ss : \E j \in DOMAIN ss[k] : f[i] = ss[k][j]
    BY <1>1
  <2>2. PICK j \in DOMAIN ss[k] : f[i] = ss[k][j]
    BY <2>1
  <2>3. QED BY <2>2 DEF Worded
<1>3. Worded(f)
  BY <1>1, <1>2 DEF Worded
<1>4. QED BY <1>3 DEF f

\* The text of flattened content.
LEMMA ExtractFlat ==
    ASSUME NEW ss, Lists(ss), \A k \in DOMAIN ss : Worded(ss[k]),
           NEW hs, Over(hs, ss), \A k \in DOMAIN ss : hs[k] = ExtractText(ss[k])
    PROVE  Lists(hs) /\ ExtractText(FlattenSeq(ss)) = FlattenSeq(hs)
<1>1. PICK upTo :
        /\ upTo[0] = <<>> /\ FlattenSeq(ss) = upTo[Len(ss)]
        /\ \A n \in 1..Len(ss) : upTo[n] = With(upTo[n - 1], ss[n])
        /\ \A n \in 0..Len(ss) : IsList(upTo[n])
  BY FlatIs
<1> DEFINE N == Len(ss)
           u == [n \in 0..N |-> ExtractText(upTo[n])]
<1>2. N \in Nat /\ DOMAIN ss = 1..N /\ IsList(ss) /\ \A k \in 1..N : Worded(ss[k])
  BY ListHas DEF Lists
<1>3. \A n \in 0..N : Worded(upTo[n])
  <2> DEFINE S == {n \in 0..N : Worded(upTo[n])}
  <2>1. 0 \in S
    BY <1>1, <1>2, NoWords
  <2>2. ASSUME NEW n \in 0..(N - 1), n \in S PROVE n + 1 \in S
    <3>1. n + 1 \in 1..N /\ n + 1 - 1 = n /\ n + 1 \in 0..N
      BY <1>2
    <3>2. upTo[n + 1] = With(upTo[n], ss[n + 1]) /\ Worded(upTo[n]) /\ Worded(ss[n + 1])
      BY <1>1, <1>2, <2>2, <3>1
    <3>3. Worded(upTo[n + 1])
      BY <3>2, BlocksJoin DEF With
    <3>4. QED BY <3>1, <3>3
  <2> HIDE DEF S
  <2>3. 0..N \subseteq S
    BY <1>2, <2>1, <2>2, UpTo
  <2>4. QED BY <2>3 DEF S
<1>4. u[0] = <<>>
  BY <1>1, <1>2, NoWords
<1>5. ASSUME NEW n \in 1..N PROVE u[n] = With(u[n - 1], hs[n])
  <2>1. n \in 0..N /\ n - 1 \in 0..N
    BY <1>2
  <2>2. ExtractText(With(upTo[n - 1], ss[n])) = With(ExtractText(upTo[n - 1]), ExtractText(ss[n]))
    BY <1>2, <1>3, <2>1, ExtractJoin DEF With
  <2>3. QED BY <1>1, <1>2, <2>1, <2>2
<1>6. Lists(hs) /\ Len(hs) = N
  <2>1. IsList(hs) /\ Len(hs) = N /\ DOMAIN hs = DOMAIN ss
    BY <1>2, Ones
  <2>2. \A k \in DOMAIN ss : IsList(hs[k])
    BY <1>2, WordingsAre
  <2>3. QED BY <2>1, <2>2 DEF Lists
<1>7. u[N] = ExtractText(FlattenSeq(ss))
  BY <1>1, <1>2
<1> HIDE DEF u
<1>8. FlattenSeq(hs) = u[N]
  BY <1>4, <1>5, <1>6, FlatBuilt
<1>9. QED BY <1>6, <1>7, <1>8

\* Content each entry of which is replaced by some of the same text has that
\* text.
LEMMA ExtractAlike ==
    ASSUME NEW s, Worded(s), NEW p, Lists(p), Over(p, s),
           \A k \in DOMAIN s : Worded(p[k]) /\ ExtractText(p[k]) = ExtractText(<<s[k]>>)
    PROVE  ExtractText(FlattenSeq(p)) = ExtractText(s)
<1> DEFINE o == [k \in DOMAIN s |-> <<s[k]>>]
           a == [k \in DOMAIN s |-> ExtractText(p[k])]
<1>1. IsList(s)
  BY DEF Worded
<1>2. DOMAIN p = DOMAIN s
  BY DEF Over
<1>3. Lists(o) /\ FlattenSeq(o) = s
  BY <1>1, FlatOnes
<1>4. DOMAIN o = DOMAIN s /\ DOMAIN a = DOMAIN s /\ Over(a, p) /\ Over(a, o)
  BY <1>2 DEF Over
<1>5. /\ \A k \in DOMAIN o : a[k] = ExtractText(o[k])
      /\ \A k \in DOMAIN p : a[k] = ExtractText(p[k])
  BY <1>2
<1> HIDE DEF o, a
<1>6. \A k \in DOMAIN s : Worded(o[k])
  <2> SUFFICES ASSUME NEW k \in DOMAIN s PROVE Worded(o[k])
    OBVIOUS
  <2>1. Worded(<<s[k]>>)
    BY ExtractOne DEF Worded
  <2>2. QED BY <2>1 DEF o
<1>7. ExtractText(FlattenSeq(p)) = FlattenSeq(a)
  BY <1>2, <1>4, <1>5, ExtractFlat
<1>8. ExtractText(FlattenSeq(o)) = FlattenSeq(a)
  BY <1>3, <1>4, <1>5, <1>6, ExtractFlat
<1>9. QED BY <1>3, <1>7, <1>8

\* The images of flattened content.
LEMMA ImageFlat ==
    ASSUME NEW ss, Lists(ss),
           NEW hs, Over(hs, ss), \A k \in DOMAIN ss : hs[k] = ImageEvents(ss[k])
    PROVE  Lists(hs) /\ ImageEvents(FlattenSeq(ss)) = FlattenSeq(hs)
<1>1. PICK upTo :
        /\ upTo[0] = <<>> /\ FlattenSeq(ss) = upTo[Len(ss)]
        /\ \A n \in 1..Len(ss) : upTo[n] = With(upTo[n - 1], ss[n])
        /\ \A n \in 0..Len(ss) : IsList(upTo[n])
  BY FlatIs
<1> DEFINE N == Len(ss)
           u == [n \in 0..N |-> ImageEvents(upTo[n])]
<1>2. N \in Nat /\ DOMAIN ss = 1..N /\ IsList(ss) /\ \A k \in 1..N : IsList(ss[k])
  BY ListHas DEF Lists
<1>3. \A n \in 0..N : IsList(upTo[n])
  BY <1>1
<1>4. u[0] = <<>>
  BY <1>1, <1>2, NoWords
<1>5. ASSUME NEW n \in 1..N PROVE u[n] = With(u[n - 1], hs[n])
  <2>1. n \in 0..N /\ n - 1 \in 0..N
    BY <1>2
  <2>2. ImageEvents(With(upTo[n - 1], ss[n])) = With(ImageEvents(upTo[n - 1]), ImageEvents(ss[n]))
    BY <1>2, <1>3, <2>1, ImageJoin DEF With
  <2>3. QED BY <1>1, <1>2, <2>1, <2>2
<1>6. Lists(hs) /\ Len(hs) = N
  <2>1. IsList(hs) /\ Len(hs) = N /\ DOMAIN hs = DOMAIN ss
    BY <1>2, Ones
  <2>2. \A k \in DOMAIN ss : IsList(hs[k])
    BY <1>2, ImageAre
  <2>3. QED BY <2>1, <2>2 DEF Lists
<1>7. u[N] = ImageEvents(FlattenSeq(ss))
  BY <1>1, <1>2
<1> HIDE DEF u
<1>8. FlattenSeq(hs) = u[N]
  BY <1>4, <1>5, <1>6, FlatBuilt
<1>9. QED BY <1>6, <1>7, <1>8

\* Content each entry of which is replaced by some of the same images has
\* those.
LEMMA ImageAlike ==
    ASSUME NEW s, IsList(s), NEW p, Lists(p), Over(p, s),
           \A k \in DOMAIN s : IsList(p[k]) /\ ImageEvents(p[k]) = ImageEvents(<<s[k]>>)
    PROVE  ImageEvents(FlattenSeq(p)) = ImageEvents(s)
<1> DEFINE o == [k \in DOMAIN s |-> <<s[k]>>]
           a == [k \in DOMAIN s |-> ImageEvents(p[k])]
<1>1. IsList(s)
  BY DEF Over
<1>2. DOMAIN p = DOMAIN s
  BY DEF Over
<1>3. Lists(o) /\ FlattenSeq(o) = s
  BY <1>1, FlatOnes
<1>4. DOMAIN o = DOMAIN s /\ DOMAIN a = DOMAIN s /\ Over(a, p) /\ Over(a, o)
  BY <1>2 DEF Over
<1>5. /\ \A k \in DOMAIN o : a[k] = ImageEvents(o[k])
      /\ \A k \in DOMAIN p : a[k] = ImageEvents(p[k])
  BY <1>2
<1> HIDE DEF o, a
<1>7. ImageEvents(FlattenSeq(p)) = FlattenSeq(a)
  BY <1>2, <1>4, <1>5, ImageFlat
<1>8. ImageEvents(FlattenSeq(o)) = FlattenSeq(a)
  BY <1>3, <1>4, <1>5, ImageFlat
<1>9. QED BY <1>3, <1>7, <1>8

\* The calls of flattened content.
LEMMA CallsFlat ==
    ASSUME NEW ss, Lists(ss),
           NEW hs, Over(hs, ss), \A k \in DOMAIN ss : hs[k] = CallsIn(ss[k])
    PROVE  Lists(hs) /\ CallsIn(FlattenSeq(ss)) = FlattenSeq(hs)
<1>1. PICK upTo :
        /\ upTo[0] = <<>> /\ FlattenSeq(ss) = upTo[Len(ss)]
        /\ \A n \in 1..Len(ss) : upTo[n] = With(upTo[n - 1], ss[n])
        /\ \A n \in 0..Len(ss) : IsList(upTo[n])
  BY FlatIs
<1> DEFINE N == Len(ss)
           u == [n \in 0..N |-> CallsIn(upTo[n])]
<1>2. N \in Nat /\ DOMAIN ss = 1..N /\ IsList(ss) /\ \A k \in 1..N : IsList(ss[k])
  BY ListHas DEF Lists
<1>3. \A n \in 0..N : IsList(upTo[n])
  BY <1>1
<1>4. u[0] = <<>>
  BY <1>1, <1>2, NoWords
<1>5. ASSUME NEW n \in 1..N PROVE u[n] = With(u[n - 1], hs[n])
  <2>1. n \in 0..N /\ n - 1 \in 0..N
    BY <1>2
  <2>2. CallsIn(With(upTo[n - 1], ss[n])) = With(CallsIn(upTo[n - 1]), CallsIn(ss[n]))
    BY <1>2, <1>3, <2>1, CallsJoin DEF With
  <2>3. QED BY <1>1, <1>2, <2>1, <2>2
<1>6. Lists(hs) /\ Len(hs) = N
  <2>1. IsList(hs) /\ Len(hs) = N /\ DOMAIN hs = DOMAIN ss
    BY <1>2, Ones
  <2>2. \A k \in DOMAIN ss : IsList(hs[k])
    BY <1>2, CallsAre
  <2>3. QED BY <2>1, <2>2 DEF Lists
<1>7. u[N] = CallsIn(FlattenSeq(ss))
  BY <1>1, <1>2
<1> HIDE DEF u
<1>8. FlattenSeq(hs) = u[N]
  BY <1>4, <1>5, <1>6, FlatBuilt
<1>9. QED BY <1>6, <1>7, <1>8

\* Content each entry of which is replaced by some of the same calls has
\* those.
LEMMA CallsAlike ==
    ASSUME NEW s, IsList(s), NEW p, Lists(p), Over(p, s),
           \A k \in DOMAIN s : IsList(p[k]) /\ CallsIn(p[k]) = CallsIn(<<s[k]>>)
    PROVE  CallsIn(FlattenSeq(p)) = CallsIn(s)
<1> DEFINE o == [k \in DOMAIN s |-> <<s[k]>>]
           a == [k \in DOMAIN s |-> CallsIn(p[k])]
<1>1. IsList(s)
  BY DEF Over
<1>2. DOMAIN p = DOMAIN s
  BY DEF Over
<1>3. Lists(o) /\ FlattenSeq(o) = s
  BY <1>1, FlatOnes
<1>4. DOMAIN o = DOMAIN s /\ DOMAIN a = DOMAIN s /\ Over(a, p) /\ Over(a, o)
  BY <1>2 DEF Over
<1>5. /\ \A k \in DOMAIN o : a[k] = CallsIn(o[k])
      /\ \A k \in DOMAIN p : a[k] = CallsIn(p[k])
  BY <1>2
<1> HIDE DEF o, a
<1>7. CallsIn(FlattenSeq(p)) = FlattenSeq(a)
  BY <1>2, <1>4, <1>5, CallsFlat
<1>8. CallsIn(FlattenSeq(o)) = FlattenSeq(a)
  BY <1>3, <1>4, <1>5, CallsFlat
<1>9. QED BY <1>3, <1>7, <1>8

\* The results of flattened content.
LEMMA ResultsFlat ==
    ASSUME NEW ss, Lists(ss),
           NEW hs, Over(hs, ss), \A k \in DOMAIN ss : hs[k] = ResultEvents(ss[k])
    PROVE  Lists(hs) /\ ResultEvents(FlattenSeq(ss)) = FlattenSeq(hs)
<1>1. PICK upTo :
        /\ upTo[0] = <<>> /\ FlattenSeq(ss) = upTo[Len(ss)]
        /\ \A n \in 1..Len(ss) : upTo[n] = With(upTo[n - 1], ss[n])
        /\ \A n \in 0..Len(ss) : IsList(upTo[n])
  BY FlatIs
<1> DEFINE N == Len(ss)
           u == [n \in 0..N |-> ResultEvents(upTo[n])]
<1>2. N \in Nat /\ DOMAIN ss = 1..N /\ IsList(ss) /\ \A k \in 1..N : IsList(ss[k])
  BY ListHas DEF Lists
<1>3. \A n \in 0..N : IsList(upTo[n])
  BY <1>1
<1>4. u[0] = <<>>
  BY <1>1, <1>2, NoWords
<1>5. ASSUME NEW n \in 1..N PROVE u[n] = With(u[n - 1], hs[n])
  <2>1. n \in 0..N /\ n - 1 \in 0..N
    BY <1>2
  <2>2. ResultEvents(With(upTo[n - 1], ss[n])) = With(ResultEvents(upTo[n - 1]), ResultEvents(ss[n]))
    BY <1>2, <1>3, <2>1, ResultsJoin DEF With
  <2>3. QED BY <1>1, <1>2, <2>1, <2>2
<1>6. Lists(hs) /\ Len(hs) = N
  <2>1. IsList(hs) /\ Len(hs) = N /\ DOMAIN hs = DOMAIN ss
    BY <1>2, Ones
  <2>2. \A k \in DOMAIN ss : IsList(hs[k])
    BY <1>2, ResultsAre
  <2>3. QED BY <2>1, <2>2 DEF Lists
<1>7. u[N] = ResultEvents(FlattenSeq(ss))
  BY <1>1, <1>2
<1> HIDE DEF u
<1>8. FlattenSeq(hs) = u[N]
  BY <1>4, <1>5, <1>6, FlatBuilt
<1>9. QED BY <1>6, <1>7, <1>8

\* Content each entry of which is replaced by some of the same results has
\* those.
LEMMA ResultsAlike ==
    ASSUME NEW s, IsList(s), NEW p, Lists(p), Over(p, s),
           \A k \in DOMAIN s : IsList(p[k]) /\ ResultEvents(p[k]) = ResultEvents(<<s[k]>>)
    PROVE  ResultEvents(FlattenSeq(p)) = ResultEvents(s)
<1> DEFINE o == [k \in DOMAIN s |-> <<s[k]>>]
           a == [k \in DOMAIN s |-> ResultEvents(p[k])]
<1>1. IsList(s)
  BY DEF Over
<1>2. DOMAIN p = DOMAIN s
  BY DEF Over
<1>3. Lists(o) /\ FlattenSeq(o) = s
  BY <1>1, FlatOnes
<1>4. DOMAIN o = DOMAIN s /\ DOMAIN a = DOMAIN s /\ Over(a, p) /\ Over(a, o)
  BY <1>2 DEF Over
<1>5. /\ \A k \in DOMAIN o : a[k] = ResultEvents(o[k])
      /\ \A k \in DOMAIN p : a[k] = ResultEvents(p[k])
  BY <1>2
<1> HIDE DEF o, a
<1>7. ResultEvents(FlattenSeq(p)) = FlattenSeq(a)
  BY <1>2, <1>4, <1>5, ResultsFlat
<1>8. ResultEvents(FlattenSeq(o)) = FlattenSeq(a)
  BY <1>3, <1>4, <1>5, ResultsFlat
<1>9. QED BY <1>3, <1>7, <1>8

-----------------------------------------------------------------------------
(* Messages *)

\* A message of the chat API, of those that are turns.
IsTurn(m) ==
    /\ m = ChatMessage(m.role, m.content, m.calls, m.result)
    /\ Parts(m.content) /\ IsList(m.calls)
    /\ \/ m.role = "tool"
       \/ m.role = "user" /\ m.calls = <<>>
       \/ m.role = "assistant" /\ \A i \in DOMAIN m.content : m.content[i].type = "text"

Conversation(s) == IsList(s) /\ \A i \in DOMAIN s : IsTurn(s[i])

\* What a message of blocks tells.
Told(r, b) == With(With(With(ResultEvents(b), TextEvents(r, ExtractText(b))), ImageEvents(b)),
                   CallEvents(CallsIn(b)))

\* The events of a message of blocks.
LEMMA ToldIs ==
    ASSUME NEW r, NEW b
    PROVE  EventsOfBlocks(BlockMessage(r, b)) = Told(r, b)
<1>1. BlockMessage(r, b).role = r /\ BlockMessage(r, b).blocks = b
  BY DEF BlockMessage
<1> DEFINE m == BlockMessage(r, b)
<1> HIDE DEF m
<1>2. EventsOfBlocks(m) = Told(m.role, m.blocks)
  BY BlockEvents DEF Told, With
<1>3. QED BY <1>1, <1>2 DEF m

\* The events of a message are a list.
LEMMA ToldIsList ==
    ASSUME NEW r, NEW b, Worded(b)
    PROVE  IsList(Told(r, b))
<1>1. IsList(b)
  BY DEF Worded
<1>2. IsList(ResultEvents(b)) /\ IsList(ImageEvents(b)) /\ IsList(CallsIn(b)) /\ IsList(ExtractText(b))
  BY <1>1, ResultsAre, ImageAre, CallsAre, WordingsAre
<1>3. IsList(TextEvents(r, ExtractText(b))) /\ IsList(CallEvents(CallsIn(b)))
  BY <1>2, TextEventsAre, CallEventsAre
<1>4. QED BY <1>2, <1>3, WithIs DEF Told

\* Calls as blocks tell the calls alone.
LEMMA UsesAre ==
    ASSUME NEW calls, IsList(calls)
    PROVE  LET u == Map(calls, Use)
           IN  /\ Worded(u) /\ (calls = <<>> <=> u = <<>>)
               /\ ResultEvents(u) = <<>> /\ ExtractText(u) = <<>> /\ ImageEvents(u) = <<>> /\ CallsIn(u) = calls
               /\ DOMAIN u = DOMAIN calls /\ \A i \in DOMAIN u : u[i] = Use(calls[i]) /\ u[i].type = "tool_use"
<1> DEFINE u == Map(calls, Use)
<1>1. u = [i \in DOMAIN calls |-> Use(calls[i])]
  BY DEF Map
<1>a. \A x : Use(x).type = "tool_use" /\ Use(x).call = x
  BY DEF Use
<1>b. \A i \in DOMAIN calls : u[i] = Use(calls[i])
  BY <1>1
<1>2. \A i \in DOMAIN calls : u[i] = Use(calls[i]) /\ u[i].type = "tool_use" /\ u[i].call = calls[i]
  BY <1>a, <1>b
<1>3. Over(u, calls)
  BY <1>1 DEF Over
<1> HIDE DEF u
<1>4. IsList(u) /\ DOMAIN u = DOMAIN calls /\ Len(u) = Len(calls) /\ (calls = <<>> => u = <<>>)
  BY <1>3, Ones
<1>5. u = <<>> => calls = <<>>
  BY <1>4, Nothings
<1>6. Worded(u)
  BY <1>2, <1>4 DEF Worded
<1>7. ResultEvents(u) = <<>> /\ ExtractText(u) = <<>> /\ ImageEvents(u) = <<>>
  BY <1>2, <1>4, <1>6, ResultsAre, ImageAre, WordingsAre
<1>8. CallsIn(u) = calls
  <2>1. CallsIn(u) = [i \in DOMAIN u |-> u[i].call]
    BY <1>2, <1>4, CallsAre
  <2>2. calls = [i \in DOMAIN calls |-> calls[i]]
    BY ListHas
  <2>3. QED BY <1>2, <1>4, <2>1, <2>2
<1>9. QED BY <1>2, <1>4, <1>5, <1>6, <1>7, <1>8 DEF u

\* Parts tell neither results nor calls.
LEMMA PartsAre ==
    ASSUME NEW s, Parts(s)
    PROVE  Worded(s) /\ IsList(s) /\ ResultEvents(s) = <<>> /\ CallsIn(s) = <<>>
<1>1. IsList(s) /\ \A i \in DOMAIN s : s[i].type \in {"text", "image"}
  BY DEF Parts, IsPart
<1>2. Worded(s)
  BY Kinds
<1>3. QED BY <1>1, <1>2, ResultsAre, CallsAre

\* What a content tells beside its calls.
LEMMA ToldBeside ==
    ASSUME NEW r, NEW c, NEW calls, Worded(c), ResultEvents(c) = <<>>, CallsIn(c) = <<>>, IsList(calls)
    PROVE  Told(r, c \o Map(calls, Use))
             = With(With(TextEvents(r, ExtractText(c)), ImageEvents(c)), CallEvents(calls))
<1> DEFINE u == Map(calls, Use)
           b == c \o u
<1>1. /\ Worded(u) /\ ResultEvents(u) = <<>> /\ ExtractText(u) = <<>> /\ ImageEvents(u) = <<>>
      /\ CallsIn(u) = calls
  BY UsesAre
<1>2. IsList(c) /\ IsList(u)
  BY <1>1 DEF Worded
<1> HIDE DEF u
<1>3. /\ IsList(ExtractText(c)) /\ IsList(ImageEvents(c))
  BY <1>2, WordingsAre, ImageAre
<1>4. ResultEvents(b) = <<>> \o <<>> /\ ExtractText(b) = ExtractText(c) \o <<>>
      /\ ImageEvents(b) = ImageEvents(c) \o <<>> /\ CallsIn(b) = <<>> \o calls
  <2>1. ResultEvents(b) = ResultEvents(c) \o ResultEvents(u)
    BY <1>2, ResultsJoin
  <2>2. ExtractText(b) = ExtractText(c) \o ExtractText(u)
    BY <1>1, ExtractJoin
  <2>3. ImageEvents(b) = ImageEvents(c) \o ImageEvents(u)
    BY <1>2, ImageJoin
  <2>4. CallsIn(b) = CallsIn(c) \o CallsIn(u)
    BY <1>2, CallsJoin
  <2>5. QED BY <1>1, <2>1, <2>2, <2>3, <2>4
<1>5. ResultEvents(b) = <<>> /\ ExtractText(b) = ExtractText(c) /\ ImageEvents(b) = ImageEvents(c)
      /\ CallsIn(b) = calls
  BY <1>3, <1>4, Nothings
<1>6. IsList(TextEvents(r, ExtractText(c)))
  BY <1>3, TextEventsAre
<1> HIDE DEF b
<1>7. Told(r, b) = With(With(TextEvents(r, ExtractText(c)), ImageEvents(c)), CallEvents(calls))
  BY <1>5, <1>6, WithIs DEF Told
<1>8. QED BY <1>7 DEF b, u

\* What parts tell.
LEMMA ToldAlone ==
    ASSUME NEW r, NEW c, Worded(c), ResultEvents(c) = <<>>, CallsIn(c) = <<>>
    PROVE  Told(r, c) = With(TextEvents(r, ExtractText(c)), ImageEvents(c))
<1>1. IsList(c) /\ IsList(ExtractText(c)) /\ IsList(ImageEvents(c))
  BY WordingsAre, ImageAre DEF Worded
<1>2. IsList(TextEvents(r, ExtractText(c))) /\ CallEvents(<<>>) = <<>>
  BY <1>1, TextEventsAre, CallEventsAre, Nothings
<1>3. IsList(With(TextEvents(r, ExtractText(c)), ImageEvents(c)))
  BY <1>1, <1>2, WithIs
<1>4. QED BY <1>1, <1>2, <1>3, WithIs DEF Told

\* A message with the placeholder or with nothing for its text.
LEMMA ToldNothing ==
    ASSUME NEW r, NEW t \in {<<>>, Blank}
    PROVE  Told(r, <<Text(t)>>) = <<>>
<1> DEFINE e == Text(t)
           c == <<e>>
<1>1. e.type = "text" /\ e.text = t /\ IsList(t)
  BY NothingSaid, Nothings DEF Text
<1> HIDE DEF e
<1>2. Worded(c) /\ ExtractText(c) = t
  BY <1>1, ExtractOne
<1>3. IsList(c) /\ \A i \in DOMAIN c : c[i].type = "text"
  BY <1>1, One
<1> HIDE DEF c
<1>4. ResultEvents(c) = <<>> /\ CallsIn(c) = <<>> /\ ImageEvents(c) = <<>>
  BY <1>3, ResultsAre, CallsAre, ImageAre
<1>5. TextEvents(r, t) = <<>>
  BY NothingSaid
<1>6. Told(r, c) = With(<<>>, <<>>)
  BY <1>2, <1>4, <1>5, ToldAlone
<1>7. With(<<>>, <<>>) = <<>>
  BY Nothings, WithIs
<1>8. QED BY <1>6, <1>7 DEF c, e

\* A message of one result.
ResultOf(e, id, t) == e.type = "tool_result" /\ e.id = id /\ e.content = <<t>>

\* What the message tells.
LEMMA ToldResult ==
    ASSUME NEW r, NEW id, NEW t, IsList(t), NEW e, ResultOf(e, id, t)
    PROVE  Told(r, <<e>>) = <<ResultEvent(id, t)>>
<1> DEFINE c == <<e>>
<1>1. e.type = "tool_result" /\ e.id = id /\ e.content = <<t>>
  BY DEF ResultOf
<1>a. FlattenSeq(<<t>>) = t
  BY FlatOne
<1>2. IsList(c) /\ DOMAIN c = {1} /\ c[1] = e /\ Worded(c) /\ ExtractText(c) = <<>>
  BY <1>1, One, ExtractOne
<1>3. \A i \in DOMAIN c : c[i].type = "tool_result" /\ c[i].id = id /\ FlattenSeq(c[i].content) = t
  BY <1>1, <1>2, <1>a
<1> HIDE DEF c
<1>4. CallsIn(c) = <<>> /\ ImageEvents(c) = <<>>
  BY <1>2, <1>3, CallsAre, ImageAre
<1>5. ResultEvents(c) = <<ResultEvent(id, t)>>
  <2>1. ResultEvents(c) = [i \in DOMAIN c |-> ResultEvent(c[i].id, FlattenSeq(c[i].content))]
    BY <1>2, <1>3, ResultsAre
  <2>2. ResultEvents(c) = [i \in {1} |-> ResultEvent(id, t)]
    BY <1>2, <1>3, <2>1
  <2> DEFINE x == ResultEvent(id, t)
  <2> HIDE DEF x
  <2>3. [i \in {1} |-> x] = <<x>>
    OBVIOUS
  <2>4. QED BY <2>2, <2>3 DEF x
<1>6. TextEvents(r, <<>>) = <<>> /\ CallEvents(<<>>) = <<>>
  BY NothingSaid, CallEventsAre, Nothings
<1>7. IsList(<<ResultEvent(id, t)>>)
  BY One
<1>8. Told(r, c) = <<ResultEvent(id, t)>>
  BY <1>2, <1>4, <1>5, <1>6, <1>7, WithIs DEF Told
<1>9. QED BY <1>8 DEF c

\* What a turn tells.
LEMMA TurnTells ==
    ASSUME NEW m, IsTurn(m)
    PROVE  /\ m.role = "tool" => EventsOfChat(m) = <<ResultEvent(m.result, ExtractText(m.content))>>
           /\ m.role # "tool" =>
                EventsOfChat(m) = With(With(TextEvents(m.role, ExtractText(m.content)), ImageEvents(m.content)),
                                       CallEvents(m.calls))
           /\ IsList(EventsOfChat(m)) /\ ~IsSystem(m)
<1>1. m.role # "tool" =>
        EventsOfChat(m) = With(With(TextEvents(m.role, ExtractText(m.content)), ImageEvents(m.content)),
                               CallEvents(m.calls))
  BY DEF EventsOfChat, With
<1>2. m.role = "tool" => EventsOfChat(m) = <<ResultEvent(m.result, ExtractText(m.content))>>
  BY DEF EventsOfChat
<1>3. IsList(m.calls) /\ IsList(m.content) /\ Worded(m.content)
  BY PartsAre DEF IsTurn
<1>4. IsList(CallEvents(m.calls)) /\ IsList(ImageEvents(m.content)) /\ IsList(ExtractText(m.content))
  BY <1>3, CallEventsAre, ImageAre, WordingsAre
<1>5. IsList(TextEvents(m.role, ExtractText(m.content)))
  BY <1>4, TextEventsAre
<1>6. IsList(EventsOfChat(m))
  <2>1. CASE m.role = "tool"
    BY <1>2, <2>1, One
  <2>2. CASE m.role # "tool"
    BY <1>1, <1>4, <1>5, <2>2, WithIs
  <2>3. QED BY <2>1, <2>2
<1>7. ~IsSystem(m)
  BY DEF IsSystem, IsTurn
<1>8. QED BY <1>1, <1>2, <1>6, <1>7

\* A turn as Anthropic's blocks tells what it told.
LEMMA MessagesMessageTells ==
    ASSUME NEW m, IsTurn(m)
    PROVE  EventsOfBlocks(MessagesMessage(m)) = EventsOfChat(m)
<1>1. IsList(m.calls) /\ Parts(m.content) /\ Worded(m.content) /\ IsList(m.content)
      /\ ResultEvents(m.content) = <<>> /\ CallsIn(m.content) = <<>>
  BY PartsAre DEF IsTurn
<1>2. IsList(ExtractText(m.content))
  BY <1>1, WordingsAre
<1>3. CASE m.role = "tool"
  <2>1. MessagesMessage(m) = BlockMessage("user", <<Result(m.result, <<ExtractText(m.content)>>, FALSE)>>)
    BY <1>3 DEF MessagesMessage
  <2>2. Told("user", <<Result(m.result, <<ExtractText(m.content)>>, FALSE)>>)
          = <<ResultEvent(m.result, ExtractText(m.content))>>
    <3> DEFINE x == ExtractText(m.content)
               e == Result(m.result, <<x>>, FALSE)
    <3>1. ResultOf(e, m.result, x) /\ IsList(x)
      BY <1>2 DEF ResultOf, Result
    <3> HIDE DEF x, e
    <3>2. Told("user", <<e>>) = <<ResultEvent(m.result, x)>>
      BY <3>1, ToldResult
    <3>3. QED BY <3>2 DEF x, e
  <2>3. EventsOfChat(m) = <<ResultEvent(m.result, ExtractText(m.content))>>
    BY <1>3, TurnTells
  <2>4. QED BY <2>1, <2>2, <2>3, ToldIs
<1>4. CASE m.role # "tool"
  <2> DEFINE b == m.content \o Map(m.calls, Use)
  <2>1. Told(m.role, b) = EventsOfChat(m)
    BY <1>1, <1>4, ToldBeside, TurnTells
  <2>2. MessagesMessage(m) = BlockMessage(m.role, IF b = <<>> THEN <<Text(<<>>)>> ELSE b)
    BY <1>4 DEF MessagesMessage, AnthropicContent, Uses
  <2> HIDE DEF b
  <2>3. CASE b = <<>>
    <3>1. Told(m.role, <<>>) = With(TextEvents(m.role, <<>>), <<>>)
      BY NoWords, ToldAlone
    <3>2. TextEvents(m.role, <<>>) = <<>> /\ With(<<>>, <<>>) = <<>>
      BY NothingSaid, Nothings, WithIs
    <3>3. MessagesMessage(m) = BlockMessage(m.role, <<Text(<<>>)>>)
      BY <2>2, <2>3
    <3>4. Told(m.role, <<Text(<<>>)>>) = <<>>
      BY ToldNothing
    <3>5. QED BY <2>1, <2>3, <3>1, <3>2, <3>3, <3>4, ToldIs
  <2>4. CASE b # <<>>
    BY <2>1, <2>2, <2>4, ToldIs
  <2>5. QED BY <2>3, <2>4
<1>5. QED BY <1>3, <1>4

-----------------------------------------------------------------------------
(* Turns for Bedrock *)

\* The placeholder tells nothing.
LEMMA AtLeastOneTells ==
    ASSUME NEW r, NEW b
    PROVE  Told(r, AtLeastOne(b)) = Told(r, b)
<1>1. CASE b = <<>>
  <2>1. Told(r, <<>>) = With(TextEvents(r, <<>>), <<>>)
    BY NoWords, ToldAlone
  <2>2. TextEvents(r, <<>>) = <<>> /\ With(<<>>, <<>>) = <<>>
    BY NothingSaid, Nothings, WithIs
  <2>3. Told(r, <<Text(Blank)>>) = <<>>
    BY ToldNothing
  <2>4. AtLeastOne(b) = <<Text(Blank)>>
    BY <1>1 DEF AtLeastOne
  <2>5. QED BY <1>1, <2>1, <2>2, <2>3, <2>4
<1>2. CASE b # <<>>
  BY <1>2 DEF AtLeastOne
<1>3. QED BY <1>1, <1>2

\* What Bedrock takes; in results, empty texts are let pass where the client
\* wrote the blocks.
FitBlock(b, own) ==
    /\ b.type = "text" => b.text # <<>>
    /\ b.type = "tool_result" => b.content # <<>> /\ (~own => <<>> \notin ToSet(b.content))

Fit(blocks, own) == blocks # <<>> /\ \A k \in DOMAIN blocks : FitBlock(blocks[k], own)

\* Blocks that fit are a message that fits, with the placeholder where there
\* are none.
LEMMA FitIs ==
    ASSUME NEW own \in BOOLEAN, NEW s, IsList(s), \A k \in DOMAIN s : FitBlock(s[k], own)
    PROVE  Fit(AtLeastOne(s), own)
<1> DEFINE e == Text(Blank)
<1>1. FitBlock(e, own)
  <2>1. e.type = "text" /\ e.text = Blank
    BY DEF Text
  <2>2. Blank # <<>>
    BY DEF Blank
  <2> HIDE DEF e
  <2>3. QED BY <2>1, <2>2 DEF FitBlock
<1> HIDE DEF e
<1>2. DOMAIN <<e>> = {1} /\ <<e>>[1] = e /\ Len(<<e>>) = 1 /\ <<e>> # <<>>
  BY One
<1>3. AtLeastOne(s) = IF s = <<>> THEN <<e>> ELSE s
  BY DEF AtLeastOne, e
<1>4. CASE s = <<>>
  <2> DEFINE a == AtLeastOne(s)
  <2>1. DOMAIN a = {1} /\ a[1] = e /\ a # <<>>
    BY <1>2, <1>3, <1>4
  <2> HIDE DEF a
  <2>2. Fit(a, own)
    BY <1>1, <2>1 DEF Fit, FitBlock
  <2>3. QED BY <2>2 DEF a
<1>5. CASE s # <<>>
  BY <1>3, <1>5 DEF Fit, FitBlock
<1>6. QED BY <1>4, <1>5

\* What of a user's content is not an empty text.
LEMMA SaidAre ==
    ASSUME NEW c, Parts(c)
    PROVE  /\ Parts(Said(c)) /\ ExtractText(Said(c)) = ExtractText(c) /\ ImageEvents(Said(c)) = ImageEvents(c)
           /\ \A k \in DOMAIN Said(c) : FitBlock(Said(c)[k], FALSE)
<1> DEFINE p == [i \in DOMAIN c |-> IF ~(c[i].type = "text" /\ c[i].text = <<>>) THEN <<c[i]>> ELSE <<>>]
<1>1. Said(c) = FlattenSeq(p)
  BY DEF Said, Pick, Map
<1>2. \A i \in DOMAIN c : p[i] = IF ~(c[i].type = "text" /\ c[i].text = <<>>) THEN <<c[i]>> ELSE <<>>
  OBVIOUS
<1>3. Over(p, c) /\ IsList(c) /\ Worded(c)
  BY PartsAre DEF Over
<1> HIDE DEF p
<1>4. \A i \in DOMAIN c : <<c[i]>> # <<>>
  OBVIOUS
<1> DEFINE f == FlattenSeq(p)
<1>5. /\ Lists(p) /\ IsList(f)
      /\ \A k \in DOMAIN f : \E i \in DOMAIN c : f[k] = c[i] /\ p[i] # <<>>
  <2>1. \A i \in DOMAIN c : p[i] = <<c[i]>> \/ p[i] = <<>>
    BY <1>2
  <2>2. QED BY <1>3, <2>1, PartOf
<1>6. ASSUME NEW i \in DOMAIN c
      PROVE  Worded(p[i]) /\ ExtractText(p[i]) = ExtractText(<<c[i]>>) /\ ImageEvents(p[i]) = ImageEvents(<<c[i]>>)
  <2>1. CASE c[i].type = "text" /\ c[i].text = <<>>
    <3>1. p[i] = <<>>
      BY <1>2, <2>1
    <3> DEFINE e == c[i]
    <3>2. e.type = "text" /\ e.text = <<>> /\ IsList(e.text)
      BY <2>1, Nothings
    <3> HIDE DEF e
    <3>3. ExtractText(<<e>>) = <<>>
      BY <3>2, ExtractOne
    <3>4. IsList(<<e>>) /\ DOMAIN <<e>> = {1} /\ <<e>>[1] = e
      BY One
    <3>5. ImageEvents(<<e>>) = <<>>
      BY <3>2, <3>4, ImageAre
    <3>6. QED BY <3>1, <3>3, <3>5, NoWords DEF e
  <2>2. CASE ~(c[i].type = "text" /\ c[i].text = <<>>)
    <3>1. p[i] = <<c[i]>>
      BY <1>2, <2>2
    <3>2. Worded(<<c[i]>>)
      BY <1>3, ExtractOne DEF Worded
    <3>3. QED BY <3>1, <3>2
  <2>3. QED BY <2>1, <2>2
<1>7. ExtractText(f) = ExtractText(c)
  BY <1>3, <1>5, <1>6, ExtractAlike
<1>8. ImageEvents(f) = ImageEvents(c)
  <2>1. \A i \in DOMAIN c : IsList(p[i]) /\ ImageEvents(p[i]) = ImageEvents(<<c[i]>>)
    BY <1>6 DEF Worded
  <2>2. QED BY <1>3, <1>5, <2>1, ImageAlike
<1> HIDE DEF f
<1>9. \A k \in DOMAIN f : \E i \in DOMAIN c : f[k] = c[i] /\ ~(c[i].type = "text" /\ c[i].text = <<>>)
  BY <1>2, <1>5
<1>10. Parts(f)
  BY <1>5, <1>9 DEF Parts
<1>11. \A k \in DOMAIN f : FitBlock(f[k], FALSE)
  <2>1. \A i \in DOMAIN c : c[i].type # "tool_result"
    BY DEF Parts, IsPart
  <2>2. QED BY <1>9, <2>1 DEF FitBlock
<1>12. QED BY <1>1, <1>7, <1>8, <1>10, <1>11 DEF f

\* A turn for Bedrock tells what it told, and is something it takes.
LEMMA BedrockMessageTells ==
    ASSUME NEW m, IsTurn(m)
    PROVE  EventsOfBlocks(BedrockMessage(m)) = EventsOfChat(m) /\ Fit(BedrockMessage(m).blocks, FALSE)
<1>0. \A r, b : BlockMessage(r, b).blocks = b
  BY DEF BlockMessage
<1>1. IsList(m.calls) /\ Parts(m.content) /\ Worded(m.content) /\ IsList(m.content)
      /\ ResultEvents(m.content) = <<>> /\ CallsIn(m.content) = <<>>
  BY PartsAre DEF IsTurn
<1> DEFINE t == ExtractText(m.content)
<1>2. IsList(t)
  BY <1>1, WordingsAre
<1> HIDE DEF t
<1>3. CASE m.role = "tool"
  <2> DEFINE e == Result(m.result, <<NotBlank(t)>>, FALSE)
  <2>1. BedrockMessage(m) = BlockMessage("user", <<e>>)
    BY <1>3 DEF BedrockMessage, t
  <2>2. IsList(NotBlank(t)) /\ Spoken(NotBlank(t)) = Spoken(t)
    BY <1>2, NothingSaid DEF NotBlank
  <2>3. Told("user", <<e>>) = <<ResultEvent(m.result, NotBlank(t))>>
    <3> DEFINE x == NotBlank(t)
               id == m.result
    <3>1. IsList(x) /\ ResultOf(e, id, x)
      BY <2>2 DEF ResultOf, Result
    <3> HIDE DEF x, id, e
    <3>2. Told("user", <<e>>) = <<ResultEvent(id, x)>>
      BY <3>1, ToldResult
    <3>3. QED BY <3>2 DEF x, id
  <2>4. ResultEvent(m.result, NotBlank(t)) = ResultEvent(m.result, t)
    BY <2>2 DEF ResultEvent
  <2>5. EventsOfChat(m) = <<ResultEvent(m.result, t)>>
    BY <1>3, TurnTells DEF t
  <2>6. FitBlock(e, FALSE)
    <3> DEFINE n == NotBlank(t)
    <3>1. e.type = "tool_result" /\ e.content = <<n>>
      BY DEF Result
    <3>2. n # <<>>
      BY DEF NotBlank, Blank
    <3> HIDE DEF e, n
    <3>3. <<n>> # <<>> /\ <<>> \notin ToSet(<<n>>)
      BY <3>2, One DEF ToSet
    <3>4. QED BY <3>1, <3>3 DEF FitBlock
  <2> HIDE DEF e
  <2>7. Fit(<<e>>, FALSE)
    <3> DEFINE s == <<e>>
    <3>1. DOMAIN s = {1} /\ s[1] = e /\ s # <<>>
      OBVIOUS
    <3> HIDE DEF s
    <3>2. Fit(s, FALSE)
      BY <2>6, <3>1 DEF Fit, FitBlock
    <3>3. QED BY <3>2 DEF s
  <2>8. QED BY <1>0, <2>1, <2>3, <2>4, <2>5, <2>7, ToldIs
<1>4. CASE m.role = "user"
  <2> DEFINE s == Said(m.content)
  <2>1. /\ Parts(s) /\ ExtractText(s) = t /\ ImageEvents(s) = ImageEvents(m.content)
        /\ \A k \in DOMAIN s : FitBlock(s[k], FALSE)
    BY <1>1, SaidAre DEF t
  <2>2. BedrockMessage(m) = BlockMessage("user", AtLeastOne(s))
    BY <1>4 DEF BedrockMessage
  <2>3. EventsOfChat(m) = With(With(TextEvents("user", t), ImageEvents(m.content)), CallEvents(<<>>))
    BY <1>4, TurnTells DEF t, IsTurn
  <2> HIDE DEF s
  <2>4. Worded(s) /\ IsList(s) /\ ResultEvents(s) = <<>> /\ CallsIn(s) = <<>>
    BY <2>1, PartsAre
  <2>5. Told("user", s) = With(With(TextEvents("user", t), ImageEvents(m.content)), CallEvents(<<>>))
    BY <2>1, <2>4, NothingSaid, Nothings, WithIs, ResultsAre, TextEventsAre, <1>2 DEF Told
  <2>6. QED BY <1>0, <2>1, <2>2, <2>3, <2>4, <2>5, AtLeastOneTells, FitIs, ToldIs
<1>5. CASE m.role = "assistant"
  <2> DEFINE a == AssistantText(m)
             b == a \o Map(m.calls, Use)
  <2>1. BedrockMessage(m) = BlockMessage("assistant", AtLeastOne(b))
    BY <1>5 DEF BedrockMessage, Uses
  <2>2. /\ Worded(a) /\ ExtractText(a) = t /\ ImageEvents(a) = <<>> /\ ResultEvents(a) = <<>> /\ CallsIn(a) = <<>>
        /\ \A k \in DOMAIN a : FitBlock(a[k], FALSE)
    <3>1. CASE t = <<>>
      <4>1. a = <<>>
        BY <3>1 DEF AssistantText, t
      <4> HIDE DEF a
      <4>2. QED BY <3>1, <4>1, NoWords, Nothings
    <3>2. CASE t # <<>>
      <4> DEFINE e == Text(t)
      <4>1. a = <<e>>
        BY <3>2 DEF AssistantText, t
      <4>2. e.type = "text" /\ e.text = t
        BY DEF Text
      <4> HIDE DEF a, e
      <4>3. IsList(a) /\ DOMAIN a = {1} /\ a[1] = e
        BY <4>1, One
      <4>4. Worded(a) /\ ExtractText(a) = t
        BY <1>2, <4>1, <4>2, ExtractOne
      <4>5. ImageEvents(a) = <<>> /\ ResultEvents(a) = <<>> /\ CallsIn(a) = <<>>
        BY <4>2, <4>3, ImageAre, ResultsAre, CallsAre
      <4>6. FitBlock(e, FALSE)
        BY <3>2, <4>2 DEF FitBlock
      <4>7. QED BY <4>3, <4>4, <4>5, <4>6
    <3>3. QED BY <3>1, <3>2
  <2>3. ImageEvents(m.content) = <<>>
    BY <1>1, <1>5, ImageAre DEF IsTurn
  <2> HIDE DEF a
  <2>4. Told("assistant", b) = EventsOfChat(m)
    BY <1>1, <1>5, <2>2, <2>3, ToldBeside, TurnTells DEF t
  <2> DEFINE u == Map(m.calls, Use)
  <2>5. IsList(a) /\ IsList(u) /\ \A k \in DOMAIN u : u[k].type = "tool_use"
    BY <1>1, <2>2, UsesAre DEF Worded
  <2> HIDE DEF u
  <2>6. \A k \in DOMAIN u : FitBlock(u[k], FALSE)
    BY <2>5 DEF FitBlock
  <2>7. b = a \o u
    BY DEF u
  <2> HIDE DEF b
  <2>8. IsList(b) /\ \A k \in DOMAIN b : FitBlock(b[k], FALSE)
    <3>1. IsList(a \o u)
      BY <2>5, Joined
    <3>2. \A k \in DOMAIN (a \o u) : \/ k \in DOMAIN a /\ (a \o u)[k] = a[k]
                                     \/ \E j \in DOMAIN u : k = Len(a) + j /\ (a \o u)[k] = u[j]
      BY <2>5, JoinedAt
    <3>3. QED BY <2>2, <2>6, <2>7, <3>1, <3>2
  <2>9. QED BY <1>0, <2>1, <2>4, <2>8, AtLeastOneTells, FitIs, ToldIs
<1>6. QED BY <1>3, <1>4, <1>5 DEF IsTurn

-----------------------------------------------------------------------------
(* Conversations *)

\* Of chat messages, what is not an instruction.
Speech(m) == ~IsSystem(m) /\ IsList(EventsOfChat(m))
Speeches(s) == IsList(s) /\ \A i \in DOMAIN s : Speech(s[i])
ChatTold(s) == FlattenSeq(Map(s, EventsOfChat))

\* A message of blocks.
IsBlockMessage(m) ==
    m = BlockMessage(m.role, m.blocks) /\ m.role \in {"user", "assistant"} /\ Blocks(m.blocks)
Dialogue(s) == IsList(s) /\ \A i \in DOMAIN s : IsBlockMessage(s[i])
DialogueTold(s) == FlattenSeq(Map(s, EventsOfBlocks))

\* An item that is input.
IsItem(it) ==
    \/ /\ it.type = "message" /\ it.role \in {"user", "assistant"} /\ Parts(it.content)
       /\ it.role = "assistant" => \A i \in DOMAIN it.content : it.content[i].type = "text"
    \/ it.type = "function_call"
    \/ it.type = "function_call_output" /\ IsList(it.output)
    \/ it.type = "item_reference"
Items(s) == IsList(s) /\ \A i \in DOMAIN s : IsItem(s[i])
ItemsTold(s) == FlattenSeq(Map(s, EventsOfItem))

\* The events of a chat message are a list.
LEMMA SpeechTells ==
    ASSUME NEW m, Speech(m)
    PROVE  IsList(EventsOfChat(m))
  BY DEF Speech

\* The events of an Anthropic message.
LEMMA DialogueTells ==
    ASSUME NEW m, IsBlockMessage(m)
    PROVE  IsList(EventsOfBlocks(m)) /\ EventsOfBlocks(m) = Told(m.role, m.blocks)
<1>1. Worded(m.blocks)
  BY Kinds DEF IsBlockMessage
<1>2. EventsOfBlocks(m) = Told(m.role, m.blocks)
  BY ToldIs DEF IsBlockMessage
<1>3. QED BY <1>1, <1>2, ToldIsList

\* The events of an item.
LEMMA ItemTells ==
    ASSUME NEW it, IsItem(it)
    PROVE  /\ IsList(EventsOfItem(it))
           /\ it.type = "message" =>
                EventsOfItem(it) = With(TextEvents(it.role, ExtractText(it.content)), ImageEvents(it.content))
<1>1. CASE it.type = "message"
  <2>1. EventsOfItem(it) = With(TextEvents(it.role, ExtractText(it.content)), ImageEvents(it.content))
    BY <1>1 DEF EventsOfItem, With
  <2>2. Worded(it.content) /\ IsList(it.content)
    BY <1>1, PartsAre DEF IsItem
  <2>3. IsList(TextEvents(it.role, ExtractText(it.content))) /\ IsList(ImageEvents(it.content))
    BY <2>2, WordingsAre, TextEventsAre, ImageAre
  <2>4. QED BY <2>1, <2>3, WithIs
<1>2. CASE it.type = "function_call"
  <2> DEFINE e == <<"call", it.call>>
  <2>1. EventsOfItem(it) = <<e>>
    BY <1>2 DEF EventsOfItem
  <2> HIDE DEF e
  <2>2. QED BY <1>2, <2>1, One
<1>3. CASE it.type = "function_call_output"
  <2> DEFINE e == ResultEvent(it.id, it.output)
  <2>1. EventsOfItem(it) = <<e>>
    BY <1>3 DEF EventsOfItem
  <2> HIDE DEF e
  <2>2. QED BY <1>3, <2>1, One
<1>4. CASE it.type = "item_reference"
  BY <1>4, Nothings DEF EventsOfItem
<1>5. QED BY <1>1, <1>2, <1>3, <1>4 DEF IsItem

\* What chat messages tell.
LEMMA SpeechEvents ==
    ASSUME NEW s, Speeches(s)
    PROVE  /\ Lists(Map(s, EventsOfChat)) /\ Over(Map(s, EventsOfChat), s) /\ IsList(ChatTold(s))
           /\ \A i \in DOMAIN s : Map(s, EventsOfChat)[i] = EventsOfChat(s[i])
<1> DEFINE a == Map(s, EventsOfChat)
<1>1. Over(a, s) /\ \A i \in DOMAIN s : a[i] = EventsOfChat(s[i])
  BY DEF Map, Over
<1>2. \A i \in DOMAIN s : IsList(EventsOfChat(s[i]))
  BY SpeechTells DEF Speeches
<1> HIDE DEF a
<1>3. IsList(a) /\ DOMAIN a = DOMAIN s
  BY <1>1, Ones DEF Speeches
<1>4. Lists(a)
  BY <1>1, <1>2, <1>3 DEF Lists
<1>5. IsList(FlattenSeq(a))
  BY <1>4, FlatList
<1>6. QED BY <1>1, <1>4, <1>5 DEF a, ChatTold

\* Chat messages in a row.
LEMMA SpeechJoin ==
    ASSUME NEW s, NEW t, Speeches(s), Speeches(t)
    PROVE  Speeches(s \o t) /\ ChatTold(s \o t) = ChatTold(s) \o ChatTold(t)
<1> DEFINE a == Map(s, EventsOfChat)
           b == Map(t, EventsOfChat)
           c == Map(s \o t, EventsOfChat)
           u == s \o t
<1>1. IsList(s) /\ IsList(t)
  BY DEF Speeches
<1>2. /\ IsList(u)
      /\ \A i \in DOMAIN s : i \in DOMAIN u /\ u[i] = s[i]
      /\ \A i \in DOMAIN t : Len(s) + i \in DOMAIN u /\ u[Len(s) + i] = t[i]
      /\ \A i \in DOMAIN u : \/ i \in DOMAIN s /\ u[i] = s[i]
                            \/ \E j \in DOMAIN t : i = Len(s) + j /\ u[i] = t[j]
  BY <1>1, Joined, JoinedAt
<1> HIDE DEF u
<1>3. Speeches(u)
  BY <1>2 DEF Speeches
<1>4. /\ Over(a, s) /\ Over(b, t) /\ Over(c, u) /\ Lists(a) /\ Lists(b)
      /\ \A i \in DOMAIN s : a[i] = EventsOfChat(s[i])
      /\ \A i \in DOMAIN t : b[i] = EventsOfChat(t[i])
      /\ \A i \in DOMAIN u : c[i] = EventsOfChat(u[i])
  BY <1>3, SpeechEvents DEF u
<1> HIDE DEF a, b, c
<1>5. /\ \A i \in DOMAIN s : c[i] = a[i]
      /\ \A i \in DOMAIN t : c[Len(s) + i] = b[i]
  BY <1>2, <1>4
<1>6. Over(c, s \o t)
  BY <1>4 DEF u
<1>7. c = a \o b
  BY <1>1, <1>4, <1>5, <1>6, MapJoin
<1>8. FlattenSeq(c) = FlattenSeq(a) \o FlattenSeq(b)
  BY <1>4, <1>7, FlatJoin
<1>9. QED BY <1>3, <1>8 DEF a, b, c, u, ChatTold

\* What Anthropic messages tell.
LEMMA DialogueEvents ==
    ASSUME NEW s, Dialogue(s)
    PROVE  /\ Lists(Map(s, EventsOfBlocks)) /\ Over(Map(s, EventsOfBlocks), s) /\ IsList(DialogueTold(s))
           /\ \A i \in DOMAIN s : Map(s, EventsOfBlocks)[i] = EventsOfBlocks(s[i])
<1> DEFINE a == Map(s, EventsOfBlocks)
<1>1. Over(a, s) /\ \A i \in DOMAIN s : a[i] = EventsOfBlocks(s[i])
  BY DEF Map, Over
<1>2. \A i \in DOMAIN s : IsList(EventsOfBlocks(s[i]))
  BY DialogueTells DEF Dialogue
<1> HIDE DEF a
<1>3. IsList(a) /\ DOMAIN a = DOMAIN s
  BY <1>1, Ones DEF Dialogue
<1>4. Lists(a)
  BY <1>1, <1>2, <1>3 DEF Lists
<1>5. IsList(FlattenSeq(a))
  BY <1>4, FlatList
<1>6. QED BY <1>1, <1>4, <1>5 DEF a, DialogueTold

\* Anthropic messages in a row.
LEMMA DialogueJoin ==
    ASSUME NEW s, NEW t, Dialogue(s), Dialogue(t)
    PROVE  Dialogue(s \o t) /\ DialogueTold(s \o t) = DialogueTold(s) \o DialogueTold(t)
<1> DEFINE a == Map(s, EventsOfBlocks)
           b == Map(t, EventsOfBlocks)
           c == Map(s \o t, EventsOfBlocks)
           u == s \o t
<1>1. IsList(s) /\ IsList(t)
  BY DEF Dialogue
<1>2. /\ IsList(u)
      /\ \A i \in DOMAIN s : i \in DOMAIN u /\ u[i] = s[i]
      /\ \A i \in DOMAIN t : Len(s) + i \in DOMAIN u /\ u[Len(s) + i] = t[i]
      /\ \A i \in DOMAIN u : \/ i \in DOMAIN s /\ u[i] = s[i]
                            \/ \E j \in DOMAIN t : i = Len(s) + j /\ u[i] = t[j]
  BY <1>1, Joined, JoinedAt
<1> HIDE DEF u
<1>3. Dialogue(u)
  BY <1>2 DEF Dialogue
<1>4. /\ Over(a, s) /\ Over(b, t) /\ Over(c, u) /\ Lists(a) /\ Lists(b)
      /\ \A i \in DOMAIN s : a[i] = EventsOfBlocks(s[i])
      /\ \A i \in DOMAIN t : b[i] = EventsOfBlocks(t[i])
      /\ \A i \in DOMAIN u : c[i] = EventsOfBlocks(u[i])
  BY <1>3, DialogueEvents DEF u
<1> HIDE DEF a, b, c
<1>5. /\ \A i \in DOMAIN s : c[i] = a[i]
      /\ \A i \in DOMAIN t : c[Len(s) + i] = b[i]
  BY <1>2, <1>4
<1>6. Over(c, s \o t)
  BY <1>4 DEF u
<1>7. c = a \o b
  BY <1>1, <1>4, <1>5, <1>6, MapJoin
<1>8. FlattenSeq(c) = FlattenSeq(a) \o FlattenSeq(b)
  BY <1>4, <1>7, FlatJoin
<1>9. QED BY <1>3, <1>8 DEF a, b, c, u, DialogueTold

\* What items tell.
LEMMA ItemEvents ==
    ASSUME NEW s, Items(s)
    PROVE  /\ Lists(Map(s, EventsOfItem)) /\ Over(Map(s, EventsOfItem), s) /\ IsList(ItemsTold(s))
           /\ \A i \in DOMAIN s : Map(s, EventsOfItem)[i] = EventsOfItem(s[i])
<1> DEFINE a == Map(s, EventsOfItem)
<1>1. Over(a, s) /\ \A i \in DOMAIN s : a[i] = EventsOfItem(s[i])
  BY DEF Map, Over
<1>2. \A i \in DOMAIN s : IsList(EventsOfItem(s[i]))
  BY ItemTells DEF Items
<1> HIDE DEF a
<1>3. IsList(a) /\ DOMAIN a = DOMAIN s
  BY <1>1, Ones DEF Items
<1>4. Lists(a)
  BY <1>1, <1>2, <1>3 DEF Lists
<1>5. IsList(FlattenSeq(a))
  BY <1>4, FlatList
<1>6. QED BY <1>1, <1>4, <1>5 DEF a, ItemsTold

\* Items in a row.
LEMMA ItemJoin ==
    ASSUME NEW s, NEW t, Items(s), Items(t)
    PROVE  Items(s \o t) /\ ItemsTold(s \o t) = ItemsTold(s) \o ItemsTold(t)
<1> DEFINE a == Map(s, EventsOfItem)
           b == Map(t, EventsOfItem)
           c == Map(s \o t, EventsOfItem)
           u == s \o t
<1>1. IsList(s) /\ IsList(t)
  BY DEF Items
<1>2. /\ IsList(u)
      /\ \A i \in DOMAIN s : i \in DOMAIN u /\ u[i] = s[i]
      /\ \A i \in DOMAIN t : Len(s) + i \in DOMAIN u /\ u[Len(s) + i] = t[i]
      /\ \A i \in DOMAIN u : \/ i \in DOMAIN s /\ u[i] = s[i]
                            \/ \E j \in DOMAIN t : i = Len(s) + j /\ u[i] = t[j]
  BY <1>1, Joined, JoinedAt
<1> HIDE DEF u
<1>3. Items(u)
  BY <1>2 DEF Items
<1>4. /\ Over(a, s) /\ Over(b, t) /\ Over(c, u) /\ Lists(a) /\ Lists(b)
      /\ \A i \in DOMAIN s : a[i] = EventsOfItem(s[i])
      /\ \A i \in DOMAIN t : b[i] = EventsOfItem(t[i])
      /\ \A i \in DOMAIN u : c[i] = EventsOfItem(u[i])
  BY <1>3, ItemEvents DEF u
<1> HIDE DEF a, b, c
<1>5. /\ \A i \in DOMAIN s : c[i] = a[i]
      /\ \A i \in DOMAIN t : c[Len(s) + i] = b[i]
  BY <1>2, <1>4
<1>6. Over(c, s \o t)
  BY <1>4 DEF u
<1>7. c = a \o b
  BY <1>1, <1>4, <1>5, <1>6, MapJoin
<1>8. FlattenSeq(c) = FlattenSeq(a) \o FlattenSeq(b)
  BY <1>4, <1>7, FlatJoin
<1>9. QED BY <1>3, <1>8 DEF a, b, c, u, ItemsTold

\* No message tells nothing.
LEMMA NoSpeech ==
    /\ Speeches(<<>>) /\ Dialogue(<<>>) /\ Items(<<>>)
    /\ ChatTold(<<>>) = <<>> /\ DialogueTold(<<>>) = <<>> /\ ItemsTold(<<>>) = <<>>
<1>1. IsList(<<>>) /\ DOMAIN <<>> = {}
  BY Nothings
<1>2. \A F : [i \in DOMAIN <<>> |-> F[i]] = <<>>
  BY <1>1, Ones DEF Over
<1>3. Map(<<>>, EventsOfChat) = <<>> /\ Map(<<>>, EventsOfBlocks) = <<>> /\ Map(<<>>, EventsOfItem) = <<>>
  BY <1>1, Ones DEF Map, Over
<1>4. QED BY <1>1, <1>3, FlatNone DEF Speeches, Dialogue, Items, ChatTold, DialogueTold, ItemsTold

\* One chat message.
LEMMA OneSpeech ==
    ASSUME NEW m, Speech(m)
    PROVE  Speeches(<<m>>) /\ ChatTold(<<m>>) = EventsOfChat(m)
<1> DEFINE s == <<m>>
<1>1. IsList(s) /\ DOMAIN s = {1} /\ s[1] = m
  BY One
<1> HIDE DEF s
<1>2. Speeches(s)
  BY <1>1 DEF Speeches
<1> DEFINE e == EventsOfChat(m)
<1>3. Map(s, EventsOfChat) = [i \in {1} |-> e]
  BY <1>1 DEF Map
<1>4. IsList(e)
  BY SpeechTells
<1> HIDE DEF e
<1>5. Map(s, EventsOfChat) = <<e>>
  BY <1>3
<1>6. FlattenSeq(<<e>>) = e
  BY <1>4, FlatOne
<1>7. QED BY <1>2, <1>5, <1>6 DEF s, e, ChatTold

\* One Anthropic message.
LEMMA OneDialogue ==
    ASSUME NEW m, IsBlockMessage(m)
    PROVE  Dialogue(<<m>>) /\ DialogueTold(<<m>>) = EventsOfBlocks(m)
<1> DEFINE s == <<m>>
<1>1. IsList(s) /\ DOMAIN s = {1} /\ s[1] = m
  BY One
<1> HIDE DEF s
<1>2. Dialogue(s)
  BY <1>1 DEF Dialogue
<1> DEFINE e == EventsOfBlocks(m)
<1>3. Map(s, EventsOfBlocks) = [i \in {1} |-> e]
  BY <1>1 DEF Map
<1>4. IsList(e)
  BY DialogueTells
<1> HIDE DEF e
<1>5. Map(s, EventsOfBlocks) = <<e>>
  BY <1>3
<1>6. FlattenSeq(<<e>>) = e
  BY <1>4, FlatOne
<1>7. QED BY <1>2, <1>5, <1>6 DEF s, e, DialogueTold

\* One item.
LEMMA OneItem ==
    ASSUME NEW m, IsItem(m)
    PROVE  Items(<<m>>) /\ ItemsTold(<<m>>) = EventsOfItem(m)
<1> DEFINE s == <<m>>
<1>1. IsList(s) /\ DOMAIN s = {1} /\ s[1] = m
  BY One
<1> HIDE DEF s
<1>2. Items(s)
  BY <1>1 DEF Items
<1> DEFINE e == EventsOfItem(m)
<1>3. Map(s, EventsOfItem) = [i \in {1} |-> e]
  BY <1>1 DEF Map
<1>4. IsList(e)
  BY ItemTells
<1> HIDE DEF e
<1>5. Map(s, EventsOfItem) = <<e>>
  BY <1>3
<1>6. FlattenSeq(<<e>>) = e
  BY <1>4, FlatOne
<1>7. QED BY <1>2, <1>5, <1>6 DEF s, e, ItemsTold

-----------------------------------------------------------------------------
(* Of Anthropic's messages, chat's *)

\* Lists of chat messages, one after the other.
LEMMA SpeechFlat ==
    ASSUME NEW ss, Lists(ss), \A k \in DOMAIN ss : Speeches(ss[k]),
           NEW hs, Over(hs, ss), \A k \in DOMAIN ss : hs[k] = ChatTold(ss[k])
    PROVE  Lists(hs) /\ Speeches(FlattenSeq(ss)) /\ ChatTold(FlattenSeq(ss)) = FlattenSeq(hs)
<1>1. PICK upTo :
        /\ upTo[0] = <<>> /\ FlattenSeq(ss) = upTo[Len(ss)]
        /\ \A n \in 1..Len(ss) : upTo[n] = With(upTo[n - 1], ss[n])
        /\ \A n \in 0..Len(ss) : IsList(upTo[n])
  BY FlatIs
<1> DEFINE N == Len(ss)
           u == [n \in 0..N |-> ChatTold(upTo[n])]
<1>2. N \in Nat /\ DOMAIN ss = 1..N /\ IsList(ss) /\ \A k \in 1..N : Speeches(ss[k])
  BY ListHas DEF Lists
<1>3. \A n \in 0..N : Speeches(upTo[n])
  <2> DEFINE S == {n \in 0..N : Speeches(upTo[n])}
  <2>1. 0 \in S
    BY <1>1, <1>2, NoSpeech
  <2>2. ASSUME NEW n \in 0..(N - 1), n \in S PROVE n + 1 \in S
    <3>1. n + 1 \in 1..N /\ n + 1 - 1 = n /\ n + 1 \in 0..N
      BY <1>2
    <3>2. upTo[n + 1] = With(upTo[n], ss[n + 1]) /\ Speeches(upTo[n]) /\ Speeches(ss[n + 1])
      BY <1>1, <1>2, <2>2, <3>1
    <3>3. Speeches(upTo[n + 1])
      BY <3>2, SpeechJoin DEF With
    <3>4. QED BY <3>1, <3>3
  <2> HIDE DEF S
  <2>3. 0..N \subseteq S
    BY <1>2, <2>1, <2>2, UpTo
  <2>4. QED BY <2>3 DEF S
<1>4. u[0] = <<>>
  BY <1>1, <1>2, NoSpeech
<1>5. ASSUME NEW n \in 1..N PROVE u[n] = With(u[n - 1], hs[n])
  <2>1. n \in 0..N /\ n - 1 \in 0..N
    BY <1>2
  <2>2. ChatTold(With(upTo[n - 1], ss[n])) = With(ChatTold(upTo[n - 1]), ChatTold(ss[n]))
    BY <1>2, <1>3, <2>1, SpeechJoin DEF With
  <2>3. QED BY <1>1, <1>2, <2>1, <2>2
<1>6. Lists(hs) /\ Len(hs) = N
  <2>1. IsList(hs) /\ Len(hs) = N /\ DOMAIN hs = DOMAIN ss
    BY <1>2, Ones
  <2>2. \A k \in DOMAIN ss : IsList(hs[k])
    BY <1>2, SpeechEvents
  <2>3. QED BY <2>1, <2>2 DEF Lists
<1>7. u[N] = ChatTold(FlattenSeq(ss))
  BY <1>1, <1>2
<1> HIDE DEF u
<1>8. FlattenSeq(hs) = u[N]
  BY <1>4, <1>5, <1>6, FlatBuilt
<1>9. Speeches(FlattenSeq(ss))
  BY <1>1, <1>2, <1>3
<1>10. QED BY <1>6, <1>7, <1>8, <1>9

\* The texts and images of blocks.
LEMMA PartsOf ==
    ASSUME NEW s, Blocks(s)
    PROVE  LET c == OfType(s, {"text", "image"})
           IN  Parts(c) /\ ExtractText(c) = ExtractText(s) /\ ImageEvents(c) = ImageEvents(s)
<1> DEFINE p == [i \in DOMAIN s |-> IF s[i].type \in {"text", "image"} THEN <<s[i]>> ELSE <<>>]
           f == FlattenSeq(p)
<1>1. OfType(s, {"text", "image"}) = f
  BY DEF OfType, Pick, Map
<1>2. \A i \in DOMAIN s : p[i] = IF s[i].type \in {"text", "image"} THEN <<s[i]>> ELSE <<>>
  OBVIOUS
<1>3. Over(p, s) /\ IsList(s) /\ Worded(s)
  BY Kinds DEF Over, Blocks
<1> HIDE DEF p
<1>5. /\ Lists(p) /\ IsList(f)
      /\ \A k \in DOMAIN f : \E i \in DOMAIN s : f[k] = s[i] /\ p[i] # <<>>
  <2>1. \A i \in DOMAIN s : p[i] = <<s[i]>> \/ p[i] = <<>>
    BY <1>2
  <2>2. QED BY <1>3, <2>1, PartOf
<1>6. ASSUME NEW i \in DOMAIN s
      PROVE  Worded(p[i]) /\ ExtractText(p[i]) = ExtractText(<<s[i]>>) /\ ImageEvents(p[i]) = ImageEvents(<<s[i]>>)
  <2>1. CASE s[i].type \notin {"text", "image"}
    <3>1. p[i] = <<>>
      BY <1>2, <2>1
    <3> DEFINE e == s[i]
    <3>2. e.type \notin {"text", "image"}
      BY <2>1
    <3> HIDE DEF e
    <3>3. ExtractText(<<e>>) = <<>>
      BY <3>2, ExtractOne
    <3>4. IsList(<<e>>) /\ DOMAIN <<e>> = {1} /\ <<e>>[1] = e
      BY One
    <3>5. ImageEvents(<<e>>) = <<>>
      BY <3>2, <3>4, ImageAre
    <3>6. QED BY <3>1, <3>3, <3>5, NoWords DEF e
  <2>2. CASE s[i].type \in {"text", "image"}
    <3>1. p[i] = <<s[i]>>
      BY <1>2, <2>2
    <3>2. Worded(<<s[i]>>)
      BY <1>3, ExtractOne DEF Worded
    <3>3. QED BY <3>1, <3>2
  <2>3. QED BY <2>1, <2>2
<1>7. ExtractText(f) = ExtractText(s)
  BY <1>3, <1>5, <1>6, ExtractAlike
<1>8. ImageEvents(f) = ImageEvents(s)
  <2>1. \A i \in DOMAIN s : IsList(p[i]) /\ ImageEvents(p[i]) = ImageEvents(<<s[i]>>)
    BY <1>6 DEF Worded
  <2>2. QED BY <1>3, <1>5, <2>1, ImageAlike
<1> HIDE DEF f
<1>9. \A k \in DOMAIN f : \E i \in DOMAIN s : f[k] = s[i] /\ s[i].type \in {"text", "image"}
  BY <1>2, <1>5
<1>10. \A i \in DOMAIN s : s[i].type \in {"text", "image"} => IsPart(s[i])
  BY DEF Blocks, IsBlock
<1>11. Parts(f)
  BY <1>5, <1>9, <1>10 DEF Parts
<1>12. QED BY <1>1, <1>7, <1>8, <1>11 DEF f

\* The results of a message, as messages of chat.
LEMMA ToolResultsTell ==
    ASSUME NEW m, IsBlockMessage(m)
    PROVE  Speeches(ToolResults(m)) /\ ChatTold(ToolResults(m)) = ResultEvents(m.blocks)
<1> DEFINE o == OfType(m.blocks, {"tool_result"})
           w == ToolResults(m)
           Told1(b) == ChatMessage("tool", <<Text(FlattenSeq(b.content))>>, <<>>, b.id)
<1>1. IsList(m.blocks) /\ Blocks(m.blocks)
  BY DEF IsBlockMessage, Blocks
<1>2. OfType(m.blocks, {"tool_result", "server_result"}) = o
  <2>1. \A i \in DOMAIN m.blocks : m.blocks[i].type # "server_result"
    BY <1>1 DEF Blocks, IsBlock, IsPart
  <2>2. QED BY <1>1, <2>1, OfTypes
<1>3. w = [k \in DOMAIN o |-> Told1(o[k])]
  BY <1>2 DEF ToolResults, Map
<1>4. IsList(o) /\ \A k \in DOMAIN o : \E i \in DOMAIN m.blocks : o[k] = m.blocks[i] /\ m.blocks[i].type \in {"tool_result"}
  BY <1>1, OfTypePart
<1>5. ResultEvents(m.blocks) = [k \in DOMAIN o |-> ResultEvent(o[k].id, FlattenSeq(o[k].content))]
  BY DEF ResultEvents, Map
<1> HIDE DEF o, w
<1>6. ASSUME NEW k \in DOMAIN o PROVE Lists(o[k].content)
  BY <1>1, <1>4 DEF Blocks, IsBlock, IsPart
<1>7. ASSUME NEW k \in DOMAIN o
      PROVE EventsOfChat(w[k]) = <<ResultEvent(o[k].id, FlattenSeq(o[k].content))>> /\ Speech(w[k])
  <2> DEFINE x == w[k]
             t == FlattenSeq(o[k].content)
             e == Text(t)
             r == ResultEvent(o[k].id, t)
  <2>1. x.role = "tool" /\ x.content = <<e>> /\ x.result = o[k].id
    BY <1>3 DEF ChatMessage
  <2>2. IsList(t)
    BY <1>6, FlatList
  <2>3. e.type = "text" /\ e.text = t
    BY DEF Text
  <2> HIDE DEF x, e, t
  <2>4. ExtractText(<<e>>) = t
    BY <2>2, <2>3, ExtractOne
  <2>5. EventsOfChat(x) = <<r>>
    BY <2>1, <2>4 DEF EventsOfChat
  <2>6. ~IsSystem(x)
    BY <2>1 DEF IsSystem
  <2> HIDE DEF r
  <2>7. Speech(x)
    BY <2>5, <2>6, One DEF Speech
  <2>8. QED BY <2>5, <2>7 DEF x, t, r
<1>8. Over(w, o)
  BY <1>3 DEF Over
<1>9. IsList(w) /\ DOMAIN w = DOMAIN o
  BY <1>4, <1>8, Ones
<1>10. Speeches(w)
  BY <1>7, <1>9 DEF Speeches
<1> DEFINE re == ResultEvents(m.blocks)
           a == Map(w, EventsOfChat)
<1>11. a = [k \in DOMAIN re |-> <<re[k]>>]
  BY <1>5, <1>7, <1>9 DEF Map
<1>12. IsList(re)
  BY <1>1, ResultsAre
<1> HIDE DEF re, a
<1>13. FlattenSeq(a) = re
  BY <1>11, <1>12, FlatOnes
<1>14. QED BY <1>10, <1>13 DEF a, re, w, ChatTold

\* split_for_openai: the chat messages of an Anthropic message tell what it
\* does, results first.
LEMMA ChatMessagesTell ==
    ASSUME NEW m, IsBlockMessage(m)
    PROVE  Speeches(ChatMessages(m)) /\ ChatTold(ChatMessages(m)) = EventsOfBlocks(m)
<1> DEFINE c == OfType(m.blocks, {"text", "image"})
           calls == CallsIn(m.blocks)
           x == ChatMessage(m.role, c, calls, NoCall)
           rest == IF c = <<>> /\ calls = <<>> THEN <<>> ELSE <<x>>
           r == ToolResults(m)
           re == ResultEvents(m.blocks)
           te == TextEvents(m.role, ExtractText(m.blocks))
           ie == ImageEvents(m.blocks)
           ce == CallEvents(calls)
<1>1. ChatMessages(m) = r \o rest
  BY DEF ChatMessages, CallsIn
<1>2. Blocks(m.blocks) /\ IsList(m.blocks) /\ Worded(m.blocks) /\ m.role \in {"user", "assistant"}
  BY Kinds DEF IsBlockMessage, Blocks
<1>3. Parts(c) /\ ExtractText(c) = ExtractText(m.blocks) /\ ImageEvents(c) = ie
  BY <1>2, PartsOf
<1>4. IsList(re) /\ IsList(ie) /\ IsList(calls) /\ IsList(ExtractText(m.blocks))
  BY <1>2, ResultsAre, ImageAre, CallsAre, WordingsAre
<1>5. IsList(te) /\ IsList(ce) /\ (calls = <<>> => ce = <<>>)
  BY <1>4, TextEventsAre, CallEventsAre
<1>6. Speeches(r) /\ ChatTold(r) = re
  BY ToolResultsTell
<1>7. EventsOfBlocks(m) = With(With(With(re, te), ie), ce)
  BY DialogueTells DEF Told
<1>8. x.role = m.role /\ x.content = c /\ x.calls = calls
  BY DEF ChatMessage
<1>a. rest = IF c = <<>> /\ calls = <<>> THEN <<>> ELSE <<x>>
  OBVIOUS
<1> HIDE DEF x, rest, c, calls, r, re
<1>9. EventsOfChat(x) = With(With(te, ie), ce)
  BY <1>2, <1>3, <1>8 DEF EventsOfChat, With
<1>10. c = <<>> /\ calls = <<>> => te = <<>> /\ ie = <<>> /\ ce = <<>>
  BY <1>3, <1>5, NoWords, NothingSaid
<1>b. ~IsSystem(x)
  BY <1>2, <1>8 DEF IsSystem
<1> HIDE DEF te, ie, ce
<1>11. IsList(With(With(te, ie), ce))
  BY <1>4, <1>5, WithIs
<1>12. Speeches(rest) /\ ChatTold(rest) = With(With(te, ie), ce)
  <2>1. CASE c = <<>> /\ calls = <<>>
    <3>1. With(With(te, ie), ce) = <<>>
      BY <1>10, <2>1, WithIs, Nothings
    <3>2. rest = <<>>
      BY <1>a, <2>1
    <3>3. QED BY <3>1, <3>2, NoSpeech
  <2>2. CASE ~(c = <<>> /\ calls = <<>>)
    <3>1. rest = <<x>>
      BY <1>a, <2>2
    <3>2. Speech(x)
      BY <1>9, <1>11, <1>b DEF Speech
    <3>3. QED BY <1>9, <3>1, <3>2, OneSpeech
  <2>3. QED BY <2>1, <2>2
<1>13. Speeches(r \o rest) /\ ChatTold(r \o rest) = With(re, With(With(te, ie), ce))
  BY <1>6, <1>12, SpeechJoin DEF With
<1>14. With(re, With(With(te, ie), ce)) = With(With(With(re, te), ie), ce)
  BY <1>4, <1>5, WithIs
<1>15. QED BY <1>1, <1>7, <1>13, <1>14

-----------------------------------------------------------------------------
(* Of Anthropic's messages, Bedrock's *)

\* All but the images that are URLs, or all but the calls.
Shown(lost, e) == IF lost = "urls" THEN e # <<"image", "url">> ELSE e[1] # "call"
Kept(lost, s) == Pick(s, LAMBDA e : Shown(lost, e))

\* What is kept of events.
LEMMA KeptIs ==
    ASSUME NEW lost, NEW s, IsList(s)
    PROVE  /\ IsList(Kept(lost, s))
           /\ (\A i \in DOMAIN s : ~Shown(lost, s[i])) => Kept(lost, s) = <<>>
           /\ (\A i \in DOMAIN s : Shown(lost, s[i])) => Kept(lost, s) = s
<1> DEFINE p == [i \in DOMAIN s |-> IF Shown(lost, s[i]) THEN <<s[i]>> ELSE <<>>]
<1>1. Kept(lost, s) = FlattenSeq(p)
  BY DEF Kept, Pick, Map
<1>2. \A i \in DOMAIN s : p[i] = IF Shown(lost, s[i]) THEN <<s[i]>> ELSE <<>>
  OBVIOUS
<1>3. Over(p, s)
  BY DEF Over
<1> HIDE DEF p
<1>4. \A i \in DOMAIN s : p[i] = <<s[i]>> \/ p[i] = <<>>
  BY <1>2
<1>a. \A i \in DOMAIN s : <<s[i]>> # <<>>
  OBVIOUS
<1>5. /\ IsList(FlattenSeq(p))
      /\ (\A i \in DOMAIN s : p[i] = <<>>) => FlattenSeq(p) = <<>>
      /\ (\A i \in DOMAIN s : p[i] # <<>>) => FlattenSeq(p) = s
  BY <1>3, <1>4, PartOf
<1>6. QED BY <1>1, <1>2, <1>5, <1>a

\* What is kept of events in a row.
LEMMA KeptJoin ==
    ASSUME NEW lost, NEW s, NEW t, IsList(s), IsList(t)
    PROVE  Kept(lost, s \o t) = Kept(lost, s) \o Kept(lost, t)
<1> DEFINE u == s \o t
           a == [i \in DOMAIN s |-> IF Shown(lost, s[i]) THEN <<s[i]>> ELSE <<>>]
           b == [i \in DOMAIN t |-> IF Shown(lost, t[i]) THEN <<t[i]>> ELSE <<>>]
           c == [i \in DOMAIN u |-> IF Shown(lost, u[i]) THEN <<u[i]>> ELSE <<>>]
<1>1. Kept(lost, s) = FlattenSeq(a) /\ Kept(lost, t) = FlattenSeq(b) /\ Kept(lost, u) = FlattenSeq(c)
  BY DEF Kept, Pick, Map
<1>2. /\ \A i \in DOMAIN s : i \in DOMAIN u /\ u[i] = s[i]
      /\ \A i \in DOMAIN t : Len(s) + i \in DOMAIN u /\ u[Len(s) + i] = t[i]
  BY JoinedAt
<1> HIDE DEF u
<1>3. Over(a, s) /\ Over(b, t) /\ Over(c, u)
  BY DEF Over
<1>4. \A x : IsList(<<x>>)
  BY One
<1>5. /\ \A i \in DOMAIN s : IsList(a[i]) /\ c[i] = a[i]
      /\ \A i \in DOMAIN t : IsList(b[i]) /\ c[Len(s) + i] = b[i]
  BY <1>2, <1>4, Nothings
<1> HIDE DEF a, b, c
<1>6. Over(c, s \o t)
  BY <1>3 DEF u
<1>7. FlattenSeq(c) = FlattenSeq(a) \o FlattenSeq(b)
  BY <1>3, <1>5, <1>6, FlatMapJoin
<1>8. QED BY <1>1, <1>7 DEF u

\* What is kept of flattened events.
LEMMA KeptFlat ==
    ASSUME NEW lost, NEW ss, Lists(ss), NEW hs, Over(hs, ss), \A k \in DOMAIN ss : hs[k] = Kept(lost, ss[k])
    PROVE  Lists(hs) /\ Kept(lost, FlattenSeq(ss)) = FlattenSeq(hs)
<1>1. PICK upTo :
        /\ upTo[0] = <<>> /\ FlattenSeq(ss) = upTo[Len(ss)]
        /\ \A n \in 1..Len(ss) : upTo[n] = With(upTo[n - 1], ss[n])
        /\ \A n \in 0..Len(ss) : IsList(upTo[n])
  BY FlatIs
<1> DEFINE N == Len(ss)
           u == [n \in 0..N |-> Kept(lost, upTo[n])]
<1>2. N \in Nat /\ DOMAIN ss = 1..N /\ IsList(ss) /\ \A k \in 1..N : IsList(ss[k])
  BY ListHas DEF Lists
<1>4. u[0] = <<>>
  BY <1>1, <1>2, KeptIs, Nothings
<1>5. ASSUME NEW n \in 1..N PROVE u[n] = With(u[n - 1], hs[n])
  <2>1. n \in 0..N /\ n - 1 \in 0..N
    BY <1>2
  <2>2. Kept(lost, With(upTo[n - 1], ss[n])) = With(Kept(lost, upTo[n - 1]), Kept(lost, ss[n]))
    <3>1. IsList(upTo[n - 1]) /\ IsList(ss[n])
      BY <1>1, <1>2, <2>1
    <3>2. \A v, w : IsList(v) /\ IsList(w) => Kept(lost, v \o w) = Kept(lost, v) \o Kept(lost, w)
      BY KeptJoin
    <3> HIDE DEF u
    <3>3. QED BY <3>1, <3>2 DEF With
  <2>3. QED BY <1>1, <1>2, <2>1, <2>2
<1>6. Lists(hs) /\ Len(hs) = N
  <2>1. IsList(hs) /\ Len(hs) = N /\ DOMAIN hs = DOMAIN ss
    BY <1>2, Ones
  <2>2. \A k \in DOMAIN ss : IsList(hs[k])
    BY <1>2, KeptIs
  <2>3. QED BY <2>1, <2>2 DEF Lists
<1>7. u[N] = Kept(lost, FlattenSeq(ss))
  BY <1>1, <1>2
<1> HIDE DEF u
<1>8. FlattenSeq(hs) = u[N]
  BY <1>4, <1>5, <1>6, FlatBuilt
<1>9. QED BY <1>6, <1>7, <1>8

\* Texts, calls and results are kept.
LEMMA AllButImagesKept ==
    /\ \A r, s : r # "image" /\ IsList(s) => Kept("urls", TextEvents(r, s)) = TextEvents(r, s)
    /\ \A s : IsList(s) => Kept("urls", CallEvents(s)) = CallEvents(s)
    /\ \A s : IsList(s) => Kept("urls", ResultEvents(s)) = ResultEvents(s)
<1>a. \A x, y : <<x, y>>[1] = x
  OBVIOUS
<1>b. ASSUME NEW x, NEW y, x # "image" PROVE Shown("urls", <<x, y>>)
  <2> DEFINE e == <<x, y>>
             f == <<"image", "url">>
  <2>1. e[1] = x /\ f[1] = "image"
    OBVIOUS
  <2> HIDE DEF e, f
  <2>2. e # f
    BY <1>b, <2>1
  <2>3. QED BY <2>2 DEF e, f, Shown
<1>c. ASSUME NEW id, NEW t PROVE Shown("urls", ResultEvent(id, t))
  <2> DEFINE e == ResultEvent(id, t)
             f == <<"image", "url">>
  <2>1. e[1] = "result" /\ f[1] = "image"
    BY DEF ResultEvent
  <2> HIDE DEF e, f
  <2>2. e # f
    BY <2>1
  <2>3. QED BY <2>2 DEF e, f, Shown
<1>1. ASSUME NEW r, NEW s, r # "image", IsList(s) PROVE Kept("urls", TextEvents(r, s)) = TextEvents(r, s)
  <2> DEFINE w == TextEvents(r, s)
  <2>1. IsList(w)
    BY <1>1, TextEventsAre
  <2>2. w = [k \in DOMAIN Spoken(s) |-> <<r, Spoken(s)[k]>>]
    BY DEF TextEvents, Map
  <2> HIDE DEF w
  <2>3. \A k \in DOMAIN w : Shown("urls", w[k])
    BY <1>1, <1>b, <2>2
  <2>4. Kept("urls", w) = w
    BY <2>1, <2>3, KeptIs
  <2>5. QED BY <2>4 DEF w
<1>2. ASSUME NEW s, IsList(s) PROVE Kept("urls", CallEvents(s)) = CallEvents(s)
  <2> DEFINE w == CallEvents(s)
  <2>1. IsList(w)
    BY <1>2, CallEventsAre
  <2>2. w = [k \in DOMAIN s |-> <<"call", s[k]>>]
    BY DEF CallEvents, Map
  <2> HIDE DEF w
  <2>3. \A k \in DOMAIN w : Shown("urls", w[k])
    BY <1>b, <2>2
  <2>4. Kept("urls", w) = w
    BY <2>1, <2>3, KeptIs
  <2>5. QED BY <2>4 DEF w
<1>3. ASSUME NEW s, IsList(s) PROVE Kept("urls", ResultEvents(s)) = ResultEvents(s)
  <2> DEFINE w == ResultEvents(s)
             o == OfType(s, {"tool_result"})
  <2>1. IsList(w)
    BY <1>3, ResultsAre
  <2>2. w = [k \in DOMAIN o |-> ResultEvent(o[k].id, FlattenSeq(o[k].content))]
    BY DEF ResultEvents, Map
  <2> HIDE DEF w, o
  <2>3. \A k \in DOMAIN w : Shown("urls", w[k])
    BY <1>c, <2>2
  <2>4. Kept("urls", w) = w
    BY <2>1, <2>3, KeptIs
  <2>5. QED BY <2>4 DEF w
<1>4. QED BY <1>1, <1>2, <1>3

\* Two lists of blocks that tell the same, but for images.
TellAlike(p, s) ==
    /\ Worded(p) /\ ExtractText(p) = ExtractText(s)
    /\ ResultEvents(p) = ResultEvents(s) /\ CallsIn(p) = CallsIn(s) /\ ImageEvents(p) = Kept("urls", ImageEvents(s))
    /\ \A k \in DOMAIN p : FitBlock(p[k], TRUE)

\* Of one block.
LEMMA OneBlock ==
    ASSUME NEW e
    PROVE  /\ IsList(<<e>>) /\ DOMAIN <<e>> = {1} /\ <<e>>[1] = e
           /\ e.type # "image" => ImageEvents(<<e>>) = <<>>
           /\ e.type = "image" => ImageEvents(<<e>>) = << <<"image", e.at>> >>
           /\ e.type \notin {"tool_use", "server_use"} => CallsIn(<<e>>) = <<>>
           /\ e.type # "tool_result" => ResultEvents(<<e>>) = <<>>
           /\ e.type = "tool_result" => ResultEvents(<<e>>) = <<ResultEvent(e.id, FlattenSeq(e.content))>>
<1> DEFINE s == <<e>>
           r == ResultEvent(e.id, FlattenSeq(e.content))
           i0 == <<"image", e.at>>
<1>1. IsList(s) /\ DOMAIN s = {1} /\ s[1] = e
  BY One
<1> HIDE DEF s
<1>2. /\ e.type # "image" => ImageEvents(s) = <<>>
      /\ e.type \notin {"tool_use", "server_use"} => CallsIn(s) = <<>>
      /\ e.type # "tool_result" => ResultEvents(s) = <<>>
  BY <1>1, ImageAre, CallsAre, ResultsAre
<1>3. ASSUME e.type = "image" PROVE ImageEvents(s) = <<i0>>
  <2>1. \A i \in DOMAIN s : s[i].type \in {"image"}
    BY <1>1, <1>3
  <2>2. ImageEvents(s) = [i \in DOMAIN s |-> <<"image", s[i].at>>]
    BY <1>1, <2>1, ImageAre
  <2>3. ImageEvents(s) = [i \in {1} |-> i0]
    BY <1>1, <2>2
  <2> HIDE DEF i0
  <2>4. QED BY <2>3
<1>4. ASSUME e.type = "tool_result" PROVE ResultEvents(s) = <<r>>
  <2>1. \A i \in DOMAIN s : s[i].type \in {"tool_result"}
    BY <1>1, <1>4
  <2>2. ResultEvents(s) = [i \in DOMAIN s |-> ResultEvent(s[i].id, FlattenSeq(s[i].content))]
    BY <1>1, <2>1, ResultsAre
  <2>3. ResultEvents(s) = [i \in {1} |-> r]
    BY <1>1, <2>2
  <2> HIDE DEF r
  <2>4. QED BY <2>3
<1>5. QED BY <1>1, <1>2, <1>3, <1>4 DEF s

\* A block as Bedrock takes it tells what it did, but for images that are
\* URLs.
LEMMA BedrockBlockTells ==
    ASSUME NEW e, IsBlock(e)
    PROVE  TellAlike(BedrockBlocks(e), <<e>>)
<1> DEFINE p == BedrockBlocks(e)
           s == <<e>>
<1>1. Kept("urls", <<>>) = <<>>
  BY KeptIs, Nothings
<1>n. ASSUME p = <<>>, ExtractText(s) = <<>>, ResultEvents(s) = <<>>, CallsIn(s) = <<>>,
             Kept("urls", ImageEvents(s)) = <<>>
      PROVE  TellAlike(p, s)
  <2> HIDE DEF p, s
  <2>1. DOMAIN p = {} /\ Worded(p) /\ ExtractText(p) = <<>> /\ ResultEvents(p) = <<>>
        /\ CallsIn(p) = <<>> /\ ImageEvents(p) = <<>>
    BY <1>n, NoWords, Nothings
  <2>2. \A k \in DOMAIN p : FitBlock(p[k], TRUE)
    BY <2>1
  <2>3. QED BY <1>n, <2>1, <2>2 DEF TellAlike
<1>i. /\ Image("data").type = "image" /\ Image("data").at = "data"
      /\ Image("url").type = "image" /\ Image("url").at = "url" /\ Image("url") # Image("data")
  BY DEF Image
<1>s. Worded(s) /\ DOMAIN s = {1} /\ s[1] = e
  BY ExtractOne, One DEF IsBlock, IsPart
<1>2. ASSUME p = s, e.type # "image", FitBlock(e, TRUE) PROVE TellAlike(p, s)
  <2>1. ImageEvents(s) = <<>>
    BY <1>2, OneBlock
  <2> HIDE DEF p, s
  <2>2. QED BY <1>1, <1>2, <1>s, <2>1 DEF TellAlike
<1>3. CASE e.type = "text"
  <2>1. CASE e.text = <<>>
    <3>1. p = <<>>
      BY <1>i, <1>3, <2>1 DEF BedrockBlocks
    <3>2. /\ ExtractText(s) = <<>> /\ ImageEvents(s) = <<>> /\ CallsIn(s) = <<>> /\ ResultEvents(s) = <<>>
      BY <1>3, <2>1, OneBlock, ExtractOne, Nothings
    <3>3. QED BY <1>1, <1>n, <3>1, <3>2
  <2>2. CASE e.text # <<>>
    <3>1. p = s /\ FitBlock(e, TRUE)
      BY <1>i, <1>3, <2>2 DEF BedrockBlocks, FitBlock
    <3>2. QED BY <1>2, <1>3, <3>1
  <2>3. QED BY <2>1, <2>2
<1>4. CASE e = Image("data")
  <2>1. p = s /\ FitBlock(e, TRUE)
    BY <1>i, <1>4 DEF BedrockBlocks, FitBlock
  <2>2. ImageEvents(s) = << <<"image", "data">> >>
    BY <1>i, <1>4, OneBlock
  <2> DEFINE f == <<"image", "data">>
             g == <<"image", "url">>
  <2>3. Shown("urls", f)
    <3>1. f[2] = "data" /\ g[2] = "url"
      OBVIOUS
    <3> HIDE DEF f, g
    <3>2. f # g
      BY <3>1
    <3>3. QED BY <3>2 DEF Shown, g
  <2> HIDE DEF f
  <2>4. Kept("urls", <<f>>) = <<f>>
    BY <2>3, One, KeptIs
  <2>5. ImageEvents(s) = Kept("urls", ImageEvents(s))
    BY <2>2, <2>4 DEF f
  <2> HIDE DEF p, s
  <2>6. \A k \in DOMAIN p : FitBlock(p[k], TRUE)
    BY <1>s, <2>1
  <2>7. TellAlike(p, s)
    BY <1>s, <2>1, <2>5, <2>6 DEF TellAlike
  <2>8. QED BY <2>7 DEF p, s
<1>5. CASE e = Image("url")
  <2>1. p = <<>>
    BY <1>i, <1>5 DEF BedrockBlocks
  <2> DEFINE g == <<"image", "url">>
  <2>2. ImageEvents(s) = <<g>>
    BY <1>i, <1>5, OneBlock
  <2>3. ~Shown("urls", g)
    BY DEF Shown
  <2>4. ExtractText(s) = <<>> /\ CallsIn(s) = <<>> /\ ResultEvents(s) = <<>>
    BY <1>i, <1>5, OneBlock, ExtractOne
  <2> HIDE DEF g
  <2>5. Kept("urls", <<g>>) = <<>>
    BY <2>3, One, KeptIs
  <2>6. QED BY <1>n, <2>1, <2>2, <2>4, <2>5
<1>6. CASE e.type = "tool_use"
  <2>1. p = s /\ FitBlock(e, TRUE)
    BY <1>i, <1>6 DEF BedrockBlocks, FitBlock
  <2>2. QED BY <1>2, <1>6, <2>1
<1>7. CASE e.type = "thinking"
  <2>1. p = <<>>
    BY <1>i, <1>7 DEF BedrockBlocks
  <2>2. /\ ExtractText(s) = <<>> /\ ImageEvents(s) = <<>> /\ CallsIn(s) = <<>> /\ ResultEvents(s) = <<>>
    BY <1>7, OneBlock, ExtractOne
  <2>3. QED BY <1>1, <1>n, <2>1, <2>2
<1>8. CASE e.type = "tool_result" /\ e = Result(e.id, e.content, e.error) /\ Lists(e.content)
  <2> DEFINE f == [e EXCEPT !.content = IF @ = <<>> THEN <<Blank>> ELSE @]
  <2>1. p = <<f>>
    <3>1. e.type = "tool_result"
      BY <1>8
    <3>2. e # Image("data") /\ e.type # "tool_use" /\ e.type # "text"
      BY <1>i, <3>1
    <3>3. QED BY <3>1, <3>2 DEF BedrockBlocks
  <2>2. /\ f.type = "tool_result" /\ f.id = e.id
        /\ f.content = IF e.content = <<>> THEN <<Blank>> ELSE e.content
    <3> DEFINE id == e.id
               content == e.content
               error == e.error
    <3>1. e = [type |-> "tool_result", id |-> id, content |-> content, error |-> error]
      BY <1>8 DEF Result
    <3>2. e.content = content /\ e.id = id
      OBVIOUS
    <3> HIDE DEF id, content, error
    <3>3. /\ f.type = "tool_result" /\ f.id = id
          /\ f.content = IF content = <<>> THEN <<Blank>> ELSE content
      BY <3>1
    <3>4. QED BY <3>2, <3>3
  <2> HIDE DEF f
  <2>3. Spoken(FlattenSeq(f.content)) = Spoken(FlattenSeq(e.content))
    <3>1. CASE e.content = <<>>
      <4>1. FlattenSeq(<<Blank>>) = Blank /\ FlattenSeq(<<>>) = <<>>
        BY NothingSaid, FlatOne, FlatNone
      <4>2. QED BY <2>2, <3>1, <4>1, NothingSaid
    <3>2. CASE e.content # <<>>
      BY <2>2, <3>2
    <3>3. QED BY <3>1, <3>2
  <2>4. ResultEvents(s) = ResultEvents(<<f>>)
    <3>1. ResultEvent(e.id, FlattenSeq(e.content)) = ResultEvent(f.id, FlattenSeq(f.content))
      BY <2>2, <2>3 DEF ResultEvent
    <3>2. QED BY <1>8, <2>2, <3>1, OneBlock
  <2>5. ExtractText(s) = <<>> /\ ImageEvents(s) = <<>> /\ CallsIn(s) = <<>>
    BY <1>8, OneBlock, ExtractOne
  <2>6. Worded(p) /\ ExtractText(p) = <<>> /\ ImageEvents(p) = <<>> /\ CallsIn(p) = <<>>
        /\ DOMAIN p = {1} /\ p[1] = f
    BY <2>1, <2>2, OneBlock, ExtractOne
  <2>7. FitBlock(f, TRUE)
    <3>1. <<Blank>> # <<>>
      OBVIOUS
    <3>2. QED BY <2>2, <3>1 DEF FitBlock
  <2>8. ResultEvents(p) = ResultEvents(s)
    BY <2>1, <2>4
  <2> HIDE DEF p, s
  <2>9. \A k \in DOMAIN p : FitBlock(p[k], TRUE)
    BY <2>6, <2>7
  <2>10. TellAlike(p, s)
    BY <1>1, <2>5, <2>6, <2>8, <2>9 DEF TellAlike
  <2>11. QED BY <2>10 DEF p, s
<1>9. QED BY <1>3, <1>4, <1>5, <1>6, <1>7, <1>8 DEF IsBlock, IsPart

\* A message of Anthropic's for Bedrock tells what it told but for images that
\* are URLs, and is something Bedrock takes.
LEMMA MessagesToBedrockTells ==
    ASSUME NEW m, IsBlockMessage(m)
    PROVE  /\ EventsOfBlocks(MessagesToBedrockMessage(m)) = Kept("urls", EventsOfBlocks(m))
           /\ Fit(MessagesToBedrockMessage(m).blocks, TRUE)
<1> DEFINE s == m.blocks
           p == Map(s, BedrockBlocks)
           f == FlattenSeq(p)
           r == m.role
<1>1. Blocks(s) /\ IsList(s) /\ Worded(s) /\ r # "image"
  BY Kinds DEF IsBlockMessage, Blocks
<1>2. Over(p, s) /\ \A i \in DOMAIN s : p[i] = BedrockBlocks(s[i])
  BY DEF Map, Over
<1>3. MessagesToBedrockMessage(m) = BlockMessage(r, AtLeastOne(f))
  BY DEF MessagesToBedrockMessage
<1>a. BlockMessage(r, AtLeastOne(f)).blocks = AtLeastOne(f)
  BY DEF BlockMessage
<1>4. EventsOfBlocks(m) = Told(r, s)
  BY DialogueTells
<1> HIDE DEF p, s, r
<1>5. \A i \in DOMAIN s : TellAlike(p[i], <<s[i]>>)
  <2> SUFFICES ASSUME NEW i \in DOMAIN s PROVE TellAlike(p[i], <<s[i]>>)
    OBVIOUS
  <2> DEFINE e == s[i]
  <2>1. IsBlock(e) /\ p[i] = BedrockBlocks(e)
    BY <1>1, <1>2 DEF Blocks
  <2> HIDE DEF e
  <2>2. TellAlike(p[i], <<e>>)
    BY <2>1, BedrockBlockTells
  <2>3. QED BY <2>2 DEF e
<1>6. IsList(p) /\ DOMAIN p = DOMAIN s
  BY <1>1, <1>2, Ones
<1>7. \A i \in DOMAIN p : Worded(p[i]) /\ IsList(p[i])
  BY <1>5, <1>6 DEF TellAlike, Worded
<1>8. Lists(p)
  BY <1>6, <1>7 DEF Lists
<1>9. Worded(f) /\ IsList(f)
  BY <1>7, <1>8, WordedFlat DEF Worded
<1>10. ExtractText(f) = ExtractText(s)
  <2>1. \A i \in DOMAIN s : Worded(p[i]) /\ ExtractText(p[i]) = ExtractText(<<s[i]>>)
    BY <1>5 DEF TellAlike
  <2>2. QED BY <1>1, <1>2, <1>8, <2>1, ExtractAlike
<1>11. ResultEvents(f) = ResultEvents(s) /\ CallsIn(f) = CallsIn(s)
  <2>1. \A i \in DOMAIN s : IsList(p[i]) /\ ResultEvents(p[i]) = ResultEvents(<<s[i]>>)
    BY <1>5, <1>6, <1>7 DEF TellAlike
  <2>2. \A i \in DOMAIN s : IsList(p[i]) /\ CallsIn(p[i]) = CallsIn(<<s[i]>>)
    BY <1>5, <1>6, <1>7 DEF TellAlike
  <2>3. ResultEvents(f) = ResultEvents(s)
    BY <1>1, <1>2, <1>8, <2>1, ResultsAlike
  <2>4. CallsIn(f) = CallsIn(s)
    BY <1>1, <1>2, <1>8, <2>2, CallsAlike
  <2>5. QED BY <2>3, <2>4
<1>12. ImageEvents(f) = Kept("urls", ImageEvents(s))
  <2> DEFINE o == [k \in DOMAIN s |-> <<s[k]>>]
             a == [k \in DOMAIN s |-> ImageEvents(<<s[k]>>)]
             b == [k \in DOMAIN s |-> ImageEvents(p[k])]
  <2>1. Lists(o) /\ FlattenSeq(o) = s
    BY <1>1, FlatOnes
  <2>2. DOMAIN o = DOMAIN s /\ DOMAIN a = DOMAIN s /\ Over(a, o) /\ Over(b, p) /\ Over(b, a)
    BY <1>6 DEF Over
  <2>3. /\ \A k \in DOMAIN o : a[k] = ImageEvents(o[k])
        /\ \A k \in DOMAIN p : b[k] = ImageEvents(p[k])
    BY <1>6
  <2>4. \A k \in DOMAIN a : b[k] = Kept("urls", a[k])
    BY <1>5 DEF TellAlike
  <2> HIDE DEF o, a, b
  <2>5. Lists(a) /\ ImageEvents(s) = FlattenSeq(a)
    BY <2>1, <2>2, <2>3, ImageFlat
  <2>6. ImageEvents(f) = FlattenSeq(b)
    BY <1>8, <2>2, <2>3, ImageFlat
  <2>7. Kept("urls", FlattenSeq(a)) = FlattenSeq(b)
    BY <2>2, <2>4, <2>5, KeptFlat
  <2>8. QED BY <2>5, <2>6, <2>7
<1>13. \A k \in DOMAIN f : FitBlock(f[k], TRUE)
  <2> SUFFICES ASSUME NEW k \in DOMAIN f PROVE FitBlock(f[k], TRUE)
    OBVIOUS
  <2>1. PICK i \in DOMAIN p : \E j \in DOMAIN p[i] : f[k] = p[i][j]
    BY <1>8, FlatIn
  <2>2. QED BY <1>5, <1>6, <2>1 DEF TellAlike
<1> HIDE DEF f
<1> DEFINE re == ResultEvents(s)
           te == TextEvents(r, ExtractText(s))
           ie == ImageEvents(s)
           ce == CallEvents(CallsIn(s))
<1>14. Told(r, f) = With(With(With(re, te), Kept("urls", ie)), ce)
  BY <1>10, <1>11, <1>12 DEF Told
<1>15. Told(r, s) = With(With(With(re, te), ie), ce)
  BY DEF Told
<1>16. /\ IsList(re) /\ IsList(te) /\ IsList(ie) /\ IsList(ce)
       /\ Kept("urls", re) = re /\ Kept("urls", te) = te /\ Kept("urls", ce) = ce
  BY <1>1, ResultsAre, WordingsAre, TextEventsAre, ImageAre, CallsAre, CallEventsAre, AllButImagesKept
<1> HIDE DEF re, te, ie, ce
<1>17. Kept("urls", With(With(With(re, te), ie), ce)) = With(With(With(re, te), Kept("urls", ie)), ce)
  <2>1. \A x, y : IsList(x) /\ IsList(y) => IsList(With(x, y)) /\ Kept("urls", With(x, y)) = With(Kept("urls", x), Kept("urls", y))
    BY KeptJoin, WithIs DEF With
  <2>2. QED BY <1>16, <2>1
<1>18. QED BY <1>3, <1>4, <1>9, <1>13, <1>14, <1>15, <1>17, <1>a, AtLeastOneTells, FitIs, ToldIs

-----------------------------------------------------------------------------
(* Requests *)

\* Turns are chat messages.
LEMMA ConversationSpeaks ==
    ASSUME NEW s, Conversation(s)
    PROVE  Speeches(s)
  BY TurnTells DEF Conversation, Speeches, Speech

\* A message that is no instruction.
IsTurnOf(m) == ~IsSystem(m)

\* The turns of messages.
LEMMA TurnsAre ==
    ASSUME NEW s, IsList(s)
    PROVE  /\ IsList(Turns(s))
           /\ (\A i \in DOMAIN s : ~IsTurnOf(s[i])) => Turns(s) = <<>>
           /\ (\A i \in DOMAIN s : IsTurnOf(s[i])) => Turns(s) = s
<1> DEFINE p == [i \in DOMAIN s |-> IF IsTurnOf(s[i]) THEN <<s[i]>> ELSE <<>>]
<1>1. Turns(s) = FlattenSeq(p)
  BY DEF Turns, Pick, Map, IsTurnOf
<1>2. \A i \in DOMAIN s : p[i] = IF IsTurnOf(s[i]) THEN <<s[i]>> ELSE <<>>
  OBVIOUS
<1>3. Over(p, s)
  BY DEF Over
<1> HIDE DEF p
<1>4. \A i \in DOMAIN s : p[i] = <<s[i]>> \/ p[i] = <<>>
  BY <1>2
<1>a. \A i \in DOMAIN s : <<s[i]>> # <<>>
  OBVIOUS
<1>5. /\ IsList(FlattenSeq(p))
      /\ (\A i \in DOMAIN s : p[i] = <<>>) => FlattenSeq(p) = <<>>
      /\ (\A i \in DOMAIN s : p[i] # <<>>) => FlattenSeq(p) = s
  BY <1>3, <1>4, PartOf
<1>6. QED BY <1>1, <1>2, <1>5, <1>a

\* The turns of messages in a row.
LEMMA TurnsJoin ==
    ASSUME NEW s, NEW t, IsList(s), IsList(t)
    PROVE  Turns(s \o t) = Turns(s) \o Turns(t)
<1> DEFINE u == s \o t
           a == [i \in DOMAIN s |-> IF IsTurnOf(s[i]) THEN <<s[i]>> ELSE <<>>]
           b == [i \in DOMAIN t |-> IF IsTurnOf(t[i]) THEN <<t[i]>> ELSE <<>>]
           c == [i \in DOMAIN u |-> IF IsTurnOf(u[i]) THEN <<u[i]>> ELSE <<>>]
<1>1. Turns(s) = FlattenSeq(a) /\ Turns(t) = FlattenSeq(b) /\ Turns(u) = FlattenSeq(c)
  BY DEF Turns, Pick, Map, IsTurnOf
<1>2. /\ \A i \in DOMAIN s : i \in DOMAIN u /\ u[i] = s[i]
      /\ \A i \in DOMAIN t : Len(s) + i \in DOMAIN u /\ u[Len(s) + i] = t[i]
  BY JoinedAt
<1> HIDE DEF u
<1>3. Over(a, s) /\ Over(b, t) /\ Over(c, u)
  BY DEF Over
<1>4. \A x : IsList(<<x>>)
  BY One
<1>5. /\ \A i \in DOMAIN s : IsList(a[i]) /\ c[i] = a[i]
      /\ \A i \in DOMAIN t : IsList(b[i]) /\ c[Len(s) + i] = b[i]
  BY <1>2, <1>4, Nothings
<1> HIDE DEF a, b, c
<1>6. Over(c, s \o t)
  BY <1>3 DEF u
<1>7. FlattenSeq(c) = FlattenSeq(a) \o FlattenSeq(b)
  BY <1>3, <1>5, <1>6, FlatMapJoin
<1>8. QED BY <1>1, <1>7 DEF u

\* The system messages of messages.
LEMMA InstructionsAre ==
    ASSUME NEW s, IsList(s)
    PROVE  /\ IsList(Instructions(s))
           /\ (\A i \in DOMAIN s : ~IsSystem(s[i])) => Instructions(s) = <<>>
           /\ (\A i \in DOMAIN s : IsSystem(s[i])) => Instructions(s) = s
<1> DEFINE p == [i \in DOMAIN s |-> IF IsSystem(s[i]) THEN <<s[i]>> ELSE <<>>]
<1>1. Instructions(s) = FlattenSeq(p)
  BY DEF Instructions, Pick, Map
<1>2. \A i \in DOMAIN s : p[i] = IF IsSystem(s[i]) THEN <<s[i]>> ELSE <<>>
  OBVIOUS
<1>3. Over(p, s)
  BY DEF Over
<1> HIDE DEF p
<1>4. \A i \in DOMAIN s : p[i] = <<s[i]>> \/ p[i] = <<>>
  BY <1>2
<1>a. \A i \in DOMAIN s : <<s[i]>> # <<>>
  OBVIOUS
<1>5. /\ IsList(FlattenSeq(p))
      /\ (\A i \in DOMAIN s : p[i] = <<>>) => FlattenSeq(p) = <<>>
      /\ (\A i \in DOMAIN s : p[i] # <<>>) => FlattenSeq(p) = s
  BY <1>3, <1>4, PartOf
<1>6. QED BY <1>1, <1>2, <1>5, <1>a

\* The system messages of messages in a row.
LEMMA InstructionsJoin ==
    ASSUME NEW s, NEW t, IsList(s), IsList(t)
    PROVE  Instructions(s \o t) = Instructions(s) \o Instructions(t)
<1> DEFINE u == s \o t
           a == [i \in DOMAIN s |-> IF IsSystem(s[i]) THEN <<s[i]>> ELSE <<>>]
           b == [i \in DOMAIN t |-> IF IsSystem(t[i]) THEN <<t[i]>> ELSE <<>>]
           c == [i \in DOMAIN u |-> IF IsSystem(u[i]) THEN <<u[i]>> ELSE <<>>]
<1>1. Instructions(s) = FlattenSeq(a) /\ Instructions(t) = FlattenSeq(b) /\ Instructions(u) = FlattenSeq(c)
  BY DEF Instructions, Pick, Map
<1>2. /\ \A i \in DOMAIN s : i \in DOMAIN u /\ u[i] = s[i]
      /\ \A i \in DOMAIN t : Len(s) + i \in DOMAIN u /\ u[Len(s) + i] = t[i]
  BY JoinedAt
<1> HIDE DEF u
<1>3. Over(a, s) /\ Over(b, t) /\ Over(c, u)
  BY DEF Over
<1>4. \A x : IsList(<<x>>)
  BY One
<1>5. /\ \A i \in DOMAIN s : IsList(a[i]) /\ c[i] = a[i]
      /\ \A i \in DOMAIN t : IsList(b[i]) /\ c[Len(s) + i] = b[i]
  BY <1>2, <1>4, Nothings
<1> HIDE DEF a, b, c
<1>6. Over(c, s \o t)
  BY <1>3 DEF u
<1>7. FlattenSeq(c) = FlattenSeq(a) \o FlattenSeq(b)
  BY <1>3, <1>5, <1>6, FlatMapJoin
<1>8. QED BY <1>1, <1>7 DEF u

\* The instructions of a client: a text at most.
IsPrompt(sys) == sys = <<>> \/ \E t : IsList(t) /\ sys = <<t>>

\* The text of a chat message.
TextOf(m) == ExtractText(m.content)

\* The instructions as system messages and back.
LEMMA PromptIs ==
    ASSUME NEW sys, IsPrompt(sys)
    PROVE  LET instr == Map(sys, SystemMessage)
           IN  /\ IsList(instr) /\ IsList(sys) /\ \A i \in DOMAIN instr : IsSystem(instr[i])
               /\ Map(instr, TextOf) = sys
               /\ (IF instr = <<>> THEN <<>> ELSE <<TextOf(Last(instr))>>) = sys
<1> DEFINE instr == Map(sys, SystemMessage)
<1>1. CASE sys = <<>>
  <2>1. DOMAIN sys = {} /\ IsList(sys)
    BY <1>1, Nothings
  <2>2. Over(instr, sys)
    BY DEF Map, Over
  <2> HIDE DEF instr
  <2>3. IsList(instr) /\ DOMAIN instr = {} /\ instr = <<>>
    BY <1>1, <2>1, <2>2, Ones
  <2>4. Over(Map(instr, TextOf), instr)
    BY DEF Map, Over
  <2>5. Map(instr, TextOf) = <<>>
    BY <2>3, <2>4, Ones
  <2>6. QED BY <1>1, <2>1, <2>3, <2>5 DEF instr
<1>2. ASSUME NEW t, IsList(t), sys = <<t>>
      PROVE  /\ IsList(instr) /\ IsList(sys) /\ \A i \in DOMAIN instr : IsSystem(instr[i])
             /\ Map(instr, TextOf) = sys
             /\ (IF instr = <<>> THEN <<>> ELSE <<TextOf(Last(instr))>>) = sys
  <2> DEFINE e == Text(t)
             m == SystemMessage(t)
  <2>1. m.role = "system" /\ m.content = <<e>> /\ e.type = "text" /\ e.text = t
    BY DEF SystemMessage, ChatMessage, Text
  <2> HIDE DEF e
  <2>2. ExtractText(<<e>>) = t
    BY <1>2, <2>1, ExtractOne
  <2>3. TextOf(m) = t /\ IsSystem(m)
    BY <2>1, <2>2 DEF TextOf, IsSystem
  <2>4. DOMAIN sys = {1} /\ sys[1] = t /\ IsList(sys)
    BY <1>2, One
  <2>5. instr = [i \in {1} |-> m]
    BY <2>4 DEF Map
  <2> HIDE DEF m, instr
  <2>6. instr = <<m>>
    BY <2>5
  <2>7. IsList(instr) /\ DOMAIN instr = {1} /\ instr[1] = m /\ Len(instr) = 1 /\ instr # <<>>
    BY <2>6, One
  <2>8. Last(instr) = m
    BY <2>7 DEF Last
  <2>9. Map(instr, TextOf) = [i \in {1} |-> t]
    BY <2>3, <2>7 DEF Map
  <2>10. Map(instr, TextOf) = <<t>>
    BY <2>9
  <2>11. QED BY <1>2, <2>3, <2>4, <2>7, <2>8, <2>10
<1>3. QED BY <1>1, <1>2 DEF IsPrompt

\* A chat request: the instructions and then the conversation.
LEMMA ChatTells ==
    ASSUME NEW sys, IsPrompt(sys), NEW h, Speeches(h), NEW messages, messages = Map(sys, SystemMessage) \o h
    PROVE  /\ Turns(messages) = h /\ FlattenSeq(Map(Turns(messages), EventsOfChat)) = ChatTold(h)
           /\ Instructions(messages) = Map(sys, SystemMessage)
           /\ Map(Instructions(messages), TextOf) = sys
<1> DEFINE instr == Map(sys, SystemMessage)
<1>1. IsList(instr) /\ \A i \in DOMAIN instr : IsSystem(instr[i])
  BY PromptIs
<1>2. IsList(h) /\ \A i \in DOMAIN h : ~IsSystem(h[i])
  BY DEF Speeches, Speech
<1>a. Map(instr, TextOf) = sys
  BY PromptIs
<1> HIDE DEF instr
<1>3. Turns(instr) = <<>> /\ Turns(h) = h
  BY <1>1, <1>2, TurnsAre DEF IsTurnOf
<1>4. Instructions(instr) = instr /\ Instructions(h) = <<>>
  BY <1>1, <1>2, InstructionsAre
<1>5. Turns(messages) = h
  <2>1. Turns(instr \o h) = Turns(instr) \o Turns(h)
    BY <1>1, <1>2, TurnsJoin
  <2>2. messages = instr \o h
    BY DEF instr
  <2>3. QED BY <1>1, <1>2, <1>3, <2>1, <2>2, Nothings
<1>6. Instructions(messages) = instr
  <2>1. Instructions(instr \o h) = Instructions(instr) \o Instructions(h)
    BY <1>1, <1>2, InstructionsJoin
  <2>2. messages = instr \o h
    BY DEF instr
  <2>3. QED BY <1>1, <1>2, <1>4, <2>1, <2>2, Nothings
<1>7. QED BY <1>5, <1>6, <1>a DEF ChatTold, instr

-----------------------------------------------------------------------------
(* Chat requests for the Messages API and for Bedrock, and the reverse *)

\* A chat request for the Messages API tells the same.
LEMMA ChatToMessagesTells ==
    ASSUME NEW sys, IsPrompt(sys), NEW h, Conversation(h),
           NEW r, r.messages = Map(sys, SystemMessage) \o h
    PROVE  LET to == ChatToMessages(r)
           IN  DialogueTold(to.messages) = ChatTold(h) /\ to.system = sys
<1> DEFINE to == ChatToMessages(r)
           instr == Map(sys, SystemMessage)
<1>1. Turns(r.messages) = h /\ Instructions(r.messages) = instr
  BY ConversationSpeaks, ChatTells
<1>2. to.messages = Map(h, MessagesMessage)
  BY <1>1 DEF ChatToMessages
<1>3. to.system = IF instr = <<>> THEN <<>> ELSE <<TextOf(Last(instr))>>
  BY <1>1 DEF ChatToMessages, TextOf
<1>4. to.system = sys
  BY <1>3, PromptIs
<1> HIDE DEF to, instr
<1>5. Map(to.messages, EventsOfBlocks) = [i \in DOMAIN h |-> EventsOfBlocks(MessagesMessage(h[i]))]
  BY <1>2 DEF Map
<1>6. \A i \in DOMAIN h : EventsOfBlocks(MessagesMessage(h[i])) = EventsOfChat(h[i])
  BY MessagesMessageTells DEF Conversation
<1>7. Map(to.messages, EventsOfBlocks) = Map(h, EventsOfChat)
  BY <1>5, <1>6 DEF Map
<1>8. DialogueTold(to.messages) = ChatTold(h)
  BY <1>7 DEF DialogueTold, ChatTold
<1>9. QED BY <1>4, <1>8 DEF to

\* A chat request for Bedrock tells the same, in messages that Bedrock takes.
LEMMA ChatToConverseTells ==
    ASSUME NEW sys, IsPrompt(sys), NEW h, Conversation(h),
           NEW r, r.messages = Map(sys, SystemMessage) \o h
    PROVE  LET to == ChatToConverse(r)
           IN  /\ DialogueTold(to.messages) = ChatTold(h) /\ to.system = sys
               /\ \A i \in DOMAIN to.messages : Fit(to.messages[i].blocks, FALSE)
<1> DEFINE to == ChatToConverse(r)
           instr == Map(sys, SystemMessage)
<1>1. Turns(r.messages) = h /\ Map(Instructions(r.messages), TextOf) = sys
  BY ConversationSpeaks, ChatTells
<1>2. to.messages = Map(h, BedrockMessage)
  BY <1>1 DEF ChatToConverse
<1>3. to.system = Map(Instructions(r.messages), TextOf)
  BY DEF ChatToConverse, TextOf, Map
<1>4. to.system = sys
  BY <1>1, <1>3
<1> HIDE DEF to, instr
<1>5. Map(to.messages, EventsOfBlocks) = [i \in DOMAIN h |-> EventsOfBlocks(BedrockMessage(h[i]))]
  BY <1>2 DEF Map
<1>6. \A i \in DOMAIN h : EventsOfBlocks(BedrockMessage(h[i])) = EventsOfChat(h[i]) /\ Fit(BedrockMessage(h[i]).blocks, FALSE)
  BY BedrockMessageTells DEF Conversation
<1>7. Map(to.messages, EventsOfBlocks) = Map(h, EventsOfChat)
  BY <1>5, <1>6 DEF Map
<1>8. DialogueTold(to.messages) = ChatTold(h)
  BY <1>7 DEF DialogueTold, ChatTold
<1>9. \A i \in DOMAIN to.messages : Fit(to.messages[i].blocks, FALSE)
  BY <1>2, <1>6 DEF Map
<1>10. QED BY <1>4, <1>8, <1>9 DEF to

\* A Messages request for chat tells the same.
LEMMA MessagesToChatTells ==
    ASSUME NEW r, Dialogue(r.messages)
    PROVE  \E h : /\ Speeches(h) /\ ChatTold(h) = DialogueTold(r.messages)
                  /\ MessagesToChat(r).messages = Map(r.system, SystemMessage) \o h
<1> DEFINE s == r.messages
           ss == Map(s, ChatMessages)
           h == FlattenSeq(ss)
           hs == Map(s, EventsOfBlocks)
<1>1. MessagesToChat(r).messages = Map(r.system, SystemMessage) \o h
  BY DEF MessagesToChat
<1>2. Over(ss, s) /\ Over(hs, s)
      /\ \A i \in DOMAIN s : ss[i] = ChatMessages(s[i]) /\ hs[i] = EventsOfBlocks(s[i])
  BY DEF Map, Over
<1>3. IsList(s) /\ \A i \in DOMAIN s : IsBlockMessage(s[i])
  BY DEF Dialogue
<1> HIDE DEF ss, hs, s
<1>4. \A i \in DOMAIN s : Speeches(ss[i]) /\ hs[i] = ChatTold(ss[i])
  BY <1>2, <1>3, ChatMessagesTell
<1>5. IsList(ss) /\ DOMAIN ss = DOMAIN s
  BY <1>2, <1>3, Ones
<1>6. Lists(ss)
  BY <1>4, <1>5 DEF Lists, Speeches
<1>7. Over(hs, ss)
  BY <1>2, <1>5 DEF Over
<1>8. Speeches(h) /\ ChatTold(h) = FlattenSeq(hs)
  BY <1>4, <1>5, <1>6, <1>7, SpeechFlat
<1>9. QED BY <1>1, <1>8 DEF s, hs, DialogueTold

\* A Messages request for Bedrock tells all but the images that are URLs, in
\* messages that Bedrock takes.
LEMMA MessagesToConverseTells ==
    ASSUME NEW r, Dialogue(r.messages)
    PROVE  LET to == MessagesToConverse(r)
           IN  /\ DialogueTold(to.messages) = Kept("urls", DialogueTold(r.messages)) /\ to.system = r.system
               /\ \A i \in DOMAIN to.messages : Fit(to.messages[i].blocks, TRUE)
<1> DEFINE to == MessagesToConverse(r)
           s == r.messages
           hs == Map(s, EventsOfBlocks)
           ks == Map(to.messages, EventsOfBlocks)
<1>1. to.messages = Map(s, MessagesToBedrockMessage) /\ to.system = r.system
  BY DEF MessagesToConverse
<1>2. IsList(s) /\ \A i \in DOMAIN s : IsBlockMessage(s[i])
  BY DEF Dialogue
<1> HIDE DEF to
<1>3. ks = [i \in DOMAIN s |-> EventsOfBlocks(MessagesToBedrockMessage(s[i]))]
  BY <1>1 DEF Map
<1>4. hs = [i \in DOMAIN s |-> EventsOfBlocks(s[i])] /\ Lists(hs)
  BY DialogueEvents DEF Map
<1>5. \A i \in DOMAIN to.messages : Fit(to.messages[i].blocks, TRUE)
  BY <1>1, <1>2, MessagesToBedrockTells DEF Map
<1> HIDE DEF s, hs, ks
<1>6. \A i \in DOMAIN s : ks[i] = Kept("urls", hs[i])
  BY <1>2, <1>3, <1>4, MessagesToBedrockTells
<1>7. DOMAIN hs = DOMAIN s /\ Over(ks, hs)
  BY <1>3, <1>4 DEF Over
<1>8. Kept("urls", FlattenSeq(hs)) = FlattenSeq(ks)
  BY <1>4, <1>6, <1>7, KeptFlat
<1>9. QED BY <1>1, <1>5, <1>8 DEF DialogueTold, to, s, hs, ks

-----------------------------------------------------------------------------
(* The input of a Responses request *)

\* One turn.
LEMMA OneTurn ==
    ASSUME NEW m, IsTurn(m)
    PROVE  Conversation(<<m>>) /\ ChatTold(<<m>>) = EventsOfChat(m)
<1> DEFINE s == <<m>>
<1>1. IsList(s) /\ DOMAIN s = {1} /\ s[1] = m
  BY One
<1> HIDE DEF s
<1>2. Conversation(s)
  BY <1>1 DEF Conversation
<1>3. Speech(m)
  BY TurnTells DEF Speech
<1>4. ChatTold(<<m>>) = EventsOfChat(m)
  BY <1>3, OneSpeech
<1>5. QED BY <1>2, <1>4 DEF s

\* Turns in a row.
LEMMA ConversationJoin ==
    ASSUME NEW s, NEW t, Conversation(s), Conversation(t)
    PROVE  Conversation(s \o t) /\ ChatTold(s \o t) = ChatTold(s) \o ChatTold(t)
<1>1. IsList(s) /\ IsList(t)
  BY DEF Conversation
<1> DEFINE u == s \o t
<1>2. /\ IsList(u)
      /\ \A i \in DOMAIN u : \/ i \in DOMAIN s /\ u[i] = s[i]
                            \/ \E j \in DOMAIN t : i = Len(s) + j /\ u[i] = t[j]
  BY <1>1, Joined, JoinedAt
<1> HIDE DEF u
<1>3. Conversation(u)
  BY <1>2 DEF Conversation
<1>4. ChatTold(s \o t) = ChatTold(s) \o ChatTold(t)
  BY ConversationSpeaks, SpeechJoin
<1>5. QED BY <1>3, <1>4 DEF u

\* The last of a list is changed.
Changed(u, n) == [u EXCEPT ![Len(u)] = n]
WithOne(s, n) == s \o <<n>>

\* A list whose last is changed.
LEMMA LastChanged ==
    ASSUME NEW s, IsList(s), NEW m, NEW n, NEW u, u = WithOne(s, m)
    PROVE  Changed(u, n) = WithOne(s, n) /\ Len(u) \in DOMAIN u /\ u[Len(u)] = m /\ u # <<>>
<1> DEFINE v == Changed(u, n)
           o == <<m>>
           p == <<n>>
           w == s \o p
<1>1. IsList(o) /\ Len(o) = 1 /\ o[1] = m /\ IsList(p) /\ Len(p) = 1 /\ p[1] = n /\ Len(s) \in Nat
  BY One, ListHas
<1>a. u = s \o o
  BY DEF WithOne
<1> HIDE DEF o, p
<1>2. /\ IsList(u) /\ Len(u) = Len(s) + 1 /\ DOMAIN u = 1..(Len(s) + 1)
      /\ \A i \in 1..(Len(s) + 1) : u[i] = IF i <= Len(s) THEN s[i] ELSE o[i - Len(s)]
  <2>1. /\ IsList(s \o o) /\ Len(s \o o) = Len(s) + Len(o) /\ DOMAIN (s \o o) = 1..(Len(s) + Len(o))
        /\ \A i \in 1..(Len(s) + Len(o)) : (s \o o)[i] = IF i <= Len(s) THEN s[i] ELSE o[i - Len(s)]
    BY <1>1, Joined
  <2>2. QED BY <1>1, <1>a, <2>1
<1>3. /\ IsList(w) /\ Len(w) = Len(s) + 1 /\ DOMAIN w = 1..(Len(s) + 1)
      /\ \A i \in 1..(Len(s) + 1) : w[i] = IF i <= Len(s) THEN s[i] ELSE p[i - Len(s)]
  BY <1>1, Joined
<1> HIDE DEF w
<1>4. v = [i \in 1..(Len(s) + 1) |-> IF i = Len(s) + 1 THEN n ELSE u[i]]
  BY <1>2 DEF Changed
<1> HIDE DEF v
<1>5. IsList(v) /\ Len(v) = Len(s) + 1
  <2>1. v = [i \in 1..(Len(s) + 1) |-> v[i]] /\ Len(s) + 1 \in Nat
    BY <1>1, <1>4
  <2>2. QED BY <2>1, ListIs
<1>6. ASSUME NEW i \in 1..(Len(s) + 1) PROVE v[i] = w[i]
  <2>1. CASE i <= Len(s)
    BY <1>1, <1>2, <1>3, <1>4, <2>1
  <2>2. CASE ~(i <= Len(s))
    <3>1. i = Len(s) + 1 /\ i - Len(s) = 1
      BY <1>1, <2>2
    <3>2. QED BY <1>1, <1>3, <1>4, <2>2, <3>1
  <2>3. QED BY <2>1, <2>2
<1>7. v = w
  BY <1>3, <1>5, <1>6, SameList
<1>8. Len(u) \in DOMAIN u /\ u[Len(u)] = m
  <2>1. Len(s) + 1 \in 1..(Len(s) + 1) /\ ~(Len(s) + 1 <= Len(s)) /\ Len(s) + 1 - Len(s) = 1
    BY <1>1
  <2>2. QED BY <1>1, <1>2, <2>1
<1>9. u # <<>>
  BY <1>8, Nothings
<1>10. QED BY <1>7, <1>8, <1>9 DEF v, w, p, WithOne

\* A list without its last.
LEMMA FrontOf ==
    ASSUME NEW s, IsList(s), s # <<>>
    PROVE  \E f, m : IsList(f) /\ s = f \o <<m>> /\ m = s[Len(s)] /\ Range(f) \subseteq Range(s) /\ Len(s) \in DOMAIN s
<1>1. Len(s) \in Nat /\ Len(s) # 0 /\ DOMAIN s = 1..Len(s)
  BY ListHas, Nothings
<1> DEFINE n == Len(s) - 1
<1>2. n \in 0..(Len(s) - 1) /\ n \in 0..Len(s) /\ n + 1 = Len(s) /\ Len(s) \in DOMAIN s
  BY <1>1
<1> HIDE DEF n
<1>3. SubSeq(s, 1, n + 1) = SubSeq(s, 1, n) \o <<s[n + 1]>> /\ SubSeq(s, 1, Len(s)) = s
      /\ IsList(SubSeq(s, 1, n)) /\ Range(SubSeq(s, 1, n)) \subseteq Range(s)
  BY <1>2, Prefix
<1>4. QED BY <1>2, <1>3

\* A turn added to the conversation.
LEMMA TurnAdded ==
    ASSUME NEW instr, IsList(instr), NEW h, Conversation(h), NEW m, IsTurn(m), NEW ev, EventsOfChat(m) = ev
    PROVE  \E g : /\ Append(With(instr, h), m) = With(instr, g)
                  /\ Conversation(g) /\ ChatTold(g) = With(ChatTold(h), ev)
<1> DEFINE g == h \o <<m>>
<1>1. IsList(h)
  BY DEF Conversation
<1>2. Conversation(<<m>>) /\ ChatTold(<<m>>) = ev
  BY OneTurn
<1>3. Conversation(g) /\ ChatTold(g) = With(ChatTold(h), ev)
  BY <1>2, ConversationJoin DEF With
<1>4. Append(With(instr, h), m) = With(With(instr, h), <<m>>)
  BY <1>1, WithIs, AppendIs DEF With
<1>5. IsList(<<m>>) /\ g = With(h, <<m>>)
  BY One DEF With
<1> HIDE DEF g
<1>6. Append(With(instr, h), m) = With(instr, g)
  BY <1>1, <1>4, <1>5, WithIs
<1>7. QED BY <1>3, <1>6

\* The message that a call opens, and the one that it joins.
Opening(call) == ChatMessage("assistant", <<>>, <<call>>, NoCall)
Extended(m, call) == ChatMessage(m.role, m.content, Append(m.calls, call), m.result)
CallEvent(call) == <<"call", call>>

\* One call as a list, and what it tells.
LEMMA OneCall ==
    ASSUME NEW call
    PROVE  IsList(<<call>>) /\ CallEvents(<<call>>) = <<CallEvent(call)>> /\ IsList(<<CallEvent(call)>>)
<1> DEFINE s == <<call>>
           ce == CallEvent(call)
<1>1. IsList(s) /\ DOMAIN s = {1} /\ s[1] = call
  BY One
<1> HIDE DEF s
<1>2. CallEvents(s) = [i \in {1} |-> ce]
  BY <1>1 DEF CallEvents, Map, CallEvent
<1> HIDE DEF ce
<1>3. CallEvents(s) = <<ce>> /\ IsList(<<ce>>)
  BY <1>2, One
<1>4. QED BY <1>1, <1>3 DEF s, ce

\* A message of one call is a turn.
LEMMA OpeningIs ==
    ASSUME NEW call
    PROVE  IsTurn(Opening(call)) /\ EventsOfChat(Opening(call)) = <<CallEvent(call)>>
<1> DEFINE x == Opening(call)
           ce == CallEvent(call)
<1>1. x.role = "assistant" /\ x.content = <<>> /\ x.calls = <<call>> /\ x.result = NoCall
      /\ x = ChatMessage(x.role, x.content, x.calls, x.result)
  BY DEF Opening, ChatMessage
<1>2. Parts(<<>>) /\ \A i \in DOMAIN <<>> : FALSE
  BY Nothings DEF Parts
<1> HIDE DEF x
<1>3. \A i \in DOMAIN x.content : x.content[i].type = "text"
  BY <1>1, <1>2
<1>4. IsTurn(x)
  BY <1>1, <1>2, <1>3, OneCall DEF IsTurn
<1>5. EventsOfChat(x) = With(With(TextEvents("assistant", <<>>), <<>>), <<ce>>)
  BY <1>1, <1>4, TurnTells, NoWords, OneCall
<1>6. IsList(<<ce>>)
  BY One
<1> HIDE DEF ce
<1>7. EventsOfChat(x) = <<ce>>
  BY <1>5, <1>6, NothingSaid, Nothings, WithIs
<1>8. QED BY <1>4, <1>7 DEF x, ce

\* So is an assistant's message with one call more.
LEMMA ExtendedIs ==
    ASSUME NEW m, IsTurn(m), m.role = "assistant", NEW call
    PROVE  /\ IsTurn(Extended(m, call)) /\ Extended(m, call).role = "assistant"
           /\ EventsOfChat(Extended(m, call)) = With(EventsOfChat(m), <<CallEvent(call)>>)
<1> DEFINE n == Extended(m, call)
           ce == CallEvent(call)
           o == <<call>>
           t == With(TextEvents("assistant", ExtractText(m.content)), ImageEvents(m.content))
<1>1. n.role = m.role /\ n.content = m.content /\ n.calls = Append(m.calls, call) /\ n.result = m.result
      /\ n = ChatMessage(n.role, n.content, n.calls, n.result)
  BY DEF Extended, ChatMessage
<1>2. IsList(m.calls) /\ Parts(m.content) /\ \A i \in DOMAIN m.content : m.content[i].type = "text"
  BY DEF IsTurn
<1> HIDE DEF n
<1>3. IsList(o) /\ CallEvents(o) = <<ce>> /\ IsList(<<ce>>)
  BY OneCall
<1>4. n.calls = m.calls \o o
  BY <1>1, <1>2, AppendIs
<1> HIDE DEF o, ce
<1>5. IsList(n.calls) /\ CallEvents(n.calls) = With(CallEvents(m.calls), <<ce>>)
  <2>1. IsList(m.calls \o o)
    BY <1>2, <1>3, Joined
  <2>2. CallEvents(m.calls \o o) = CallEvents(m.calls) \o CallEvents(o)
    BY <1>2, <1>3, CallEventsJoin
  <2>3. QED BY <1>3, <1>4, <2>1, <2>2 DEF With
<1>6. IsTurn(n)
  BY <1>1, <1>2, <1>5 DEF IsTurn
<1>7. EventsOfChat(m) = With(t, CallEvents(m.calls))
  BY TurnTells
<1>8. EventsOfChat(n) = With(t, CallEvents(n.calls))
  BY <1>1, <1>6, TurnTells
<1>9. IsList(t)
  <2>1. Worded(m.content) /\ IsList(m.content)
    BY <1>2, PartsAre
  <2>2. IsList(TextEvents("assistant", ExtractText(m.content))) /\ IsList(ImageEvents(m.content))
    BY <2>1, WordingsAre, TextEventsAre, ImageAre
  <2>3. QED BY <2>2, WithIs
<1>10. IsList(CallEvents(m.calls))
  BY <1>2, CallEventsAre
<1> HIDE DEF t
<1>11. EventsOfChat(n) = With(EventsOfChat(m), <<ce>>)
  BY <1>3, <1>5, <1>7, <1>8, <1>9, <1>10, WithIs
<1>12. QED BY <1>1, <1>6, <1>11 DEF n, ce

\* The call opens a message, or joins the last one, the assistant's.
Attached(instr, h, call, to) ==
    \/ h = <<>> /\ to = With(instr, h \o <<Opening(call)>>)
    \/ \E f, m :
         /\ Conversation(f) /\ IsTurn(m) /\ h = f \o <<m>>
         /\ \/ m.role # "assistant" /\ to = With(instr, h \o <<Opening(call)>>)
            \/ m.role = "assistant" /\ to = With(instr, f \o <<Extended(m, call)>>)

\* That is what AttachCall does.
LEMMA AttachIs ==
    ASSUME NEW instr, IsList(instr), \A i \in DOMAIN instr : IsSystem(instr[i]),
           NEW h, Conversation(h), NEW call
    PROVE  Attached(instr, h, call, AttachCall(With(instr, h), call))
<1> DEFINE to == AttachCall(With(instr, h), call)
           x == Opening(call)
           ms == With(instr, h)
<1>1. IsList(h) /\ IsList(ms) /\ \A i \in DOMAIN h : IsTurn(h[i])
  BY WithIs DEF Conversation
<1>2. Append(ms, x) = With(instr, h \o <<x>>)
  <2> DEFINE o == <<x>>
  <2>1. IsList(o)
    BY One
  <2>2. Append(ms, x) = With(ms, o)
    BY <1>1, AppendIs DEF With
  <2> HIDE DEF o
  <2>3. With(With(instr, h), o) = With(instr, With(h, o))
    BY <1>1, <2>1, WithIs
  <2>4. QED BY <2>2, <2>3 DEF o, With
<1>3. CASE h = <<>>
  <2>1. ms = instr
    BY <1>3, WithIs
  <2>2. instr # <<>> => Last(instr).role # "assistant"
    <3>1. SUFFICES ASSUME instr # <<>> PROVE Last(instr).role # "assistant"
      OBVIOUS
    <3>2. Len(instr) \in DOMAIN instr
      BY <3>1, FrontOf
    <3>3. IsSystem(instr[Len(instr)])
      BY <3>2
    <3>4. QED BY <3>3 DEF IsSystem, Last
  <2>3. AttachCall(ms, call) = Append(ms, x)
    BY <2>1, <2>2 DEF AttachCall, Opening
  <2>4. to = With(instr, h \o <<x>>)
    BY <1>2, <2>3
  <2>5. QED BY <1>3, <2>4 DEF Attached
<1>4. CASE h # <<>>
  <2>1. PICK f, m : IsList(f) /\ h = f \o <<m>> /\ m = h[Len(h)] /\ Range(f) \subseteq Range(h) /\ Len(h) \in DOMAIN h
    BY <1>1, <1>4, FrontOf
  <2>2. IsTurn(m)
    BY <1>1, <2>1
  <2>3. Conversation(f)
    <3>1. \A i \in DOMAIN f : \E j \in DOMAIN h : f[i] = h[j]
      BY <2>1 DEF Range
    <3>2. QED BY <1>1, <2>1, <3>1 DEF Conversation
  <2> DEFINE a == With(instr, f)
  <2>4. IsList(a) /\ \A n : With(a, <<n>>) = With(instr, f \o <<n>>)
    <3>1. IsList(a)
      BY <2>1, WithIs
    <3>2. ASSUME NEW n PROVE With(a, <<n>>) = With(instr, f \o <<n>>)
      <4> DEFINE o == <<n>>
      <4>1. IsList(o)
        BY One
      <4> HIDE DEF o
      <4>2. With(With(instr, f), o) = With(instr, With(f, o))
        BY <2>1, <4>1, WithIs
      <4>3. QED BY <4>2 DEF o, With
    <3>3. QED BY <3>1, <3>2
  <2>5. ms = WithOne(a, m)
    BY <2>1, <2>4 DEF WithOne, With
  <2> HIDE DEF ms, a
  <2>6. /\ \A n : [ms EXCEPT ![Len(ms)] = n] = a \o <<n>>
        /\ Len(ms) \in DOMAIN ms /\ ms[Len(ms)] = m /\ ms # <<>>
    <3>1. \A n : Changed(ms, n) = WithOne(a, n) /\ Len(ms) \in DOMAIN ms /\ ms[Len(ms)] = m /\ ms # <<>>
      BY <2>4, <2>5, LastChanged
    <3>2. QED BY <3>1 DEF Changed, WithOne
  <2>7. CASE m.role # "assistant"
    <3>1. AttachCall(ms, call) = Append(ms, x)
      BY <2>6, <2>7 DEF AttachCall, Last, Opening
    <3>2. to = With(instr, h \o <<x>>)
      BY <1>2, <3>1 DEF ms
    <3>3. QED BY <2>1, <2>2, <2>3, <2>7, <3>2 DEF Attached
  <2>8. CASE m.role = "assistant"
    <3> DEFINE n == [m EXCEPT !.calls = Append(m.calls, call)]
    <3>1. AttachCall(ms, call) = [ms EXCEPT ![Len(ms)].calls = Append(@, call)]
      BY <2>6, <2>8 DEF AttachCall, Last
    <3>2. AttachCall(ms, call) = [ms EXCEPT ![Len(ms)] = n]
      BY <2>6, <3>1
    <3>3. n = Extended(m, call)
      <4> DEFINE role == m.role
                 content == m.content
                 calls == m.calls
                 id == m.result
      <4>1. m = [role |-> role, content |-> content, calls |-> calls, result |-> id]
        BY <2>2 DEF IsTurn, ChatMessage
      <4> HIDE DEF role, content, calls, id
      <4>2. [m EXCEPT !.calls = Append(calls, call)]
              = [role |-> role, content |-> content, calls |-> Append(calls, call), result |-> id]
        BY <4>1
      <4>3. QED BY <4>2 DEF role, content, calls, id, ChatMessage, Extended
    <3> HIDE DEF n
    <3>4. AttachCall(ms, call) = With(a, <<n>>)
      BY <2>6, <3>2 DEF With
    <3>5. to = With(instr, f \o <<Extended(m, call)>>)
      BY <2>4, <3>3, <3>4 DEF ms
    <3>6. QED BY <2>1, <2>2, <2>3, <2>8, <3>5 DEF Attached
  <2>9. QED BY <2>7, <2>8
<1>5. QED BY <1>3, <1>4

\* A call for the assistant's last message.
LEMMA CallAttached ==
    ASSUME NEW instr, IsList(instr), \A i \in DOMAIN instr : IsSystem(instr[i]),
           NEW h, Conversation(h), NEW call
    PROVE  \E g : /\ AttachCall(With(instr, h), call) = With(instr, g)
                  /\ Conversation(g) /\ ChatTold(g) = With(ChatTold(h), << <<"call", call>> >>)
<1> DEFINE to == AttachCall(With(instr, h), call)
           x == Opening(call)
           ce == CallEvent(call)
<1>0. to = AttachCall(With(instr, h), call) /\ x = Opening(call)
  OBVIOUS
<1> HIDE DEF to, x
<1>1. \/ h = <<>> /\ to = With(instr, h \o <<x>>)
      \/ \E f, m :
           /\ Conversation(f) /\ IsTurn(m) /\ h = f \o <<m>>
           /\ \/ m.role # "assistant" /\ to = With(instr, h \o <<x>>)
              \/ m.role = "assistant" /\ to = With(instr, f \o <<Extended(m, call)>>)
  <2>1. Attached(instr, h, call, AttachCall(With(instr, h), call))
    BY AttachIs
  <2>2. QED BY <1>0, <2>1 DEF Attached
<1>2. IsTurn(x) /\ EventsOfChat(x) = <<ce>> /\ IsList(<<ce>>)
  BY <1>0, OpeningIs, OneCall
<1> HIDE DEF ce
<1>3. Conversation(<<x>>) /\ ChatTold(<<x>>) = <<ce>>
  BY <1>2, OneTurn
<1>4. Conversation(h \o <<x>>) /\ ChatTold(h \o <<x>>) = With(ChatTold(h), <<ce>>)
  BY <1>3, ConversationJoin DEF With
<1>5. ASSUME NEW f, NEW m, Conversation(f), IsTurn(m), h = f \o <<m>>, m.role = "assistant",
             to = With(instr, f \o <<Extended(m, call)>>)
      PROVE  \E g : to = With(instr, g) /\ Conversation(g) /\ ChatTold(g) = With(ChatTold(h), <<ce>>)
  <2> DEFINE n == Extended(m, call)
             g == f \o <<n>>
  <2>1. IsTurn(n) /\ EventsOfChat(n) = With(EventsOfChat(m), <<ce>>)
    BY <1>5, ExtendedIs DEF ce
  <2> HIDE DEF n
  <2>2. Conversation(<<m>>) /\ Conversation(<<n>>) /\ ChatTold(<<m>>) = EventsOfChat(m)
        /\ ChatTold(<<n>>) = EventsOfChat(n)
    BY <1>5, <2>1, OneTurn
  <2>3. Conversation(g) /\ ChatTold(g) = With(ChatTold(f), EventsOfChat(n))
        /\ ChatTold(h) = With(ChatTold(f), EventsOfChat(m))
    BY <1>5, <2>2, ConversationJoin DEF With
  <2>4. IsList(ChatTold(f)) /\ IsList(EventsOfChat(m))
    BY <1>5, ConversationSpeaks, SpeechEvents, TurnTells
  <2>5. ChatTold(g) = With(ChatTold(h), <<ce>>)
    BY <1>2, <2>1, <2>3, <2>4, WithIs
  <2>6. to = With(instr, g)
    BY <1>5 DEF n
  <2> HIDE DEF g
  <2>7. QED BY <2>3, <2>5, <2>6
<1>6. \E g : to = With(instr, g) /\ Conversation(g) /\ ChatTold(g) = With(ChatTold(h), <<ce>>)
  BY <1>1, <1>4, <1>5
<1>7. QED BY <1>6 DEF to, ce, CallEvent

\* An input item adds to a conversation what it tells.
LEMMA InputItemTells ==
    ASSUME NEW instr, IsList(instr), \A i \in DOMAIN instr : IsSystem(instr[i]),
           NEW h, Conversation(h), NEW it, IsItem(it)
    PROVE  \E g : /\ AddInputItem(With(instr, h), it) = With(instr, g)
                  /\ Conversation(g) /\ ChatTold(g) = With(ChatTold(h), EventsOfItem(it))
<1> DEFINE ms == With(instr, h)
<1>1. CASE it.type = "message"
  <2> DEFINE c == it.content
             m == ChatMessage(it.role, OfType(c, {"text", "image"}), <<>>, NoCall)
  <2>1. Parts(c) /\ IsList(c) /\ it.role \in {"user", "assistant"}
        /\ (it.role = "assistant" => \A i \in DOMAIN c : c[i].type = "text")
    BY <1>1 DEF IsItem, Parts
  <2>2. OfType(c, {"text", "image"}) = c
    <3>1. \A i \in DOMAIN c : c[i].type \in {"text", "image"}
      BY <2>1 DEF Parts, IsPart
    <3>2. QED BY <2>1, <3>1, OfTypePart
  <2>3. AddInputItem(ms, it) = Append(ms, m)
    BY <1>1 DEF AddInputItem
  <2>4. m.role = it.role /\ m.content = c /\ m.calls = <<>> /\ m.result = NoCall
        /\ m = ChatMessage(m.role, m.content, m.calls, m.result)
    BY <2>2 DEF ChatMessage
  <2> HIDE DEF m, c
  <2>5. IsTurn(m)
    BY <2>1, <2>4, Nothings DEF IsTurn
  <2>6. EventsOfChat(m) = With(With(TextEvents(it.role, ExtractText(c)), ImageEvents(c)), CallEvents(<<>>))
    BY <2>1, <2>4, <2>5, TurnTells
  <2>7. EventsOfItem(it) = With(TextEvents(it.role, ExtractText(c)), ImageEvents(c)) /\ IsList(EventsOfItem(it))
    BY <1>1, ItemTells DEF c
  <2>8. CallEvents(<<>>) = <<>>
    BY Nothings, CallEventsAre
  <2>9. EventsOfChat(m) = EventsOfItem(it)
    BY <2>6, <2>7, <2>8, WithIs
  <2>10. QED BY <2>3, <2>5, <2>9, TurnAdded
<1>2. CASE it.type = "function_call_output"
  <2> DEFINE e == Text(it.output)
             m == ChatMessage("tool", <<e>>, <<>>, it.id)
             r == ResultEvent(it.id, it.output)
  <2>1. AddInputItem(ms, it) = Append(ms, m)
    BY <1>2 DEF AddInputItem
  <2>2. m.role = "tool" /\ m.content = <<e>> /\ m.calls = <<>> /\ m.result = it.id
        /\ m = ChatMessage(m.role, m.content, m.calls, m.result)
    BY DEF ChatMessage
  <2>3. e.type = "text" /\ e.text = it.output /\ IsList(it.output)
    BY <1>2 DEF Text, IsItem
  <2>4. EventsOfItem(it) = <<r>>
    BY <1>2 DEF EventsOfItem
  <2> HIDE DEF m, e
  <2>5. IsPart(e)
    BY <2>3 DEF IsPart
  <2>6. Parts(<<e>>)
    <3> DEFINE s == <<e>>
    <3>1. IsList(s) /\ DOMAIN s = {1} /\ s[1] = e
      BY One
    <3> HIDE DEF s
    <3>2. Parts(s)
      BY <2>5, <3>1 DEF Parts
    <3>3. QED BY <3>2 DEF s
  <2>7. IsTurn(m)
    BY <2>2, <2>6, Nothings DEF IsTurn
  <2>8. ExtractText(m.content) = it.output
    BY <2>2, <2>3, ExtractOne
  <2>9. EventsOfChat(m) = <<r>>
    BY <2>2, <2>7, <2>8, TurnTells
  <2>10. QED BY <2>1, <2>4, <2>7, <2>9, TurnAdded
<1>3. CASE it.type = "function_call"
  <2>1. AddInputItem(ms, it) = AttachCall(ms, it.call)
    BY <1>3 DEF AddInputItem
  <2>2. EventsOfItem(it) = << <<"call", it.call>> >>
    BY <1>3 DEF EventsOfItem
  <2>3. QED BY <2>1, <2>2, CallAttached
<1>4. CASE it.type = "item_reference"
  <2>1. AddInputItem(ms, it) = With(instr, h) /\ EventsOfItem(it) = <<>>
    BY <1>4 DEF AddInputItem, EventsOfItem
  <2>2. IsList(ChatTold(h))
    BY ConversationSpeaks, SpeechEvents
  <2>3. With(ChatTold(h), <<>>) = ChatTold(h)
    BY <2>2, WithIs
  <2>4. QED BY <2>1, <2>3
<1>5. QED BY <1>1, <1>2, <1>3, <1>4 DEF IsItem

\* The items are added one after the other.
LEMMA InputIs ==
    ASSUME NEW instr, NEW items, IsList(items)
    PROVE  \E u : /\ u[0] = instr /\ MessagesOfInput(instr, items) = u[Len(items)]
                  /\ \A n \in 1..Len(items) : u[n] = AddInputItem(u[n - 1], items[n])
<1> DEFINE N == Len(items)
           F(g) == [n \in 0..N |-> IF n = 0 THEN instr ELSE AddInputItem(g[n - 1], items[n])]
<1>1. N \in Nat /\ DOMAIN items = 1..N
  BY ListHas
<1>2. \E g : g = F(g)
  <2> DEFINE S == {k \in 0..N : \E g : g = [n \in 0..k |-> IF n = 0 THEN instr ELSE AddInputItem(g[n - 1], items[n])]}
             G(g, k) == [n \in 0..k |-> IF n = 0 THEN instr ELSE AddInputItem(g[n - 1], items[n])]
  <2>1. 0 \in S
    <3> DEFINE g == [n \in 0..0 |-> instr]
    <3>1. g = G(g, 0)
      OBVIOUS
    <3> HIDE DEF g, G
    <3>2. \E f : f = G(f, 0)
      BY <3>1
    <3>3. QED BY <1>1, <3>2 DEF G
  <2>2. ASSUME NEW k \in 0..(N - 1), k \in S PROVE k + 1 \in S
    <3>1. PICK g : g = G(g, k)
      BY <2>2
    <3> DEFINE f == [n \in 0..(k + 1) |-> IF n = k + 1 THEN AddInputItem(g[k], items[k + 1]) ELSE g[n]]
    <3>2. k \in Nat /\ k + 1 \in 0..N
      BY <1>1
    <3>3. ASSUME NEW n \in 0..(k + 1)
          PROVE  f[n] = IF n = 0 THEN instr ELSE AddInputItem(f[n - 1], items[n])
      <4>1. CASE n = k + 1
        BY <3>2, <4>1
      <4>2. CASE n \in 0..k
        BY <3>1, <3>2, <4>2
      <4>3. QED BY <3>2, <4>1, <4>2
    <3>4. f = G(f, k + 1)
      BY <3>3
    <3> HIDE DEF f, G
    <3>5. \E x : x = G(x, k + 1)
      BY <3>4
    <3>6. QED BY <3>2, <3>5 DEF G
  <2> HIDE DEF S, G
  <2>3. 0..N \subseteq S
    BY <1>1, <2>1, <2>2, UpTo
  <2>4. N \in S
    BY <1>1, <2>3
  <2>5. QED BY <2>4 DEF S
<1> DEFINE upto == CHOOSE g : g = F(g)
<1>3. upto = F(upto)
  <2> HIDE DEF F
  <2>1. QED BY <1>2
<1>4. MessagesOfInput(instr, items) = upto[N]
  BY DEF MessagesOfInput
<1> HIDE DEF upto
<1>5. upto[0] = instr /\ \A n \in 1..N : upto[n] = AddInputItem(upto[n - 1], items[n])
  BY <1>1, <1>3
<1>6. QED BY <1>4, <1>5

\* A Responses request for chat.
LEMMA MessagesOfInputTells ==
    ASSUME NEW instr, IsList(instr), \A i \in DOMAIN instr : IsSystem(instr[i]), NEW items, Items(items)
    PROVE  \E h : /\ MessagesOfInput(instr, items) = instr \o h
                  /\ Conversation(h) /\ ChatTold(h) = ItemsTold(items)
<1> DEFINE N == Len(items)
           ev == Map(items, EventsOfItem)
<1>1. IsList(items) /\ N \in Nat /\ DOMAIN items = 1..N
  BY ListHas DEF Items
<1>2. Lists(ev) /\ Over(ev, items) /\ \A i \in DOMAIN items : ev[i] = EventsOfItem(items[i])
  BY ItemEvents
<1> HIDE DEF ev
<1>3. Len(ev) = N
  BY <1>1, <1>2, Ones
<1>4. PICK u : /\ u[0] = <<>> /\ FlattenSeq(ev) = u[N]
               /\ \A n \in 1..N : u[n] = With(u[n - 1], ev[n])
               /\ \A n \in 0..N : IsList(u[n])
  BY <1>2, <1>3, FlatIs
<1>5. PICK upto : /\ upto[0] = instr /\ MessagesOfInput(instr, items) = upto[N]
                  /\ \A n \in 1..N : upto[n] = AddInputItem(upto[n - 1], items[n])
  BY <1>1, InputIs
<1> DEFINE S == {n \in 0..N : \E h : upto[n] = With(instr, h) /\ Conversation(h) /\ ChatTold(h) = u[n]}
<1>6. 0 \in S
  <2>1. Conversation(<<>>)
    BY Nothings DEF Conversation
  <2>2. With(instr, <<>>) = instr
    BY WithIs
  <2>3. QED BY <1>1, <1>4, <1>5, <2>1, <2>2, NoSpeech
<1>7. ASSUME NEW n \in 0..(N - 1), n \in S PROVE n + 1 \in S
  <2>1. n + 1 \in 1..N /\ n + 1 - 1 = n /\ n + 1 \in 0..N
    BY <1>1
  <2>2. PICK h : upto[n] = With(instr, h) /\ Conversation(h) /\ ChatTold(h) = u[n]
    BY <1>7
  <2>3. upto[n + 1] = AddInputItem(With(instr, h), items[n + 1]) /\ u[n + 1] = With(u[n], EventsOfItem(items[n + 1]))
        /\ IsItem(items[n + 1])
    BY <1>1, <1>2, <1>4, <1>5, <2>1, <2>2 DEF Items
  <2>4. PICK g : /\ AddInputItem(With(instr, h), items[n + 1]) = With(instr, g)
                 /\ Conversation(g) /\ ChatTold(g) = With(ChatTold(h), EventsOfItem(items[n + 1]))
    BY <2>2, <2>3, InputItemTells
  <2>5. upto[n + 1] = With(instr, g) /\ Conversation(g) /\ ChatTold(g) = u[n + 1]
    BY <2>2, <2>3, <2>4
  <2>6. QED BY <2>1, <2>5
<1> HIDE DEF S
<1>8. 0..N \subseteq S
  BY <1>1, <1>6, <1>7, UpTo
<1>9. N \in S
  BY <1>1, <1>8
<1>10. PICK h : upto[N] = With(instr, h) /\ Conversation(h) /\ ChatTold(h) = u[N]
  BY <1>9 DEF S
<1>11. QED BY <1>4, <1>5, <1>10 DEF With, ItemsTold, ev

-----------------------------------------------------------------------------
(* Answers *)

\* The blocks of an answer.
Reply(s) ==
    IsList(s) /\ \A i \in DOMAIN s :
        \/ s[i].type = "text" /\ IsList(s[i].text)
        \/ s[i].type = "thinking" /\ IsList(s[i].text) /\ \A k \in DOMAIN s[i].text : s[i].text[k][1] = "thinking"
        \/ s[i].type = "tool_use"

\* The content of a chat answer is a text at most, as a client's instructions are.
IsAnswer(a) ==
    \/ a.api = "chat" /\ IsPrompt(a.content) /\ IsList(a.calls)
    \/ a.api \in {"messages", "converse"} /\ Reply(a.blocks)
    \/ a.api = "responses" /\ \E content, calls :
         IsPrompt(content) /\ IsList(calls) /\ a.items = Map(content, OutputMessage) \o Map(calls, OutputCall)

\* The blocks of an answer are blocks, and tell texts and calls.
LEMMA ReplyIs ==
    ASSUME NEW s, Reply(s)
    PROVE  Blocks(s) /\ Worded(s) /\ IsList(s) /\ ResultEvents(s) = <<>> /\ ImageEvents(s) = <<>>
<1>1. IsList(s) /\ \A i \in DOMAIN s : s[i].type \in {"text", "thinking", "tool_use"}
  BY DEF Reply
<1>2. Blocks(s)
  BY DEF Reply, Blocks, IsBlock, IsPart
<1>3. Worded(s)
  BY <1>2, Kinds
<1>4. QED BY <1>1, <1>2, <1>3, ResultsAre, ImageAre

\* The texts of some types, one after the other.
LEMMA WordsOf ==
    ASSUME NEW s, IsList(s), NEW TT, \A i \in DOMAIN s : s[i].type \in TT => IsList(s[i].text),
           NEW w, w = Map(OfType(s, TT), LAMBDA b : b.text),
           NEW x, x = [i \in DOMAIN s |-> IF s[i].type \in TT THEN s[i].text ELSE <<>>]
    PROVE  Lists(w) /\ Lists(x) /\ FlattenSeq(w) = FlattenSeq(x)
<1> DEFINE p == [i \in DOMAIN s |-> IF s[i].type \in TT THEN <<s[i]>> ELSE <<>>]
           g == [e \in Range(s) |-> e.text]
           o == FlattenSeq(p)
           Made(t) == [i \in DOMAIN t |-> g[t[i]]]
           made == [k \in DOMAIN p |-> FlattenSeq(Made(p[k]))]
<1>1. OfType(s, TT) = o
  BY DEF OfType, Pick, Map
<1>2. \A i \in DOMAIN s : p[i] = IF s[i].type \in TT THEN <<s[i]>> ELSE <<>>
  OBVIOUS
<1>3. Over(p, s)
  BY DEF Over
<1>4. \A i \in DOMAIN s : s[i] \in Range(s)
  BY ListHas
<1>5. \A i \in DOMAIN s : g[s[i]] = s[i].text
  BY <1>4
<1> HIDE DEF p, g
<1>6. Lists(p) /\ DOMAIN p = DOMAIN s
      /\ \A k \in DOMAIN o : \E i \in DOMAIN s : o[k] = s[i] /\ p[i] # <<>>
  <2>1. \A i \in DOMAIN s : p[i] = <<s[i]>> \/ p[i] = <<>>
    BY <1>2
  <2>2. QED BY <1>3, <2>1, PartOf, Ones
<1>7. ASSUME NEW k \in DOMAIN s
      PROVE  /\ s[k].type \in TT => DOMAIN p[k] = {1} /\ p[k][1] = s[k]
             /\ s[k].type \notin TT => DOMAIN p[k] = {} /\ p[k] = <<>>
  BY <1>2, One, Nothings
<1>8. \A k \in DOMAIN p : \A j \in DOMAIN p[k] : IsList(g[p[k][j]])
  BY <1>5, <1>6, <1>7
<1>9. Lists(Made(o)) /\ Lists(made) /\ FlattenSeq(Made(o)) = FlattenSeq(made)
  <2> DEFINE a == Made(o)
  <2> DEFINE c == [k \in DOMAIN p |-> Made(p[k])]
  <2>1. /\ o = FlattenSeq(p) /\ Over(a, o) /\ \A i \in DOMAIN o : a[i] = g[o[i]]
        /\ Over(made, p) /\ \A k \in DOMAIN p : made[k] = FlattenSeq(c[k])
        /\ \A k \in DOMAIN p : Over(c[k], p[k]) /\ \A i \in DOMAIN p[k] : c[k][i] = g[p[k][i]]
    BY DEF Over
  <2> HIDE DEF o, a, made, c
  <2>2. Lists(a) /\ Lists(made) /\ FlattenSeq(a) = FlattenSeq(made)
    BY <1>6, <1>8, <2>1, Fusion
  <2>3. QED BY <2>2 DEF a
<1>10. \A k \in DOMAIN o : g[o[k]] = o[k].text
  BY <1>5, <1>6
<1> HIDE DEF o
<1>11. w = Made(o)
  BY <1>1, <1>10 DEF Map
<1>12. ASSUME NEW k \in DOMAIN s PROVE made[k] = x[k]
  <2>1. CASE s[k].type \in TT
    <3> DEFINE t == s[k].text
    <3>1. Made(p[k]) = [i \in {1} |-> t]
      BY <1>5, <1>7, <2>1
    <3>2. IsList(t)
      BY <2>1
    <3> HIDE DEF t, Made
    <3>3. Made(p[k]) = <<t>>
      BY <3>1
    <3>4. FlattenSeq(Made(p[k])) = t
      BY <3>2, <3>3, FlatOne
    <3>5. QED BY <1>6, <2>1, <3>4 DEF t
  <2>2. CASE s[k].type \notin TT
    <3>1. Over(Made(p[k]), p[k])
      BY DEF Over
    <3> HIDE DEF Made
    <3>2. Made(p[k]) = <<>>
      BY <1>7, <2>2, <3>1, Ones, Nothings
    <3>3. QED BY <1>6, <2>2, <3>2, FlatNone
  <2>3. QED BY <2>1, <2>2
<1>13. made = x
  BY <1>6, <1>12
<1>14. QED BY <1>9, <1>11, <1>13

\* What is said in flattened texts.
LEMMA SpokenFlat ==
    ASSUME NEW ss, Lists(ss), NEW hs, Over(hs, ss), \A k \in DOMAIN ss : hs[k] = Spoken(ss[k])
    PROVE  Lists(hs) /\ Spoken(FlattenSeq(ss)) = FlattenSeq(hs)
<1>1. PICK upTo :
        /\ upTo[0] = <<>> /\ FlattenSeq(ss) = upTo[Len(ss)]
        /\ \A n \in 1..Len(ss) : upTo[n] = With(upTo[n - 1], ss[n])
        /\ \A n \in 0..Len(ss) : IsList(upTo[n])
  BY FlatIs
<1> DEFINE N == Len(ss)
           u == [n \in 0..N |-> Spoken(upTo[n])]
<1>2. N \in Nat /\ DOMAIN ss = 1..N /\ IsList(ss) /\ \A k \in 1..N : IsList(ss[k])
  BY ListHas DEF Lists
<1>4. u[0] = <<>>
  BY <1>1, <1>2, NothingSaid
<1>5. ASSUME NEW n \in 1..N PROVE u[n] = With(u[n - 1], hs[n])
  <2>1. n \in 0..N /\ n - 1 \in 0..N
    BY <1>2
  <2>2. Spoken(With(upTo[n - 1], ss[n])) = With(Spoken(upTo[n - 1]), Spoken(ss[n]))
    BY <1>1, <1>2, <2>1, SpokenJoin DEF With
  <2>3. QED BY <1>1, <1>2, <2>1, <2>2
<1>6. Lists(hs) /\ Len(hs) = N
  <2>1. IsList(hs) /\ Len(hs) = N /\ DOMAIN hs = DOMAIN ss
    BY <1>2, Ones
  <2>2. \A k \in DOMAIN ss : IsList(hs[k])
    BY <1>2, SpokenIs
  <2>3. QED BY <2>1, <2>2 DEF Lists
<1>7. u[N] = Spoken(FlattenSeq(ss))
  BY <1>1, <1>2
<1> HIDE DEF u
<1>8. FlattenSeq(hs) = u[N]
  BY <1>4, <1>5, <1>6, FlatBuilt
<1>9. QED BY <1>6, <1>7, <1>8

\* Thinking that is made text says nothing more.
LEMMA ThinkingUnsaid ==
    ASSUME NEW s, Reply(s), NEW w, w = Map(OfType(s, {"text", "thinking"}), LAMBDA b : b.text)
    PROVE  IsList(FlattenSeq(w)) /\ \A r : TextEvents(r, FlattenSeq(w)) = TextEvents(r, ExtractText(s))
<1> DEFINE v == Map(OfType(s, {"text"}), LAMBDA b : b.text)
           x == [i \in DOMAIN s |-> IF s[i].type \in {"text", "thinking"} THEN s[i].text ELSE <<>>]
           y == [i \in DOMAIN s |-> IF s[i].type \in {"text"} THEN s[i].text ELSE <<>>]
           z == [i \in DOMAIN s |-> Spoken(y[i])]
<1>1. IsList(s) /\ (\A i \in DOMAIN s : s[i].type \in {"text", "thinking"} => IsList(s[i].text))
  BY DEF Reply
<1>2. ExtractText(s) = FlattenSeq(v)
  BY DEF ExtractText
<1> HIDE DEF v
<1>3. Lists(w) /\ Lists(x) /\ FlattenSeq(w) = FlattenSeq(x)
  <2> HIDE DEF x
  <2>1. x = [i \in DOMAIN s |-> IF s[i].type \in {"text", "thinking"} THEN s[i].text ELSE <<>>]
    BY DEF x
  <2>2. QED BY <1>1, <2>1, WordsOf
<1>4. Lists(v) /\ Lists(y) /\ FlattenSeq(v) = FlattenSeq(y)
  <2> HIDE DEF y
  <2>1. y = [i \in DOMAIN s |-> IF s[i].type \in {"text"} THEN s[i].text ELSE <<>>]
    BY DEF y
  <2>2. \A i \in DOMAIN s : s[i].type \in {"text"} => IsList(s[i].text)
    BY <1>1
  <2>3. v = Map(OfType(s, {"text"}), LAMBDA b : b.text)
    BY DEF v
  <2>4. QED BY <1>1, <2>1, <2>2, <2>3, WordsOf
<1>5. ASSUME NEW i \in DOMAIN s PROVE z[i] = Spoken(x[i]) /\ z[i] = Spoken(y[i])
  <2>1. CASE s[i].type = "thinking"
    <3>1. x[i] = s[i].text /\ y[i] = <<>>
      BY <2>1
    <3>2. IsList(s[i].text) /\ \A k \in DOMAIN s[i].text : ~Speaks(s[i].text[k])
      BY <2>1 DEF Reply, Speaks
    <3>3. Spoken(s[i].text) = <<>>
      BY <3>2, SpokenIs
    <3>4. z[i] = Spoken(y[i])
      OBVIOUS
    <3> HIDE DEF x, y, z
    <3>5. QED BY <3>1, <3>3, <3>4, NothingSaid
  <2>2. CASE s[i].type # "thinking"
    <3>1. x[i] = y[i] /\ z[i] = Spoken(y[i])
      BY <2>2
    <3>2. QED BY <3>1
  <2>3. QED BY <2>1, <2>2
<1>6. DOMAIN x = DOMAIN s /\ DOMAIN y = DOMAIN s /\ Over(z, x) /\ Over(z, y)
  BY DEF Over
<1> HIDE DEF x, y, z
<1>7. Spoken(FlattenSeq(x)) = FlattenSeq(z) /\ Spoken(FlattenSeq(y)) = FlattenSeq(z)
  BY <1>3, <1>4, <1>5, <1>6, SpokenFlat
<1>8. Spoken(FlattenSeq(w)) = Spoken(ExtractText(s))
  BY <1>2, <1>3, <1>4, <1>7
<1>9. QED BY <1>3, <1>8, FlatList DEF TextEvents

-----------------------------------------------------------------------------
(* Answers *)

\* The text of a chat answer as blocks.
Written(content) == Map(Pick(content, LAMBDA t : t # <<>>), Text)

\* The text of an answer as content that is not empty.
LEMMA WrittenIs ==
    ASSUME NEW content, IsPrompt(content)
    PROVE  /\ Lists(content) /\ Parts(Written(content))
           /\ \A i \in DOMAIN Written(content) : Written(content)[i].type = "text"
           /\ ExtractText(Written(content)) = FlattenSeq(content) /\ ImageEvents(Written(content)) = <<>>
<1> DEFINE p == Map(content, LAMBDA e : IF e # <<>> THEN <<e>> ELSE <<>>)
           w == Written(content)
<1>1. w = Map(FlattenSeq(p), Text)
  BY DEF Written, Pick
<1>2. CASE content = <<>>
  <2>1. p = <<>>
    BY <1>2 DEF Map
  <2>2. w = <<>>
    BY <1>1, <2>1, FlatNone DEF Map
  <2>3. Lists(content) /\ Parts(<<>>) /\ FlattenSeq(content) = <<>>
    BY <1>2, Nothings, FlatNone DEF Lists, Parts
  <2> HIDE DEF w
  <2>4. QED BY <2>2, <2>3, NoWords, Nothings DEF w
<1>3. ASSUME NEW t, IsList(t), content = <<t>>
      PROVE  /\ Lists(content) /\ Parts(w) /\ \A i \in DOMAIN w : w[i].type = "text"
             /\ ExtractText(w) = FlattenSeq(content) /\ ImageEvents(w) = <<>>
  <2>1. Lists(content) /\ FlattenSeq(content) = t
    BY <1>3, FlatOne
  <2>2. CASE t = <<>>
    <3>1. p = << <<>> >>
      BY <1>3, <2>2 DEF Map
    <3>2. FlattenSeq(p) = <<>>
      BY <3>1, FlatOne, Nothings
    <3>3. w = <<>>
      BY <1>1, <3>2 DEF Map
    <3> HIDE DEF w
    <3>4. Parts(<<>>)
      BY Nothings DEF Parts
    <3>5. QED BY <2>1, <2>2, <3>3, <3>4, NoWords, Nothings
  <2>3. CASE t # <<>>
    <3>1. p = << <<t>> >>
      BY <1>3, <2>3 DEF Map
    <3>2. IsList(<<t>>)
      BY One
    <3>3. FlattenSeq(p) = <<t>>
      BY <3>1, <3>2, FlatOne
    <3>4. w = <<Text(t)>>
      BY <1>1, <3>3 DEF Map
    <3> HIDE DEF w
    <3> DEFINE e == Text(t)
    <3>5. e.type = "text" /\ e.text = t
      BY DEF Text
    <3>6. w = <<e>>
      BY <3>4
    <3> HIDE DEF e
    <3>7. IsList(w) /\ DOMAIN w = {1} /\ w[1] = e
      BY <3>6, One
    <3>8. Parts(w)
      BY <1>3, <3>5, <3>7 DEF Parts, IsPart
    <3>9. ExtractText(w) = t /\ ImageEvents(w) = <<>>
      BY <1>3, <3>5, <3>6, ExtractOne, OneBlock
    <3>10. QED BY <2>1, <3>5, <3>7, <3>8, <3>9
  <2>4. QED BY <2>2, <2>3
<1>4. QED BY <1>2, <1>3 DEF IsPrompt

\* The items of an answer tell its text and its calls.
LEMMA OutputTells ==
    ASSUME NEW content, IsPrompt(content), NEW calls, IsList(calls)
    PROVE  LET items == Map(content, OutputMessage) \o Map(calls, OutputCall)
           IN  /\ Items(items) /\ IsList(CallEvents(calls)) /\ IsList(TextEvents("assistant", FlattenSeq(content)))
               /\ ItemsTold(items) = With(TextEvents("assistant", FlattenSeq(content)), CallEvents(calls))
<1> DEFINE a == Map(content, OutputMessage)
           b == Map(calls, OutputCall)
           ce == CallEvents(calls)
           te == TextEvents("assistant", FlattenSeq(content))
           eb == Map(b, EventsOfItem)
<1>1. Items(a) /\ ItemsTold(a) = te /\ IsList(te)
  <2>1. CASE content = <<>>
    <3>1. a = <<>> /\ FlattenSeq(content) = <<>>
      BY <2>1, FlatNone DEF Map
    <3> HIDE DEF a
    <3>2. te = <<>>
      BY <3>1, NothingSaid
    <3> HIDE DEF te
    <3>3. QED BY <3>1, <3>2, NoSpeech, Nothings
  <2>2. ASSUME NEW t, IsList(t), content = <<t>> PROVE Items(a) /\ ItemsTold(a) = te /\ IsList(te)
    <3> DEFINE m == OutputMessage(t)
               c == <<Text(t)>>
    <3>1. a = <<m>> /\ m.type = "message" /\ m.role = "assistant" /\ m.content = c
      BY <2>2 DEF Map, OutputMessage
    <3>2. FlattenSeq(content) = t
      BY <2>2, FlatOne
    <3>3. te = TextEvents("assistant", t) /\ IsList(te)
      BY <2>2, <3>2, TextEventsAre
    <3>4. Parts(c) /\ (\A i \in DOMAIN c : c[i].type = "text") /\ ExtractText(c) = t /\ ImageEvents(c) = <<>>
      <4> DEFINE e == Text(t)
      <4>1. e.type = "text" /\ e.text = t /\ c = <<e>>
        BY DEF Text
      <4> HIDE DEF e, c
      <4>2. IsList(c) /\ DOMAIN c = {1} /\ c[1] = e
        BY <4>1, One
      <4>3. ExtractText(c) = t /\ ImageEvents(c) = <<>>
        BY <2>2, <4>1, ExtractOne, OneBlock
      <4>4. QED BY <2>2, <4>1, <4>2, <4>3 DEF Parts, IsPart
    <3> HIDE DEF a, m, c, te
    <3>5. IsItem(m)
      BY <3>1, <3>4 DEF IsItem
    <3>6. EventsOfItem(m) = With(te, <<>>)
      BY <3>1, <3>3, <3>4, <3>5, ItemTells
    <3>7. EventsOfItem(m) = te
      BY <3>3, <3>6, WithIs
    <3>8. QED BY <3>1, <3>3, <3>5, <3>7, OneItem
  <2>3. QED BY <2>1, <2>2 DEF IsPrompt
<1>2. IsList(ce) /\ DOMAIN ce = DOMAIN calls /\ \A i \in DOMAIN calls : ce[i] = <<"call", calls[i]>>
  BY CallEventsAre DEF CallEvents, Map
<1>3. /\ Over(b, calls) /\ \A i \in DOMAIN calls : b[i].type = "function_call" /\ b[i].call = calls[i]
  BY DEF Map, Over, OutputCall
<1> HIDE DEF a, b, ce, te
<1>4. IsList(b) /\ DOMAIN b = DOMAIN calls
  BY <1>3, Ones
<1>5. Items(b)
  BY <1>3, <1>4 DEF Items, IsItem
<1>6. DOMAIN eb = DOMAIN b /\ \A i \in DOMAIN b : eb[i] = <<ce[i]>>
  BY <1>2, <1>3, <1>4 DEF Map, EventsOfItem
<1>7. eb = [i \in DOMAIN ce |-> <<ce[i]>>]
  <2>1. eb = [i \in DOMAIN b |-> eb[i]]
    BY DEF Map
  <2> HIDE DEF eb
  <2>2. QED BY <1>2, <1>4, <1>6, <2>1
<1>8. ItemsTold(b) = ce
  <2> HIDE DEF eb
  <2>1. FlattenSeq(eb) = ce
    BY <1>2, <1>7, FlatOnes
  <2>2. QED BY <2>1 DEF ItemsTold, eb
<1>9. Items(a \o b) /\ ItemsTold(a \o b) = With(te, ce)
  BY <1>1, <1>5, <1>8, ItemJoin DEF With
<1>10. QED BY <1>1, <1>2, <1>9 DEF a, b, ce, te

\* The events of an answer of each API.
LEMMA AnswerEventsAre ==
    ASSUME NEW a, IsAnswer(a)
    PROVE  /\ a.api = "chat" =>
                /\ Lists(a.content)
                /\ AnswerEvents(a) = With(TextEvents("assistant", FlattenSeq(a.content)), CallEvents(a.calls))
           /\ a.api \in {"messages", "converse"} =>
                AnswerEvents(a) = With(TextEvents("assistant", ExtractText(a.blocks)), CallEvents(CallsIn(a.blocks)))
           /\ a.api = "responses" => AnswerEvents(a) = ItemsTold(a.items) /\ Items(a.items)
           /\ IsList(AnswerEvents(a))
<1>1. CASE a.api = "chat"
  <2>1. IsPrompt(a.content) /\ IsList(a.calls)
    BY <1>1 DEF IsAnswer
  <2>2. Lists(a.content) /\ IsList(FlattenSeq(a.content))
    BY <2>1, WrittenIs, FlatList
  <2>3. AnswerEvents(a) = With(TextEvents("assistant", FlattenSeq(a.content)), CallEvents(a.calls))
    BY <1>1 DEF AnswerEvents, With
  <2>4. IsList(TextEvents("assistant", FlattenSeq(a.content))) /\ IsList(CallEvents(a.calls))
    BY <2>1, <2>2, TextEventsAre, CallEventsAre
  <2>5. QED BY <1>1, <2>2, <2>3, <2>4, WithIs
<1>2. CASE a.api \in {"messages", "converse"}
  <2> DEFINE b == a.blocks
             te == TextEvents("assistant", ExtractText(b))
             ce == CallEvents(CallsIn(b))
  <2>1. Reply(b)
    BY <1>2 DEF IsAnswer
  <2>2. AnswerEvents(a) = Told("assistant", b)
    BY <1>2, ToldIs DEF AnswerEvents
  <2>3. Told("assistant", b) = With(With(With(<<>>, te), <<>>), ce)
    BY <2>1, ReplyIs DEF Told
  <2>4. IsList(te) /\ IsList(ce)
    BY <2>1, ReplyIs, WordingsAre, TextEventsAre, CallsAre, CallEventsAre
  <2> HIDE DEF te, ce
  <2>5. AnswerEvents(a) = With(te, ce) /\ IsList(With(te, ce))
    BY <2>2, <2>3, <2>4, WithIs
  <2>6. QED BY <1>2, <2>5 DEF te, ce
<1>3. CASE a.api = "responses"
  <2>1. PICK content, calls : IsPrompt(content) /\ IsList(calls)
                              /\ a.items = Map(content, OutputMessage) \o Map(calls, OutputCall)
    BY <1>3 DEF IsAnswer
  <2>2. Items(a.items)
    BY <2>1, OutputTells
  <2>3. AnswerEvents(a) = ItemsTold(a.items)
    BY <1>3 DEF AnswerEvents, ItemsTold
  <2>4. IsList(AnswerEvents(a))
    BY <2>2, <2>3, ItemEvents
  <2>5. QED BY <1>3, <2>2, <2>3, <2>4
<1>4. QED BY <1>1, <1>2, <1>3 DEF IsAnswer

-----------------------------------------------------------------------------
(* Answers converted *)

\* An answer in the form of an API, that tells what another does.
AnswersLike(got, a, api) == IsAnswer(got) /\ got.api = api /\ AnswerEvents(got) = AnswerEvents(a)

\* A chat answer for a Messages client.
LEMMA ChatAnswerToMessagesTells ==
    ASSUME NEW a, IsAnswer(a), a.api = "chat"
    PROVE  AnswersLike(ChatAnswerToMessages(a), a, "messages")
<1> DEFINE got == ChatAnswerToMessages(a)
           w == Written(a.content)
           u == Map(a.calls, Use)
           b == got.blocks
           te == TextEvents("assistant", FlattenSeq(a.content))
           ce == CallEvents(a.calls)
<1>1. IsPrompt(a.content) /\ IsList(a.calls)
  BY DEF IsAnswer
<1>2. got.api = "messages" /\ b = w \o u
  BY DEF ChatAnswerToMessages, Written
<1>3. /\ Parts(w) /\ (\A i \in DOMAIN w : w[i].type = "text") /\ ExtractText(w) = FlattenSeq(a.content)
      /\ ImageEvents(w) = <<>> /\ Lists(a.content)
  BY <1>1, WrittenIs
<1>4. AnswerEvents(a) = With(te, ce) /\ IsList(te)
  BY <1>3, AnswerEventsAre, FlatList, TextEventsAre
<1>5. Worded(w) /\ IsList(w) /\ ResultEvents(w) = <<>> /\ CallsIn(w) = <<>>
  BY <1>3, PartsAre
<1>6. IsList(u) /\ \A i \in DOMAIN u : u[i].type = "tool_use"
  BY <1>1, UsesAre DEF Worded
<1>7. Told("assistant", w \o u) = With(With(te, <<>>), ce)
  BY <1>1, <1>3, <1>5, ToldBeside
<1> HIDE DEF te, ce
<1>8. Told("assistant", b) = AnswerEvents(a)
  BY <1>2, <1>4, <1>7, WithIs
<1> HIDE DEF w, u
<1>9. Reply(b)
  <2> DEFINE v == w \o u
  <2>1. IsList(v) /\ \A i \in DOMAIN v : \/ i \in DOMAIN w /\ v[i] = w[i]
                                         \/ \E j \in DOMAIN u : i = Len(w) + j /\ v[i] = u[j]
    BY <1>5, <1>6, Joined, JoinedAt
  <2> HIDE DEF v
  <2>2. \A i \in DOMAIN w : w[i].type = "text" /\ IsList(w[i].text)
    BY <1>3, <1>5 DEF Worded
  <2>3. Reply(v)
    BY <1>6, <2>1, <2>2 DEF Reply
  <2>4. QED BY <1>2, <2>3 DEF v
<1>10. AnswerEvents(got) = Told("assistant", b)
  BY <1>2, ToldIs DEF AnswerEvents
<1> HIDE DEF got
<1>11. QED BY <1>2, <1>8, <1>9, <1>10 DEF AnswersLike, IsAnswer, got

\* A chat answer for a Responses client.
LEMMA ChatAnswerToResponsesTells ==
    ASSUME NEW a, IsAnswer(a), a.api = "chat"
    PROVE  AnswersLike(ChatAnswerToResponses(a), a, "responses")
<1> DEFINE got == ChatAnswerToResponses(a)
<1>1. IsPrompt(a.content) /\ IsList(a.calls)
  BY DEF IsAnswer
<1>2. got.api = "responses" /\ got.items = Map(a.content, OutputMessage) \o Map(a.calls, OutputCall)
  BY DEF ChatAnswerToResponses
<1> HIDE DEF got
<1>3. IsAnswer(got)
  BY <1>1, <1>2 DEF IsAnswer
<1>4. ItemsTold(got.items) = With(TextEvents("assistant", FlattenSeq(a.content)), CallEvents(a.calls))
  BY <1>1, <1>2, OutputTells
<1>5. AnswerEvents(got) = AnswerEvents(a)
  BY <1>2, <1>3, <1>4, AnswerEventsAre
<1>6. QED BY <1>2, <1>3, <1>5 DEF AnswersLike, got

\* A Messages answer for a chat client.
LEMMA MessagesAnswerToChatTells ==
    ASSUME NEW a, IsAnswer(a), a.api = "messages"
    PROVE  AnswersLike(MessagesAnswerToChat(a), a, "chat")
<1> DEFINE got == MessagesAnswerToChat(a)
           w == Map(OfType(a.blocks, {"text", "thinking"}), LAMBDA b : b.text)
           t == FlattenSeq(w)
<1>1. Reply(a.blocks)
  BY DEF IsAnswer
<1>2. got.api = "chat" /\ got.content = <<t>> /\ got.calls = CallsIn(a.blocks)
  BY DEF MessagesAnswerToChat
<1>3. IsList(t) /\ TextEvents("assistant", t) = TextEvents("assistant", ExtractText(a.blocks))
  BY <1>1, ThinkingUnsaid
<1> HIDE DEF got, t
<1>4. IsPrompt(got.content) /\ FlattenSeq(got.content) = t
  BY <1>2, <1>3, FlatOne DEF IsPrompt
<1>5. IsList(got.calls)
  BY <1>1, <1>2, ReplyIs, CallsAre
<1>6. IsAnswer(got)
  BY <1>2, <1>4, <1>5 DEF IsAnswer
<1>7. AnswerEvents(got) = With(TextEvents("assistant", t), CallEvents(CallsIn(a.blocks)))
  BY <1>2, <1>4, <1>6, AnswerEventsAre
<1>8. AnswerEvents(a) = With(TextEvents("assistant", ExtractText(a.blocks)), CallEvents(CallsIn(a.blocks)))
  BY AnswerEventsAre
<1>9. QED BY <1>2, <1>3, <1>6, <1>7, <1>8 DEF AnswersLike, got

\* An answer of Bedrock for a chat client.
LEMMA ConverseAnswerToChatTells ==
    ASSUME NEW a, IsAnswer(a), a.api = "converse"
    PROVE  AnswersLike(ConverseAnswerToChat(a), a, "chat")
<1> DEFINE got == ConverseAnswerToChat(a)
           t == ExtractText(a.blocks)
<1>1. Reply(a.blocks)
  BY DEF IsAnswer
<1>2. IsList(t) /\ IsList(a.blocks)
  BY <1>1, ReplyIs, WordingsAre
<1>3. OfType(a.blocks, {"tool_use"}) = OfType(a.blocks, {"tool_use", "server_use"})
  <2>1. \A i \in DOMAIN a.blocks : a.blocks[i].type \in {"tool_use"} <=> a.blocks[i].type \in {"tool_use", "server_use"}
    BY <1>1 DEF Reply
  <2>2. QED BY <1>2, <2>1, OfTypes
<1>4. got.api = "chat" /\ got.content = (IF t = <<>> THEN <<>> ELSE <<t>>) /\ got.calls = CallsIn(a.blocks)
  BY <1>3 DEF ConverseAnswerToChat, CallsIn
<1> HIDE DEF got, t
<1>5. IsPrompt(got.content) /\ FlattenSeq(got.content) = t
  BY <1>2, <1>4, FlatOne, FlatNone DEF IsPrompt
<1>6. IsList(got.calls)
  BY <1>2, <1>4, CallsAre
<1>7. IsAnswer(got)
  BY <1>4, <1>5, <1>6 DEF IsAnswer
<1>8. AnswerEvents(got) = With(TextEvents("assistant", t), CallEvents(CallsIn(a.blocks)))
  BY <1>4, <1>5, <1>7, AnswerEventsAre
<1>9. AnswerEvents(a) = With(TextEvents("assistant", t), CallEvents(CallsIn(a.blocks)))
  BY AnswerEventsAre DEF t
<1>10. QED BY <1>4, <1>7, <1>8, <1>9 DEF AnswersLike, got

\* An answer of Bedrock for a Messages client.
LEMMA ConverseAnswerToMessagesTells ==
    ASSUME NEW a, IsAnswer(a), a.api = "converse"
    PROVE  AnswersLike(ConverseAnswerToMessages(a), a, "messages")
<1> DEFINE got == ConverseAnswerToMessages(a)
<1>1. got.api = "messages" /\ got.blocks = a.blocks
  BY DEF ConverseAnswerToMessages
<1> HIDE DEF got
<1>2. IsAnswer(got)
  BY <1>1 DEF IsAnswer
<1>3. AnswerEvents(got) = AnswerEvents(a)
  BY <1>1, <1>2, AnswerEventsAre
<1>4. QED BY <1>1, <1>2, <1>3 DEF AnswersLike, got

\* Whatever API an answer comes from, the client's form of it tells the same.
LEMMA ConvertedIs ==
    ASSUME NEW a, IsAnswer(a), NEW c \in {"chat", "messages", "responses"}, a.api = "responses" => c = "responses"
    PROVE  AnswersLike(ConvertedAnswer(a, c), a, c)
<1>0. a.api \in {"chat", "messages", "converse", "responses"}
  BY DEF IsAnswer
<1>1. CASE a.api = c
  BY <1>1 DEF ConvertedAnswer, AnswersLike
<1>2. CASE a.api = "chat" /\ c = "messages"
  BY <1>2, ChatAnswerToMessagesTells DEF ConvertedAnswer
<1>3. CASE a.api = "chat" /\ c = "responses"
  BY <1>3, ChatAnswerToResponsesTells DEF ConvertedAnswer
<1>4. CASE a.api = "messages" /\ c = "chat"
  BY <1>4, MessagesAnswerToChatTells DEF ConvertedAnswer
<1>5. CASE a.api = "messages" /\ c = "responses"
  <2> DEFINE b == MessagesAnswerToChat(a)
  <2>1. AnswersLike(b, a, "chat")
    BY <1>5, MessagesAnswerToChatTells
  <2>2. ConvertedAnswer(a, c) = ChatAnswerToResponses(b)
    BY <1>5 DEF ConvertedAnswer
  <2> HIDE DEF b
  <2>3. QED BY <1>5, <2>1, <2>2, ChatAnswerToResponsesTells DEF AnswersLike
<1>6. CASE a.api = "converse" /\ c = "chat"
  BY <1>6, ConverseAnswerToChatTells DEF ConvertedAnswer
<1>7. CASE a.api = "converse" /\ c = "messages"
  BY <1>7, ConverseAnswerToMessagesTells DEF ConvertedAnswer
<1>8. CASE a.api = "converse" /\ c = "responses"
  <2> DEFINE b == ConverseAnswerToChat(a)
  <2>1. AnswersLike(b, a, "chat")
    BY <1>8, ConverseAnswerToChatTells
  <2>2. ConvertedAnswer(a, c) = ChatAnswerToResponses(b)
    BY <1>8 DEF ConvertedAnswer
  <2> HIDE DEF b
  <2>3. QED BY <1>8, <2>1, <2>2, ChatAnswerToResponsesTells DEF AnswersLike
<1>9. QED BY <1>0, <1>1, <1>2, <1>3, <1>4, <1>5, <1>6, <1>7, <1>8

-----------------------------------------------------------------------------
(* Requests converted *)

\* A request for an API that tells some events and instructions and asks for a choice.
ChoiceKept(req, choice0, api) ==
    \/ req.choice = choice0
    \/ req.choice = "auto" /\ choice0 \in {"omitted", "unnamed", "other"}
    \/ req.choice = "auto" /\ choice0 = "none" /\ api = "converse"

\* What Bedrock takes of the client there is.
OwnBlocks == client = "messages"

Fits(messages) ==
    \A i \in DOMAIN messages : \/ Fit(messages[i].blocks, FALSE)
                               \/ OwnBlocks /\ Fit(messages[i].blocks, TRUE)

\* A request for an API that tells some events and instructions, and asks for
\* a choice of tool.
RequestTells(req, api, sys, events, choice0) ==
    /\ req.api = api /\ EventsOf(req) = events /\ InstructionsOf(req) = sys
    /\ ChoiceKept(req, choice0, api)
    /\ api = "converse" => Fits(req.messages)

\* What a chat request tells.
LEMMA ChatIsTold ==
    ASSUME NEW r, r.api = "chat"
    PROVE  /\ EventsOf(r) = FlattenSeq(Map(Turns(r.messages), EventsOfChat))
           /\ InstructionsOf(r) = Map(Instructions(r.messages), TextOf)
<1>1. EventsOf(r) = FlattenSeq(Map(Turns(r.messages), EventsOfChat))
  BY DEF EventsOf
<1>2. InstructionsOf(r) = Map(Instructions(r.messages), TextOf)
  BY DEF InstructionsOf, Map, TextOf
<1>3. QED BY <1>1, <1>2

\* So one of a system prompt and of speeches tells both.
LEMMA ChatRequestIs ==
    ASSUME NEW sys, IsPrompt(sys), NEW h, Speeches(h), NEW r, r.api = "chat",
           r.messages = Map(sys, SystemMessage) \o h
    PROVE  EventsOf(r) = ChatTold(h) /\ InstructionsOf(r) = sys
<1>1. /\ FlattenSeq(Map(Turns(r.messages), EventsOfChat)) = ChatTold(h)
      /\ Map(Instructions(r.messages), TextOf) = sys
  BY ChatTells
<1>2. QED BY <1>1, ChatIsTold

\* What a request of blocks tells.
LEMMA BlocksAreTold ==
    ASSUME NEW r, r.api \in {"messages", "converse"}
    PROVE  EventsOf(r) = DialogueTold(r.messages) /\ InstructionsOf(r) = r.system
<1>1. EventsOf(r) = DialogueTold(r.messages)
  BY DEF EventsOf, DialogueTold
<1>2. InstructionsOf(r) = r.system
  BY DEF InstructionsOf
<1>3. QED BY <1>1, <1>2

\* A chat request tells the same to each API.
LEMMA ChatRequestTells ==
    ASSUME NEW sys, IsPrompt(sys), NEW h, Conversation(h), NEW choice0,
           NEW r, r.api = "chat", r.messages = Map(sys, SystemMessage) \o h, r.tools = TRUE, ChoiceKept(r, choice0, "chat")
    PROVE  /\ RequestTells(r, "chat", sys, ChatTold(h), choice0)
           /\ RequestTells(ChatToMessages(r), "messages", sys, ChatTold(h), choice0)
           /\ RequestTells(ChatToConverse(r), "converse", sys, ChatTold(h), choice0)
<1>1. RequestTells(r, "chat", sys, ChatTold(h), choice0)
  <2>1. EventsOf(r) = ChatTold(h) /\ InstructionsOf(r) = sys
    BY ConversationSpeaks, ChatTells, ChatIsTold
  <2>2. QED BY <2>1 DEF RequestTells
<1>2. RequestTells(ChatToMessages(r), "messages", sys, ChatTold(h), choice0)
  <2> DEFINE to == ChatToMessages(r)
  <2>1. to.api = "messages" /\ to.choice = r.choice
    BY DEF ChatToMessages
  <2>2. DialogueTold(to.messages) = ChatTold(h) /\ to.system = sys
    BY ChatToMessagesTells
  <2> HIDE DEF to
  <2>3. ChoiceKept(to, choice0, "messages")
    BY <2>1 DEF ChoiceKept
  <2>4. QED BY <2>1, <2>2, <2>3, BlocksAreTold DEF RequestTells, to
<1>3. RequestTells(ChatToConverse(r), "converse", sys, ChatTold(h), choice0)
  <2> DEFINE to == ChatToConverse(r)
  <2>1. to.api = "converse" /\ to.choice = BedrockChoice(r.choice, TRUE)
    BY DEF ChatToConverse
  <2>2. /\ DialogueTold(to.messages) = ChatTold(h) /\ to.system = sys
        /\ \A i \in DOMAIN to.messages : Fit(to.messages[i].blocks, FALSE)
    BY ChatToConverseTells
  <2>a. Fits(to.messages)
    BY <2>2 DEF Fits
  <2> HIDE DEF to
  <2>3. ChoiceKept(to, choice0, "converse")
    <3>1. CASE r.choice = "none"
      BY <2>1, <3>1 DEF ChoiceKept, BedrockChoice
    <3>2. CASE r.choice = "omitted"
      BY <2>1, <3>2 DEF ChoiceKept, BedrockChoice
    <3>3. CASE r.choice # "none" /\ r.choice # "omitted"
      BY <2>1, <3>3 DEF ChoiceKept, BedrockChoice
    <3>4. QED BY <3>1, <3>2, <3>3
  <2>4. QED BY <2>1, <2>2, <2>3, <2>a, BlocksAreTold DEF RequestTells, to
<1>4. QED BY <1>1, <1>2, <1>3

\* A Messages request tells the same to each API, but Bedrock no image that is
\* a URL.
LEMMA MessagesRequestTells ==
    ASSUME OwnBlocks,
           NEW sys, IsPrompt(sys), NEW r, r.api = "messages", r.system = sys, Dialogue(r.messages), r.tools = TRUE
    PROVE  /\ RequestTells(r, "messages", sys, DialogueTold(r.messages), r.choice)
           /\ RequestTells(MessagesToChat(r), "chat", sys, DialogueTold(r.messages), r.choice)
           /\ RequestTells(MessagesToConverse(r), "converse", sys, Kept("urls", DialogueTold(r.messages)), r.choice)
<1>1. RequestTells(r, "messages", sys, DialogueTold(r.messages), r.choice)
  BY BlocksAreTold DEF RequestTells, ChoiceKept
<1>2. RequestTells(MessagesToChat(r), "chat", sys, DialogueTold(r.messages), r.choice)
  <2> DEFINE to == MessagesToChat(r)
  <2>1. to.api = "chat" /\ to.choice = MessagesChoice(r.choice)
    BY DEF MessagesToChat
  <2>2. PICK h : Speeches(h) /\ ChatTold(h) = DialogueTold(r.messages) /\ to.messages = Map(sys, SystemMessage) \o h
    BY MessagesToChatTells
  <2> HIDE DEF to
  <2>3. EventsOf(to) = DialogueTold(r.messages) /\ InstructionsOf(to) = sys
    <3>1. EventsOf(to) = ChatTold(h) /\ InstructionsOf(to) = sys
      BY <2>1, <2>2, ChatRequestIs
    <3>2. QED BY <2>2, <3>1
  <2>4. ChoiceKept(to, r.choice, "chat")
    BY <2>1 DEF ChoiceKept, MessagesChoice
  <2>5. QED BY <2>1, <2>3, <2>4 DEF RequestTells, to
<1>3. RequestTells(MessagesToConverse(r), "converse", sys, Kept("urls", DialogueTold(r.messages)), r.choice)
  <2> DEFINE to == MessagesToConverse(r)
  <2>1. to.api = "converse" /\ to.choice = IF r.choice = "none" THEN "auto" ELSE MessagesChoice(r.choice)
    BY DEF MessagesToConverse
  <2>2. /\ DialogueTold(to.messages) = Kept("urls", DialogueTold(r.messages)) /\ to.system = sys
        /\ \A i \in DOMAIN to.messages : Fit(to.messages[i].blocks, TRUE)
    BY MessagesToConverseTells
  <2>a. Fits(to.messages)
    BY <2>2 DEF Fits
  <2> HIDE DEF to
  <2>3. ChoiceKept(to, r.choice, "converse")
    BY <2>1 DEF ChoiceKept, MessagesChoice
  <2>4. QED BY <2>1, <2>2, <2>3, <2>a, BlocksAreTold DEF RequestTells, to
<1>4. QED BY <1>1, <1>2, <1>3

\* What clients have for tool_choice.
ChatChoices == {"omitted", "auto", "required", "none", "named", "unnamed", "other"}

\* A Responses request tells the same to each API.
LEMMA ResponsesRequestTells ==
    ASSUME NEW sys, IsPrompt(sys),
           NEW r, r.api = "responses", r.system = sys, Items(r.items), r.tools = TRUE, r.choice \in ChatChoices
    PROVE  /\ RequestTells(r, "responses", sys, ItemsTold(r.items), r.choice)
           /\ RequestTells(ResponsesToChat(r), "chat", sys, ItemsTold(r.items), r.choice)
           /\ RequestTells(ChatToMessages(ResponsesToChat(r)), "messages", sys, ItemsTold(r.items), r.choice)
           /\ RequestTells(ChatToConverse(ResponsesToChat(r)), "converse", sys, ItemsTold(r.items), r.choice)
<1> DEFINE to == ResponsesToChat(r)
           instr == Map(sys, SystemMessage)
<1>1. to.api = "chat" /\ to.messages = MessagesOfInput(instr, r.items) /\ to.tools = TRUE
      /\ to.choice = ChatChoiceOfResponses(r.choice)
  BY DEF ResponsesToChat
<1>2. IsList(instr) /\ \A i \in DOMAIN instr : IsSystem(instr[i])
  BY PromptIs
<1> HIDE DEF instr
<1>3. PICK h : /\ MessagesOfInput(instr, r.items) = instr \o h
               /\ Conversation(h) /\ ChatTold(h) = ItemsTold(r.items)
  BY <1>2, MessagesOfInputTells
<1>4. ChoiceKept(to, r.choice, "chat")
  BY <1>1 DEF ChoiceKept, ChatChoiceOfResponses, ChatChoices
<1> HIDE DEF to
<1>5. to.messages = Map(sys, SystemMessage) \o h
  BY <1>1, <1>3 DEF instr
<1>6. /\ RequestTells(to, "chat", sys, ChatTold(h), r.choice)
      /\ RequestTells(ChatToMessages(to), "messages", sys, ChatTold(h), r.choice)
      /\ RequestTells(ChatToConverse(to), "converse", sys, ChatTold(h), r.choice)
  BY <1>1, <1>3, <1>4, <1>5, ChatRequestTells
<1>7. RequestTells(r, "responses", sys, ItemsTold(r.items), r.choice)
  <2>1. EventsOf(r) = ItemsTold(r.items)
    BY DEF EventsOf, ItemsTold
  <2>2. InstructionsOf(r) = sys
    BY DEF InstructionsOf
  <2>3. QED BY <2>1, <2>2 DEF RequestTells, ChoiceKept
<1>8. QED BY <1>3, <1>6, <1>7 DEF to

-----------------------------------------------------------------------------
(* What upstreams answer *)

\* A text, or none, is the content of an answer.
LEMMA PromptOf ==
    ASSUME NEW t, IsList(t)
    PROVE  IsPrompt(<<t>>) /\ IsPrompt(<<>>)
  BY DEF IsPrompt

\* The blocks that models answer.
LEMMA BlockIs ==
    ASSUME NEW kind \in {"text", "thinking", "use", "broken"}, NEW i
    PROVE  LET b == Block(kind, i)
           IN  \/ b.type = "text" /\ IsList(b.text)
               \/ b.type = "thinking" /\ IsList(b.text) /\ \A k \in DOMAIN b.text : b.text[k][1] = "thinking"
               \/ b.type = "tool_use"
<1>1. CASE kind = "text"
  <2> DEFINE x == <<"text", turn, i>>
  <2>1. IsList(<<x>>)
    BY One
  <2>2. QED BY <1>1, <2>1 DEF Block, Text
<1>2. CASE kind = "thinking"
  <2> DEFINE x == <<"thinking", turn>>
             t == <<x>>
  <2>1. Block(kind, i) = [type |-> "thinking", text |-> t]
    BY <1>2 DEF Block
  <2>2. x[1] = "thinking"
    OBVIOUS
  <2> HIDE DEF x
  <2>3. IsList(t) /\ DOMAIN t = {1} /\ t[1] = x
    BY One
  <2> HIDE DEF t
  <2>4. \A k \in DOMAIN t : t[k][1] = "thinking"
    BY <2>2, <2>3
  <2>5. QED BY <2>1, <2>3, <2>4
<1>3. CASE kind = "use"
  BY <1>3 DEF Block, Use
<1>4. CASE kind = "broken"
  BY <1>4 DEF Block, Use
<1>5. QED BY <1>1, <1>2, <1>3, <1>4

\* The APIs of answers and how they end.
LEMMA AnswersAre ==
    ASSUME NEW api \in {"chat", "messages", "converse", "responses"},
           NEW shape \in Seq({"text", "thinking", "use", "broken"}), NEW a \in AnswersOf(api, shape)
    PROVE  IsAnswer(a) /\ a.api = api /\ \E calls : a.finish \in Finishes(api, calls)
<1> DEFINE blocks == [i \in DOMAIN shape |-> Block(shape[i], i)]
           text == ExtractText(blocks)
           calls == CallsIn(blocks)
           Chats(content) == {[api |-> "chat", content |-> content, calls |-> calls, finish |-> f] :
                              f \in Finishes("chat", calls)}
<1>1. IsList(blocks) /\ DOMAIN blocks = DOMAIN shape
  <2>1. IsList(shape) /\ blocks = [i \in DOMAIN shape |-> blocks[i]]
    BY TypedList
  <2> HIDE DEF blocks
  <2>2. QED BY <2>1, Mapped, ListHas
<1>2. \A i \in DOMAIN shape : shape[i] \in {"text", "thinking", "use", "broken"}
  OBVIOUS
<1>3. Reply(blocks)
  BY <1>1, <1>2, BlockIs DEF Reply
<1>4. AnswersOf(api, shape) =
        CASE api = "chat" -> IF text # <<>> THEN Chats(<<text>>) ELSE Chats(<<>>) \cup Chats(<<<<>>>>)
          [] api = "responses" ->
               {[api |-> "responses", finish |-> f,
                 items |-> (IF text = <<>> THEN <<>> ELSE <<OutputMessage(text)>>) \o Map(calls, OutputCall)] :
                   f \in Finishes("responses", calls)}
          [] OTHER -> {[api |-> api, blocks |-> blocks, finish |-> f] : f \in Finishes(api, calls)}
  BY DEF AnswersOf
<1> HIDE DEF blocks
<1>5. IsList(text) /\ IsList(calls)
  BY <1>3, ReplyIs, WordingsAre, CallsAre
<1> HIDE DEF text, calls
<1>6. CASE api = "chat"
  <2>1. PICK content \in {<<>>, <<<<>>>>, <<text>>} : a \in Chats(content)
    BY <1>4, <1>6
  <2>2. IsPrompt(content)
    BY <1>5, PromptOf, Nothings
  <2>3. a.api = "chat" /\ a.content = content /\ a.calls = calls /\ a.finish \in Finishes("chat", calls)
    BY <2>1
  <2>4. QED BY <1>5, <1>6, <2>2, <2>3 DEF IsAnswer
<1>7. CASE api \in {"messages", "converse"}
  <2>1. a \in {[api |-> api, blocks |-> blocks, finish |-> f] : f \in Finishes(api, calls)}
    BY <1>4, <1>7
  <2>2. a.api = api /\ a.blocks = blocks /\ a.finish \in Finishes(api, calls)
    BY <2>1
  <2>3. QED BY <1>3, <1>7, <2>2 DEF IsAnswer
<1>8. CASE api = "responses"
  <2> DEFINE content == IF text = <<>> THEN <<>> ELSE <<text>>
             m == IF text = <<>> THEN <<>> ELSE <<OutputMessage(text)>>
  <2>1. a \in {[api |-> "responses", finish |-> f, items |-> m \o Map(calls, OutputCall)] :
                   f \in Finishes("responses", calls)}
    BY <1>4, <1>8
  <2>2. IsPrompt(content)
    BY <1>5, PromptOf
  <2>3. m = Map(content, OutputMessage)
    BY DEF Map
  <2> HIDE DEF m, content
  <2>4. a.api = "responses" /\ a.items = Map(content, OutputMessage) \o Map(calls, OutputCall)
        /\ a.finish \in Finishes("responses", calls)
    BY <2>1, <2>3
  <2>5. QED BY <1>5, <1>8, <2>2, <2>4 DEF IsAnswer
<1>9. QED BY <1>6, <1>7, <1>8

\* Whether a client is told how an answer ended.
EndTold(finish, end, c) ==
    \/ Meaning(finish) = Meaning(end)
    \/ c = "responses" /\ Meaning(finish) = "done" /\ Meaning(end) = "tools"

\* The finish reasons of the APIs keep their meaning.
LEMMA EndIsTold ==
    ASSUME NEW a, NEW calls, NEW c \in {"chat", "messages", "responses"},
           a.api \in {"chat", "messages", "converse", "responses"}, a.api = "responses" => c = "responses",
           a.finish \in Finishes(a.api, calls)
    PROVE  EndTold(ConvertedAnswer(a, c).finish, a.finish, c)
<1> DEFINE got == ConvertedAnswer(a, c)
<1>1. CASE a.api = c
  BY <1>1 DEF ConvertedAnswer, EndTold
<1>2. CASE a.api = "chat" /\ c = "messages"
  <2>1. got.finish = MessagesFinish(a.finish)
    BY <1>2 DEF ConvertedAnswer, ChatAnswerToMessages
  <2>2. a.finish \in {"tool_calls", "stop", "length", "content_filter"}
    BY <1>2 DEF Finishes
  <2> HIDE DEF got
  <2>3. QED BY <2>1, <2>2 DEF MessagesFinish, EndTold, Meaning, got
<1>3. CASE a.api = "chat" /\ c = "responses"
  <2>1. got.finish = CASE a.finish = "length"         -> "incomplete"
                       [] a.finish = "content_filter" -> "failed"
                       [] OTHER                            -> "completed"
    BY <1>3 DEF ConvertedAnswer, ChatAnswerToResponses
  <2>2. a.finish \in {"tool_calls", "stop", "length", "content_filter"}
    BY <1>3 DEF Finishes
  <2> HIDE DEF got
  <2>3. QED BY <1>3, <2>1, <2>2 DEF EndTold, Meaning, got
<1>4. CASE a.api = "messages" /\ c = "chat"
  <2>1. got.finish = ChatFinish(a.finish)
    BY <1>4 DEF ConvertedAnswer, MessagesAnswerToChat
  <2>2. a.finish \in {"tool_use", "end_turn", "max_tokens", "refusal"}
    BY <1>4 DEF Finishes
  <2> HIDE DEF got
  <2>3. QED BY <2>1, <2>2 DEF ChatFinish, EndTold, Meaning, got
<1>5. CASE a.api = "messages" /\ c = "responses"
  <2>1. got.finish = CASE ChatFinish(a.finish) = "length"         -> "incomplete"
                       [] ChatFinish(a.finish) = "content_filter" -> "failed"
                       [] OTHER                            -> "completed"
    BY <1>5 DEF ConvertedAnswer, ChatAnswerToResponses, MessagesAnswerToChat
  <2>2. a.finish \in {"tool_use", "end_turn", "max_tokens", "refusal"}
    BY <1>5 DEF Finishes
  <2> HIDE DEF got
  <2>3. QED BY <1>5, <2>1, <2>2 DEF ChatFinish, EndTold, Meaning, got
<1>6. CASE a.api = "converse" /\ c = "chat"
  <2>1. got.finish = ChatFinish(BedrockFinish(a.finish))
    BY <1>6 DEF ConvertedAnswer, ConverseAnswerToChat
  <2>2. a.finish \in {"tool_use", "stop_sequence", "max_tokens", "content_filtered"}
    BY <1>6 DEF Finishes
  <2> HIDE DEF got
  <2>3. QED BY <2>1, <2>2 DEF ChatFinish, BedrockFinish, EndTold, Meaning, got
<1>7. CASE a.api = "converse" /\ c = "messages"
  <2>1. got.finish = BedrockFinish(a.finish)
    BY <1>7 DEF ConvertedAnswer, ConverseAnswerToMessages
  <2>2. a.finish \in {"tool_use", "stop_sequence", "max_tokens", "content_filtered"}
    BY <1>7 DEF Finishes
  <2> HIDE DEF got
  <2>3. QED BY <2>1, <2>2 DEF BedrockFinish, EndTold, Meaning, got
<1>8. CASE a.api = "converse" /\ c = "responses"
  <2> DEFINE f == ChatFinish(BedrockFinish(a.finish))
  <2>1. got.finish = CASE f = "length"         -> "incomplete"
                       [] f = "content_filter" -> "failed"
                       [] OTHER                -> "completed"
    BY <1>8 DEF ConvertedAnswer, ChatAnswerToResponses, ConverseAnswerToChat
  <2>2. a.finish \in {"tool_use", "stop_sequence", "max_tokens", "content_filtered"}
    BY <1>8 DEF Finishes
  <2> HIDE DEF got
  <2>3. QED BY <1>8, <2>1, <2>2 DEF ChatFinish, BedrockFinish, EndTold, Meaning, got
<1>9. QED BY <1>1, <1>2, <1>3, <1>4, <1>5, <1>6, <1>7, <1>8

-----------------------------------------------------------------------------
(* The history that a client keeps *)

\* An item that can be read as it was written, or as a reference.
KeptItem(it) == IsItem(it) /\ (it.type # "message" => "type" \in DOMAIN it)
KeptItems(s) == IsList(s) /\ \A i \in DOMAIN s : KeptItem(s[i])

\* A history in the form of the client's API.
Shaped(c, h) ==
    /\ c = "chat"      => Conversation(h)
    /\ c = "messages"  => Dialogue(h)
    /\ c = "responses" => KeptItems(h)

\* What a history tells.
ToldBy(c, h) ==
    CASE c = "chat"      -> ChatTold(h)
      [] c = "messages"  -> DialogueTold(h)
      [] c = "responses" -> ItemsTold(h)

\* Items of which the calls have ids where they are kept as they were issued.
PlainItems(c, h, k) ==
    c = "responses" =>
        \A i \in DOMAIN h : \/ h[i].type = "message"
                            \/ h[i].type = "function_call_output" /\ ~h[i].hasId
                            \/ h[i].type = "function_call" /\ h[i].hasId = (k = "as issued")

\* Kept items are items.
LEMMA KeptItemsAre ==
    ASSUME NEW h, KeptItems(h)
    PROVE  Items(h)
  BY DEF KeptItems, KeptItem, Items

\* An item that is read back tells what it did, or nothing if it is a call
\* with an id.
LEMMA ReadTells ==
    ASSUME NEW it, KeptItem(it), PlainItems("responses", <<it>>, "as issued")
    PROVE  EventsOfItem(ReadItem(it)) = Kept("calls", EventsOfItem(it))
<1> DEFINE ev == EventsOfItem(it)
<1>0. IsItem(it) /\ IsList(ev) /\ Kept("calls", <<>>) = <<>>
  BY ItemTells, KeptIs, Nothings DEF KeptItem
<1>a. \/ it.type = "message"
      \/ it.type = "function_call_output" /\ ~it.hasId
      \/ it.type = "function_call" /\ it.hasId
  <2>1. 1 \in DOMAIN <<it>> /\ <<it>>[1] = it
    BY One
  <2> DEFINE s == <<it>>
  <2> HIDE DEF s
  <2>2. PlainItems("responses", s, "as issued") /\ 1 \in DOMAIN s /\ s[1] = it
    BY <2>1 DEF s
  <2>3. QED BY <2>2 DEF PlainItems
<1>1. CASE it.type = "message"
  <2> DEFINE te == TextEvents(it.role, ExtractText(it.content))
             ie == ImageEvents(it.content)
  <2>1. ReadItem(it) = it /\ ev = te \o ie
    BY <1>1, ItemTells DEF IsItem, ReadItem, EventsOfItem
  <2>2. Worded(it.content) /\ IsList(it.content) /\ it.role # "call"
    BY <1>0, <1>1, PartsAre DEF IsItem
  <2>3. IsList(ExtractText(it.content)) /\ IsList(te) /\ IsList(ie)
    BY <2>2, WordingsAre, TextEventsAre, ImageAre
  <2>4. \A i \in DOMAIN te : Shown("calls", te[i])
    <3>1. te = [i \in DOMAIN Spoken(ExtractText(it.content)) |-> <<it.role, Spoken(ExtractText(it.content))[i]>>]
      BY DEF TextEvents, Map
    <3>2. \A x : <<it.role, x>>[1] = it.role
      OBVIOUS
    <3> HIDE DEF te
    <3>3. QED BY <2>2, <3>1, <3>2 DEF Shown
  <2>5. \A i \in DOMAIN ie : Shown("calls", ie[i])
    <3> DEFINE o == OfType(it.content, {"image"})
    <3>1. ie = [i \in DOMAIN o |-> <<"image", o[i].at>>]
      BY DEF ImageEvents, Map
    <3>2. \A x : <<"image", x>>[1] = "image"
      OBVIOUS
    <3> HIDE DEF ie, o
    <3>3. QED BY <3>1, <3>2 DEF Shown
  <2> HIDE DEF te, ie, ev
  <2>6. Kept("calls", te) = te /\ Kept("calls", ie) = ie
    BY <2>3, <2>4, <2>5, KeptIs
  <2>7. Kept("calls", te \o ie) = te \o ie
    <3>1. \A lost, v, w : IsList(v) /\ IsList(w) => Kept(lost, v \o w) = Kept(lost, v) \o Kept(lost, w)
      BY KeptJoin
    <3>2. Kept("calls", te \o ie) = Kept("calls", te) \o Kept("calls", ie)
      BY <2>3, <3>1
    <3>3. QED BY <2>6, <3>2
  <2>8. QED BY <2>1, <2>7 DEF ev
<1>2. CASE it.type = "function_call_output" /\ ~it.hasId
  <2> DEFINE e == ResultEvent(it.id, it.output)
  <2>1. ReadItem(it) = it /\ ev = <<e>>
    BY <1>2 DEF ReadItem, EventsOfItem
  <2>2. Shown("calls", e)
    BY DEF Shown, ResultEvent
  <2> HIDE DEF e, ev
  <2>3. Kept("calls", <<e>>) = <<e>>
    <3>1. IsList(<<e>>) /\ \A i \in DOMAIN <<e>> : Shown("calls", <<e>>[i])
      BY <2>2, One
    <3>2. QED BY <3>1, KeptIs
  <2>4. QED BY <2>1, <2>3 DEF ev
<1>3. CASE it.type = "function_call" /\ it.hasId
  <2> DEFINE e == <<"call", it.call>>
             r == [it EXCEPT !.type = "item_reference"]
  <2>1. ReadItem(it) = r /\ ev = <<e>>
    BY <1>3 DEF ReadItem, EventsOfItem
  <2>2. "type" \in DOMAIN it
    BY <1>3 DEF KeptItem
  <2>3. r.type = "item_reference"
    BY <2>2
  <2> HIDE DEF r
  <2>4. EventsOfItem(r) = <<>>
    BY <2>3 DEF EventsOfItem
  <2>5. ~Shown("calls", e)
    BY DEF Shown
  <2> HIDE DEF e, ev
  <2>6. Kept("calls", <<e>>) = <<>>
    BY <2>5, One, KeptIs
  <2>7. QED BY <2>1, <2>4, <2>6 DEF ev
<1>4. QED BY <1>a, <1>1, <1>2, <1>3

\* Items that are read back: those without an id as they were, calls with one
\* not at all.
LEMMA ReadItems ==
    ASSUME NEW h, KeptItems(h)
    PROVE  /\ Items(Map(h, ReadItem))
           /\ PlainItems("responses", h, kept) /\ kept # "as issued" => Map(h, ReadItem) = h
           /\ PlainItems("responses", h, "as issued") =>
                ItemsTold(Map(h, ReadItem)) = Kept("calls", ItemsTold(h))
<1> DEFINE g == Map(h, ReadItem)
<1>1. Over(g, h) /\ \A i \in DOMAIN h : g[i] = ReadItem(h[i])
  BY DEF Map, Over
<1>2. IsList(h) /\ h = [i \in DOMAIN h |-> h[i]]
  BY ListHas DEF KeptItems
<1> HIDE DEF g
<1>3. IsList(g) /\ DOMAIN g = DOMAIN h
  BY <1>1, <1>2, Ones
<1>4. ASSUME NEW i \in DOMAIN h PROVE IsItem(g[i])
  <2> DEFINE it == h[i]
  <2>1. IsItem(it) /\ (it.type # "message" => "type" \in DOMAIN it)
    BY DEF KeptItems, KeptItem
  <2>2. g[i] = ReadItem(it)
    BY <1>1
  <2> HIDE DEF it
  <2>3. CASE it.type # "message" /\ it.hasId
    <3>1. g[i] = [it EXCEPT !.type = "item_reference"]
      BY <2>2, <2>3 DEF ReadItem
    <3>2. g[i].type = "item_reference"
      BY <2>1, <2>3, <3>1
    <3>3. QED BY <3>2 DEF IsItem
  <2>4. CASE ~(it.type # "message" /\ it.hasId)
    BY <2>1, <2>2, <2>4 DEF ReadItem
  <2>5. QED BY <2>3, <2>4
<1>5. Items(g)
  BY <1>3, <1>4 DEF Items
<1>6. ASSUME PlainItems("responses", h, kept), kept # "as issued" PROVE g = h
  <2>1. \A i \in DOMAIN h : g[i] = h[i]
    BY <1>1, <1>6 DEF PlainItems, ReadItem
  <2>2. g = [i \in DOMAIN h |-> g[i]]
    BY <1>1 DEF Over
  <2>3. QED BY <1>2, <2>1, <2>2
<1>7. ASSUME PlainItems("responses", h, "as issued") PROVE ItemsTold(g) = Kept("calls", ItemsTold(h))
  <2> DEFINE a == Map(h, EventsOfItem)
             b == Map(g, EventsOfItem)
  <2>1. Lists(a) /\ Over(a, h)
    BY KeptItemsAre, ItemEvents
  <2>2. ASSUME NEW i \in DOMAIN h PROVE b[i] = Kept("calls", a[i])
    <3> DEFINE it == h[i]
               o == <<it>>
    <3>1. KeptItem(it)
      BY DEF KeptItems
    <3>2. \/ it.type = "message"
          \/ it.type = "function_call_output" /\ ~it.hasId
          \/ it.type = "function_call" /\ it.hasId
      BY <1>7 DEF PlainItems
    <3>3. DOMAIN o = {1} /\ o[1] = it
      BY One
    <3> HIDE DEF o
    <3>4. PlainItems("responses", o, "as issued")
      BY <3>2, <3>3 DEF PlainItems
    <3>5. b[i] = EventsOfItem(ReadItem(it)) /\ a[i] = EventsOfItem(it)
      BY <1>1, <1>3 DEF Map
    <3> HIDE DEF a, b
    <3>6. QED BY <3>1, <3>4, <3>5, ReadTells DEF o
  <2>3. Over(b, g)
    BY DEF Map, Over
  <2> HIDE DEF a, b
  <2>4. Over(b, a)
    BY <1>3, <2>1, <2>3 DEF Over
  <2>5. \A i \in DOMAIN a : b[i] = Kept("calls", a[i])
    BY <2>1, <2>2 DEF Over
  <2>6. Kept("calls", FlattenSeq(a)) = FlattenSeq(b)
    BY <2>1, <2>4, <2>5, KeptFlat
  <2>7. QED BY <2>6 DEF ItemsTold, a, b
<1>8. QED BY <1>5, <1>6, <1>7 DEF g

\* What is added to a history adds what it tells.
LEMMA HistoryJoin ==
    ASSUME NEW c \in {"chat", "messages", "responses"}, NEW h, NEW g, Shaped(c, h), Shaped(c, g)
    PROVE  /\ Shaped(c, With(h, g)) /\ ToldBy(c, With(h, g)) = With(ToldBy(c, h), ToldBy(c, g))
           /\ PlainItems(c, h, kept) /\ PlainItems(c, g, kept) => PlainItems(c, With(h, g), kept)
<1>1. CASE c = "chat"
  <2>1. Conversation(h) /\ Conversation(g)
    BY <1>1 DEF Shaped
  <2>2. Conversation(With(h, g)) /\ ChatTold(With(h, g)) = With(ChatTold(h), ChatTold(g))
    BY <2>1, ConversationJoin DEF With
  <2>3. QED BY <1>1, <2>2 DEF Shaped, ToldBy, PlainItems
<1>2. CASE c = "messages"
  <2>1. Dialogue(h) /\ Dialogue(g)
    BY <1>2 DEF Shaped
  <2>2. Dialogue(With(h, g)) /\ DialogueTold(With(h, g)) = With(DialogueTold(h), DialogueTold(g))
    BY <2>1, DialogueJoin DEF With
  <2>3. QED BY <1>2, <2>2 DEF Shaped, ToldBy, PlainItems
<1>3. CASE c = "responses"
  <2> DEFINE u == With(h, g)
  <2>1. KeptItems(h) /\ KeptItems(g) /\ Items(h) /\ Items(g)
    BY <1>3, KeptItemsAre DEF Shaped
  <2>2. ItemsTold(u) = With(ItemsTold(h), ItemsTold(g))
    BY <2>1, ItemJoin DEF With
  <2>3. /\ IsList(u)
        /\ \A i \in DOMAIN u : \/ i \in DOMAIN h /\ u[i] = h[i]
                               \/ \E j \in DOMAIN g : i = Len(h) + j /\ u[i] = g[j]
    BY <2>1, Joined, JoinedAt DEF KeptItems, With
  <2> HIDE DEF u
  <2>4. KeptItems(u)
    BY <2>1, <2>3 DEF KeptItems
  <2>5. PlainItems(c, h, kept) /\ PlainItems(c, g, kept) => PlainItems(c, u, kept)
    BY <1>3, <2>3 DEF PlainItems
  <2>6. QED BY <1>3, <2>2, <2>4, <2>5 DEF Shaped, ToldBy, u
<1>4. QED BY <1>1, <1>2, <1>3

-----------------------------------------------------------------------------
(* Answers become history *)

\* The item of a text.
LEMMA OutputMessageIs ==
    ASSUME NEW t, IsList(t)
    PROVE  OutputMessage(t).type = "message" /\ IsItem(OutputMessage(t))
<1> DEFINE m == OutputMessage(t)
           e == Text(t)
           c == <<e>>
<1>1. m.type = "message" /\ m.role = "assistant" /\ m.content = c
  BY DEF OutputMessage
<1>2. e.type = "text" /\ e.text = t
  BY DEF Text
<1> HIDE DEF m, e
<1>3. IsList(c) /\ DOMAIN c = {1} /\ c[1] = e
  BY One
<1> HIDE DEF c
<1>4. Parts(c) /\ \A i \in DOMAIN c : c[i].type = "text"
  BY <1>2, <1>3 DEF Parts, IsPart
<1>5. IsItem(m)
  BY <1>1, <1>4 DEF IsItem
<1>6. QED BY <1>1, <1>5 DEF m

\* The items of an answer are messages and calls.
LEMMA OutputIs ==
    ASSUME NEW content, IsPrompt(content), NEW calls, IsList(calls),
           NEW items, items = Map(content, OutputMessage) \o Map(calls, OutputCall)
    PROVE  /\ IsList(items)
           /\ \A i \in DOMAIN items : IsItem(items[i]) /\ items[i].type \in {"message", "function_call"}
<1> DEFINE a == Map(content, OutputMessage)
           b == Map(calls, OutputCall)
<1>1. Items(items)
  BY OutputTells
<1>2. Over(a, content) /\ \A i \in DOMAIN content : a[i].type = "message"
  BY DEF Map, Over, OutputMessage
<1>3. Over(b, calls) /\ \A i \in DOMAIN calls : b[i].type = "function_call"
  BY DEF Map, Over, OutputCall
<1>4. IsList(content)
  BY WrittenIs DEF Lists
<1> HIDE DEF a, b
<1>5. IsList(a) /\ IsList(b) /\ DOMAIN a = DOMAIN content /\ DOMAIN b = DOMAIN calls
  BY <1>2, <1>3, <1>4, Ones
<1> DEFINE u == a \o b
<1>6. \A i \in DOMAIN u : \/ i \in DOMAIN a /\ u[i] = a[i]
                          \/ \E j \in DOMAIN b : i = Len(a) + j /\ u[i] = b[j]
  BY <1>5, JoinedAt
<1>7. u = items
  BY DEF a, b
<1> HIDE DEF u
<1>8. \A i \in DOMAIN items : items[i].type \in {"message", "function_call"}
  BY <1>2, <1>3, <1>5, <1>6, <1>7
<1>9. QED BY <1>1, <1>8 DEF Items

\* An answer in the history tells what it did, where the items are kept.
LEMMA KeptHistory ==
    ASSUME client \in {"chat", "messages", "responses"}, NEW got, IsAnswer(got), got.api = client
    PROVE  /\ Shaped(client, AsHistory(got))
           /\ (client = "responses" => kept # "by plano") =>
                ToldBy(client, AsHistory(got)) = AnswerEvents(got) /\ PlainItems(client, AsHistory(got), kept)
<1> DEFINE h == AsHistory(got)
<1>1. CASE client = "chat"
  <2> DEFINE w == Written(got.content)
             m == ChatMessage("assistant", w, got.calls, NoCall)
             te == TextEvents("assistant", FlattenSeq(got.content))
             ce == CallEvents(got.calls)
  <2>1. h = <<m>>
    BY <1>1 DEF AsHistory, Written
  <2>2. IsPrompt(got.content) /\ IsList(got.calls)
    BY <1>1 DEF IsAnswer
  <2>3. /\ Parts(w) /\ (\A i \in DOMAIN w : w[i].type = "text") /\ ExtractText(w) = FlattenSeq(got.content)
        /\ ImageEvents(w) = <<>> /\ Lists(got.content)
    BY <2>2, WrittenIs
  <2>4. /\ m = ChatMessage(m.role, m.content, m.calls, m.result)
        /\ m.role = "assistant" /\ m.content = w /\ m.calls = got.calls
    BY DEF ChatMessage
  <2> HIDE DEF m, w, h
  <2>5. IsTurn(m)
    BY <2>2, <2>3, <2>4 DEF IsTurn
  <2>6. EventsOfChat(m) = With(With(te, <<>>), ce)
    BY <2>3, <2>4, <2>5, TurnTells
  <2>7. IsList(te) /\ AnswerEvents(got) = With(te, ce)
    BY <1>1, <2>3, FlatList, TextEventsAre, AnswerEventsAre
  <2> HIDE DEF te, ce
  <2>8. EventsOfChat(m) = AnswerEvents(got)
    BY <2>6, <2>7, WithIs
  <2>9. Conversation(h) /\ ChatTold(h) = AnswerEvents(got)
    BY <2>1, <2>5, <2>8, OneTurn
  <2>10. QED BY <1>1, <2>9 DEF Shaped, ToldBy, PlainItems, h
<1>2. CASE client = "messages"
  <2> DEFINE m == BlockMessage("assistant", got.blocks)
  <2>1. h = <<m>>
    BY <1>2 DEF AsHistory
  <2>2. Blocks(got.blocks)
    BY <1>2, ReplyIs DEF IsAnswer
  <2>3. m = BlockMessage(m.role, m.blocks) /\ m.role = "assistant" /\ m.blocks = got.blocks
    BY DEF BlockMessage
  <2>4. AnswerEvents(got) = EventsOfBlocks(m)
    BY <1>2 DEF AnswerEvents
  <2> HIDE DEF m, h
  <2>5. IsBlockMessage(m)
    BY <2>2, <2>3 DEF IsBlockMessage
  <2>6. Dialogue(h) /\ DialogueTold(h) = AnswerEvents(got)
    BY <2>1, <2>4, <2>5, OneDialogue
  <2>7. QED BY <1>2, <2>6 DEF Shaped, ToldBy, PlainItems, h
<1>3. CASE client = "responses"
  <2>1. PICK content, calls : IsPrompt(content) /\ IsList(calls)
                              /\ got.items = Map(content, OutputMessage) \o Map(calls, OutputCall)
    BY <1>3 DEF IsAnswer
  <2> DEFINE items == got.items
  <2>2. /\ IsList(items)
        /\ \A i \in DOMAIN items : IsItem(items[i]) /\ items[i].type \in {"message", "function_call"}
    BY <2>1, OutputIs
  <2>3. CASE kept = "by plano"
    <3>1. h = OutputsToInputs(items)
      BY <1>3, <2>3 DEF AsHistory
    <3>2. Over(h, items) /\ \A i \in DOMAIN items :
             h[i] = IF items[i].type = "function_call" THEN OutputMessage(Mention(items[i].call)) ELSE items[i]
      BY <3>1 DEF OutputsToInputs, Map, Over
    <3> HIDE DEF h, items
    <3>3. IsList(h) /\ DOMAIN h = DOMAIN items
      BY <2>2, <3>2, Ones
    <3>4. ASSUME NEW i \in DOMAIN items PROVE IsItem(h[i]) /\ h[i].type = "message"
      <4>1. CASE items[i].type = "function_call"
        <5> DEFINE x == <<"called", items[i].call.id>>
                   t == <<x>>
        <5>1. h[i] = OutputMessage(t)
          BY <3>2, <4>1 DEF Mention
        <5> HIDE DEF x
        <5>2. IsList(t)
          BY One
        <5> HIDE DEF t
        <5>3. QED BY <5>1, <5>2, OutputMessageIs
      <4>2. CASE items[i].type = "message"
        BY <2>2, <3>2, <4>2
      <4>3. QED BY <2>2, <4>1, <4>2
    <3>5. KeptItems(h)
      BY <3>3, <3>4 DEF KeptItems, KeptItem
    <3>6. QED BY <1>3, <2>3, <3>5 DEF Shaped, h
  <2>4. CASE kept # "by plano"
    <3>1. h = Map(items, LAMBDA it : IF it.type = "message" THEN it
                                    ELSE [type |-> it.type, call |-> it.call, hasId |-> kept = "as issued"])
      BY <1>3, <2>4 DEF AsHistory
    <3>2. Over(h, items) /\ \A i \in DOMAIN items :
             h[i] = IF items[i].type = "message" THEN items[i]
                    ELSE [type |-> items[i].type, call |-> items[i].call, hasId |-> kept = "as issued"]
      BY <3>1 DEF Map, Over
    <3>a. AnswerEvents(got) = FlattenSeq(Map(items, EventsOfItem))
      BY <1>3 DEF AnswerEvents
    <3> HIDE DEF h, items
    <3>3. IsList(h) /\ DOMAIN h = DOMAIN items
      BY <2>2, <3>2, Ones
    <3>4. ASSUME NEW i \in DOMAIN items
          PROVE  KeptItem(h[i]) /\ EventsOfItem(h[i]) = EventsOfItem(items[i])
                 /\ (\/ h[i].type = "message"
                     \/ h[i].type = "function_call" /\ h[i].hasId = (kept = "as issued"))
      <4>1. CASE items[i].type = "message"
        <5>1. h[i] = items[i] /\ IsItem(items[i])
          BY <2>2, <3>2, <4>1
        <5>2. QED BY <4>1, <5>1 DEF KeptItem
      <4>2. CASE items[i].type = "function_call"
        <5> DEFINE n == [type |-> "function_call", call |-> items[i].call, hasId |-> kept = "as issued"]
        <5>1. h[i] = n
          BY <3>2, <4>2
        <5>2. n.type = "function_call" /\ n.call = items[i].call /\ "type" \in DOMAIN n
              /\ n.hasId = (kept = "as issued")
          OBVIOUS
        <5> HIDE DEF n
        <5>3. EventsOfItem(h[i]) = EventsOfItem(items[i])
          BY <4>2, <5>1, <5>2 DEF EventsOfItem
        <5>4. KeptItem(h[i])
          BY <5>1, <5>2 DEF KeptItem, IsItem
        <5>5. QED BY <5>1, <5>2, <5>3, <5>4
      <4>3. QED BY <2>2, <4>1, <4>2
    <3>5. KeptItems(h)
      BY <3>3, <3>4 DEF KeptItems
    <3>6. Map(h, EventsOfItem) = Map(items, EventsOfItem)
      BY <3>3, <3>4 DEF Map
    <3>7. ItemsTold(h) = AnswerEvents(got)
      BY <3>6, <3>a DEF ItemsTold
    <3>8. PlainItems(client, h, kept)
      BY <3>3, <3>4 DEF PlainItems
    <3>9. QED BY <1>3, <3>5, <3>7, <3>8 DEF Shaped, ToldBy, h
  <2>5. QED BY <2>3, <2>4
<1>4. QED BY <1>1, <1>2, <1>3

\* The calls that are awaited are a list.
LEMMA CallsOfAre ==
    ASSUME NEW a, IsAnswer(a)
    PROVE  IsList(CallsOf(a))
<1>1. CASE a.api = "chat"
  BY <1>1 DEF IsAnswer, CallsOf
<1>2. CASE a.api \in {"messages", "converse"}
  BY <1>2, ReplyIs, CallsAre DEF IsAnswer, CallsOf
<1>3. CASE a.api = "responses"
  <2> DEFINE o == OfType(a.items, {"function_call"})
  <2>1. IsList(o)
    BY <1>3, AnswerEventsAre, OfTypePart DEF Items
  <2>2. Over(CallsOf(a), o)
    BY <1>3 DEF CallsOf, Map, Over
  <2>3. QED BY <2>1, <2>2, Ones
<1>4. QED BY <1>1, <1>2, <1>3 DEF IsAnswer

-----------------------------------------------------------------------------
(* A user's turn *)

\* Results of calls.
ResultList(rs) ==
    IsList(rs) /\ \A i \in DOMAIN rs : Lists(rs[i].texts) /\ rs[i].output = FlattenSeq(rs[i].texts) /\ IsList(rs[i].output)
ResultsTold(rs) == Map(rs, LAMBDA r : ResultEvent(r.id, r.output))
Contents == {<<>>, <<Question>>, <<Question, Image("data")>>, <<Text(<<>>), Image("url")>>}

\* What a user says is parts.
LEMMA ContentIs ==
    ASSUME NEW content \in Contents
    PROVE  Parts(content)
<1> DEFINE q == Question
           e == Text(<<>>)
           d == Image("data")
           u == Image("url")
<1>1. IsPart(q) /\ IsPart(e) /\ IsPart(d) /\ IsPart(u)
  <2> DEFINE x == <<"user", turn>>
             t == <<x>>
  <2>1. IsList(t) /\ IsList(<<>>)
    BY One, Nothings
  <2>2. q.type = "text" /\ q.text = t /\ e.type = "text" /\ e.text = <<>> /\ d.type = "image" /\ u.type = "image"
    BY DEF Question, Text, Image
  <2> HIDE DEF t
  <2>3. QED BY <2>1, <2>2 DEF IsPart
<1>2. content \in {<<>>, <<q>>, <<q, d>>, <<e, u>>}
  BY DEF Contents
<1> HIDE DEF q, e, d, u
<1>3. CASE content = <<>>
  BY <1>3, Nothings DEF Parts
<1>4. CASE content = <<q>>
  <2>1. IsList(content) /\ DOMAIN content = {1} /\ content[1] = q
    BY <1>4, One
  <2>2. QED BY <1>1, <2>1 DEF Parts
<1>5. CASE content = <<q, d>>
  <2>1. content \in Seq({q, d}) /\ DOMAIN content = 1..2 /\ content[1] = q /\ content[2] = d
    BY <1>5
  <2>2. IsList(content)
    BY <2>1, TypedList
  <2>3. QED BY <1>1, <2>1, <2>2 DEF Parts
<1>6. CASE content = <<e, u>>
  <2>1. content \in Seq({e, u}) /\ DOMAIN content = 1..2 /\ content[1] = e /\ content[2] = u
    BY <1>6
  <2>2. IsList(content)
    BY <2>1, TypedList
  <2>3. QED BY <1>1, <2>1, <2>2 DEF Parts
<1>7. QED BY <1>2, <1>3, <1>4, <1>5, <1>6

\* The events of results.
LEMMA ResultsToldAre ==
    ASSUME NEW rs, ResultList(rs)
    PROVE  /\ IsList(ResultsTold(rs)) /\ DOMAIN ResultsTold(rs) = DOMAIN rs
           /\ \A i \in DOMAIN rs : ResultsTold(rs)[i] = ResultEvent(rs[i].id, rs[i].output)
           /\ ResultsTold(rs) = [i \in DOMAIN rs |-> ResultEvent(rs[i].id, rs[i].output)]
<1>1. /\ Over(ResultsTold(rs), rs)
      /\ \A i \in DOMAIN rs : ResultsTold(rs)[i] = ResultEvent(rs[i].id, rs[i].output)
      /\ ResultsTold(rs) = [i \in DOMAIN rs |-> ResultEvent(rs[i].id, rs[i].output)]
  BY DEF ResultsTold, Map, Over
<1>2. QED BY <1>1, Ones DEF ResultList

\* What is said beside the results.
ContentTold(content) == With(TextEvents("user", ExtractText(content)), ImageEvents(content))

\* The events of what is said beside the results.
LEMMA ContentToldIs ==
    ASSUME NEW content, Parts(content)
    PROVE  IsList(ContentTold(content)) /\ (content = <<>> => ContentTold(content) = <<>>)
           /\ IsList(TextEvents("user", ExtractText(content))) /\ IsList(ImageEvents(content))
<1>1. Worded(content) /\ IsList(content)
  BY PartsAre
<1>2. IsList(TextEvents("user", ExtractText(content))) /\ IsList(ImageEvents(content))
  BY <1>1, WordingsAre, TextEventsAre, ImageAre
<1>3. content = <<>> => ContentTold(content) = <<>>
  <2>1. TextEvents("user", ExtractText(<<>>)) = <<>> /\ ImageEvents(<<>>) = <<>> /\ With(<<>>, <<>>) = <<>>
    BY NoWords, NothingSaid, WithIs, Nothings
  <2>2. QED BY <2>1 DEF ContentTold
<1>4. QED BY <1>2, <1>3, WithIs DEF ContentTold

\* The messages that bring results to a chat.
ToolMessages(rs) == Map(rs, LAMBDA r : ChatMessage("tool", <<Text(r.output)>>, <<>>, r.id))
UserMessage(content) == ChatMessage("user", content, <<>>, NoCall)

\* Each brings one.
LEMMA ToolMessagesAre ==
    ASSUME NEW rs, ResultList(rs)
    PROVE  /\ Conversation(ToolMessages(rs)) /\ DOMAIN ToolMessages(rs) = DOMAIN rs
           /\ \A i \in DOMAIN rs : EventsOfChat(ToolMessages(rs)[i]) = <<ResultEvent(rs[i].id, rs[i].output)>>
<1> DEFINE a == ToolMessages(rs)
<1>1. Over(a, rs) /\ \A i \in DOMAIN rs : a[i] = ChatMessage("tool", <<Text(rs[i].output)>>, <<>>, rs[i].id)
  BY DEF ToolMessages, Map, Over
<1> HIDE DEF a
<1>2. ASSUME NEW i \in DOMAIN rs PROVE IsTurn(a[i]) /\ EventsOfChat(a[i]) = <<ResultEvent(rs[i].id, rs[i].output)>>
  <2> DEFINE e == Text(rs[i].output)
             s == <<e>>
             n == ChatMessage("tool", s, <<>>, rs[i].id)
  <2>1. e.type = "text" /\ e.text = rs[i].output /\ IsList(e.text)
    BY DEF Text, ResultList
  <2>2. /\ a[i] = n /\ n = ChatMessage(n.role, n.content, n.calls, n.result)
        /\ n.role = "tool" /\ n.content = s /\ n.calls = <<>> /\ n.result = rs[i].id
    BY <1>1 DEF ChatMessage
  <2> HIDE DEF e, n
  <2>3. IsList(s) /\ DOMAIN s = {1} /\ s[1] = e /\ ExtractText(s) = rs[i].output
    BY <2>1, One, ExtractOne
  <2> HIDE DEF s
  <2>4. Parts(s)
    BY <2>1, <2>3 DEF Parts, IsPart
  <2>5. IsTurn(n)
    BY <2>2, <2>4, Nothings DEF IsTurn
  <2>6. EventsOfChat(n) = <<ResultEvent(rs[i].id, rs[i].output)>>
    BY <2>2, <2>3, <2>5, TurnTells
  <2>7. QED BY <2>2, <2>5, <2>6
<1>3. IsList(a) /\ DOMAIN a = DOMAIN rs
  BY <1>1, Ones DEF ResultList
<1>4. Conversation(a)
  BY <1>2, <1>3 DEF Conversation
<1>5. QED BY <1>2, <1>3, <1>4 DEF a

\* What the user says is a turn.
LEMMA UserMessageIs ==
    ASSUME NEW content, Parts(content)
    PROVE  IsTurn(UserMessage(content)) /\ EventsOfChat(UserMessage(content)) = ContentTold(content)
<1> DEFINE m == UserMessage(content)
<1>1. /\ m = ChatMessage(m.role, m.content, m.calls, m.result)
      /\ m.role = "user" /\ m.content = content /\ m.calls = <<>>
  BY DEF ChatMessage, UserMessage
<1> HIDE DEF m
<1>2. IsTurn(m)
  BY <1>1, Nothings DEF IsTurn
<1>3. EventsOfChat(m) = With(ContentTold(content), CallEvents(<<>>))
  BY <1>1, <1>2, TurnTells DEF ContentTold
<1>4. EventsOfChat(m) = ContentTold(content)
  BY <1>3, ContentToldIs, CallEventsAre, Nothings, WithIs
<1>5. QED BY <1>2, <1>4 DEF m

\* A user's turn in chat messages.
LEMMA ChatTurnTells ==
    ASSUME NEW rs, ResultList(rs), NEW content, Parts(content), client = "chat"
    PROVE  Conversation(UserTurn(rs, content)) /\ ChatTold(UserTurn(rs, content)) = With(ResultsTold(rs), ContentTold(content))
<1> DEFINE a == ToolMessages(rs)
           m == UserMessage(content)
           b == IF content = <<>> THEN <<>> ELSE <<m>>
           rt == ResultsTold(rs)
           ea == Map(a, EventsOfChat)
<1>1. UserTurn(rs, content) = a \o b
  BY DEF UserTurn, ToolMessages, UserMessage
<1>2. /\ Conversation(a) /\ DOMAIN a = DOMAIN rs
      /\ \A i \in DOMAIN rs : EventsOfChat(a[i]) = <<ResultEvent(rs[i].id, rs[i].output)>>
  BY ToolMessagesAre
<1>3. IsList(rt) /\ DOMAIN rt = DOMAIN rs /\ \A i \in DOMAIN rs : rt[i] = ResultEvent(rs[i].id, rs[i].output)
  BY ResultsToldAre
<1>4. IsTurn(m) /\ EventsOfChat(m) = ContentTold(content)
  BY UserMessageIs
<1> HIDE DEF a, m, rt
<1>5. ea = [i \in DOMAIN rt |-> <<rt[i]>>]
  BY <1>2, <1>3 DEF Map
<1>6. ChatTold(a) = rt
  <2> HIDE DEF ea
  <2>1. FlattenSeq(ea) = rt
    BY <1>3, <1>5, FlatOnes
  <2>2. QED BY <2>1 DEF ChatTold, ea
<1>7. Conversation(b) /\ ChatTold(b) = ContentTold(content)
  <2>1. CASE content = <<>>
    <3>1. b = <<>> /\ ContentTold(content) = <<>>
      BY <2>1, ContentToldIs
    <3>2. Conversation(<<>>)
      BY Nothings DEF Conversation
    <3> HIDE DEF b
    <3>3. QED BY <3>1, <3>2, NoSpeech
  <2>2. CASE content # <<>>
    <3>1. b = <<m>>
      BY <2>2
    <3> HIDE DEF b
    <3>2. QED BY <1>4, <3>1, OneTurn
  <2>3. QED BY <2>1, <2>2
<1> HIDE DEF b
<1>8. Conversation(a \o b) /\ ChatTold(a \o b) = With(rt, ContentTold(content))
  BY <1>2, <1>6, <1>7, ConversationJoin DEF With
<1>9. QED BY <1>1, <1>8 DEF rt

\* A user's turn in one Anthropic message.
LEMMA MessagesTurnTells ==
    ASSUME NEW rs, ResultList(rs), NEW content, Parts(content), client = "messages"
    PROVE  Dialogue(UserTurn(rs, content)) /\ DialogueTold(UserTurn(rs, content)) = With(ResultsTold(rs), ContentTold(content))
<1> DEFINE a == Map(rs, LAMBDA r : Result(r.id, r.texts, FALSE))
           b == a \o content
           m == BlockMessage("user", b)
           rt == ResultsTold(rs)
           te == TextEvents("user", ExtractText(content))
           ie == ImageEvents(content)
<1>1. UserTurn(rs, content) = <<m>>
  BY DEF UserTurn
<1>2. Over(a, rs) /\ \A i \in DOMAIN rs : a[i] = Result(rs[i].id, rs[i].texts, FALSE)
  BY DEF Map, Over
<1>3. ASSUME NEW i \in DOMAIN rs
      PROVE  IsBlock(a[i]) /\ a[i].type = "tool_result" /\ ResultEvent(a[i].id, FlattenSeq(a[i].content)) = rt[i]
  <2> DEFINE o == rs[i].output
             x == rs[i].texts
             n == Result(rs[i].id, x, FALSE)
  <2>1. a[i] = n /\ n.type = "tool_result" /\ n = Result(n.id, n.content, n.error) /\ n.id = rs[i].id /\ n.content = x
    BY <1>2 DEF Result
  <2>2. Lists(x) /\ o = FlattenSeq(x)
    BY DEF ResultList
  <2> HIDE DEF n, o, x, a
  <2>3. Lists(n.content) /\ FlattenSeq(n.content) = o
    BY <2>1, <2>2
  <2>4. IsBlock(n)
    BY <2>1, <2>3 DEF IsBlock
  <2>5. rt[i] = ResultEvent(rs[i].id, o)
    BY ResultsToldAre DEF o
  <2>6. QED BY <2>1, <2>3, <2>4, <2>5
<1>4. IsList(rt) /\ DOMAIN rt = DOMAIN rs /\ rt = [i \in DOMAIN rs |-> rt[i]]
  BY ResultsToldAre
<1> HIDE DEF a, rt
<1>5. IsList(a) /\ DOMAIN a = DOMAIN rs
  BY <1>2, Ones DEF ResultList
<1>6. Blocks(a)
  BY <1>3, <1>5 DEF Blocks
<1>7. ResultEvents(a) = rt
  <2>1. ResultEvents(a) = [i \in DOMAIN a |-> ResultEvent(a[i].id, FlattenSeq(a[i].content))]
    BY <1>3, <1>5, ResultsAre
  <2>2. QED BY <1>3, <1>4, <1>5, <2>1
<1>8. ExtractText(a) = <<>> /\ ImageEvents(a) = <<>> /\ CallsIn(a) = <<>> /\ Worded(a)
  <2>1. Worded(a)
    BY <1>6, Kinds
  <2>2. \A i \in DOMAIN a : a[i].type = "tool_result"
    BY <1>3, <1>5
  <2>3. QED BY <1>5, <2>1, <2>2, WordingsAre, ImageAre, CallsAre
<1>9. Worded(content) /\ IsList(content) /\ ResultEvents(content) = <<>> /\ CallsIn(content) = <<>>
      /\ Blocks(content) /\ IsList(ExtractText(content)) /\ IsList(te) /\ IsList(ie)
  BY PartsAre, Kinds, WordingsAre, ContentToldIs
<1>10. /\ ResultEvents(b) = With(rt, <<>>) /\ ExtractText(b) = With(<<>>, ExtractText(content))
       /\ ImageEvents(b) = With(<<>>, ie) /\ CallsIn(b) = With(<<>>, <<>>)
  <2>1. /\ ResultEvents(b) = ResultEvents(a) \o ResultEvents(content)
        /\ ExtractText(b) = ExtractText(a) \o ExtractText(content)
        /\ ImageEvents(b) = ImageEvents(a) \o ImageEvents(content)
        /\ CallsIn(b) = CallsIn(a) \o CallsIn(content)
    BY <1>5, <1>8, <1>9, ResultsJoin, ExtractJoin, ImageJoin, CallsJoin
  <2>2. QED BY <1>7, <1>8, <1>9, <2>1 DEF With
<1>11. Blocks(b)
  BY <1>6, <1>9, BlocksJoin
<1> HIDE DEF b, ie
<1>12. ResultEvents(b) = rt /\ ExtractText(b) = ExtractText(content) /\ ImageEvents(b) = ie /\ CallsIn(b) = <<>>
  BY <1>4, <1>9, <1>10, WithIs, Nothings
<1>13. m = BlockMessage(m.role, m.blocks) /\ m.role = "user" /\ m.blocks = b
  BY DEF BlockMessage
<1> HIDE DEF m
<1>14. IsBlockMessage(m)
  BY <1>11, <1>13 DEF IsBlockMessage
<1>15. EventsOfBlocks(m) = With(With(With(rt, te), ie), CallEvents(<<>>))
  <2>1. EventsOfBlocks(m) = Told("user", b)
    BY <1>13, <1>14, DialogueTells
  <2>2. QED BY <1>12, <2>1 DEF Told
<1> HIDE DEF te
<1>16. EventsOfBlocks(m) = With(rt, With(te, ie))
  <2>1. CallEvents(<<>>) = <<>>
    BY CallEventsAre, Nothings
  <2>2. IsList(With(rt, te)) /\ IsList(With(With(rt, te), ie)) /\ With(With(rt, te), ie) = With(rt, With(te, ie))
    BY <1>4, <1>9, WithIs
  <2>3. QED BY <1>15, <2>1, <2>2, WithIs
<1>17. Dialogue(<<m>>) /\ DialogueTold(<<m>>) = EventsOfBlocks(m)
  BY <1>14, OneDialogue
<1>18. QED BY <1>1, <1>16, <1>17 DEF ContentTold, rt, te, ie

\* A user's turn in items.
LEMMA ResponsesTurnTells ==
    ASSUME NEW rs, ResultList(rs), NEW content, Parts(content), client = "responses"
    PROVE  /\ KeptItems(UserTurn(rs, content)) /\ PlainItems("responses", UserTurn(rs, content), kept)
           /\ ItemsTold(UserTurn(rs, content)) = With(ResultsTold(rs), ContentTold(content))
<1> DEFINE a == Map(rs, LAMBDA r : [type |-> "function_call_output", id |-> r.id,
                                    output |-> r.output, hasId |-> FALSE])
           m == [type |-> "message", role |-> "user", content |-> content]
           b == IF content = <<>> THEN <<>> ELSE <<m>>
           rt == ResultsTold(rs)
           ea == Map(a, EventsOfItem)
           u == a \o b
<1>1. UserTurn(rs, content) = u
  BY DEF UserTurn
<1>2. Over(a, rs) /\ \A i \in DOMAIN rs :
         a[i] = [type |-> "function_call_output", id |-> rs[i].id, output |-> rs[i].output, hasId |-> FALSE]
  BY DEF Map, Over
<1>3. ASSUME NEW i \in DOMAIN rs
      PROVE  KeptItem(a[i]) /\ a[i].type = "function_call_output" /\ ~a[i].hasId /\ EventsOfItem(a[i]) = <<rt[i]>>
  <2> DEFINE n == [type |-> "function_call_output", id |-> rs[i].id, output |-> rs[i].output, hasId |-> FALSE]
  <2>1. a[i] = n
    BY <1>2
  <2>2. n.type = "function_call_output" /\ n.id = rs[i].id /\ n.output = rs[i].output /\ ~n.hasId
        /\ "type" \in DOMAIN n
    OBVIOUS
  <2>3. IsList(rs[i].output)
    BY DEF ResultList
  <2>4. rt[i] = ResultEvent(rs[i].id, rs[i].output)
    BY ResultsToldAre
  <2> HIDE DEF n, a, rt
  <2>5. KeptItem(n)
    BY <2>2, <2>3 DEF KeptItem, IsItem
  <2>6. EventsOfItem(n) = <<rt[i]>>
    BY <2>2, <2>4 DEF EventsOfItem
  <2>7. QED BY <2>1, <2>2, <2>5, <2>6
<1>4. IsList(rt) /\ DOMAIN rt = DOMAIN rs
  BY ResultsToldAre
<1> HIDE DEF a, rt
<1>5. IsList(a) /\ DOMAIN a = DOMAIN rs
  BY <1>2, Ones DEF ResultList
<1>6. KeptItems(a) /\ Items(a)
  BY <1>3, <1>5, KeptItemsAre DEF KeptItems
<1>7. ea = [i \in DOMAIN rt |-> <<rt[i]>>]
  BY <1>3, <1>4, <1>5 DEF Map
<1>8. ItemsTold(a) = rt
  <2> HIDE DEF ea
  <2>1. FlattenSeq(ea) = rt
    BY <1>4, <1>7, FlatOnes
  <2>2. QED BY <2>1 DEF ItemsTold, ea
<1>9. /\ KeptItems(b) /\ Items(b) /\ ItemsTold(b) = ContentTold(content)
      /\ \A i \in DOMAIN b : b[i].type = "message"
  <2>1. CASE content = <<>>
    <3>1. b = <<>> /\ ContentTold(content) = <<>>
      BY <2>1, ContentToldIs
    <3>2. KeptItems(<<>>)
      BY Nothings DEF KeptItems
    <3> HIDE DEF b
    <3>3. QED BY <3>1, <3>2, NoSpeech, Nothings
  <2>2. CASE content # <<>>
    <3>1. b = <<m>> /\ m.type = "message" /\ m.role = "user" /\ m.content = content
      BY <2>2
    <3> HIDE DEF b, m
    <3>2. IsItem(m) /\ KeptItem(m)
      BY <3>1 DEF IsItem, KeptItem
    <3>3. EventsOfItem(m) = ContentTold(content)
      BY <3>1, <3>2, ItemTells DEF ContentTold
    <3>4. IsList(b) /\ DOMAIN b = {1} /\ b[1] = m
      BY <3>1, One
    <3>5. KeptItems(b) /\ \A i \in DOMAIN b : b[i].type = "message"
      BY <3>1, <3>2, <3>4 DEF KeptItems
    <3>6. QED BY <3>1, <3>2, <3>3, <3>5, OneItem
  <2>3. QED BY <2>1, <2>2
<1> HIDE DEF b
<1>10. ItemsTold(u) = With(rt, ContentTold(content))
  BY <1>6, <1>8, <1>9, ItemJoin DEF With
<1>11. /\ IsList(u)
       /\ \A i \in DOMAIN u : \/ i \in DOMAIN a /\ u[i] = a[i]
                              \/ \E j \in DOMAIN b : i = Len(a) + j /\ u[i] = b[j]
  BY <1>6, <1>9, Joined, JoinedAt DEF KeptItems
<1> HIDE DEF u
<1>12. KeptItems(u)
  BY <1>6, <1>9, <1>11 DEF KeptItems
<1>13. PlainItems("responses", u, kept)
  <2>1. ASSUME NEW i \in DOMAIN u
        PROVE  u[i].type = "message" \/ (u[i].type = "function_call_output" /\ ~u[i].hasId)
    <3>1. CASE i \in DOMAIN a /\ u[i] = a[i]
      BY <1>3, <1>5, <3>1
    <3>2. CASE \E j \in DOMAIN b : i = Len(a) + j /\ u[i] = b[j]
      BY <1>9, <3>2
    <3>3. QED BY <1>11, <3>1, <3>2
  <2>2. QED BY <2>1 DEF PlainItems
<1>14. QED BY <1>1, <1>10, <1>12, <1>13 DEF rt

\* A user's turn tells the results and then what is said.
LEMMA UserTurnTells ==
    ASSUME NEW rs, ResultList(rs), NEW content, Parts(content), client \in {"chat", "messages", "responses"}
    PROVE  /\ Shaped(client, UserTurn(rs, content)) /\ PlainItems(client, UserTurn(rs, content), kept)
           /\ ToldBy(client, UserTurn(rs, content)) = With(ResultsTold(rs), ContentTold(content))
<1>1. CASE client = "chat"
  BY <1>1, ChatTurnTells DEF Shaped, ToldBy, PlainItems
<1>2. CASE client = "messages"
  BY <1>2, MessagesTurnTells DEF Shaped, ToldBy, PlainItems
<1>3. CASE client = "responses"
  BY <1>3, ResponsesTurnTells DEF Shaped, ToldBy, PlainItems
<1>4. QED BY <1>1, <1>2, <1>3

-----------------------------------------------------------------------------
(* The exchange *)

\* The APIs of clients.
ClientApis == {"chat", "messages", "responses"}
Faithful == client = "responses" => kept # "by plano"
Open == IF client = "responses" THEN Upstreams ELSE Upstreams \ {"responses"}
Answered(a, api) == IsAnswer(a) /\ a.api = api /\ \E calls : a.finish \in Finishes(api, calls)

\* The history is well formed and tells what was said, until an answer could
\* not be read; a request is the client's converted, and what is received the
\* answer converted.
EInv ==
    /\ client \in Clients /\ IsPrompt(system) /\ choice \in ToolChoices
    /\ kept \in IF client = "responses" THEN Keeping ELSE {"whole"}
    /\ IsList(said) /\ IsList(awaited)
    /\ Shaped(client, history)
    /\ phase # "unreadable" /\ Faithful => ToldBy(client, history) = said /\ PlainItems(client, history, kept)
    /\ phase = "sent" => \E api \in Open : Converts(ClientRequest, api) /\ request = Converted(ClientRequest, api)
    /\ phase \in {"asked", "sent"} => received = Nothing
    /\ received # Nothing => \E api \in Open : Answered(answer, api) /\ received = ConvertedAnswer(answer, client)

\* The APIs of clients and upstreams.
LEMMA Apis ==
    /\ Clients \subseteq ClientApis
    /\ \A api \in Open : api \in {"chat", "messages", "responses", "converse"} /\ (api = "responses" => client = "responses")
  BY ExchangeAssumption DEF Open, ClientApis

\* The invariant holds at first.
LEMMA ExchangeInit == Init => EInv
<1> SUFFICES ASSUME Init PROVE EInv
  OBVIOUS
<1>1. IsPrompt(system)
  <2> DEFINE x == <<"system">>
             t == <<x>>
  <2>1. system \in {<<>>, <<t>>}
    BY DEF Init
  <2>2. IsList(t)
    BY One
  <2> HIDE DEF t
  <2>3. QED BY <2>1, <2>2 DEF IsPrompt
<1>2. history = <<>> /\ said = <<>> /\ awaited = <<>> /\ phase = "client" /\ received = Nothing
      /\ client \in Clients /\ choice \in ToolChoices
      /\ kept \in (IF client = "responses" THEN Keeping ELSE {"whole"})
  BY DEF Init
<1>3. Shaped(client, <<>>) /\ PlainItems(client, <<>>, kept) /\ ToldBy(client, <<>>) = <<>>
  <2>1. Conversation(<<>>) /\ KeptItems(<<>>)
    BY Nothings DEF Conversation, KeptItems
  <2>2. client \in ClientApis
    BY <1>2, Apis
  <2>3. QED BY <2>1, <2>2, NoSpeech, Nothings DEF Shaped, PlainItems, ToldBy, ClientApis
<1>4. IsList(<<>>)
  BY Nothings
<1>5. QED BY <1>1, <1>2, <1>3, <1>4 DEF EInv

\* The results of the calls that are awaited.
LEMMA ResultsAreList ==
    ASSUME IsList(awaited), NEW order \in ResultOrders, NEW output \in Outputs
    PROVE  ResultList(Results(order, output))
<1> DEFINE rs == Results(order, output)
           texts(i) == TextsOf(output, awaited[order[i]].id)
<1>1. DOMAIN awaited = 1..Len(awaited) /\ Len(awaited) \in Nat
  BY ListHas
<1>2. DOMAIN order = DOMAIN awaited /\ order = [i \in 1..Len(awaited) |-> order[i]]
  BY <1>1 DEF ResultOrders
<1>3. IsList(order)
  BY <1>1, <1>2, ListIs
<1>4. /\ Over(rs, order)
      /\ \A i \in DOMAIN order : rs[i].texts = texts(i) /\ rs[i].output = FlattenSeq(texts(i))
  BY DEF Results, Map, Over
<1>5. ASSUME NEW i \in DOMAIN order PROVE Lists(texts(i)) /\ IsList(FlattenSeq(texts(i)))
  <2> DEFINE e == <<"output", awaited[order[i]].id>>
             t == <<e>>
             x == texts(i)
  <2>0. output \in {"text", "empty", "nothing"}
    BY ExchangeAssumption
  <2>1. x = <<t>> \/ x = <<<<>>>> \/ x = <<>>
    BY <2>0 DEF TextsOf
  <2> HIDE DEF x, e
  <2>2. IsList(t) /\ IsList(<<>>)
    BY One, Nothings
  <2> HIDE DEF t
  <2>3. Lists(x)
    <3>1. \A u : IsList(u) => Lists(<<u>>)
      BY One DEF Lists
    <3>2. Lists(<<>>)
      BY <2>2 DEF Lists
    <3>3. QED BY <2>1, <2>2, <3>1, <3>2
  <2>4. IsList(FlattenSeq(x))
    BY <2>3, FlatList
  <2>5. QED BY <2>3, <2>4 DEF x
<1> HIDE DEF rs, texts
<1>6. IsList(rs) /\ DOMAIN rs = DOMAIN order
  BY <1>3, <1>4, Ones
<1>7. QED BY <1>4, <1>5, <1>6 DEF ResultList, rs

\* The client's turn keeps it.
LEMMA SpeakingKeeps == ASSUME EInv, ClientSpeaks PROVE EInv'
<1>1. PICK order \in ResultOrders, output \in Outputs, content \in Contents :
         /\ history' = history \o UserTurn(Results(order, output), content)
         /\ said' = said \o Map(Results(order, output), LAMBDA r : ResultEvent(r.id, r.output))
                         \o TextEvents("user", ExtractText(content)) \o ImageEvents(content)
  BY DEF ClientSpeaks, Contents
<1> DEFINE rs == Results(order, output)
           g == UserTurn(rs, content)
           te == TextEvents("user", ExtractText(content))
           ie == ImageEvents(content)
           rt == ResultsTold(rs)
<1>2. client' = client /\ system' = system /\ choice' = choice /\ kept' = kept /\ awaited' = <<>>
      /\ phase = "client" /\ phase' = "asked"
      /\ received' = Nothing
  BY DEF ClientSpeaks
<1>3. client \in ClientApis
  BY Apis DEF EInv
<1>4. ResultList(rs) /\ Parts(content)
  BY ResultsAreList, ContentIs DEF EInv
<1>5. Shaped(client, g) /\ PlainItems(client, g, kept) /\ ToldBy(client, g) = With(rt, With(te, ie))
  BY <1>3, <1>4, UserTurnTells DEF ClientApis, ContentTold
<1>6. IsList(rt) /\ IsList(te) /\ IsList(ie)
  BY <1>4, ResultsToldAre, ContentToldIs
<1>7. said' = With(With(With(said, rt), te), ie)
  BY <1>1 DEF ResultsTold, With
<1> HIDE DEF g, te, ie, rt
<1>8. said' = With(said, With(rt, With(te, ie))) /\ IsList(said')
  <2>1. IsList(said)
    BY DEF EInv
  <2>2. IsList(With(said, rt)) /\ IsList(With(te, ie))
    BY <1>6, <2>1, WithIs
  <2>3. With(With(With(said, rt), te), ie) = With(With(said, rt), With(te, ie))
    BY <1>6, <2>2, WithIs
  <2>4. With(With(said, rt), With(te, ie)) = With(said, With(rt, With(te, ie)))
    BY <1>6, <2>1, <2>2, WithIs
  <2>5. IsList(With(rt, With(te, ie)))
    BY <1>6, <2>2, WithIs
  <2>6. QED BY <1>7, <2>1, <2>3, <2>4, <2>5, WithIs
<1>9. history' = With(history, g)
  BY <1>1 DEF g, With
<1>10. Shaped(client, With(history, g)) /\ ToldBy(client, With(history, g)) = With(ToldBy(client, history), ToldBy(client, g))
       /\ (PlainItems(client, history, kept) => PlainItems(client, With(history, g), kept))
  <2>1. client \in {"chat", "messages", "responses"} /\ Shaped(client, history)
    BY <1>3 DEF EInv, ClientApis
  <2>2. QED BY <1>5, <2>1, HistoryJoin
<1>11. Faithful => ToldBy(client, history') = said' /\ PlainItems(client, history', kept)
  <2>1. Faithful => ToldBy(client, history) = said /\ PlainItems(client, history, kept)
    BY <1>2 DEF EInv
  <2>2. QED BY <1>5, <1>8, <1>9, <1>10, <2>1
<1>12. Faithful' <=> Faithful
  BY <1>2 DEF Faithful
<1>13. Shaped(client, history')
  BY <1>9, <1>10
<1>14. IsList(awaited')
  BY <1>2, Nothings
<1>15. QED BY <1>2, <1>8, <1>11, <1>12, <1>13, <1>14 DEF EInv

\* So does a request that is sent or refused.
LEMMA SendKeeps == ASSUME EInv, Send PROVE EInv'
<1>1. /\ client' = client /\ system' = system /\ choice' = choice /\ hosted' = hosted /\ kept' = kept /\ history' = history
      /\ said' = said /\ awaited' = awaited /\ answer' = answer /\ received' = received
      /\ phase = "asked" /\ phase' \in {"sent", "refused"}
  BY DEF Send
<1>2. ClientRequest' = ClientRequest /\ Faithful' = Faithful /\ Open' = Open
  BY <1>1 DEF ClientRequest, Faithful, Open
<1>3. phase' = "sent" => \E api \in Open : Converts(ClientRequest, api) /\ request' = Converted(ClientRequest, api)
  BY DEF Send, Open
<1>4. received' = Nothing
  BY <1>1 DEF EInv
<1>5. (phase' = "sent" => \E api \in Open' : Converts(ClientRequest', api) /\ request' = Converted(ClientRequest', api))
  BY <1>2, <1>3
<1>6. QED BY <1>1, <1>2, <1>4, <1>5 DEF EInv

\* So does a failure of the upstream.
LEMMA FailKeeps == ASSUME EInv, Fail PROVE EInv'
<1>1. /\ client' = client /\ system' = system /\ choice' = choice /\ hosted' = hosted /\ kept' = kept /\ history' = history
      /\ said' = said /\ awaited' = awaited /\ answer' = answer /\ received' = received
      /\ phase = "sent" /\ phase' = "asked"
  BY DEF Fail
<1>2. Faithful' = Faithful
  BY <1>1 DEF Faithful
<1>3. received' = Nothing
  BY <1>1 DEF EInv
<1>4. QED BY <1>1, <1>2, <1>3 DEF EInv

\* The client's request is of its API.
LEMMA ClientRequestIs ==
    ASSUME EInv
    PROVE  ClientRequest.api = client
<1>1. client \in ClientApis
  BY Apis DEF EInv
<1>2. QED BY <1>1 DEF ClientApis, ClientRequest

\* A converted request is of the API it was converted for.
LEMMA ConvertedTo ==
    ASSUME NEW r, NEW api, r.api \in ClientApis, Converts(r, api)
    PROVE  Converted(r, api).api = api
  BY DEF Converts, Converted, ClientApis, ResponsesToChat, ChatToMessages, ChatToConverse, MessagesToChat, MessagesToConverse

\* An answer keeps the invariant.
LEMMA AnswerKeeps == ASSUME EInv, Answer PROVE EInv'
<1>a. PICK shape \in Shapes : \E a \in AnswersOf(request.api, shape) :
        /\ answer' = a
        /\ said' = said \o AnswerEvents(a)
        /\ IF AnswerConverts(a, client)
           THEN LET got == ConvertedAnswer(a, client)
                IN  /\ received' = got
                    /\ history' = history \o AsHistory(got)
                    /\ awaited' = CallsOf(got)
                    /\ phase' = "client"
           ELSE phase' = "unreadable" /\ UNCHANGED <<received, history, awaited>>
  BY DEF Answer
<1>1. PICK a \in AnswersOf(request.api, shape) :
        /\ answer' = a
        /\ said' = said \o AnswerEvents(a)
        /\ IF AnswerConverts(a, client)
           THEN LET got == ConvertedAnswer(a, client)
                IN  /\ received' = got
                    /\ history' = history \o AsHistory(got)
                    /\ awaited' = CallsOf(got)
                    /\ phase' = "client"
           ELSE phase' = "unreadable" /\ UNCHANGED <<received, history, awaited>>
  BY <1>a
<1> DEFINE got == ConvertedAnswer(a, client)
           h == AsHistory(got)
<1>2. client' = client /\ system' = system /\ choice' = choice /\ kept' = kept /\ phase = "sent"
  BY DEF Answer
<1>3. client \in ClientApis
  BY Apis DEF EInv
<1>4. PICK api \in Open : request.api = api
  <2>1. PICK api \in Open : Converts(ClientRequest, api) /\ request = Converted(ClientRequest, api)
    BY <1>2 DEF EInv
  <2>2. request.api = api
    BY <1>3, <2>1, ClientRequestIs, ConvertedTo
  <2>3. QED BY <2>2
<1>5. api \in {"chat", "messages", "responses", "converse"} /\ (api = "responses" => client = "responses")
  BY Apis
<1>6. Answered(a, api)
  <2>1. shape \in Seq({"text", "thinking", "use", "broken"})
    BY ExchangeAssumption
  <2>2. QED BY <1>1, <1>4, <1>5, <2>1, AnswersAre DEF Answered
<1>7. IsAnswer(got) /\ got.api = client /\ AnswerEvents(got) = AnswerEvents(a)
  BY <1>3, <1>5, <1>6, ConvertedIs DEF AnswersLike, Answered, ClientApis
<1>8. Shaped(client, h) /\ (Faithful => ToldBy(client, h) = AnswerEvents(a) /\ PlainItems(client, h, kept))
  BY <1>3, <1>7, KeptHistory DEF Faithful, ClientApis
<1>9. IsList(said') /\ IsList(said) /\ IsList(AnswerEvents(a))
  <2>1. IsList(AnswerEvents(a)) /\ IsList(said)
    BY <1>6, AnswerEventsAre DEF Answered, EInv
  <2>2. QED BY <1>1, <2>1, WithIs DEF With
<1>10. Faithful' = Faithful /\ Open' = Open
  BY <1>2 DEF Faithful, Open
<1>11. CASE AnswerConverts(a, client)
  <2> HIDE DEF got, h
  <2>1. received' = got /\ history' = With(history, h) /\ awaited' = CallsOf(got) /\ phase' = "client"
    BY <1>1, <1>11 DEF got, h, With
  <2>2. IsList(awaited')
    BY <1>7, <2>1, CallsOfAre
  <2>3. Shaped(client, With(history, h)) /\ ToldBy(client, With(history, h)) = With(ToldBy(client, history), ToldBy(client, h))
        /\ (PlainItems(client, history, kept) /\ PlainItems(client, h, kept) => PlainItems(client, With(history, h), kept))
    <3>1. client \in {"chat", "messages", "responses"} /\ Shaped(client, history)
      BY <1>3 DEF EInv, ClientApis
    <3>2. QED BY <1>8, <3>1, HistoryJoin
  <2>4. Faithful => ToldBy(client, history) = said /\ PlainItems(client, history, kept)
    BY <1>2 DEF EInv
  <2>5. Faithful => ToldBy(client, history') = said' /\ PlainItems(client, history', kept)
    <3>1. said' = With(said, AnswerEvents(a))
      BY <1>1 DEF With
    <3>2. QED BY <1>8, <2>1, <2>3, <2>4, <3>1
  <2>6. \E x \in Open : Answered(answer', x) /\ received' = ConvertedAnswer(answer', client)
    BY <1>1, <1>6, <2>1 DEF got
  <2>7. Shaped(client, history')
    BY <2>1, <2>3
  <2>8. QED BY <1>2, <1>9, <1>10, <2>1, <2>2, <2>5, <2>6, <2>7 DEF EInv
<1>12. CASE ~AnswerConverts(a, client)
  <2>1. phase' = "unreadable" /\ received' = received /\ history' = history /\ awaited' = awaited
    BY <1>1, <1>12
  <2>2. received' = Nothing
    BY <1>2, <2>1 DEF EInv
  <2>3. QED BY <1>2, <1>9, <1>10, <2>1, <2>2 DEF EInv
<1>13. QED BY <1>11, <1>12

\* The invariant of the exchange.
LEMMA ExchangeInvariance == Spec => []EInv
<1>1. Init => EInv
  BY ExchangeInit
<1>2. EInv /\ [Next]_vars => EInv'
  <2> SUFFICES ASSUME EInv, [Next]_vars PROVE EInv'
    OBVIOUS
  <2>1. CASE UNCHANGED vars
    BY <2>1 DEF vars, EInv, Faithful, Open, ClientRequest
  <2>2. QED BY <2>1, SpeakingKeeps, SendKeeps, FailKeeps, AnswerKeeps DEF Next
<1>3. QED BY <1>1, <1>2, PTL DEF Spec

\* What of a conversation an upstream is told.
HeardBy(api, events) ==
    IF api = "converse" /\ client = "messages" THEN Kept("urls", events)
    ELSE IF kept = "as issued" THEN Kept("calls", events) ELSE events

\* Any conversion of the client's request tells what was said.
LEMMA RequestIsTold ==
    ASSUME EInv, NEW api \in Open, Converts(ClientRequest, api), NEW req, req = Converted(ClientRequest, api)
    PROVE  \E events :
              /\ RequestTells(req, api, system, events, choice)
              /\ Faithful /\ phase # "unreadable" => events = HeardBy(api, said)
<1> DEFINE r == ClientRequest
<1>1. client \in ClientApis /\ api \in {"chat", "messages", "responses", "converse"}
  BY Apis DEF EInv
<1>2. IsPrompt(system) /\ Shaped(client, history) /\ choice \in ChatChoices
  BY ExchangeAssumption DEF EInv, ChatChoices
<1>3. Faithful /\ phase # "unreadable" => ToldBy(client, history) = said /\ PlainItems(client, history, kept)
  BY DEF EInv
<1>4. CASE client = "chat"
  <2>1. /\ r.api = "chat" /\ r.messages = Map(system, SystemMessage) \o history /\ r.tools = TRUE
        /\ r.choice = choice
    BY <1>4 DEF ClientRequest
  <2>2. Conversation(history) /\ ToldBy(client, history) = ChatTold(history)
    BY <1>2, <1>4 DEF Shaped, ToldBy
  <2>3. api \in {"chat", "messages", "converse"}
    BY <1>1, <2>1 DEF Converts
  <2>4. /\ api = "chat" => req = r
        /\ api = "messages" => req = ChatToMessages(r)
        /\ api = "converse" => req = ChatToConverse(r)
    BY <2>1, <2>3 DEF Converted
  <2> HIDE DEF r
  <2>5. ChoiceKept(r, choice, "chat")
    BY <2>1 DEF ChoiceKept
  <2>6. /\ RequestTells(r, "chat", system, ChatTold(history), choice)
        /\ RequestTells(ChatToMessages(r), "messages", system, ChatTold(history), choice)
        /\ RequestTells(ChatToConverse(r), "converse", system, ChatTold(history), choice)
    BY <1>2, <2>1, <2>2, <2>5, ChatRequestTells
  <2>7. RequestTells(req, api, system, ChatTold(history), choice)
    BY <2>3, <2>4, <2>6
  <2>8. Faithful /\ phase # "unreadable" => ChatTold(history) = HeardBy(api, said)
    <3>1. kept # "as issued"
      BY <1>4 DEF EInv
    <3>2. QED BY <1>3, <1>4, <2>2, <3>1 DEF HeardBy
  <2>9. QED BY <2>7, <2>8
<1>5. CASE client = "messages"
  <2>1. r.api = "messages" /\ r.system = system /\ r.messages = history /\ r.tools = TRUE /\ r.choice = choice
    BY <1>5 DEF ClientRequest
  <2>2. Dialogue(history) /\ ToldBy(client, history) = DialogueTold(history)
    BY <1>2, <1>5 DEF Shaped, ToldBy
  <2>3. api \in {"chat", "messages", "converse"}
    BY <1>1, <2>1 DEF Converts
  <2>4. /\ api = "messages" => req = r
        /\ api = "chat" => req = MessagesToChat(r)
        /\ api = "converse" => req = MessagesToConverse(r)
    BY <2>1, <2>3 DEF Converted
  <2> HIDE DEF r
  <2> DEFINE events == IF api = "converse" THEN Kept("urls", DialogueTold(history)) ELSE DialogueTold(history)
  <2>5. /\ RequestTells(r, "messages", system, DialogueTold(history), choice)
        /\ RequestTells(MessagesToChat(r), "chat", system, DialogueTold(history), choice)
        /\ RequestTells(MessagesToConverse(r), "converse", system, Kept("urls", DialogueTold(history)), choice)
    BY <1>2, <1>5, <2>1, <2>2, MessagesRequestTells DEF OwnBlocks
  <2>6. RequestTells(req, api, system, events, choice)
    BY <2>3, <2>4, <2>5
  <2>7. Faithful /\ phase # "unreadable" => events = HeardBy(api, said)
    <3>1. kept # "as issued"
      BY <1>5 DEF EInv
    <3>2. QED BY <1>3, <1>5, <2>2, <3>1 DEF HeardBy
  <2>8. QED BY <2>6, <2>7
<1>6. CASE client = "responses"
  <2> DEFINE items == Map(history, ReadItem)
  <2>1. r.api = "responses" /\ r.system = system /\ r.items = items /\ r.tools = TRUE /\ r.choice = choice
    BY <1>6 DEF ClientRequest
  <2>2. KeptItems(history) /\ ToldBy(client, history) = ItemsTold(history)
    BY <1>2, <1>6 DEF Shaped, ToldBy
  <2>3. /\ api = "responses" => req = r
        /\ api = "chat" => req = ResponsesToChat(r)
        /\ api = "messages" => req = ChatToMessages(ResponsesToChat(r))
        /\ api = "converse" => req = ChatToConverse(ResponsesToChat(r))
    BY <2>1 DEF Converted
  <2>4. /\ Items(items)
        /\ PlainItems("responses", history, kept) /\ kept # "as issued" => items = history
        /\ PlainItems("responses", history, "as issued") => ItemsTold(items) = Kept("calls", ItemsTold(history))
    BY <2>2, ReadItems
  <2> HIDE DEF r, items
  <2>5. /\ RequestTells(r, "responses", system, ItemsTold(items), choice)
        /\ RequestTells(ResponsesToChat(r), "chat", system, ItemsTold(items), choice)
        /\ RequestTells(ChatToMessages(ResponsesToChat(r)), "messages", system, ItemsTold(items), choice)
        /\ RequestTells(ChatToConverse(ResponsesToChat(r)), "converse", system, ItemsTold(items), choice)
    <3>1. Items(r.items) /\ r.choice \in ChatChoices
      BY <1>2, <2>1, <2>4
    <3>2. QED BY <1>2, <2>1, <3>1, ResponsesRequestTells
  <2>6. RequestTells(req, api, system, ItemsTold(items), choice)
    BY <1>1, <2>3, <2>5
  <2>7. ASSUME Faithful, phase # "unreadable" PROVE ItemsTold(items) = HeardBy(api, said)
    <3>1. ItemsTold(history) = said /\ PlainItems("responses", history, kept)
      BY <1>3, <1>6, <2>2, <2>7
    <3>2. CASE kept = "as issued"
      <4>1. ItemsTold(items) = Kept("calls", said)
        BY <2>4, <3>1, <3>2
      <4>2. QED BY <1>6, <3>2, <4>1 DEF HeardBy
    <3>3. CASE kept # "as issued"
      <4>1. ItemsTold(items) = said
        BY <2>4, <3>1, <3>3
      <4>2. QED BY <1>6, <3>3, <4>1 DEF HeardBy
    <3>4. QED BY <3>2, <3>3
  <2>8. QED BY <2>6, <2>7
<1>7. QED BY <1>1, <1>4, <1>5, <1>6 DEF ClientApis

\* What is not dropped.
LEMMA HeardIs ==
    ASSUME IsList(said), kept = "as issued" => client = "responses"
    PROVE  HeardBy(request.api, said) = Pick(said, LAMBDA e : ~Dropped(request.api, e))
<1> DEFINE api == request.api
           p == Map(said, LAMBDA e : IF ~Dropped(api, e) THEN <<e>> ELSE <<>>)
           q(lost) == Map(said, LAMBDA e : IF Shown(lost, e) THEN <<e>> ELSE <<>>)
<1>1. Pick(said, LAMBDA e : ~Dropped(api, e)) = FlattenSeq(p) /\ \A lost : Kept(lost, said) = FlattenSeq(q(lost))
  BY DEF Pick, Kept
<1>2. CASE api = "converse" /\ client = "messages"
  <2>1. p = q("urls")
    BY <1>2 DEF Map, Dropped, Shown
  <2> HIDE DEF p, q
  <2>2. QED BY <1>1, <1>2, <2>1 DEF HeardBy
<1>3. CASE ~(api = "converse" /\ client = "messages") /\ kept = "as issued"
  <2>1. p = q("calls")
    BY <1>3 DEF Map, Dropped, Shown
  <2> HIDE DEF p, q
  <2>2. QED BY <1>1, <1>3, <2>1 DEF HeardBy
<1>4. CASE ~(api = "converse" /\ client = "messages") /\ kept # "as issued"
  <2>1. Over(p, said) /\ \A i \in DOMAIN said : p[i] = <<said[i]>> /\ p[i] # <<>>
    BY <1>4 DEF Map, Over, Dropped
  <2> HIDE DEF p, q
  <2>2. FlattenSeq(p) = said
    BY <2>1, PartOf
  <2>3. QED BY <1>1, <1>4, <2>2 DEF HeardBy
<1>5. QED BY <1>2, <1>3, <1>4

\* So does the request that was sent.
LEMMA SentIsTold ==
    ASSUME EInv, phase = "sent"
    PROVE  \E events : /\ RequestTells(request, request.api, system, events, choice)
                       /\ Faithful => events = HeardBy(request.api, said)
<1>1. PICK api \in Open : Converts(ClientRequest, api) /\ request = Converted(ClientRequest, api)
  BY DEF EInv
<1>2. PICK events : /\ RequestTells(request, api, system, events, choice)
                    /\ Faithful /\ phase # "unreadable" => events = HeardBy(api, said)
  BY <1>1, RequestIsTold
<1>3. request.api = api
  BY <1>2 DEF RequestTells
<1>4. QED BY <1>2, <1>3

\* RequestTellsAll, for any conversation that its client keeps: whatever the
\* APIs of its earlier answers, an upstream is sent all that was said, once and
\* in order, with the instructions and the choice of tool, but for what Dropped
\* names: a Responses client that sends items back as they were issued has its
\* calls, and nothing else, read as references.  The conversations that
\* brightstaff keeps are the exception that ProviderExchangeKept shows.
THEOREM TellsAll ==
    ASSUME "responses" \in Clients => "by plano" \notin Keeping
    PROVE  Spec => []RequestTellsAll
<1>1. EInv => RequestTellsAll
  <2> SUFFICES ASSUME EInv, phase = "sent"
               PROVE  /\ EventsOf(request) = Pick(said, LAMBDA e : ~Dropped(request.api, e))
                      /\ InstructionsOf(request) = system /\ ChoiceReaches
    BY DEF RequestTellsAll
  <2>1. Faithful /\ (kept = "as issued" => client = "responses")
    BY DEF Faithful, EInv
  <2>2. PICK events : /\ RequestTells(request, request.api, system, events, choice)
                      /\ Faithful => events = HeardBy(request.api, said)
    BY SentIsTold
  <2>3. IsList(said)
    BY DEF EInv
  <2>4. HeardBy(request.api, said) = Pick(said, LAMBDA e : ~Dropped(request.api, e))
    BY <2>1, <2>3, HeardIs
  <2>5. EventsOf(request) = HeardBy(request.api, said) /\ InstructionsOf(request) = system
    BY <2>1, <2>2 DEF RequestTells
  <2>6. ChoiceReaches
    BY <2>2 DEF RequestTells, ChoiceKept, ChoiceReaches
  <2>7. QED BY <2>4, <2>5, <2>6
<1>2. QED BY <1>1, ExchangeInvariance, PTL

\* BedrockIsSentNothingEmpty, however the conversation is kept.
THEOREM NothingEmptySent == Spec => []BedrockIsSentNothingEmpty
<1>1. EInv => BedrockIsSentNothingEmpty
  <2> SUFFICES ASSUME EInv, phase = "sent", request.api = "converse"
               PROVE  Fits(request.messages)
    BY DEF BedrockIsSentNothingEmpty, Fits, Fit, FitBlock, OwnBlocks
  <2>1. QED BY SentIsTold DEF RequestTells
<1>2. QED BY <1>1, ExchangeInvariance, PTL

\* AnswerArrives: the client is told what the model said and how the answer
\* ended, whatever the two APIs are.
THEOREM AnswersArrive == Spec => []AnswerArrives
<1>1. EInv => AnswerArrives
  <2> SUFFICES ASSUME EInv, received # Nothing
               PROVE  AnswerEvents(received) = AnswerEvents(answer) /\ EndTold(received.finish, answer.finish, client)
    BY DEF AnswerArrives, EndTold
  <2>1. PICK api \in Open : Answered(answer, api) /\ received = ConvertedAnswer(answer, client)
    BY DEF EInv
  <2>2. /\ api \in {"chat", "messages", "responses", "converse"} /\ (api = "responses" => client = "responses")
        /\ client \in {"chat", "messages", "responses"}
    BY Apis DEF EInv, ClientApis
  <2>3. PICK calls : IsAnswer(answer) /\ answer.api = api /\ answer.finish \in Finishes(api, calls)
    BY <2>1 DEF Answered
  <2>4. AnswerEvents(received) = AnswerEvents(answer)
    BY <2>1, <2>2, <2>3, ConvertedIs DEF AnswersLike
  <2>5. EndTold(received.finish, answer.finish, client)
    BY <2>1, <2>2, <2>3, EndIsTold
  <2>6. QED BY <2>4, <2>5
<1>2. QED BY <1>1, ExchangeInvariance, PTL

-----------------------------------------------------------------------------
(* Calls and their results *)

\* The ids of the calls and of the results that are told.
CallsAmong(events) == {events[i][2].id : i \in {i \in DOMAIN events : events[i][1] = "call"}}
ResultsAmong(events) == {events[i][2] : i \in {i \in DOMAIN events : events[i][1] = "result"}}

\* What a message does to the calls that were made and the results there are:
\* its own calls come when there are all, its results are of those calls.
Follows(calls, got, events, calls1, got1) ==
    \/ ResultsAmong(events) = {} /\ got = calls /\ calls1 = CallsAmong(events) /\ got1 = {}
    \/ /\ ResultsAmong(events) # {} /\ ResultsAmong(events) \subseteq calls
       /\ calls1 = calls /\ got1 = got \cup ResultsAmong(events)

\* The same of what a list of messages tells.
Course(told, calls, got, calls1, got1) ==
    \E u, v :
        /\ u[0] = calls /\ v[0] = got /\ u[Len(told)] = calls1 /\ v[Len(told)] = got1
        /\ \A i \in 1..Len(told) : Follows(u[i - 1], v[i - 1], told[i], u[i], v[i])

\* Nothing told changes nothing.
LEMMA CourseOfNone ==
    ASSUME NEW calls, NEW got
    PROVE  Course(<<>>, calls, got, calls, got)
<1> DEFINE u == [i \in {0} |-> calls]
           v == [i \in {0} |-> got]
<1>1. u[0] = calls /\ v[0] = got
  OBVIOUS
<1> HIDE DEF u, v
<1>2. Len(<<>>) = 0 /\ \A i \in 1..0 : FALSE
  BY Nothings
<1>3. /\ u[0] = calls /\ v[0] = got /\ u[Len(<<>>)] = calls /\ v[Len(<<>>)] = got
      /\ \A i \in 1..Len(<<>>) : Follows(u[i - 1], v[i - 1], <<>>[i], u[i], v[i])
  BY <1>1, <1>2
<1>4. QED BY <1>3 DEF Course

\* One message takes one step.
LEMMA CourseOfOne ==
    ASSUME NEW e, NEW calls, NEW got, NEW calls1, NEW got1, Follows(calls, got, e, calls1, got1)
    PROVE  Course(<<e>>, calls, got, calls1, got1)
<1> DEFINE u == [i \in {0, 1} |-> IF i = 0 THEN calls ELSE calls1]
           v == [i \in {0, 1} |-> IF i = 0 THEN got ELSE got1]
<1>1. u[0] = calls /\ v[0] = got /\ u[1] = calls1 /\ v[1] = got1
  OBVIOUS
<1> HIDE DEF u, v
<1>2. Len(<<e>>) = 1 /\ <<e>>[1] = e
  BY One
<1>3. \A i \in 1..1 : i = 1 /\ i - 1 = 0
  OBVIOUS
<1> DEFINE told == <<e>>
<1>4. Len(told) = 1 /\ told[1] = e
  BY <1>2
<1> HIDE DEF told
<1>5. \A i \in 1..Len(told) : Follows(u[i - 1], v[i - 1], told[i], u[i], v[i])
  BY <1>1, <1>3, <1>4
<1>6. Course(told, calls, got, calls1, got1)
  BY <1>1, <1>4, <1>5 DEF Course
<1>7. QED BY <1>6 DEF told

\* A course goes on where another ended.
LEMMA CourseJoin ==
    ASSUME NEW s, NEW t, IsList(s), IsList(t),
           NEW calls, NEW got, NEW calls1, NEW got1, NEW calls2, NEW got2,
           Course(s, calls, got, calls1, got1), Course(t, calls1, got1, calls2, got2)
    PROVE  Course(With(s, t), calls, got, calls2, got2)
<1>1. PICK u, v :
        /\ u[0] = calls /\ v[0] = got /\ u[Len(s)] = calls1 /\ v[Len(s)] = got1
        /\ \A i \in 1..Len(s) : Follows(u[i - 1], v[i - 1], s[i], u[i], v[i])
  BY DEF Course
<1>2. PICK x, y :
        /\ x[0] = calls1 /\ y[0] = got1 /\ x[Len(t)] = calls2 /\ y[Len(t)] = got2
        /\ \A i \in 1..Len(t) : Follows(x[i - 1], y[i - 1], t[i], x[i], y[i])
  BY DEF Course
<1> DEFINE m == Len(s)
           n == Len(t)
           w == With(s, t)
<1>3. m \in Nat /\ n \in Nat
  BY ListHas
<1>4. Len(w) = m + n /\ \A i \in 1..(m + n) : w[i] = IF i <= m THEN s[i] ELSE t[i - m]
  BY Joined DEF With
<1> DEFINE p == [i \in 0..(m + n) |-> IF i <= m THEN u[i] ELSE x[i - m]]
           q == [i \in 0..(m + n) |-> IF i <= m THEN v[i] ELSE y[i - m]]
<1> HIDE DEF w, m, n
<1>5. /\ \A i \in 0..m : p[i] = u[i] /\ q[i] = v[i]
      /\ \A i \in (m + 1)..(m + n) : p[i] = x[i - m] /\ q[i] = y[i - m]
  BY <1>3
<1>6. p[m] = x[0] /\ q[m] = y[0]
  <2>1. m \in 0..m
    BY <1>3
  <2>2. p[m] = u[m] /\ q[m] = v[m]
    BY <1>5, <2>1
  <2>3. QED BY <2>2, <1>1, <1>2 DEF m
<1>7. \A i \in 0..n : p[m + i] = x[i] /\ q[m + i] = y[i]
  <2> SUFFICES ASSUME NEW i \in 0..n PROVE p[m + i] = x[i] /\ q[m + i] = y[i]
    OBVIOUS
  <2>1. CASE i = 0
    <3>1. m + i = m
      BY <1>3, <2>1
    <3>2. QED BY <3>1, <2>1, <1>6
  <2>2. CASE i # 0
    <3>1. m + i \in (m + 1)..(m + n) /\ (m + i) - m = i
      BY <1>3, <2>2
    <3>2. QED BY <3>1, <1>5
  <2>3. QED BY <2>1, <2>2
<1> HIDE DEF p, q
<1>8. p[0] = calls /\ q[0] = got /\ p[Len(w)] = calls2 /\ q[Len(w)] = got2
  <2>1. 0 \in 0..m /\ n \in 0..n
    BY <1>3
  <2>2. p[0] = u[0] /\ q[0] = v[0] /\ p[m + n] = x[n] /\ q[m + n] = y[n]
    BY <2>1, <1>5, <1>7
  <2>3. QED BY <2>2, <1>1, <1>2, <1>4 DEF n
<1>9. ASSUME NEW i \in 1..Len(w) PROVE Follows(p[i - 1], q[i - 1], w[i], p[i], q[i])
  <2>1. i \in 1..(m + n)
    BY <1>4
  <2>2. CASE i <= m
    <3>1. i \in 1..m /\ i \in 0..m /\ i - 1 \in 0..m
      BY <1>3, <2>1, <2>2
    <3>2. w[i] = s[i]
      BY <1>4, <2>1, <2>2
    <3>3. Follows(u[i - 1], v[i - 1], s[i], u[i], v[i])
      BY <3>1, <1>1 DEF m
    <3>4. p[i] = u[i] /\ q[i] = v[i] /\ p[i - 1] = u[i - 1] /\ q[i - 1] = v[i - 1]
      BY <3>1, <1>5
    <3>5. QED BY <3>2, <3>3, <3>4
  <2>3. CASE ~(i <= m)
    <3>1. PICK j \in 1..n : i = m + j
      <4>1. i - m \in 1..n /\ i = m + (i - m)
        BY <1>3, <2>1, <2>3
      <4>2. QED BY <4>1
    <3>2. j \in 0..n /\ j - 1 \in 0..n /\ i - 1 = m + (j - 1) /\ i - m = j
      BY <1>3, <3>1
    <3>3. w[i] = t[j]
      BY <1>4, <2>1, <2>3, <3>2
    <3>4. Follows(x[j - 1], y[j - 1], t[j], x[j], y[j])
      BY <3>1, <1>2 DEF n
    <3>5. p[m + j] = x[j] /\ q[m + j] = y[j] /\ p[m + (j - 1)] = x[j - 1] /\ q[m + (j - 1)] = y[j - 1]
      BY <3>2, <1>7
    <3>6. p[i] = x[j] /\ q[i] = y[j] /\ p[i - 1] = x[j - 1] /\ q[i - 1] = y[j - 1]
      BY <3>1, <3>2, <3>5
    <3>7. QED BY <3>3, <3>4, <3>6
  <2>4. QED BY <2>2, <2>3
<1>10. Course(w, calls, got, calls2, got2)
  BY <1>8, <1>9 DEF Course
<1>11. QED BY <1>10 DEF w

\* Messages that each bring results, and what they bring one by one: the
\* results are all there at the end.
LEMMA CourseOfResults ==
    ASSUME NEW told, IsList(told), NEW calls, NEW got,
           NEW ids, Over(ids, told), \A k \in DOMAIN told : ResultsAmong(told[k]) = {ids[k]} /\ ids[k] \in calls
    PROVE  Course(told, calls, got, calls, got \cup {ids[k] : k \in DOMAIN told})
<1> DEFINE N == Len(told)
           u == [n \in 0..N |-> calls]
           v == [n \in 0..N |-> got \cup {ids[k] : k \in 1..n}]
<1>1. N \in Nat /\ DOMAIN told = 1..N
  BY ListHas
<1> HIDE DEF N
<1>2. 0 \in 0..N /\ N \in 0..N
  BY <1>1
<1>3. u[0] = calls /\ u[N] = calls
  BY <1>2
<1>4. v[0] = got /\ v[N] = got \cup {ids[k] : k \in DOMAIN told}
  <2>1. 1..0 = {}
    OBVIOUS
  <2>2. v[0] = got \cup {ids[k] : k \in 1..0}
    BY <1>2
  <2>3. {ids[k] : k \in 1..0} = {}
    BY <2>1
  <2>4. QED BY <2>2, <2>3, <1>1, <1>2
<1>5. ASSUME NEW i \in 1..N PROVE Follows(u[i - 1], v[i - 1], told[i], u[i], v[i])
  <2>1. i \in 0..N /\ i - 1 \in 0..N /\ 1..i = 1..(i - 1) \cup {i} /\ i \in DOMAIN told
    BY <1>1
  <2>2. u[i - 1] = calls /\ u[i] = calls
    BY <2>1
  <2>3. v[i - 1] = got \cup {ids[k] : k \in 1..(i - 1)} /\ v[i] = got \cup {ids[k] : k \in 1..i}
    BY <2>1
  <2>4. {ids[k] : k \in 1..i} = {ids[k] : k \in 1..(i - 1)} \cup {ids[i]}
    BY <2>1
  <2>5. v[i] = v[i - 1] \cup {ids[i]}
    BY <2>3, <2>4
  <2>6. ResultsAmong(told[i]) = {ids[i]} /\ ids[i] \in calls
    BY <2>1
  <2> HIDE DEF u, v
  <2>7. QED BY <2>2, <2>5, <2>6 DEF Follows
<1> HIDE DEF u, v
<1>6. QED BY <1>3, <1>4, <1>5 DEF Course, N

\* The results in the messages are those of the calls before them, as
\* ResultsFollowTheirCalls says.
Together(messages) ==
    /\ \A i \in DOMAIN messages :
         CallIdsOf(messages[i]) = UNION {ResultIdsOf(messages[j]) : j \in ResultRun(messages, i)}
         \/ ResultIdsOf(messages[i]) # {}
    /\ \A j \in DOMAIN messages :
         ResultIdsOf(messages[j]) # {} =>
            \E i \in 1..j - 1 : CallIdsOf(messages[i]) # {} /\ j \in ResultRun(messages, i)

\* The ids in a message are those it tells.
Marks(m, events) ==
    ResultIdsOf(m) = ResultsAmong(events) /\ (ResultIdsOf(m) = {} => CallIdsOf(m) = CallsAmong(events))

\* Where messages take a course that ends with no call without a result, calls
\* and results are together.
LEMMA CourseTogether ==
    ASSUME NEW ms, IsList(ms), NEW told, IsList(told), Len(told) = Len(ms),
           \A i \in DOMAIN ms : Marks(ms[i], told[i]),
           NEW p, Course(told, {}, {}, p, p)
    PROVE  Together(ms)
<1> DEFINE N == Len(ms)
<1>1. N \in Nat /\ DOMAIN ms = 1..N
  BY ListHas
<1>2. PICK u, v :
        /\ u[0] = {} /\ v[0] = {} /\ u[N] = p /\ v[N] = p
        /\ \A i \in 1..N : Follows(u[i - 1], v[i - 1], told[i], u[i], v[i])
  BY DEF Course
<1> DEFINE R == [i \in 1..N |-> ResultIdsOf(ms[i])]
           C == [i \in 1..N |-> CallIdsOf(ms[i])]
<1>3. \A i \in 1..N : R[i] = ResultIdsOf(ms[i]) /\ C[i] = CallIdsOf(ms[i])
  OBVIOUS
<1> HIDE DEF N, R, C
<1>4. ASSUME NEW i \in 1..N
      PROVE  /\ R[i] = {} => v[i - 1] = u[i - 1] /\ u[i] = C[i] /\ v[i] = {}
             /\ R[i] # {} => R[i] \subseteq u[i - 1] /\ u[i] = u[i - 1] /\ v[i] = v[i - 1] \cup R[i]
  <2>1. Marks(ms[i], told[i])
    BY <1>1
  <2>2. R[i] = ResultsAmong(told[i]) /\ (R[i] = {} => C[i] = CallsAmong(told[i]))
    BY <2>1, <1>3 DEF Marks
  <2>3. Follows(u[i - 1], v[i - 1], told[i], u[i], v[i])
    BY <1>2
  <2>4. QED BY <2>2, <2>3 DEF Follows
<1> DEFINE All(i, j) == \A k \in (i + 1)..j : R[k] # {}
           Sum(i, j) == UNION {R[k] : k \in (i + 1)..j}
\* Along results the calls stay, and what has come adds up.
<1>5. ASSUME NEW i \in 0..N, NEW j \in i..N, All(i, j)
      PROVE  u[j] = u[i] /\ v[j] = v[i] \cup Sum(i, j)
  <2> DEFINE M == j - i
             S == {n \in 0..M : u[i + n] = u[i] /\ v[i + n] = v[i] \cup Sum(i, i + n)}
  <2>1. M \in Nat /\ i + M = j /\ i + 0 = i
    BY <1>1
  <2>2. 0 \in S
    <3>1. (i + 1)..(i + 0) = {}
      BY <1>1
    <3>2. Sum(i, i + 0) = {}
      BY <3>1
    <3>3. QED BY <2>1, <3>2
  <2>3. ASSUME NEW n \in 0..(M - 1), n \in S PROVE n + 1 \in S
    <3> DEFINE k == i + (n + 1)
    <3>1. k \in 1..N /\ k - 1 = i + n /\ k \in (i + 1)..j /\ n + 1 \in 0..M
      BY <1>1
    <3>2. (i + 1)..k = (i + 1)..(i + n) \cup {k}
      BY <1>1
    <3>3. Sum(i, k) = Sum(i, i + n) \cup R[k]
      BY <3>2
    <3>4. R[k] # {}
      BY <3>1, <1>5
    <3> HIDE DEF k, Sum
    <3>5. u[k] = u[k - 1] /\ v[k] = v[k - 1] \cup R[k]
      BY <3>1, <3>4, <1>4
    <3>6. u[i + n] = u[i] /\ v[i + n] = v[i] \cup Sum(i, i + n)
      BY <2>3
    <3>7. u[k] = u[i] /\ v[k] = v[i] \cup Sum(i, k)
      BY <3>1, <3>3, <3>5, <3>6
    <3>8. QED BY <3>1, <3>7 DEF k
  <2> HIDE DEF S
  <2>4. 0..M \subseteq S
    BY <2>1, <2>2, <2>3, UpTo
  <2>5. M \in S
    BY <2>1, <2>4
  <2>6. QED BY <2>1, <2>5 DEF S
<1>6. ASSUME NEW i \in 1..N, R[i] = {}
      PROVE  C[i] = UNION {R[j] : j \in {j \in (i + 1)..N : All(i, j)}}
  <2> DEFINE T == {k \in (i + 1)..N : R[k] = {}}
  <2>0. u[i] = C[i] /\ v[i] = {} /\ i \in 0..N
    BY <1>1, <1>4, <1>6
  <2>1. CASE T = {}
    <3>1. All(i, N) /\ N \in i..N
      BY <2>1, <1>1
    <3>2. {j \in (i + 1)..N : All(i, j)} = (i + 1)..N
      BY <3>1, <1>1
    <3>3. u[N] = u[i] /\ v[N] = v[i] \cup Sum(i, N)
      BY <3>1, <2>0, <1>5
    <3>4. Sum(i, N) = UNION {R[j] : j \in {j \in (i + 1)..N : All(i, j)}}
      BY <3>2
    <3> HIDE DEF Sum
    <3>5. C[i] = Sum(i, N)
      BY <3>3, <2>0, <1>2 DEF N
    <3>6. QED BY <3>4, <3>5
  <2>2. CASE T # {}
    <3>1. T \in SUBSET Nat
      BY <1>1
    <3>2. PICK k \in T : \A m \in T : k <= m
      BY <2>2, <3>1, LeastNumber
    <3>3. k \in 1..N /\ k - 1 \in i..N /\ R[k] = {} /\ All(i, k - 1)
      <4>1. k \in (i + 1)..N /\ R[k] = {}
        BY <3>2
      <4>2. k \in 1..N /\ k - 1 \in i..N
        BY <4>1, <1>1
      <4>3. ASSUME NEW m \in (i + 1)..(k - 1) PROVE R[m] # {}
        <5>1. m \in (i + 1)..N /\ m < k /\ ~(k <= m)
          BY <4>1, <1>1
        <5>2. QED BY <5>1, <3>2
      <4>4. QED BY <4>1, <4>2, <4>3
    <3>4. u[k - 1] = u[i] /\ v[k - 1] = v[i] \cup Sum(i, k - 1)
      BY <3>3, <2>0, <1>5
    <3>5. v[k - 1] = u[k - 1]
      BY <3>3, <1>4
    <3>6. {j \in (i + 1)..N : All(i, j)} = (i + 1)..(k - 1)
      <4>1. ASSUME NEW j \in (i + 1)..N, All(i, j) PROVE j \in (i + 1)..(k - 1)
        <5>1. ~(k \in (i + 1)..j)
          BY <4>1, <3>3
        <5>2. k \in (i + 1)..N
          BY <3>2
        <5>3. QED BY <5>1, <5>2, <1>1
      <4>2. ASSUME NEW j \in (i + 1)..(k - 1) PROVE j \in (i + 1)..N /\ All(i, j)
        <5>1. (i + 1)..j \subseteq (i + 1)..(k - 1) /\ j \in (i + 1)..N
          BY <3>3, <1>1
        <5>2. QED BY <5>1, <3>3
      <4> HIDE DEF All
      <4>3. QED BY <4>1, <4>2
    <3>7. Sum(i, k - 1) = UNION {R[j] : j \in {j \in (i + 1)..N : All(i, j)}}
      BY <3>6
    <3> HIDE DEF Sum
    <3>8. C[i] = Sum(i, k - 1)
      BY <3>4, <3>5, <2>0
    <3>9. QED BY <3>7, <3>8
  <2>3. QED BY <2>1, <2>2
<1>7. ASSUME NEW j \in 1..N, R[j] # {}
      PROVE  \E i \in 1..(j - 1) : C[i] # {} /\ j \in {k \in (i + 1)..N : All(i, k)}
  <2> DEFINE T == {i \in 0..(j - 1) : All(i, j)}
  <2>1. j - 1 \in T
    <3>1. ((j - 1) + 1)..j = {j} /\ j - 1 \in 0..(j - 1)
      BY <1>1
    <3>2. QED BY <3>1, <1>7
  <2>2. T \in SUBSET Nat
    BY <1>1
  <2>3. PICK i \in T : \A m \in T : i <= m
    BY <2>1, <2>2, LeastNumber
  <2>4. i \in 0..N /\ i \in 0..(j - 1) /\ j - 1 \in i..N /\ j \in (i + 1)..N
    BY <2>3, <1>1
  <2>5. All(i, j - 1)
    <3>1. (i + 1)..(j - 1) \subseteq (i + 1)..j
      BY <1>1
    <3>2. QED BY <2>3, <3>1
  <2>6. u[j - 1] = u[i]
    BY <2>4, <2>5, <1>5
  <2>7. R[j] \subseteq u[i]
    BY <2>6, <1>4, <1>7
  <2>8. i # 0
    BY <2>7, <1>2, <1>7
  <2>9. i \in 1..N /\ i \in 1..(j - 1)
    BY <2>4, <2>8, <1>1
  <2>10. R[i] = {}
    <3> SUFFICES ASSUME R[i] # {} PROVE FALSE
      OBVIOUS
    <3>1. (i - 1) + 1 = i /\ i..j = {i} \cup (i + 1)..j /\ i - 1 \in 0..(j - 1)
      BY <2>9, <1>1
    <3>2. All(i, j)
      BY <2>3
    <3>3. All(i - 1, j)
      BY <3>1, <3>2
    <3>4. i - 1 \in T
      BY <3>1, <3>3
    <3>5. i <= i - 1
      BY <2>3, <3>4
    <3>6. QED BY <3>5, <2>9
  <2>11. C[i] # {}
    BY <2>7, <2>9, <2>10, <1>4, <1>7
  <2>12. QED BY <2>3, <2>4, <2>9, <2>11
<1>8. \A i \in 1..N : ResultRun(ms, i) = {j \in (i + 1)..N : All(i, j)}
  <2> SUFFICES ASSUME NEW i \in 1..N PROVE ResultRun(ms, i) = {j \in (i + 1)..N : All(i, j)}
    OBVIOUS
  <2>1. ResultRun(ms, i) = {j \in (i + 1)..N : \A k \in (i + 1)..j : ResultIdsOf(ms[k]) # {}}
    BY DEF ResultRun, N
  <2>2. ASSUME NEW j \in (i + 1)..N PROVE All(i, j) <=> \A k \in (i + 1)..j : ResultIdsOf(ms[k]) # {}
    <3>1. \A k \in (i + 1)..j : k \in 1..N
      BY <1>1
    <3>2. QED BY <3>1, <1>3
  <2> HIDE DEF All
  <2>3. QED BY <2>1, <2>2
<1>9. ASSUME NEW i \in DOMAIN ms
      PROVE  CallIdsOf(ms[i]) = UNION {ResultIdsOf(ms[j]) : j \in ResultRun(ms, i)} \/ ResultIdsOf(ms[i]) # {}
  <2>1. i \in 1..N
    BY <1>1
  <2>2. {ResultIdsOf(ms[j]) : j \in ResultRun(ms, i)} = {R[j] : j \in {j \in (i + 1)..N : All(i, j)}}
    <3>1. \A j \in {j \in (i + 1)..N : All(i, j)} : R[j] = ResultIdsOf(ms[j])
      <4>1. \A j \in (i + 1)..N : j \in 1..N
        BY <2>1, <1>1
      <4>2. QED BY <4>1, <1>3
    <3> HIDE DEF All
    <3>2. QED BY <3>1, <2>1, <1>8
  <2> HIDE DEF All
  <2>3. QED BY <2>1, <2>2, <1>3, <1>6
<1>10. ASSUME NEW j \in DOMAIN ms, ResultIdsOf(ms[j]) # {}
       PROVE  \E i \in 1..(j - 1) : CallIdsOf(ms[i]) # {} /\ j \in ResultRun(ms, i)
  <2>1. j \in 1..N /\ R[j] # {}
    BY <1>1, <1>3, <1>10
  <2>2. PICK i \in 1..(j - 1) : C[i] # {} /\ j \in {k \in (i + 1)..N : All(i, k)}
    BY <2>1, <1>7
  <2>3. i \in 1..N
    BY <2>1, <1>1
  <2> HIDE DEF All
  <2>4. QED BY <2>2, <2>3, <1>3, <1>8
<1>11. QED BY <1>9, <1>10 DEF Together

\* Calls and results are told in one part or the other.
LEMMA AmongJoin ==
    ASSUME NEW s, NEW t, IsList(s), IsList(t)
    PROVE  /\ CallsAmong(With(s, t)) = CallsAmong(s) \cup CallsAmong(t)
           /\ ResultsAmong(With(s, t)) = ResultsAmong(s) \cup ResultsAmong(t)
<1> DEFINE w == s \o t
<1>1. /\ \A i \in DOMAIN s : i \in DOMAIN w /\ w[i] = s[i]
      /\ \A i \in DOMAIN t : Len(s) + i \in DOMAIN w /\ w[Len(s) + i] = t[i]
      /\ \A i \in DOMAIN w : \/ i \in DOMAIN s /\ w[i] = s[i]
                             \/ \E j \in DOMAIN t : i = Len(s) + j /\ w[i] = t[j]
  BY JoinedAt
<1>2. With(s, t) = w
  BY DEF With
<1> HIDE DEF w
<1>3. CallsAmong(w) = CallsAmong(s) \cup CallsAmong(t)
  <2>1. ASSUME NEW x \in CallsAmong(w) PROVE x \in CallsAmong(s) \cup CallsAmong(t)
    <3>1. PICK i \in DOMAIN w : w[i][1] = "call" /\ x = w[i][2].id
      BY DEF CallsAmong
    <3>2. CASE i \in DOMAIN s /\ w[i] = s[i]
      BY <3>1, <3>2 DEF CallsAmong
    <3>3. CASE \E j \in DOMAIN t : i = Len(s) + j /\ w[i] = t[j]
      BY <3>1, <3>3 DEF CallsAmong
    <3>4. QED BY <1>1, <3>2, <3>3
  <2>2. ASSUME NEW x \in CallsAmong(s) PROVE x \in CallsAmong(w)
    <3>1. PICK i \in DOMAIN s : s[i][1] = "call" /\ x = s[i][2].id
      BY DEF CallsAmong
    <3>2. QED BY <1>1, <3>1 DEF CallsAmong
  <2>3. ASSUME NEW x \in CallsAmong(t) PROVE x \in CallsAmong(w)
    <3>1. PICK i \in DOMAIN t : t[i][1] = "call" /\ x = t[i][2].id
      BY DEF CallsAmong
    <3>2. QED BY <1>1, <3>1 DEF CallsAmong
  <2>4. QED BY <2>1, <2>2, <2>3
<1>4. ResultsAmong(w) = ResultsAmong(s) \cup ResultsAmong(t)
  <2>1. ASSUME NEW x \in ResultsAmong(w) PROVE x \in ResultsAmong(s) \cup ResultsAmong(t)
    <3>1. PICK i \in DOMAIN w : w[i][1] = "result" /\ x = w[i][2]
      BY DEF ResultsAmong
    <3>2. CASE i \in DOMAIN s /\ w[i] = s[i]
      BY <3>1, <3>2 DEF ResultsAmong
    <3>3. CASE \E j \in DOMAIN t : i = Len(s) + j /\ w[i] = t[j]
      BY <3>1, <3>3 DEF ResultsAmong
    <3>4. QED BY <1>1, <3>2, <3>3
  <2>2. ASSUME NEW x \in ResultsAmong(s) PROVE x \in ResultsAmong(w)
    <3>1. PICK i \in DOMAIN s : s[i][1] = "result" /\ x = s[i][2]
      BY DEF ResultsAmong
    <3>2. QED BY <1>1, <3>1 DEF ResultsAmong
  <2>3. ASSUME NEW x \in ResultsAmong(t) PROVE x \in ResultsAmong(w)
    <3>1. PICK i \in DOMAIN t : t[i][1] = "result" /\ x = t[i][2]
      BY DEF ResultsAmong
    <3>2. QED BY <1>1, <3>1 DEF ResultsAmong
  <2>4. QED BY <2>1, <2>2, <2>3
<1>5. QED BY <1>2, <1>3, <1>4

\* Texts and images are neither.
LEMMA NoneAmong ==
    ASSUME NEW s, IsList(s)
    PROVE  /\ \A r : r \notin {"call", "result"} =>
                CallsAmong(TextEvents(r, s)) = {} /\ ResultsAmong(TextEvents(r, s)) = {}
           /\ CallsAmong(ImageEvents(s)) = {} /\ ResultsAmong(ImageEvents(s)) = {}
           /\ CallsAmong(Kept("urls", ImageEvents(s))) = {} /\ ResultsAmong(Kept("urls", ImageEvents(s))) = {}
<1>1. ASSUME NEW r, r \notin {"call", "result"}
      PROVE  CallsAmong(TextEvents(r, s)) = {} /\ ResultsAmong(TextEvents(r, s)) = {}
  <2> DEFINE e == TextEvents(r, s)
  <2>1. e = [i \in DOMAIN Spoken(s) |-> <<r, Spoken(s)[i]>>]
    BY DEF TextEvents, Map
  <2>2. \A i \in DOMAIN e : e[i][1] = r
    BY <2>1
  <2> HIDE DEF e
  <2>3. CallsAmong(e) = {} /\ ResultsAmong(e) = {}
    BY <1>1, <2>2 DEF CallsAmong, ResultsAmong
  <2>4. QED BY <2>3 DEF e
<1> DEFINE e == ImageEvents(s)
           f == OfType(s, {"image"})
<1>2. e = [i \in DOMAIN f |-> <<"image", f[i].at>>]
  BY DEF ImageEvents, Map
<1>3. \A i \in DOMAIN e : e[i][1] = "image"
  BY <1>2
<1>4. IsList(e)
  BY ImageAre
<1> HIDE DEF e
<1>5. CallsAmong(e) = {} /\ ResultsAmong(e) = {}
  BY <1>3 DEF CallsAmong, ResultsAmong
<1> DEFINE p == Map(e, LAMBDA x : IF Shown("urls", x) THEN <<x>> ELSE <<>>)
           k == FlattenSeq(p)
<1>6. Over(p, e) /\ \A i \in DOMAIN e : p[i] = <<e[i]>> \/ p[i] = <<>>
  BY DEF Over, Map
<1>7. Kept("urls", e) = k
  BY DEF Kept, Pick
<1> HIDE DEF p
<1>8. \A i \in DOMAIN k : \E j \in DOMAIN e : k[i] = e[j]
  BY <1>4, <1>6, PartOf
<1> HIDE DEF k
<1>9. \A i \in DOMAIN k : k[i][1] = "image"
  BY <1>3, <1>8
<1>10. CallsAmong(k) = {} /\ ResultsAmong(k) = {}
  BY <1>9 DEF CallsAmong, ResultsAmong
<1>11. QED BY <1>1, <1>5, <1>7, <1>10 DEF e

\* The calls a message tells.
LEMMA CallsAreAmong ==
    ASSUME NEW calls, IsList(calls)
    PROVE  CallsAmong(CallEvents(calls)) = {c.id : c \in ToSet(calls)} /\ ResultsAmong(CallEvents(calls)) = {}
<1> DEFINE e == CallEvents(calls)
<1>1. e = [i \in DOMAIN calls |-> <<"call", calls[i]>>]
  BY DEF CallEvents, Map
<1>2. DOMAIN e = DOMAIN calls /\ \A i \in DOMAIN e : e[i][1] = "call" /\ e[i][2] = calls[i]
  BY <1>1
<1> HIDE DEF e
<1>3. ResultsAmong(e) = {}
  BY <1>2 DEF ResultsAmong
<1>4. CallsAmong(e) = {e[i][2].id : i \in DOMAIN e}
  <2>1. {i \in DOMAIN e : e[i][1] = "call"} = DOMAIN e
    BY <1>2
  <2>2. QED BY <2>1 DEF CallsAmong
<1>5. {e[i][2].id : i \in DOMAIN e} = {calls[i].id : i \in DOMAIN calls}
  BY <1>2
<1>6. {c.id : c \in ToSet(calls)} = {calls[i].id : i \in DOMAIN calls}
  BY DEF ToSet
<1>7. QED BY <1>3, <1>4, <1>5, <1>6 DEF e

\* The results a message of blocks tells.
LEMMA ResultsAreAmong ==
    ASSUME NEW s, IsList(s)
    PROVE  /\ ResultsAmong(ResultEvents(s)) = {b.id : b \in ToSet(OfType(s, {"tool_result"}))}
           /\ CallsAmong(ResultEvents(s)) = {}
<1> DEFINE f == OfType(s, {"tool_result"})
           e == ResultEvents(s)
<1>1. e = [i \in DOMAIN f |-> <<"result", f[i].id, Spoken(FlattenSeq(f[i].content))>>]
  BY DEF ResultEvents, Map, ResultEvent
<1> HIDE DEF f
<1>2. DOMAIN e = DOMAIN f /\ \A i \in DOMAIN e : e[i][1] = "result" /\ e[i][2] = f[i].id
  BY <1>1
<1> HIDE DEF e
<1>3. CallsAmong(e) = {}
  BY <1>2 DEF CallsAmong
<1>4. ResultsAmong(e) = {e[i][2] : i \in DOMAIN e}
  <2>1. {i \in DOMAIN e : e[i][1] = "result"} = DOMAIN e
    BY <1>2
  <2>2. QED BY <2>1 DEF ResultsAmong
<1>5. {e[i][2] : i \in DOMAIN e} = {f[i].id : i \in DOMAIN f}
  BY <1>2
<1>6. {b.id : b \in ToSet(f)} = {f[i].id : i \in DOMAIN f}
  BY DEF ToSet
<1>7. QED BY <1>3, <1>4, <1>5, <1>6 DEF e, f

\* A result alone.
LEMMA ResultIsAmong ==
    ASSUME NEW id, NEW t
    PROVE  ResultsAmong(<<ResultEvent(id, t)>>) = {id} /\ CallsAmong(<<ResultEvent(id, t)>>) = {}
<1> DEFINE x == ResultEvent(id, t)
           e == <<x>>
<1>1. x[1] = "result" /\ x[2] = id
  BY DEF ResultEvent
<1> HIDE DEF x
<1>2. DOMAIN e = {1} /\ e[1] = x
  BY One
<1> HIDE DEF e
<1>3. ResultsAmong(e) = {id} /\ CallsAmong(e) = {}
  BY <1>1, <1>2 DEF ResultsAmong, CallsAmong
<1>4. QED BY <1>3 DEF e, x

\* Of what a message of blocks tells.
LEMMA ToldAmong ==
    ASSUME NEW r \in {"user", "assistant"}, NEW b, Worded(b)
    PROVE  /\ CallsAmong(Told(r, b)) = {c.id : c \in ToSet(CallsIn(b))}
           /\ ResultsAmong(Told(r, b)) = {x.id : x \in ToSet(OfType(b, {"tool_result"}))}
           /\ CallsAmong(Kept("urls", Told(r, b))) = CallsAmong(Told(r, b))
           /\ ResultsAmong(Kept("urls", Told(r, b))) = ResultsAmong(Told(r, b))
<1> DEFINE re == ResultEvents(b)
           te == TextEvents(r, ExtractText(b))
           ie == ImageEvents(b)
           ce == CallEvents(CallsIn(b))
<1>0. IsList(b)
  BY DEF Worded
<1>1. IsList(ExtractText(b)) /\ IsList(CallsIn(b))
  BY <1>0, WordingsAre, CallsAre
<1>2. IsList(re) /\ IsList(te) /\ IsList(ie) /\ IsList(ce) /\ IsList(Kept("urls", ie))
  BY <1>0, <1>1, ResultsAre, TextEventsAre, ImageAre, CallEventsAre, KeptIs
<1>3. Kept("urls", re) = re /\ Kept("urls", te) = te /\ Kept("urls", ce) = ce
  BY <1>0, <1>1, AllButImagesKept
<1>4. Told(r, b) = With(With(With(re, te), ie), ce)
  BY DEF Told
<1>5. /\ CallsAmong(re) = {} /\ CallsAmong(te) = {} /\ CallsAmong(ie) = {} /\ CallsAmong(Kept("urls", ie)) = {}
      /\ ResultsAmong(te) = {} /\ ResultsAmong(ie) = {} /\ ResultsAmong(ce) = {} /\ ResultsAmong(Kept("urls", ie)) = {}
  <2>1. CallsAmong(te) = {} /\ ResultsAmong(te) = {}
    BY <1>1, NoneAmong
  <2>2. CallsAmong(ie) = {} /\ ResultsAmong(ie) = {} /\ CallsAmong(Kept("urls", ie)) = {} /\ ResultsAmong(Kept("urls", ie)) = {}
    BY <1>0, NoneAmong
  <2>3. CallsAmong(re) = {} /\ ResultsAmong(ce) = {}
    BY <1>0, <1>1, ResultsAreAmong, CallsAreAmong
  <2>4. QED BY <2>1, <2>2, <2>3
<1>6. /\ CallsAmong(ce) = {c.id : c \in ToSet(CallsIn(b))}
      /\ ResultsAmong(re) = {x.id : x \in ToSet(OfType(b, {"tool_result"}))}
  BY <1>0, <1>1, ResultsAreAmong, CallsAreAmong
<1> HIDE DEF re, te, ie, ce
<1>7. Kept("urls", Told(r, b)) = With(With(With(re, te), Kept("urls", ie)), ce)
  <2>1. \A x, y : IsList(x) /\ IsList(y) => IsList(With(x, y)) /\ Kept("urls", With(x, y)) = With(Kept("urls", x), Kept("urls", y))
    BY KeptJoin, WithIs DEF With
  <2>2. QED BY <1>2, <1>3, <1>4, <2>1
<1>8. \A i : IsList(i) /\ CallsAmong(i) = {} /\ ResultsAmong(i) = {} =>
             /\ CallsAmong(With(With(With(re, te), i), ce)) = CallsAmong(ce)
             /\ ResultsAmong(With(With(With(re, te), i), ce)) = ResultsAmong(re)
  <2> SUFFICES ASSUME NEW i, IsList(i), CallsAmong(i) = {}, ResultsAmong(i) = {}
               PROVE  /\ CallsAmong(With(With(With(re, te), i), ce)) = CallsAmong(ce)
                      /\ ResultsAmong(With(With(With(re, te), i), ce)) = ResultsAmong(re)
    OBVIOUS
  <2>1. IsList(With(re, te)) /\ IsList(With(With(re, te), i))
    BY <1>2, WithIs
  <2>2. CallsAmong(With(re, te)) = {} /\ ResultsAmong(With(re, te)) = ResultsAmong(re)
    BY <1>2, <1>5, AmongJoin
  <2>3. CallsAmong(With(With(re, te), i)) = {} /\ ResultsAmong(With(With(re, te), i)) = ResultsAmong(re)
    BY <2>1, <2>2, AmongJoin
  <2>4. QED BY <1>2, <1>5, <2>1, <2>3, AmongJoin
<1>9. QED BY <1>2, <1>4, <1>5, <1>6, <1>7, <1>8

\* A message of blocks, as far as its marks go.
Marked(m) == \E r, b : r \in {"user", "assistant"} /\ Worded(b) /\ m = BlockMessage(r, b)

\* A message of blocks tells the calls and the results it has, with or
\* without the images that Bedrock is not shown.
LEMMA BlockMarks ==
    ASSUME NEW m, Marked(m)
    PROVE  Marks(m, EventsOfBlocks(m)) /\ Marks(m, Kept("urls", EventsOfBlocks(m)))
<1>1. PICK r, b : r \in {"user", "assistant"} /\ Worded(b) /\ m = BlockMessage(r, b)
  BY DEF Marked
<1>2. "blocks" \in DOMAIN m /\ m.blocks = b
  BY <1>1 DEF BlockMessage
<1>3. EventsOfBlocks(m) = Told(r, b)
  BY <1>1, ToldIs
<1>4. ResultIdsOf(m) = {x.id : x \in ToSet(OfType(b, {"tool_result"}))}
  BY <1>2 DEF ResultIdsOf
<1>5. CallIdsOf(m) = {c.id : c \in ToSet(CallsIn(b))}
  BY <1>2 DEF CallIdsOf
<1>6. QED BY <1>1, <1>3, <1>4, <1>5, ToldAmong DEF Marks

\* The placeholder is worded.
LEMMA PlaceholderWorded ==
    /\ Worded(<<Text(<<>>)>>) /\ Worded(<<Text(Blank)>>)
    /\ \A b : Worded(b) => Worded(AtLeastOne(b))
<1>1. \A t : IsList(t) => Worded(<<Text(t)>>)
  <2> SUFFICES ASSUME NEW t, IsList(t) PROVE Worded(<<Text(t)>>)
    OBVIOUS
  <2> DEFINE x == Text(t)
  <2>1. x.type = "text" /\ x.text = t
    BY DEF Text
  <2> HIDE DEF x
  <2>2. Worded(<<x>>)
    BY <2>1, ExtractOne
  <2>3. QED BY <2>2 DEF x
<1>2. Worded(<<Text(<<>>)>>) /\ Worded(<<Text(Blank)>>)
  BY <1>1, Nothings, NothingSaid
<1>3. QED BY <1>2 DEF AtLeastOne

\* So does a message of the client's, and what it becomes for Bedrock.
LEMMA DialogueMarked ==
    ASSUME NEW m, IsBlockMessage(m)
    PROVE  Marked(m) /\ Marked(MessagesToBedrockMessage(m))
<1> DEFINE s == m.blocks
           p == Map(s, BedrockBlocks)
           f == FlattenSeq(p)
<1>1. m = BlockMessage(m.role, s) /\ m.role \in {"user", "assistant"} /\ Blocks(s) /\ IsList(s) /\ Worded(s)
  BY Kinds DEF IsBlockMessage, Blocks
<1>2. Marked(m)
  BY <1>1 DEF Marked
<1>3. Over(p, s) /\ \A i \in DOMAIN s : p[i] = BedrockBlocks(s[i])
  BY DEF Map, Over
<1>4. MessagesToBedrockMessage(m) = BlockMessage(m.role, AtLeastOne(f))
  BY DEF MessagesToBedrockMessage
<1> HIDE DEF p, s
<1>5. \A i \in DOMAIN s : Worded(p[i]) /\ IsList(p[i])
  <2> SUFFICES ASSUME NEW i \in DOMAIN s PROVE Worded(p[i]) /\ IsList(p[i])
    OBVIOUS
  <2> DEFINE e == s[i]
  <2>1. IsBlock(e) /\ p[i] = BedrockBlocks(e)
    BY <1>1, <1>3 DEF Blocks
  <2> HIDE DEF e
  <2>2. Worded(p[i])
    BY <2>1, BedrockBlockTells DEF TellAlike
  <2>3. QED BY <2>2 DEF Worded
<1>6. IsList(p) /\ DOMAIN p = DOMAIN s
  BY <1>1, <1>3, Ones
<1>7. Lists(p)
  BY <1>5, <1>6 DEF Lists
<1>8. Worded(f)
  BY <1>5, <1>6, <1>7, WordedFlat
<1> HIDE DEF f
<1>9. Worded(AtLeastOne(f))
  BY <1>8, PlaceholderWorded
<1>10. QED BY <1>1, <1>2, <1>4, <1>9 DEF Marked

\* Chat messages that are not instructions.
IsChat(m) ==
    /\ m = ChatMessage(m.role, m.content, m.calls, m.result) /\ m.role \in {"tool", "user", "assistant"}
    /\ Parts(m.content) /\ IsList(m.calls)
Chats(s) == IsList(s) /\ \A i \in DOMAIN s : IsChat(s[i])

\* A chat message tells the calls or the result it has.
LEMMA ChatMarks ==
    ASSUME NEW m, IsChat(m)
    PROVE  /\ Marks(m, EventsOfChat(m)) /\ IsList(EventsOfChat(m))
           /\ m.role = "tool" => ResultsAmong(EventsOfChat(m)) = {m.result}
           /\ m.role # "tool" => /\ ResultsAmong(EventsOfChat(m)) = {}
                                 /\ CallsAmong(EventsOfChat(m)) = {c.id : c \in ToSet(m.calls)}
<1>0. m = ChatMessage(m.role, m.content, m.calls, m.result)
  BY DEF IsChat
<1>1. "blocks" \notin DOMAIN m
  <2>1. DOMAIN ChatMessage(m.role, m.content, m.calls, m.result) = {"role", "content", "calls", "result"}
    BY DEF ChatMessage
  <2>2. QED BY <1>0, <2>1
<1>2. ResultIdsOf(m) = IF m.role = "tool" THEN {m.result} ELSE {}
  BY <1>1 DEF ResultIdsOf
<1>3. CallIdsOf(m) = {c.id : c \in ToSet(m.calls)}
  BY <1>1 DEF CallIdsOf
<1>4. IsList(m.calls) /\ Worded(m.content) /\ IsList(m.content)
  BY PartsAre DEF IsChat
<1>5. IsList(ExtractText(m.content)) /\ IsList(ImageEvents(m.content))
  BY <1>4, WordingsAre, ImageAre
<1>6. CASE m.role = "tool"
  <2>1. EventsOfChat(m) = <<ResultEvent(m.result, ExtractText(m.content))>>
    BY <1>6 DEF EventsOfChat
  <2>2. ResultsAmong(EventsOfChat(m)) = {m.result}
    BY <2>1, ResultIsAmong
  <2>3. IsList(EventsOfChat(m))
    BY <2>1, One
  <2>4. {m.result} # {}
    OBVIOUS
  <2>5. QED BY <1>2, <1>6, <2>2, <2>3, <2>4 DEF Marks
<1>7. CASE m.role # "tool"
  <2> DEFINE te == TextEvents(m.role, ExtractText(m.content))
             ie == ImageEvents(m.content)
             ce == CallEvents(m.calls)
  <2>0. m.role \in {"user", "assistant"}
    BY <1>7 DEF IsChat
  <2>1. EventsOfChat(m) = With(With(te, ie), ce)
    BY <1>7 DEF EventsOfChat, With
  <2>2. IsList(te) /\ IsList(ie) /\ IsList(ce)
    BY <1>4, <1>5, TextEventsAre, CallEventsAre
  <2>3. CallsAmong(te) = {} /\ ResultsAmong(te) = {}
    BY <2>0, <1>5, NoneAmong
  <2>4. CallsAmong(ie) = {} /\ ResultsAmong(ie) = {}
    BY <1>4, NoneAmong
  <2>5. CallsAmong(ce) = {c.id : c \in ToSet(m.calls)} /\ ResultsAmong(ce) = {}
    BY <1>4, CallsAreAmong
  <2> HIDE DEF te, ie, ce
  <2>6. IsList(With(te, ie)) /\ CallsAmong(With(te, ie)) = {} /\ ResultsAmong(With(te, ie)) = {}
    BY <2>2, <2>3, <2>4, AmongJoin, WithIs
  <2>7. CallsAmong(EventsOfChat(m)) = CallIdsOf(m) /\ ResultsAmong(EventsOfChat(m)) = {} /\ IsList(EventsOfChat(m))
    BY <1>3, <2>1, <2>2, <2>5, <2>6, AmongJoin, WithIs
  <2>8. QED BY <1>2, <1>3, <1>7, <2>7 DEF Marks
<1>8. QED BY <1>6, <1>7

\* So does a turn, and what it becomes for Anthropic and for Bedrock.
LEMMA TurnMarked ==
    ASSUME NEW m, IsTurn(m)
    PROVE  IsChat(m) /\ Marked(MessagesMessage(m)) /\ Marked(BedrockMessage(m))
<1>1. IsList(m.calls) /\ Parts(m.content) /\ Worded(m.content) /\ IsList(m.content)
  BY PartsAre DEF IsTurn
<1>2. m.role \in {"tool", "user", "assistant"}
  BY DEF IsTurn
<1>3. IsChat(m)
  BY <1>1, <1>2 DEF IsChat, IsTurn
<1>4. IsList(ExtractText(m.content))
  BY <1>1, WordingsAre
<1> DEFINE u == Map(m.calls, Use)
<1>5. Worded(u)
  BY <1>1, UsesAre
<1> HIDE DEF u
<1>6. \A id, c : Worded(<<Result(id, c, FALSE)>>)
  <2> SUFFICES ASSUME NEW id, NEW c PROVE Worded(<<Result(id, c, FALSE)>>)
    OBVIOUS
  <2> DEFINE x == Result(id, c, FALSE)
  <2>1. x.type # "text"
    BY DEF Result
  <2> HIDE DEF x
  <2>2. Worded(<<x>>)
    BY <2>1, ExtractOne
  <2>3. QED BY <2>2 DEF x
<1>7. CASE m.role = "tool"
  <2>1. MessagesMessage(m) = BlockMessage("user", <<Result(m.result, <<ExtractText(m.content)>>, FALSE)>>)
    BY <1>7 DEF MessagesMessage
  <2>2. BedrockMessage(m) = BlockMessage("user", <<Result(m.result, <<NotBlank(ExtractText(m.content))>>, FALSE)>>)
    BY <1>7 DEF BedrockMessage
  <2>3. QED BY <1>3, <1>6, <2>1, <2>2 DEF Marked
<1>8. CASE m.role # "tool"
  <2>1. m.role \in {"user", "assistant"}
    BY <1>2, <1>8
  <2>2. Marked(MessagesMessage(m))
    <3> DEFINE b == m.content \o u
               c == IF b = <<>> THEN <<Text(<<>>)>> ELSE b
    <3>1. Worded(b)
      BY <1>1, <1>5, BlocksJoin
    <3>2. Worded(c)
      BY <3>1, PlaceholderWorded
    <3>3. MessagesMessage(m) = BlockMessage(m.role, c)
      BY <1>8 DEF MessagesMessage, AnthropicContent, Uses, u
    <3> HIDE DEF c
    <3>4. QED BY <2>1, <3>2, <3>3 DEF Marked
  <2>3. CASE m.role = "user"
    <3>1. BedrockMessage(m) = BlockMessage("user", AtLeastOne(Said(m.content)))
      BY <2>3 DEF BedrockMessage
    <3>2. Worded(Said(m.content))
      BY <1>1, SaidAre, PartsAre
    <3>3. Worded(AtLeastOne(Said(m.content)))
      BY <3>2, PlaceholderWorded
    <3>4. Marked(BedrockMessage(m))
      BY <3>1, <3>3 DEF Marked
    <3>5. QED BY <1>3, <2>2, <3>4
  <2>4. CASE m.role = "assistant"
    <3> DEFINE a == AssistantText(m)
               b == a \o u
    <3>1. BedrockMessage(m) = BlockMessage("assistant", AtLeastOne(b))
      BY <2>4 DEF BedrockMessage, Uses, u
    <3>2. Worded(a)
      <4> DEFINE t == ExtractText(m.content)
                 x == Text(t)
      <4>1. a = IF t = <<>> THEN <<>> ELSE <<x>>
        BY DEF AssistantText
      <4>2. x.type = "text" /\ x.text = t
        BY DEF Text
      <4>3. IsList(t)
        BY <1>4
      <4> HIDE DEF a, x, t
      <4>4. Worded(<<x>>)
        BY <4>2, <4>3, ExtractOne
      <4>5. QED BY <4>1, <4>4, NoWords
    <3> HIDE DEF a
    <3>3. Worded(b)
      BY <3>2, <1>5, BlocksJoin
    <3> HIDE DEF b
    <3>4. Worded(AtLeastOne(b))
      BY <3>3, PlaceholderWorded
    <3>5. Marked(BedrockMessage(m))
      BY <3>1, <3>4 DEF Marked
    <3>6. QED BY <1>3, <2>2, <3>5
  <2>5. QED BY <2>1, <2>3, <2>4
<1>9. QED BY <1>7, <1>8

\* Instructions have no calls and no results.
LEMMA PromptMarks ==
    ASSUME NEW sys, IsPrompt(sys), NEW i \in DOMAIN Map(sys, SystemMessage)
    PROVE  LET m == Map(sys, SystemMessage)[i]
           IN  /\ Marks(m, <<>>) /\ CallsAmong(<<>>) = {} /\ ResultsAmong(<<>>) = {}
<1> DEFINE m == Map(sys, SystemMessage)[i]
<1>1. PICK t : m = ChatMessage("system", <<Text(t)>>, <<>>, NoCall)
  BY DEF Map, SystemMessage
<1> HIDE DEF m
<1>2. "blocks" \notin DOMAIN m /\ m.role = "system" /\ m.calls = <<>>
  <2>1. DOMAIN ChatMessage("system", <<Text(t)>>, <<>>, NoCall) = {"role", "content", "calls", "result"}
    BY DEF ChatMessage
  <2>2. m.role = "system" /\ m.calls = <<>>
    BY <1>1 DEF ChatMessage
  <2>3. QED BY <1>1, <2>1, <2>2
<1>3. DOMAIN <<>> = {}
  BY Nothings
<1>4. CallsAmong(<<>>) = {} /\ ResultsAmong(<<>>) = {}
  BY <1>3 DEF CallsAmong, ResultsAmong
<1>5. ResultIdsOf(m) = {}
  BY <1>2 DEF ResultIdsOf
<1>6. CallIdsOf(m) = {}
  BY <1>2, <1>3 DEF CallIdsOf, ToSet
<1>7. QED BY <1>4, <1>5, <1>6 DEF Marks, m

-----------------------------------------------------------------------------
(* The course of a chat *)

\* What each of the messages tells, and how their calls and results end.
EventsIn(h) == Map(h, EventsOfChat)
Ends(h, calls, got) == Course(EventsIn(h), {}, {}, calls, got)

\* The last step of a course.
LEMMA CourseLess ==
    ASSUME NEW s, IsList(s), NEW e, NEW calls, NEW got, NEW calls1, NEW got1,
           Course(With(s, <<e>>), calls, got, calls1, got1)
    PROVE  \E calls0, got0 : Course(s, calls, got, calls0, got0) /\ Follows(calls0, got0, e, calls1, got1)
<1> DEFINE o == <<e>>
           w == With(s, o)
           m == Len(s)
<1>1. IsList(o) /\ Len(o) = 1 /\ o[1] = e /\ m \in Nat
  BY One, ListHas
<1> HIDE DEF o, m
<1>2. Len(w) = m + 1 /\ \A i \in 1..(m + 1) : w[i] = IF i <= m THEN s[i] ELSE o[i - m]
  BY <1>1, Joined DEF With, m
<1>3. PICK u, v :
        /\ u[0] = calls /\ v[0] = got /\ u[Len(w)] = calls1 /\ v[Len(w)] = got1
        /\ \A i \in 1..Len(w) : Follows(u[i - 1], v[i - 1], w[i], u[i], v[i])
  BY DEF Course, o
<1> HIDE DEF w
<1>4. \A i \in 1..m : Follows(u[i - 1], v[i - 1], s[i], u[i], v[i])
  <2> SUFFICES ASSUME NEW i \in 1..m PROVE Follows(u[i - 1], v[i - 1], s[i], u[i], v[i])
    OBVIOUS
  <2>1. i \in 1..(m + 1) /\ i <= m
    BY <1>1
  <2>2. w[i] = s[i]
    BY <1>2, <2>1
  <2>3. QED BY <1>2, <1>3, <2>1, <2>2
<1>5. Course(s, calls, got, u[m], v[m])
  BY <1>3, <1>4 DEF Course, m
<1>6. m + 1 \in 1..(m + 1) /\ ~(m + 1 <= m) /\ (m + 1) - m = 1 /\ (m + 1) - 1 = m
  BY <1>1
<1>7. w[m + 1] = e
  BY <1>1, <1>2, <1>6
<1>8. Follows(u[(m + 1) - 1], v[(m + 1) - 1], w[m + 1], u[m + 1], v[m + 1])
  BY <1>2, <1>3, <1>6
<1>9. Follows(u[m], v[m], e, calls1, got1)
  BY <1>2, <1>3, <1>6, <1>7, <1>8
<1>10. QED BY <1>5, <1>9

\* What the messages tell, one by one.
LEMMA EventsInAre ==
    ASSUME NEW h, IsList(h)
    PROVE  /\ IsList(EventsIn(h)) /\ Len(EventsIn(h)) = Len(h) /\ DOMAIN EventsIn(h) = DOMAIN h /\ Over(EventsIn(h), h)
           /\ \A i \in DOMAIN h : EventsIn(h)[i] = EventsOfChat(h[i])
<1> DEFINE e == EventsIn(h)
<1>1. Over(e, h) /\ \A i \in DOMAIN h : e[i] = EventsOfChat(h[i])
  BY DEF Over, Map, EventsIn
<1> HIDE DEF e
<1>2. IsList(e) /\ Len(e) = Len(h) /\ DOMAIN e = DOMAIN h
  BY <1>1, Ones
<1>3. QED BY <1>1, <1>2 DEF e

\* One message more.
LEMMA EventsInMore ==
    ASSUME NEW h, IsList(h), NEW m
    PROVE  /\ IsList(h \o <<m>>) /\ EventsIn(h \o <<m>>) = With(EventsIn(h), <<EventsOfChat(m)>>)
<1> DEFINE t == <<m>>
           w == h \o t
           e == EventsOfChat(m)
           a == EventsIn(h)
           b == <<e>>
           c == EventsIn(w)
<1>1. IsList(t) /\ DOMAIN t = {1} /\ t[1] = m
  BY One
<1>2. Len(b) = 1 /\ b[1] = e /\ b = [i \in {1} |-> e]
  BY One
<1> HIDE DEF t, e
<1>3. /\ IsList(w)
      /\ \A i \in DOMAIN h : i \in DOMAIN w /\ w[i] = h[i]
      /\ \A i \in DOMAIN t : Len(h) + i \in DOMAIN w /\ w[Len(h) + i] = t[i]
  BY <1>1, Joined, JoinedAt
<1>4. Over(a, h) /\ \A i \in DOMAIN h : a[i] = EventsOfChat(h[i])
  BY EventsInAre
<1>5. Over(c, w) /\ \A i \in DOMAIN w : c[i] = EventsOfChat(w[i])
  BY <1>3, EventsInAre
<1>6. Over(b, t)
  BY <1>1, <1>2 DEF Over
<1> HIDE DEF a, b, c
<1>7. \A i \in DOMAIN h : c[i] = a[i]
  BY <1>3, <1>4, <1>5
<1>8. \A i \in DOMAIN t : c[Len(h) + i] = b[i]
  <2>1. c[Len(h) + 1] = EventsOfChat(m)
    BY <1>1, <1>3, <1>5
  <2>2. QED BY <1>1, <1>2, <2>1 DEF e
<1>9. Over(c, h \o t)
  BY <1>5
<1>10. c = a \o b
  BY <1>1, <1>4, <1>6, <1>7, <1>8, <1>9, MapJoin
<1>11. QED BY <1>3, <1>10 DEF a, b, c, t, e, With

\* Without messages there are no calls.
LEMMA EndsNone == Ends(<<>>, {}, {})
<1>1. EventsIn(<<>>) = <<>>
  <2>1. IsList(<<>>) /\ Len(<<>>) = 0
    BY Nothings
  <2>2. IsList(EventsIn(<<>>)) /\ Len(EventsIn(<<>>)) = 0
    BY <2>1, EventsInAre
  <2>3. QED BY <2>2, Nothings
<1>2. QED BY <1>1, CourseOfNone DEF Ends

\* How one message more ends.
LEMMA EndsMore ==
    ASSUME NEW h, IsList(h), NEW calls, NEW got, Ends(h, calls, got),
           NEW m, NEW calls1, NEW got1, Follows(calls, got, EventsOfChat(m), calls1, got1)
    PROVE  Ends(h \o <<m>>, calls1, got1)
<1> DEFINE e == EventsOfChat(m)
<1>1. Course(<<e>>, calls, got, calls1, got1)
  BY CourseOfOne
<1>2. IsList(EventsIn(h)) /\ IsList(<<e>>)
  BY EventsInAre, One
<1>3. Course(EventsIn(h), {}, {}, calls, got)
  BY DEF Ends
<1>4. EventsIn(h \o <<m>>) = With(EventsIn(h), <<e>>)
  BY EventsInMore
<1> HIDE DEF e
<1>5. Course(With(EventsIn(h), <<e>>), {}, {}, calls1, got1)
  BY <1>1, <1>2, <1>3, CourseJoin
<1>6. QED BY <1>4, <1>5 DEF Ends

\* How the messages ended before the last.
LEMMA EndsLess ==
    ASSUME NEW h, IsList(h), NEW m, NEW calls1, NEW got1, Ends(h \o <<m>>, calls1, got1)
    PROVE  \E calls, got : Ends(h, calls, got) /\ Follows(calls, got, EventsOfChat(m), calls1, got1)
<1> DEFINE e == EventsOfChat(m)
           a == EventsIn(h)
<1>1. IsList(a)
  BY EventsInAre
<1>2. EventsIn(h \o <<m>>) = With(a, <<e>>)
  BY EventsInMore
<1>3. Course(With(a, <<e>>), {}, {}, calls1, got1)
  BY <1>2 DEF Ends
<1> HIDE DEF a, e
<1>4. \E calls0, got0 : Course(a, {}, {}, calls0, got0) /\ Follows(calls0, got0, e, calls1, got1)
  BY <1>1, <1>3, CourseLess
<1>5. QED BY <1>4 DEF Ends, a, e

\* The instructions before a conversation tell nothing.
LEMMA BlanksTell ==
    ASSUME NEW n \in Nat, NEW b, b = [i \in 1..n |-> <<>>]
    PROVE  IsList(b) /\ Len(b) = n /\ Course(b, {}, {}, {}, {})
<1>1. b = [i \in 1..n |-> b[i]]
  OBVIOUS
<1>2. IsList(b) /\ Len(b) = n /\ DOMAIN b = 1..n
  BY <1>1, ListIs
<1>3. \A i \in 1..n : b[i] = <<>>
  OBVIOUS
<1>4. CallsAmong(<<>>) = {} /\ ResultsAmong(<<>>) = {}
  BY Nothings DEF CallsAmong, ResultsAmong
<1>5. Follows({}, {}, <<>>, {}, {})
  BY <1>4 DEF Follows
<1> DEFINE u == [i \in 0..n |-> {}]
<1>6. \A i \in 0..n : u[i] = {}
  OBVIOUS
<1> HIDE DEF u
<1>7. 0 \in 0..n /\ n \in 0..n /\ \A i \in 1..n : i \in 0..n /\ i - 1 \in 0..n
  OBVIOUS
<1>8. u[0] = {} /\ u[Len(b)] = {} /\ \A i \in 1..Len(b) : Follows(u[i - 1], u[i - 1], b[i], u[i], u[i])
  <2>1. \A i \in 1..n : Follows(u[i - 1], u[i - 1], b[i], u[i], u[i])
    BY <1>3, <1>5, <1>6, <1>7
  <2>2. QED BY <1>2, <1>6, <1>7, <2>1
<1>9. QED BY <1>2, <1>8 DEF Course

\* A chat whose calls all have their results is sent as it is.
LEMMA ChatTogether ==
    ASSUME NEW sys, IsPrompt(sys), NEW h, Chats(h), NEW p, Ends(h, p, p)
    PROVE  Together(Map(sys, SystemMessage) \o h)
<1> DEFINE instr == Map(sys, SystemMessage)
           n == Len(instr)
           b == [i \in 1..n |-> <<>>]
           e == EventsIn(h)
           ms == instr \o h
           told == With(b, e)
<1>1. IsList(instr) /\ n \in Nat /\ DOMAIN instr = 1..n /\ \A i \in DOMAIN instr : Marks(instr[i], <<>>)
  BY PromptIs, PromptMarks, ListHas
<1>2. IsList(h) /\ \A i \in DOMAIN h : Marks(h[i], EventsOfChat(h[i]))
  BY ChatMarks DEF Chats
<1> HIDE DEF instr, n
<1>3. IsList(b) /\ Len(b) = n /\ Course(b, {}, {}, {}, {}) /\ \A i \in 1..n : b[i] = <<>>
  BY <1>1, BlanksTell
<1>4. IsList(e) /\ Len(e) = Len(h) /\ DOMAIN e = DOMAIN h /\ \A i \in DOMAIN h : e[i] = EventsOfChat(h[i])
  BY <1>2, EventsInAre
<1>5. Course(e, {}, {}, p, p)
  BY DEF Ends
<1> HIDE DEF b, e
<1>6. Course(told, {}, {}, p, p)
  BY <1>3, <1>4, <1>5, CourseJoin
<1>7. Len(h) \in Nat /\ DOMAIN h = 1..Len(h)
  BY <1>2, ListHas
<1>8. /\ IsList(ms) /\ Len(ms) = n + Len(h) /\ DOMAIN ms = 1..(n + Len(h))
      /\ \A i \in 1..(n + Len(h)) : ms[i] = IF i <= n THEN instr[i] ELSE h[i - n]
  BY <1>1, <1>2, Joined DEF n
<1>9. /\ IsList(told) /\ Len(told) = n + Len(h)
      /\ \A i \in 1..(n + Len(h)) : told[i] = IF i <= n THEN b[i] ELSE e[i - n]
  BY <1>3, <1>4, Joined DEF With
<1> HIDE DEF ms, told
<1>10. \A i \in DOMAIN ms : Marks(ms[i], told[i])
  <2> SUFFICES ASSUME NEW i \in 1..(n + Len(h)) PROVE Marks(ms[i], told[i])
    BY <1>8
  <2>1. CASE i <= n
    <3>1. i \in 1..n
      BY <1>1, <2>1
    <3>2. ms[i] = instr[i] /\ told[i] = <<>>
      BY <1>3, <1>8, <1>9, <2>1, <3>1
    <3>3. QED BY <1>1, <3>1, <3>2
  <2>2. CASE ~(i <= n)
    <3>1. i - n \in DOMAIN h
      BY <1>1, <1>7, <2>2
    <3>2. ms[i] = h[i - n] /\ told[i] = EventsOfChat(h[i - n])
      BY <1>4, <1>8, <1>9, <2>2, <3>1
    <3>3. QED BY <1>2, <3>1, <3>2
  <2>3. QED BY <2>1, <2>2
<1>11. Together(ms)
  BY <1>6, <1>8, <1>9, <1>10, CourseTogether
<1>12. QED BY <1>11 DEF ms, instr

\* And so it is as blocks.
LEMMA ConversationTogether ==
    ASSUME NEW sys, IsPrompt(sys), NEW h, Conversation(h), NEW p, Ends(h, p, p)
    PROVE  /\ Together(Map(sys, SystemMessage) \o h)
           /\ Together(Map(h, MessagesMessage)) /\ Together(Map(h, BedrockMessage))
<1>1. IsList(h) /\ \A i \in DOMAIN h : IsTurn(h[i])
  BY DEF Conversation
<1>2. Chats(h)
  BY <1>1, TurnMarked DEF Chats
<1>3. Together(Map(sys, SystemMessage) \o h)
  BY <1>2, ChatTogether
<1> DEFINE e == EventsIn(h)
           a == Map(h, MessagesMessage)
           b == Map(h, BedrockMessage)
<1>4. IsList(e) /\ Len(e) = Len(h) /\ \A i \in DOMAIN h : e[i] = EventsOfChat(h[i])
  BY <1>1, EventsInAre
<1>5. Course(e, {}, {}, p, p)
  BY DEF Ends
<1>6. Over(a, h) /\ \A i \in DOMAIN h : a[i] = MessagesMessage(h[i])
  BY DEF Over, Map
<1>7. Over(b, h) /\ \A i \in DOMAIN h : b[i] = BedrockMessage(h[i])
  BY DEF Over, Map
<1> HIDE DEF a, b, e
<1>8. IsList(a) /\ Len(a) = Len(h) /\ DOMAIN a = DOMAIN h /\ IsList(b) /\ Len(b) = Len(h) /\ DOMAIN b = DOMAIN h
  BY <1>1, <1>6, <1>7, Ones
<1>9. \A i \in DOMAIN a : Marks(a[i], e[i])
  <2> SUFFICES ASSUME NEW i \in DOMAIN h PROVE Marks(a[i], e[i])
    BY <1>8
  <2>1. IsTurn(h[i])
    BY <1>1
  <2>2. Marks(MessagesMessage(h[i]), EventsOfBlocks(MessagesMessage(h[i])))
    BY <2>1, TurnMarked, BlockMarks
  <2>3. QED BY <1>4, <1>6, <2>1, <2>2, MessagesMessageTells
<1>10. \A i \in DOMAIN b : Marks(b[i], e[i])
  <2> SUFFICES ASSUME NEW i \in DOMAIN h PROVE Marks(b[i], e[i])
    BY <1>8
  <2>1. IsTurn(h[i])
    BY <1>1
  <2>2. Marks(BedrockMessage(h[i]), EventsOfBlocks(BedrockMessage(h[i])))
    BY <2>1, TurnMarked, BlockMarks
  <2>3. QED BY <1>4, <1>7, <2>1, <2>2, BedrockMessageTells
<1>11. Together(a)
  BY <1>4, <1>5, <1>8, <1>9, CourseTogether
<1>12. Together(b)
  BY <1>4, <1>5, <1>8, <1>10, CourseTogether
<1>13. QED BY <1>3, <1>11, <1>12 DEF a, b

-----------------------------------------------------------------------------
(* The rounds of a dialogue *)

\* The calls whose results are due: none are, or none have come.
Stands(calls, got, due) == \/ due = {} /\ calls = got
                           \/ due # {} /\ calls = due /\ got = {}

\* A message brings all the results that are due, and has no calls then; or
\* none are due, and its calls' are.
AllAtOnce(due, events, due1) ==
    \/ ResultsAmong(events) = {} /\ due = {} /\ due1 = CallsAmong(events)
    \/ ResultsAmong(events) # {} /\ due = ResultsAmong(events) /\ CallsAmong(events) = {} /\ due1 = {}

\* What is due after messages that each bring all results or none.
Rounds(told, due) ==
    \E u : u[0] = {} /\ u[Len(told)] = due /\ \A i \in 1..Len(told) : AllAtOnce(u[i - 1], told[i], u[i])

\* What each message of a dialogue tells.
BlocksIn(h) == Map(h, EventsOfBlocks)

\* No messages leave nothing due.
LEMMA RoundsNone == Rounds(<<>>, {})
<1> DEFINE u == [i \in {0} |-> {}]
<1>1. u[0] = {}
  OBVIOUS
<1> HIDE DEF u
<1>2. Len(<<>>) = 0 /\ \A i \in 1..0 : FALSE
  BY Nothings
<1>3. u[0] = {} /\ u[Len(<<>>)] = {} /\ \A i \in 1..Len(<<>>) : AllAtOnce(u[i - 1], <<>>[i], u[i])
  BY <1>1, <1>2
<1>4. QED BY <1>3 DEF Rounds

\* One message more.
LEMMA RoundsMore ==
    ASSUME NEW s, IsList(s), NEW due, Rounds(s, due), NEW e, NEW due1, AllAtOnce(due, e, due1)
    PROVE  Rounds(With(s, <<e>>), due1)
<1> DEFINE o == <<e>>
           w == With(s, o)
           m == Len(s)
<1>1. IsList(o) /\ Len(o) = 1 /\ o[1] = e /\ m \in Nat
  BY One, ListHas
<1>2. PICK u : u[0] = {} /\ u[m] = due /\ \A i \in 1..m : AllAtOnce(u[i - 1], s[i], u[i])
  BY DEF Rounds
<1> HIDE DEF o, m
<1>3. Len(w) = m + 1 /\ \A i \in 1..(m + 1) : w[i] = IF i <= m THEN s[i] ELSE o[i - m]
  BY <1>1, Joined DEF With, m
<1> HIDE DEF w
<1> DEFINE x == [i \in 0..(m + 1) |-> IF i <= m THEN u[i] ELSE due1]
<1>4. (\A i \in 0..m : x[i] = u[i]) /\ x[m + 1] = due1
  BY <1>1
<1> HIDE DEF x
<1>5. x[0] = {} /\ x[m] = due
  BY <1>1, <1>2, <1>4
<1>6. ASSUME NEW i \in 1..(m + 1) PROVE AllAtOnce(x[i - 1], w[i], x[i])
  <2>1. CASE i <= m
    <3>1. i \in 1..m /\ i \in 0..m /\ i - 1 \in 0..m
      BY <1>1, <2>1
    <3>2. w[i] = s[i] /\ x[i] = u[i] /\ x[i - 1] = u[i - 1]
      BY <1>3, <1>4, <2>1, <3>1
    <3>3. QED BY <1>2, <3>1, <3>2
  <2>2. CASE ~(i <= m)
    <3>1. i = m + 1 /\ i - m = 1 /\ i - 1 = m
      BY <1>1, <2>2
    <3>2. w[i] = e
      BY <1>1, <1>3, <2>2, <3>1
    <3>3. QED BY <1>4, <1>5, <3>1, <3>2
  <2>3. QED BY <2>1, <2>2
<1>7. Rounds(w, due1)
  BY <1>3, <1>4, <1>5, <1>6 DEF Rounds
<1>8. QED BY <1>7 DEF w, o

\* Messages that bring results all at once go as they are.
LEMMA RoundsCourse ==
    ASSUME NEW told, IsList(told), Rounds(told, {})
    PROVE  \E p : Course(told, {}, {}, p, p)
<1> DEFINE N == Len(told)
           R == [i \in 1..N |-> ResultsAmong(told[i])]
<1>1. N \in Nat
  BY ListHas
<1>2. PICK u : u[0] = {} /\ u[N] = {} /\ \A i \in 1..N : AllAtOnce(u[i - 1], told[i], u[i])
  BY DEF Rounds
<1>3. \A i \in 1..N : R[i] = ResultsAmong(told[i])
  OBVIOUS
<1> HIDE DEF N, R
<1> DEFINE o == [i \in 0..N |-> IF i = 0 THEN {} ELSE IF R[i] = {} THEN u[i] ELSE u[i - 1]]
           g == [i \in 0..N |-> IF i = 0 THEN {} ELSE IF R[i] = {} THEN {} ELSE u[i - 1]]
<1>4. /\ o[0] = {} /\ g[0] = {}
      /\ \A i \in 1..N : R[i] = {} => o[i] = u[i] /\ g[i] = {}
      /\ \A i \in 1..N : R[i] # {} => o[i] = u[i - 1] /\ g[i] = u[i - 1]
  BY <1>1
<1> HIDE DEF o, g
<1>5. ASSUME NEW i \in 0..N PROVE (o[i] = u[i] /\ g[i] = {}) \/ (u[i] = {} /\ o[i] = g[i])
  <2>1. CASE i = 0
    BY <1>2, <1>4, <2>1
  <2>2. CASE i # 0
    <3>1. i \in 1..N
      BY <1>1, <2>2
    <3>2. AllAtOnce(u[i - 1], told[i], u[i])
      BY <1>2, <3>1
    <3>3. R[i] # {} => u[i] = {}
      BY <1>3, <3>1, <3>2 DEF AllAtOnce
    <3>4. CASE R[i] = {}
      <4>1. o[i] = u[i] /\ g[i] = {}
        BY <1>4, <3>1, <3>4
      <4>2. QED BY <4>1
    <3>5. CASE R[i] # {}
      <4>1. o[i] = u[i - 1] /\ g[i] = u[i - 1]
        BY <1>4, <3>1, <3>5
      <4>2. QED BY <3>3, <3>5, <4>1
    <3>6. QED BY <3>4, <3>5
  <2>3. QED BY <2>1, <2>2
<1>6. ASSUME NEW i \in 1..N PROVE Follows(o[i - 1], g[i - 1], told[i], o[i], g[i])
  <2>1. AllAtOnce(u[i - 1], told[i], u[i])
    BY <1>2
  <2>2. i - 1 \in 0..N
    BY <1>1
  <2>3. (o[i - 1] = u[i - 1] /\ g[i - 1] = {}) \/ (u[i - 1] = {} /\ o[i - 1] = g[i - 1])
    BY <1>5, <2>2
  <2>4. CASE R[i] = {}
    <3>1. u[i - 1] = {} /\ u[i] = CallsAmong(told[i]) /\ ResultsAmong(told[i]) = {}
      BY <1>3, <2>1, <2>4 DEF AllAtOnce
    <3>2. o[i] = u[i] /\ g[i] = {}
      BY <1>4, <2>4
    <3>3. g[i - 1] = o[i - 1]
      BY <2>3, <3>1
    <3>4. QED BY <3>1, <3>2, <3>3 DEF Follows
  <2>5. CASE R[i] # {}
    <3>1. u[i - 1] = ResultsAmong(told[i]) /\ ResultsAmong(told[i]) # {}
      BY <1>3, <2>1, <2>5 DEF AllAtOnce
    <3>2. o[i] = u[i - 1] /\ g[i] = u[i - 1]
      BY <1>4, <2>5
    <3>3. o[i - 1] = u[i - 1] /\ g[i - 1] = {}
      BY <2>3, <3>1
    <3>4. QED BY <3>1, <3>2, <3>3 DEF Follows
  <2>6. QED BY <2>4, <2>5
<1>7. o[N] = g[N]
  <2>1. N \in 0..N
    BY <1>1
  <2>2. QED BY <1>2, <1>5, <2>1
<1>8. Course(told, {}, {}, o[N], g[N])
  BY <1>4, <1>6 DEF Course, N
<1>9. QED BY <1>7, <1>8

\* What messages tell, one list after the other.
LEMMA EventsInJoin ==
    ASSUME NEW s, NEW t, IsList(s), IsList(t)
    PROVE  EventsIn(With(s, t)) = With(EventsIn(s), EventsIn(t))
<1> DEFINE w == s \o t
           a == EventsIn(s)
           b == EventsIn(t)
           c == EventsIn(w)
<1>1. /\ IsList(w)
      /\ \A i \in DOMAIN s : i \in DOMAIN w /\ w[i] = s[i]
      /\ \A i \in DOMAIN t : Len(s) + i \in DOMAIN w /\ w[Len(s) + i] = t[i]
  BY Joined, JoinedAt
<1>2. Over(a, s) /\ \A i \in DOMAIN s : a[i] = EventsOfChat(s[i])
  BY EventsInAre
<1>3. Over(b, t) /\ \A i \in DOMAIN t : b[i] = EventsOfChat(t[i])
  BY EventsInAre
<1>a. w = s \o t
  OBVIOUS
<1> HIDE DEF w
<1>4. Over(c, w) /\ \A i \in DOMAIN w : c[i] = EventsOfChat(w[i])
  BY <1>1, EventsInAre
<1> HIDE DEF a, b, c
<1>5. \A i \in DOMAIN s : c[i] = a[i]
  BY <1>1, <1>2, <1>4
<1>6. \A i \in DOMAIN t : c[Len(s) + i] = b[i]
  BY <1>1, <1>3, <1>4
<1>7. c = a \o b
  BY <1>2, <1>3, <1>4, <1>5, <1>6, <1>a, MapJoin
<1>8. QED BY <1>7 DEF a, b, c, w, With

\* Chat messages, one list after the other.
LEMMA ChatsJoin ==
    /\ Chats(<<>>)
    /\ \A m : IsChat(m) => Chats(<<m>>)
    /\ \A s, t : Chats(s) /\ Chats(t) => Chats(With(s, t))
<1>1. Chats(<<>>)
  BY Nothings DEF Chats
<1>2. ASSUME NEW m, IsChat(m) PROVE Chats(<<m>>)
  <2> DEFINE s == <<m>>
  <2>1. IsList(s) /\ DOMAIN s = {1} /\ s[1] = m
    BY One
  <2> HIDE DEF s
  <2>2. Chats(s)
    BY <1>2, <2>1 DEF Chats
  <2>3. QED BY <2>2 DEF s
<1>3. ASSUME NEW s, NEW t, Chats(s), Chats(t) PROVE Chats(With(s, t))
  <2> DEFINE w == s \o t
  <2>1. IsList(s) /\ IsList(t)
    BY <1>3 DEF Chats
  <2>2. /\ IsList(w)
        /\ \A i \in DOMAIN w : \/ i \in DOMAIN s /\ w[i] = s[i]
                              \/ \E j \in DOMAIN t : i = Len(s) + j /\ w[i] = t[j]
    BY <2>1, Joined, JoinedAt
  <2> HIDE DEF w
  <2>3. Chats(w)
    BY <1>3, <2>2 DEF Chats
  <2>4. QED BY <2>3 DEF w, With
<1>4. QED BY <1>1, <1>2, <1>3

\* The tool results of a message, as messages of their own.
LEMMA ToolResultsCourse ==
    ASSUME NEW m, IsBlockMessage(m), NEW calls, NEW got, NEW r, r = ResultsAmong(EventsOfBlocks(m)), r \subseteq calls
    PROVE  /\ Chats(ToolResults(m)) /\ Course(EventsIn(ToolResults(m)), calls, got, calls, got \cup r)
           /\ r = {} => ToolResults(m) = <<>>
<1> DEFINE o == OfType(m.blocks, {"tool_result"})
           w == ToolResults(m)
           Told1(b) == ChatMessage("tool", <<Text(FlattenSeq(b.content))>>, <<>>, b.id)
<1>1. m = BlockMessage(m.role, m.blocks) /\ m.role \in {"user", "assistant"} /\ Blocks(m.blocks) /\ Worded(m.blocks) /\ IsList(m.blocks)
  BY Kinds DEF IsBlockMessage, Blocks
<1>2. OfType(m.blocks, {"tool_result", "server_result"}) = o
  <2>1. \A i \in DOMAIN m.blocks : m.blocks[i].type # "server_result"
    BY <1>1 DEF Blocks, IsBlock, IsPart
  <2>2. QED BY <1>1, <2>1, OfTypes
<1>3. w = [k \in DOMAIN o |-> Told1(o[k])]
  BY <1>2 DEF ToolResults, Map
<1>4. r = {b.id : b \in ToSet(o)}
  <2>1. EventsOfBlocks(m) = Told(m.role, m.blocks)
    BY DialogueTells
  <2>2. QED BY <1>1, <2>1, ToldAmong
<1>5. IsList(o) /\ \A k \in DOMAIN o : \E i \in DOMAIN m.blocks : o[k] = m.blocks[i] /\ m.blocks[i].type \in {"tool_result"}
  BY <1>1, OfTypePart
<1> HIDE DEF o, w
<1>6. r = {o[k].id : k \in DOMAIN o}
  BY <1>4 DEF ToSet
<1>7. ASSUME NEW k \in DOMAIN o PROVE IsChat(w[k]) /\ w[k].role = "tool" /\ w[k].result = o[k].id
  <2> DEFINE x == w[k]
             t == FlattenSeq(o[k].content)
             e == Text(t)
  <2>1. x = ChatMessage("tool", <<e>>, <<>>, o[k].id)
    BY <1>3
  <2>2. x.role = "tool" /\ x.content = <<e>> /\ x.calls = <<>> /\ x.result = o[k].id
    BY <2>1 DEF ChatMessage
  <2>3. Lists(o[k].content)
    BY <1>1, <1>5 DEF Blocks, IsBlock, IsPart
  <2>4. IsList(t)
    BY <2>3, FlatList
  <2>5. e.type = "text" /\ e.text = t
    BY DEF Text
  <2> HIDE DEF x, e, t
  <2>6. IsPart(e)
    BY <2>4, <2>5 DEF IsPart
  <2>7. Parts(<<e>>)
    <3> DEFINE s == <<e>>
    <3>1. IsList(s) /\ DOMAIN s = {1} /\ s[1] = e
      BY One
    <3> HIDE DEF s
    <3>2. Parts(s)
      BY <2>6, <3>1 DEF Parts
    <3>3. QED BY <3>2 DEF s
  <2>8. IsChat(x)
    BY <2>1, <2>2, <2>7, Nothings DEF IsChat
  <2>9. QED BY <2>2, <2>8 DEF x
<1>8. Over(w, o)
  BY <1>3 DEF Over
<1>9. IsList(w) /\ DOMAIN w = DOMAIN o /\ (o = <<>> => w = <<>>)
  BY <1>5, <1>8, Ones
<1>10. Chats(w)
  BY <1>7, <1>9 DEF Chats
<1> DEFINE e == EventsIn(w)
           ids == [k \in DOMAIN w |-> w[k].result]
<1>11. IsList(e) /\ DOMAIN e = DOMAIN w /\ \A k \in DOMAIN w : e[k] = EventsOfChat(w[k])
  BY <1>9, EventsInAre
<1>12. \A k \in DOMAIN w : ids[k] = o[k].id /\ ids[k] \in r
  BY <1>6, <1>7, <1>9
<1>13. Over(ids, e)
  BY <1>11 DEF Over
<1> HIDE DEF e, ids
<1>14. \A k \in DOMAIN e : ResultsAmong(e[k]) = {ids[k]} /\ ids[k] \in calls
  <2> SUFFICES ASSUME NEW k \in DOMAIN w PROVE ResultsAmong(e[k]) = {ids[k]} /\ ids[k] \in calls
    BY <1>11
  <2>1. IsChat(w[k]) /\ w[k].role = "tool" /\ w[k].result = o[k].id
    BY <1>7, <1>9
  <2>2. ResultsAmong(EventsOfChat(w[k])) = {w[k].result}
    BY <2>1, ChatMarks
  <2>3. QED BY <1>11, <1>12, <2>1, <2>2
<1>15. Course(e, calls, got, calls, got \cup {ids[k] : k \in DOMAIN e})
  BY <1>11, <1>13, <1>14, CourseOfResults
<1>16. {ids[k] : k \in DOMAIN e} = r
  BY <1>6, <1>9, <1>11, <1>12
<1>17. r = {} => w = <<>>
  <2> SUFFICES ASSUME r = {} PROVE w = <<>>
    OBVIOUS
  <2>1. DOMAIN o = {}
    BY <1>6
  <2>2. Len(o) = 0
    BY <1>5, <2>1, ListHas
  <2>3. QED BY <1>5, <1>9, <2>2, Nothings
<1>18. QED BY <1>10, <1>15, <1>16, <1>17 DEF e, w

\* A message with all the results that are due, split for chat.
LEMMA ChatMessagesCourse ==
    ASSUME NEW m, IsBlockMessage(m), NEW due, NEW due1, AllAtOnce(due, EventsOfBlocks(m), due1),
           NEW calls, NEW got, Stands(calls, got, due)
    PROVE  /\ Chats(ChatMessages(m))
           /\ \E calls1, got1 : /\ Course(EventsIn(ChatMessages(m)), calls, got, calls1, got1)
                                /\ Stands(calls1, got1, due1)
<1> DEFINE c == OfType(m.blocks, {"text", "image"})
           uses == CallsIn(m.blocks)
           x == ChatMessage(m.role, c, uses, NoCall)
           rest == IF c = <<>> /\ uses = <<>> THEN <<>> ELSE <<x>>
           w == ToolResults(m)
           ev == EventsOfBlocks(m)
           r == ResultsAmong(ev)
           ids == CallsAmong(ev)
<1>1. ChatMessages(m) = With(w, rest)
  BY DEF ChatMessages, CallsIn, With
<1>2. Blocks(m.blocks) /\ IsList(m.blocks) /\ Worded(m.blocks) /\ m.role \in {"user", "assistant"}
  BY Kinds DEF IsBlockMessage, Blocks
<1>3. Parts(c) /\ IsList(uses)
  BY <1>2, PartsOf, CallsAre
<1>4. x = ChatMessage(x.role, x.content, x.calls, x.result) /\ x.role = m.role /\ x.content = c /\ x.calls = uses
  BY DEF ChatMessage
<1>5. ids = {k.id : k \in ToSet(uses)}
  <2>1. ev = Told(m.role, m.blocks)
    BY DialogueTells
  <2>2. QED BY <1>2, <2>1, ToldAmong
<1>6. AllAtOnce(due, ev, due1)
  OBVIOUS
<1>7. \A d, g : r \subseteq d => /\ Chats(w) /\ Course(EventsIn(w), d, g, d, g \cup r)
                                 /\ r = {} => w = <<>>
  BY ToolResultsCourse
<1>a. rest = IF c = <<>> /\ uses = <<>> THEN <<>> ELSE <<x>>
  OBVIOUS
<1> HIDE DEF x, rest, w, ev, c, uses
<1>8. IsChat(x)
  BY <1>2, <1>3, <1>4 DEF IsChat
<1>9. ResultsAmong(EventsOfChat(x)) = {} /\ CallsAmong(EventsOfChat(x)) = ids
  BY <1>2, <1>4, <1>5, <1>8, ChatMarks
<1>10. Chats(rest)
  BY <1>8, <1>a, ChatsJoin
<1>11. uses = <<>> => ids = {}
  BY <1>5, Nothings DEF ToSet
<1> HIDE DEF r, ids
<1>12. CASE due = {}
  <2>1. r = {} /\ due1 = ids
    BY <1>6, <1>12 DEF AllAtOnce, r, ids
  <2>2. calls = got
    BY <1>12 DEF Stands
  <2>3. w = <<>> /\ Chats(w)
    BY <1>7, <2>1
  <2>4. ChatMessages(m) = rest
    <3>1. IsList(rest)
      BY <1>10 DEF Chats
    <3>2. QED BY <1>1, <2>3, <3>1, WithIs
  <2>5. CASE rest = <<>>
    <3>1. uses = <<>>
      <4>1. <<x>> # <<>>
        BY One, Nothings
      <4>2. QED BY <1>a, <2>5, <4>1
    <3>2. due1 = {}
      BY <1>11, <2>1, <3>1
    <3>3. EventsIn(<<>>) = <<>>
      BY EventsInAre, Nothings
    <3>4. Course(EventsIn(ChatMessages(m)), calls, got, calls, got)
      BY <2>4, <2>5, <3>3, CourseOfNone
    <3>5. Stands(calls, got, due1)
      BY <2>2, <3>2 DEF Stands
    <3>6. QED BY <1>10, <2>4, <3>4, <3>5
  <2>6. CASE rest = <<x>>
    <3>1. Follows(calls, got, EventsOfChat(x), due1, {})
      BY <1>9, <2>1, <2>2 DEF Follows
    <3>2. EventsIn(<<x>>) = <<EventsOfChat(x)>>
      <4> DEFINE e == EventsOfChat(x)
      <4>1. EventsIn(<<>>) = <<>> /\ IsList(<<>>)
        BY EventsInAre, Nothings
      <4>2. EventsIn(<<>> \o <<x>>) = With(EventsIn(<<>>), <<e>>)
        BY <4>1, EventsInMore
      <4>3. <<>> \o <<x>> = <<x>> /\ With(<<>>, <<e>>) = <<e>>
        BY One, Nothings, WithIs
      <4>4. QED BY <4>1, <4>2, <4>3
    <3>3. Course(<<EventsOfChat(x)>>, calls, got, due1, {})
      BY <3>1, CourseOfOne
    <3>4. Course(EventsIn(ChatMessages(m)), calls, got, due1, {})
      BY <2>4, <2>6, <3>2, <3>3
    <3>5. Stands(due1, {}, due1)
      BY DEF Stands
    <3>6. QED BY <1>10, <2>4, <3>4, <3>5
  <2>7. QED BY <1>a, <2>5, <2>6
<1>13. CASE due # {}
  <2>1. r = due /\ ids = {} /\ due1 = {}
    BY <1>6, <1>13 DEF AllAtOnce, r, ids
  <2>2. calls = due /\ got = {}
    BY <1>13 DEF Stands
  <2>3. Chats(w) /\ Course(EventsIn(w), calls, got, calls, calls)
    <3>1. Chats(w) /\ Course(EventsIn(w), calls, got, calls, got \cup r)
      BY <1>7, <2>1, <2>2
    <3>2. got \cup r = calls
      BY <2>1, <2>2
    <3>3. QED BY <3>1, <3>2
  <2>4. Chats(ChatMessages(m)) /\ IsList(w)
    BY <1>1, <1>10, <2>3, ChatsJoin DEF Chats
  <2>5. CASE rest = <<>>
    <3>1. ChatMessages(m) = w
      BY <1>1, <2>4, <2>5, WithIs
    <3>2. Stands(calls, calls, due1)
      BY <2>1 DEF Stands
    <3>3. QED BY <2>3, <2>4, <3>1, <3>2
  <2>6. CASE rest = <<x>>
    <3> DEFINE e == EventsOfChat(x)
    <3>1. Follows(calls, calls, e, {}, {})
      BY <1>9, <2>1 DEF Follows
    <3>2. Course(<<e>>, calls, calls, {}, {})
      BY <3>1, CourseOfOne
    <3>3. EventsIn(ChatMessages(m)) = With(EventsIn(w), <<e>>)
      BY <1>1, <2>4, <2>6, EventsInMore DEF With
    <3>4. IsList(EventsIn(w)) /\ IsList(<<e>>)
      BY <2>4, EventsInAre, One
    <3> HIDE DEF e
    <3>5. Course(EventsIn(ChatMessages(m)), calls, got, {}, {})
      BY <2>3, <3>2, <3>3, <3>4, CourseJoin
    <3>6. Stands({}, {}, due1)
      BY <2>1 DEF Stands
    <3>7. QED BY <2>4, <3>5, <3>6
  <2>7. QED BY <1>a, <2>5, <2>6
<1>14. QED BY <1>12, <1>13

\* What the messages of a dialogue tell, one by one.
LEMMA BlocksInAre ==
    ASSUME NEW h, IsList(h)
    PROVE  /\ IsList(BlocksIn(h)) /\ Len(BlocksIn(h)) = Len(h) /\ DOMAIN BlocksIn(h) = DOMAIN h
           /\ Over(BlocksIn(h), h) /\ \A i \in DOMAIN h : BlocksIn(h)[i] = EventsOfBlocks(h[i])
<1> DEFINE e == BlocksIn(h)
<1>1. Over(e, h) /\ \A i \in DOMAIN h : e[i] = EventsOfBlocks(h[i])
  BY DEF Over, Map, BlocksIn
<1> HIDE DEF e
<1>2. IsList(e) /\ Len(e) = Len(h) /\ DOMAIN e = DOMAIN h
  BY <1>1, Ones
<1>3. QED BY <1>1, <1>2 DEF e

\* All of them, split for chat.
LEMMA DialogueCourse ==
    ASSUME NEW d, Dialogue(d), Rounds(BlocksIn(d), {}), NEW h, h = FlattenSeq(Map(d, ChatMessages))
    PROVE  Chats(h) /\ \E p : Ends(h, p, p)
<1> DEFINE ss == Map(d, ChatMessages)
           N == Len(d)
<1>1. IsList(d) /\ N \in Nat /\ DOMAIN d = 1..N /\ \A i \in 1..N : IsBlockMessage(d[i])
  BY ListHas DEF Dialogue
<1>2. PICK u : u[0] = {} /\ u[N] = {} /\ \A i \in 1..N : AllAtOnce(u[i - 1], EventsOfBlocks(d[i]), u[i])
  <2>1. PICK u : /\ u[0] = {} /\ u[Len(BlocksIn(d))] = {}
                 /\ \A i \in 1..Len(BlocksIn(d)) : AllAtOnce(u[i - 1], BlocksIn(d)[i], u[i])
    BY DEF Rounds
  <2>2. Len(BlocksIn(d)) = N /\ \A i \in 1..N : BlocksIn(d)[i] = EventsOfBlocks(d[i])
    BY <1>1, BlocksInAre
  <2>3. QED BY <2>1, <2>2
<1>3. Over(ss, d) /\ \A i \in DOMAIN d : ss[i] = ChatMessages(d[i])
  BY DEF Over, Map
<1> HIDE DEF ss, N
<1>4. IsList(ss) /\ Len(ss) = N /\ DOMAIN ss = 1..N
  BY <1>1, <1>3, Ones DEF N
<1>5. \A i \in 1..N : IsList(ss[i])
  BY <1>1, <1>3, ChatMessagesTell DEF Speeches
<1>6. Lists(ss)
  BY <1>4, <1>5 DEF Lists
<1>7. PICK upTo :
        /\ upTo[0] = <<>> /\ FlattenSeq(ss) = upTo[N]
        /\ \A n \in 1..N : upTo[n] = With(upTo[n - 1], ss[n])
        /\ \A n \in 0..N : IsList(upTo[n])
  BY <1>4, <1>6, FlatIs
<1> DEFINE S == {n \in 0..N : Chats(upTo[n]) /\ \E calls, got : Ends(upTo[n], calls, got) /\ Stands(calls, got, u[n])}
<1>8. 0 \in S
  <2>1. Stands({}, {}, u[0])
    BY <1>2 DEF Stands
  <2>2. Chats(upTo[0]) /\ Ends(upTo[0], {}, {})
    BY <1>7, ChatsJoin, EndsNone
  <2>3. 0 \in 0..N
    BY <1>1
  <2>4. QED BY <2>1, <2>2, <2>3
<1>9. ASSUME NEW n \in 0..(N - 1), n \in S PROVE n + 1 \in S
  <2>1. n + 1 \in 1..N /\ n + 1 - 1 = n /\ n + 1 \in 0..N /\ n \in 0..N
    BY <1>1
  <2>2. PICK calls, got : Ends(upTo[n], calls, got) /\ Stands(calls, got, u[n])
    BY <1>9
  <2> DEFINE a == upTo[n]
             m == d[n + 1]
             s == ChatMessages(m)
  <2>3. Chats(a) /\ IsList(a)
    BY <1>9 DEF Chats
  <2>4. IsBlockMessage(m) /\ AllAtOnce(u[n], EventsOfBlocks(m), u[n + 1])
    <3>1. AllAtOnce(u[(n + 1) - 1], EventsOfBlocks(d[n + 1]), u[n + 1])
      BY <1>2, <2>1
    <3>2. QED BY <1>1, <2>1, <3>1
  <2>5. upTo[n + 1] = With(a, s)
    <3>1. upTo[n + 1] = With(upTo[(n + 1) - 1], ss[n + 1])
      BY <1>7, <2>1
    <3>2. ss[n + 1] = s
      BY <1>1, <1>3, <2>1
    <3>3. QED BY <2>1, <3>1, <3>2
  <2> HIDE DEF m
  <2>6. Chats(s)
    BY <2>2, <2>4, ChatMessagesCourse
  <2>7. PICK calls1, got1 : Course(EventsIn(s), calls, got, calls1, got1) /\ Stands(calls1, got1, u[n + 1])
    BY <2>2, <2>4, ChatMessagesCourse
  <2> HIDE DEF a, s
  <2>8. IsList(s)
    BY <2>6 DEF Chats
  <2>9. EventsIn(With(a, s)) = With(EventsIn(a), EventsIn(s)) /\ IsList(EventsIn(a)) /\ IsList(EventsIn(s))
    BY <2>3, <2>8, EventsInJoin, EventsInAre
  <2>10. Course(EventsIn(a), {}, {}, calls, got)
    BY <2>2 DEF Ends, a
  <2>11. Course(With(EventsIn(a), EventsIn(s)), {}, {}, calls1, got1)
    BY <2>7, <2>9, <2>10, CourseJoin
  <2>12. Ends(upTo[n + 1], calls1, got1)
    BY <2>5, <2>9, <2>11 DEF Ends
  <2>13. Chats(upTo[n + 1])
    BY <2>3, <2>5, <2>6, ChatsJoin
  <2>14. QED BY <2>1, <2>7, <2>12, <2>13
<1> HIDE DEF S
<1>10. 0..N \subseteq S
  BY <1>1, <1>8, <1>9, UpTo
<1>11. N \in S
  BY <1>1, <1>10
<1>12. PICK calls, got : Ends(upTo[N], calls, got) /\ Stands(calls, got, u[N])
  BY <1>11 DEF S
<1>13. calls = got
  BY <1>2, <1>12 DEF Stands
<1>14. Chats(upTo[N])
  BY <1>11 DEF S
<1>15. h = upTo[N]
  BY <1>7 DEF ss
<1>16. QED BY <1>12, <1>13, <1>14, <1>15

\* A dialogue in which results come all at once is sent with its calls and
\* results together.
LEMMA RoundsTogether ==
    ASSUME NEW sys, IsPrompt(sys), NEW d, Dialogue(d), Rounds(BlocksIn(d), {})
    PROVE  /\ Together(d) /\ Together(Map(d, MessagesToBedrockMessage))
           /\ Together(Map(sys, SystemMessage) \o FlattenSeq(Map(d, ChatMessages)))
<1> DEFINE e == BlocksIn(d)
           b == Map(d, MessagesToBedrockMessage)
<1>1. IsList(d) /\ \A i \in DOMAIN d : IsBlockMessage(d[i])
  BY DEF Dialogue
<1>2. IsList(e) /\ Len(e) = Len(d) /\ DOMAIN e = DOMAIN d /\ \A i \in DOMAIN d : e[i] = EventsOfBlocks(d[i])
  BY <1>1, BlocksInAre
<1>3. Over(b, d) /\ \A i \in DOMAIN d : b[i] = MessagesToBedrockMessage(d[i])
  BY DEF Over, Map
<1>4. PICK p : Course(e, {}, {}, p, p)
  BY <1>2, RoundsCourse
<1> HIDE DEF b, e
<1>5. IsList(b) /\ Len(b) = Len(d) /\ DOMAIN b = DOMAIN d
  BY <1>1, <1>3, Ones
<1>6. \A i \in DOMAIN d : Marks(d[i], e[i])
  BY <1>1, <1>2, DialogueMarked, BlockMarks
<1>7. \A i \in DOMAIN b : Marks(b[i], e[i])
  <2> SUFFICES ASSUME NEW i \in DOMAIN d PROVE Marks(b[i], e[i])
    BY <1>5
  <2> DEFINE m == d[i]
             x == MessagesToBedrockMessage(m)
             ev == EventsOfBlocks(m)
  <2>1. IsBlockMessage(m) /\ m.role \in {"user", "assistant"} /\ Worded(m.blocks)
    BY <1>1, Kinds DEF IsBlockMessage
  <2>2. b[i] = x /\ e[i] = ev
    BY <1>2, <1>3
  <2> HIDE DEF m
  <2>3. ev = Told(m.role, m.blocks)
    BY <2>1, DialogueTells
  <2>4. CallsAmong(Kept("urls", ev)) = CallsAmong(ev) /\ ResultsAmong(Kept("urls", ev)) = ResultsAmong(ev)
    BY <2>1, <2>3, ToldAmong
  <2>5. EventsOfBlocks(x) = Kept("urls", ev)
    BY <2>1, MessagesToBedrockTells
  <2>6. Marked(x)
    BY <2>1, DialogueMarked
  <2> HIDE DEF x, ev
  <2>7. Marks(x, EventsOfBlocks(x))
    BY <2>6, BlockMarks
  <2>8. Marks(x, ev)
    BY <2>4, <2>5, <2>7 DEF Marks
  <2>9. QED BY <2>2, <2>8
<1>8. Together(d)
  BY <1>1, <1>2, <1>4, <1>6, CourseTogether
<1>9. Together(b)
  BY <1>2, <1>4, <1>5, <1>7, CourseTogether
<1> DEFINE h == FlattenSeq(Map(d, ChatMessages))
<1>10. Chats(h) /\ \E q : Ends(h, q, q)
  BY DialogueCourse
<1> HIDE DEF h
<1>11. Together(Map(sys, SystemMessage) \o h)
  BY <1>10, ChatTogether
<1>12. QED BY <1>8, <1>9, <1>11 DEF b, h

-----------------------------------------------------------------------------
(* The course of the items of a Responses request *)

\* A call joins those that have no results yet, or is the first when all have.
LEMMA CallAdded ==
    ASSUME NEW instr, IsList(instr), \A i \in DOMAIN instr : IsSystem(instr[i]),
           NEW h, Conversation(h), NEW call,
           NEW calls, NEW got, NEW due, Ends(h, calls, got), Stands(calls, got, due)
    PROVE  \E g : /\ AttachCall(With(instr, h), call) = With(instr, g)
                  /\ Conversation(g) /\ Ends(g, due \cup {call.id}, {})
<1> DEFINE to == AttachCall(With(instr, h), call)
           x == Opening(call)
           ce == CallEvent(call)
           id == call.id
<1>0. to = AttachCall(With(instr, h), call) /\ x = Opening(call)
  OBVIOUS
<1> HIDE DEF to, x
<1>1. \/ h = <<>> /\ to = With(instr, h \o <<x>>)
      \/ \E f, m :
           /\ Conversation(f) /\ IsTurn(m) /\ h = f \o <<m>>
           /\ \/ m.role # "assistant" /\ to = With(instr, h \o <<x>>)
              \/ m.role = "assistant" /\ to = With(instr, f \o <<Extended(m, call)>>)
  <2>1. Attached(instr, h, call, AttachCall(With(instr, h), call))
    BY AttachIs
  <2>2. QED BY <1>0, <2>1 DEF Attached
<1>2. IsTurn(x) /\ EventsOfChat(x) = <<ce>> /\ IsList(<<ce>>)
  BY <1>0, OpeningIs, OneCall
<1>3. CallsAmong(<<ce>>) = {id} /\ ResultsAmong(<<ce>>) = {}
  <2> DEFINE s == <<call>>
  <2>1. IsList(s) /\ DOMAIN s = {1} /\ s[1] = call /\ CallEvents(s) = <<ce>>
    BY One, OneCall
  <2> HIDE DEF s, ce
  <2>2. CallsAmong(CallEvents(s)) = {c.id : c \in ToSet(s)} /\ ResultsAmong(CallEvents(s)) = {}
    BY <2>1, CallsAreAmong
  <2>3. ToSet(s) = {call}
    BY <2>1 DEF ToSet
  <2>4. QED BY <2>1, <2>2, <2>3
<1>4. IsList(h)
  BY DEF Conversation
<1> HIDE DEF ce, id
\* When all have results.
<1>5. ASSUME due = {}, to = With(instr, h \o <<x>>)
      PROVE  \E g : to = With(instr, g) /\ Conversation(g) /\ Ends(g, due \cup {id}, {})
  <2>1. calls = got
    BY <1>5 DEF Stands
  <2>2. Follows(calls, got, EventsOfChat(x), {id}, {})
    BY <1>2, <1>3, <2>1 DEF Follows
  <2>3. Ends(h \o <<x>>, {id}, {})
    BY <1>4, <2>2, EndsMore
  <2>4. Conversation(h \o <<x>>)
    BY <1>2, OneTurn, ConversationJoin
  <2>5. due \cup {id} = {id}
    BY <1>5
  <2>6. QED BY <1>5, <2>3, <2>4, <2>5
\* Nothing is due of no messages.
<1>6. h = <<>> => due = {}
  <2> SUFFICES ASSUME h = <<>> PROVE due = {}
    OBVIOUS
  <2>1. EventsIn(h) = <<>>
    BY EventsInAre, Nothings
  <2>2. PICK u, v : u[0] = {} /\ v[0] = {} /\ u[Len(<<>>)] = calls /\ v[Len(<<>>)] = got
    BY <2>1 DEF Ends, Course
  <2>3. calls = {}
    BY <2>2, Nothings
  <2>4. QED BY <2>3 DEF Stands
<1>7. ASSUME NEW f, NEW m, Conversation(f), IsTurn(m), h = f \o <<m>>
      PROVE  /\ m.role # "assistant" => due = {}
             /\ m.role = "assistant" /\ to = With(instr, f \o <<Extended(m, call)>>) =>
                  \E g : to = With(instr, g) /\ Conversation(g) /\ Ends(g, due \cup {id}, {})
  <2> DEFINE e == EventsOfChat(m)
             n == Extended(m, call)
  <2>1. IsList(f)
    BY <1>7 DEF Conversation
  <2>2. PICK calls0, got0 : Ends(f, calls0, got0) /\ Follows(calls0, got0, e, calls, got)
    BY <1>7, <2>1, EndsLess
  <2>3. IsChat(m) /\ IsList(e)
    BY <1>7, TurnMarked, TurnTells
  <2>4. CASE m.role = "tool"
    <3>1. ResultsAmong(e) # {}
      BY <2>3, <2>4, ChatMarks
    <3>2. got = got0 \cup ResultsAmong(e)
      BY <2>2, <3>1 DEF Follows
    <3>3. got # {}
      BY <3>1, <3>2
    <3>4. QED BY <2>4, <3>3 DEF Stands
  <2>5. CASE m.role # "tool"
    <3>1. ResultsAmong(e) = {} /\ CallsAmong(e) = {c.id : c \in ToSet(m.calls)}
      BY <2>3, <2>5, ChatMarks
    <3>2. got0 = calls0 /\ calls = CallsAmong(e) /\ got = {}
      BY <2>2, <3>1 DEF Follows
    <3>3. due = calls
      BY <3>2 DEF Stands
    <3>4. m.role # "assistant" => due = {}
      <4>1. m.role # "assistant" => m.calls = <<>>
        BY <1>7, <2>5 DEF IsTurn
      <4>2. m.calls = <<>> => CallsAmong(e) = {}
        BY <3>1, Nothings DEF ToSet
      <4>3. QED BY <3>2, <3>3, <4>1, <4>2
    <3>5. ASSUME m.role = "assistant", to = With(instr, f \o <<n>>)
          PROVE  \E g : to = With(instr, g) /\ Conversation(g) /\ Ends(g, due \cup {id}, {})
      <4>1. IsTurn(n) /\ EventsOfChat(n) = With(e, <<ce>>)
        BY <1>7, <3>5, ExtendedIs DEF ce
      <4> HIDE DEF n, e
      <4>2. CallsAmong(With(e, <<ce>>)) = CallsAmong(e) \cup {id} /\ ResultsAmong(With(e, <<ce>>)) = {}
        BY <1>2, <1>3, <2>3, <3>1, AmongJoin
      <4>3. Follows(calls0, got0, EventsOfChat(n), due \cup {id}, {})
        BY <3>2, <3>3, <4>1, <4>2 DEF Follows
      <4>4. Ends(f \o <<n>>, due \cup {id}, {})
        BY <2>1, <2>2, <4>3, EndsMore
      <4>5. Conversation(f \o <<n>>)
        BY <1>7, <4>1, OneTurn, ConversationJoin
      <4>6. QED BY <3>5, <4>4, <4>5
    <3>6. QED BY <3>4, <3>5
  <2>6. QED BY <2>4, <2>5
<1>8. \E g : to = With(instr, g) /\ Conversation(g) /\ Ends(g, due \cup {id}, {})
  <2>1. CASE h = <<>> /\ to = With(instr, h \o <<x>>)
    BY <1>5, <1>6, <2>1
  <2>2. ASSUME NEW f, NEW m, Conversation(f), IsTurn(m), h = f \o <<m>>,
               \/ m.role # "assistant" /\ to = With(instr, h \o <<x>>)
               \/ m.role = "assistant" /\ to = With(instr, f \o <<Extended(m, call)>>)
        PROVE  \E g : to = With(instr, g) /\ Conversation(g) /\ Ends(g, due \cup {id}, {})
    <3>1. CASE m.role # "assistant"
      BY <1>5, <1>7, <2>2, <3>1
    <3>2. CASE m.role = "assistant"
      BY <1>7, <2>2, <3>2
    <3>3. QED BY <3>1, <3>2
  <2>3. QED BY <1>1, <2>1, <2>2
<1>9. QED BY <1>8 DEF to, id

\* No items leave the instructions.
LEMMA InputNone ==
    ASSUME NEW instr
    PROVE  MessagesOfInput(instr, <<>>) = instr
<1>1. PICK u : u[0] = instr /\ MessagesOfInput(instr, <<>>) = u[Len(<<>>)]
  BY InputIs, Nothings
<1>2. Len(<<>>) = 0
  BY Nothings
<1>3. QED BY <1>1, <1>2

\* One item more.
LEMMA InputMore ==
    ASSUME NEW instr, NEW items, IsList(items), NEW it
    PROVE  MessagesOfInput(instr, items \o <<it>>) = AddInputItem(MessagesOfInput(instr, items), it)
<1> DEFINE o == <<it>>
           w == items \o o
           N == Len(items)
<1>1. N \in Nat /\ IsList(o) /\ Len(o) = 1 /\ o[1] = it
  BY One, ListHas
<1> HIDE DEF o
<1>2. /\ IsList(w) /\ Len(w) = N + 1
      /\ \A i \in 1..(N + 1) : w[i] = IF i <= N THEN items[i] ELSE o[i - N]
  BY <1>1, Joined
<1> HIDE DEF w
<1>3. PICK u : /\ u[0] = instr /\ MessagesOfInput(instr, items) = u[N]
               /\ \A n \in 1..N : u[n] = AddInputItem(u[n - 1], items[n])
  BY InputIs
<1>4. PICK v : /\ v[0] = instr /\ MessagesOfInput(instr, w) = v[Len(w)]
               /\ \A n \in 1..Len(w) : v[n] = AddInputItem(v[n - 1], w[n])
  BY <1>2, InputIs
<1> HIDE DEF N
<1> DEFINE S == {n \in 0..N : v[n] = u[n]}
<1>5. 0 \in S
  BY <1>1, <1>3, <1>4
<1>6. ASSUME NEW n \in 0..(N - 1), n \in S PROVE n + 1 \in S
  <2>1. n + 1 \in 1..N /\ n + 1 \in 1..(N + 1) /\ n + 1 <= N /\ (n + 1) - 1 = n /\ n + 1 \in 0..N
    BY <1>1
  <2>2. u[n + 1] = AddInputItem(u[(n + 1) - 1], items[n + 1])
    BY <1>3, <2>1
  <2>3. v[n + 1] = AddInputItem(v[(n + 1) - 1], w[n + 1])
    BY <1>2, <1>4, <2>1
  <2>4. w[n + 1] = items[n + 1]
    BY <1>2, <2>1
  <2>5. v[n] = u[n]
    BY <1>6
  <2>6. QED BY <2>1, <2>2, <2>3, <2>4, <2>5
<1> HIDE DEF S
<1>7. 0..N \subseteq S
  BY <1>1, <1>5, <1>6, UpTo
<1>8. v[N] = u[N]
  <2>1. N \in 0..N
    BY <1>1
  <2>2. QED BY <1>7, <2>1 DEF S
<1>9. N + 1 \in 1..(N + 1) /\ ~(N + 1 <= N) /\ (N + 1) - N = 1 /\ (N + 1) - 1 = N
  BY <1>1
<1>10. w[N + 1] = it
  BY <1>1, <1>2, <1>9
<1>11. v[N + 1] = AddInputItem(v[(N + 1) - 1], w[N + 1])
  BY <1>2, <1>4, <1>9
<1>12. v[N + 1] = AddInputItem(u[N], it)
  BY <1>8, <1>9, <1>10, <1>11
<1>13. QED BY <1>2, <1>3, <1>4, <1>12 DEF w, o

\* How the calls and results end in the messages that items become.
InputEnds(sys, items, calls, got) ==
    \E h : /\ MessagesOfInput(Map(sys, SystemMessage), items) = With(Map(sys, SystemMessage), h)
           /\ Conversation(h) /\ Ends(h, calls, got)

\* No items leave no calls.
LEMMA InputEndsNone ==
    ASSUME NEW sys, IsPrompt(sys)
    PROVE  InputEnds(sys, <<>>, {}, {})
<1>1. IsList(Map(sys, SystemMessage))
  BY PromptIs
<1>2. MessagesOfInput(Map(sys, SystemMessage), <<>>) = With(Map(sys, SystemMessage), <<>>)
  BY <1>1, InputNone, WithIs
<1>3. Conversation(<<>>)
  BY Nothings DEF Conversation
<1>4. QED BY <1>2, <1>3, EndsNone DEF InputEnds

\* An item that is a message of its own.
LEMMA InputEndsTurn ==
    ASSUME NEW sys, IsPrompt(sys), NEW items, IsList(items), NEW calls, NEW got, InputEnds(sys, items, calls, got),
           NEW it, NEW m, IsTurn(m), \A ms : AddInputItem(ms, it) = Append(ms, m),
           NEW calls1, NEW got1, Follows(calls, got, EventsOfChat(m), calls1, got1)
    PROVE  InputEnds(sys, items \o <<it>>, calls1, got1)
<1> DEFINE instr == Map(sys, SystemMessage)
<1>1. IsList(instr)
  BY PromptIs
<1>2. PICK h : MessagesOfInput(instr, items) = With(instr, h) /\ Conversation(h) /\ Ends(h, calls, got)
  BY DEF InputEnds
<1> HIDE DEF instr
<1>3. MessagesOfInput(instr, items \o <<it>>) = Append(With(instr, h), m)
  BY <1>2, InputMore
<1>4. IsList(h)
  BY <1>2 DEF Conversation
<1>5. Append(With(instr, h), m) = With(instr, h \o <<m>>)
  <2> DEFINE o == <<m>>
  <2>1. IsList(o) /\ IsList(With(instr, h))
    BY <1>1, <1>4, One, WithIs
  <2>2. Append(With(instr, h), m) = With(With(instr, h), o)
    BY <2>1, AppendIs DEF With
  <2> HIDE DEF o
  <2>3. With(With(instr, h), o) = With(instr, With(h, o))
    BY <1>1, <1>4, <2>1, WithIs
  <2>4. QED BY <2>2, <2>3 DEF o, With
<1>6. Conversation(h \o <<m>>)
  BY <1>2, OneTurn, ConversationJoin
<1>7. Ends(h \o <<m>>, calls1, got1)
  BY <1>2, <1>4, EndsMore
<1>8. QED BY <1>3, <1>5, <1>6, <1>7 DEF InputEnds, instr

\* A message becomes a turn without calls and results.
LEMMA MessageItemIs ==
    ASSUME NEW it, it.type = "message", IsItem(it)
    PROVE  \E m : /\ IsTurn(m) /\ \A ms : AddInputItem(ms, it) = Append(ms, m)
                  /\ ResultsAmong(EventsOfChat(m)) = {} /\ CallsAmong(EventsOfChat(m)) = {}
<1> DEFINE c == it.content
           m == ChatMessage(it.role, OfType(c, {"text", "image"}), <<>>, NoCall)
<1>1. Parts(c) /\ IsList(c) /\ it.role \in {"user", "assistant"}
      /\ (it.role = "assistant" => \A i \in DOMAIN c : c[i].type = "text")
  BY DEF IsItem, Parts
<1>2. OfType(c, {"text", "image"}) = c
  <2>1. \A i \in DOMAIN c : c[i].type \in {"text", "image"}
    BY <1>1 DEF Parts, IsPart
  <2>2. QED BY <1>1, <2>1, OfTypePart
<1>3. \A ms : AddInputItem(ms, it) = Append(ms, m)
  BY DEF AddInputItem
<1>4. m.role = it.role /\ m.content = c /\ m.calls = <<>> /\ m.result = NoCall
      /\ m = ChatMessage(m.role, m.content, m.calls, m.result)
  BY <1>2 DEF ChatMessage
<1> HIDE DEF m, c
<1>5. IsTurn(m)
  BY <1>1, <1>4, Nothings DEF IsTurn
<1>6. ResultsAmong(EventsOfChat(m)) = {} /\ CallsAmong(EventsOfChat(m)) = {k.id : k \in ToSet(m.calls)}
  BY <1>1, <1>4, <1>5, TurnMarked, ChatMarks
<1>7. CallsAmong(EventsOfChat(m)) = {}
  BY <1>4, <1>6, Nothings DEF ToSet
<1>8. QED BY <1>3, <1>5, <1>6, <1>7

\* An output becomes a turn that brings its result.
LEMMA OutputItemIs ==
    ASSUME NEW it, it.type = "function_call_output", IsList(it.output)
    PROVE  \E m : /\ IsTurn(m) /\ \A ms : AddInputItem(ms, it) = Append(ms, m)
                  /\ ResultsAmong(EventsOfChat(m)) = {it.id}
<1> DEFINE e == Text(it.output)
           m == ChatMessage("tool", <<e>>, <<>>, it.id)
<1>1. \A ms : AddInputItem(ms, it) = Append(ms, m)
  BY DEF AddInputItem
<1>2. m.role = "tool" /\ m.content = <<e>> /\ m.calls = <<>> /\ m.result = it.id
      /\ m = ChatMessage(m.role, m.content, m.calls, m.result)
  BY DEF ChatMessage
<1>3. e.type = "text" /\ e.text = it.output
  BY DEF Text
<1> HIDE DEF m, e
<1>4. IsPart(e)
  BY <1>3 DEF IsPart
<1>5. Parts(<<e>>)
  <2> DEFINE s == <<e>>
  <2>1. IsList(s) /\ DOMAIN s = {1} /\ s[1] = e
    BY One
  <2> HIDE DEF s
  <2>2. Parts(s)
    BY <1>4, <2>1 DEF Parts
  <2>3. QED BY <2>2 DEF s
<1>6. IsTurn(m)
  BY <1>2, <1>5, Nothings DEF IsTurn
<1>7. ResultsAmong(EventsOfChat(m)) = {m.result}
  BY <1>2, <1>6, TurnMarked, ChatMarks
<1>8. QED BY <1>1, <1>2, <1>6, <1>7

\* A message where all calls have their results.
LEMMA InputEndsMessage ==
    ASSUME NEW sys, IsPrompt(sys), NEW items, IsList(items), NEW p, InputEnds(sys, items, p, p),
           NEW it, it.type = "message", IsItem(it)
    PROVE  InputEnds(sys, items \o <<it>>, {}, {})
<1>1. PICK m : /\ IsTurn(m) /\ \A ms : AddInputItem(ms, it) = Append(ms, m)
               /\ ResultsAmong(EventsOfChat(m)) = {} /\ CallsAmong(EventsOfChat(m)) = {}
  BY MessageItemIs
<1>2. Follows(p, p, EventsOfChat(m), {}, {})
  BY <1>1 DEF Follows
<1>3. QED BY <1>1, <1>2, InputEndsTurn

\* A result of a call.
LEMMA InputEndsOutput ==
    ASSUME NEW sys, IsPrompt(sys), NEW items, IsList(items), NEW calls, NEW got, InputEnds(sys, items, calls, got),
           NEW it, it.type = "function_call_output", IsList(it.output), it.id \in calls
    PROVE  InputEnds(sys, items \o <<it>>, calls, got \cup {it.id})
<1>1. PICK m : /\ IsTurn(m) /\ \A ms : AddInputItem(ms, it) = Append(ms, m)
               /\ ResultsAmong(EventsOfChat(m)) = {it.id}
  BY OutputItemIs
<1>2. Follows(calls, got, EventsOfChat(m), calls, got \cup {it.id})
  <2>1. ResultsAmong(EventsOfChat(m)) # {} /\ ResultsAmong(EventsOfChat(m)) \subseteq calls
    BY <1>1
  <2>2. QED BY <1>1, <2>1 DEF Follows
<1>3. QED BY <1>1, <1>2, InputEndsTurn

\* A call: it joins those that have no results yet.
LEMMA InputEndsCall ==
    ASSUME NEW sys, IsPrompt(sys), NEW items, IsList(items),
           NEW calls, NEW got, NEW due, InputEnds(sys, items, calls, got), Stands(calls, got, due),
           NEW it, it.type = "function_call"
    PROVE  InputEnds(sys, items \o <<it>>, due \cup {it.call.id}, {})
<1> DEFINE instr == Map(sys, SystemMessage)
<1>1. IsList(instr) /\ \A i \in DOMAIN instr : IsSystem(instr[i])
  BY PromptIs
<1>2. PICK h : MessagesOfInput(instr, items) = With(instr, h) /\ Conversation(h) /\ Ends(h, calls, got)
  BY DEF InputEnds
<1> HIDE DEF instr
<1>3. MessagesOfInput(instr, items \o <<it>>) = AddInputItem(With(instr, h), it)
  BY <1>2, InputMore
<1>4. AddInputItem(With(instr, h), it) = AttachCall(With(instr, h), it.call)
  BY DEF AddInputItem
<1>5. \E g : /\ AttachCall(With(instr, h), it.call) = With(instr, g)
             /\ Conversation(g) /\ Ends(g, due \cup {it.call.id}, {})
  BY <1>1, <1>2, CallAdded
<1>6. QED BY <1>3, <1>4, <1>5 DEF InputEnds, instr

\* Results of calls that are due, one item after the other.
LEMMA InputEndsOutputs ==
    ASSUME NEW sys, IsPrompt(sys), NEW items, IsList(items), NEW calls, NEW got, InputEnds(sys, items, calls, got),
           NEW outs, IsList(outs),
           \A k \in DOMAIN outs : outs[k].type = "function_call_output" /\ IsList(outs[k].output) /\ outs[k].id \in calls
    PROVE  InputEnds(sys, With(items, outs), calls, got \cup {outs[k].id : k \in DOMAIN outs})
<1> DEFINE N == Len(outs)
           upTo(n) == SubSeq(outs, 1, n)
           Ids(n) == {outs[k].id : k \in 1..n}
           S == {n \in 0..N : InputEnds(sys, With(items, upTo(n)), calls, got \cup Ids(n))}
<1>1. N \in Nat /\ DOMAIN outs = 1..N
  BY ListHas
<1>2. /\ upTo(0) = <<>> /\ upTo(N) = outs
      /\ \A n \in 0..N : IsList(upTo(n))
      /\ \A n \in 0..(N - 1) : upTo(n + 1) = upTo(n) \o <<outs[n + 1]>>
  BY Prefix
<1>3. Ids(0) = {} /\ \A n \in Nat : Ids(n + 1) = Ids(n) \cup {outs[n + 1].id}
  <2>1. 1..0 = {} /\ \A n \in Nat : 1..(n + 1) = (1..n) \cup {n + 1}
    OBVIOUS
  <2>2. QED BY <2>1
<1> HIDE DEF upTo, Ids, N
<1>4. 0 \in S
  <2>1. With(items, upTo(0)) = items /\ got \cup Ids(0) = got
    BY <1>2, <1>3, WithIs
  <2>2. 0 \in 0..N
    BY <1>1
  <2>3. QED BY <2>1, <2>2
<1>5. ASSUME NEW n \in 0..(N - 1), n \in S PROVE n + 1 \in S
  <2> DEFINE it == outs[n + 1]
             a == With(items, upTo(n))
  <2>1. n \in Nat /\ n + 1 \in 1..N /\ n \in 0..N /\ n + 1 \in 0..N
    BY <1>1
  <2>2. it.type = "function_call_output" /\ IsList(it.output) /\ it.id \in calls
    BY <1>1, <2>1
  <2>3. InputEnds(sys, a, calls, got \cup Ids(n)) /\ IsList(a)
    BY <1>2, <1>5, <2>1, WithIs
  <2>4. InputEnds(sys, a \o <<it>>, calls, (got \cup Ids(n)) \cup {it.id})
    <3> HIDE DEF it, a
    <3>1. QED BY <2>2, <2>3, InputEndsOutput
  <2>5. a \o <<it>> = With(items, upTo(n + 1))
    <3> DEFINE o == <<it>>
    <3>1. IsList(o) /\ IsList(upTo(n)) /\ upTo(n + 1) = With(upTo(n), o)
      BY <1>2, <2>1, One DEF With
    <3> HIDE DEF o
    <3>2. With(With(items, upTo(n)), o) = With(items, With(upTo(n), o))
      BY <3>1, WithIs
    <3>3. QED BY <3>1, <3>2 DEF o, With
  <2>6. (got \cup Ids(n)) \cup {it.id} = got \cup Ids(n + 1)
    BY <1>3, <2>1
  <2> HIDE DEF it, a
  <2>7. QED BY <2>1, <2>4, <2>5, <2>6
<1> HIDE DEF S
<1>6. 0..N \subseteq S
  BY <1>1, <1>4, <1>5, UpTo
<1>7. N \in S
  BY <1>1, <1>6
<1>8. InputEnds(sys, With(items, upTo(N)), calls, got \cup Ids(N))
  BY <1>7 DEF S
<1>9. Ids(N) = {outs[k].id : k \in DOMAIN outs}
  BY <1>1 DEF Ids
<1>10. QED BY <1>2, <1>8, <1>9

\* The calls of an answer, one item after the other.
LEMMA InputEndsCalls ==
    ASSUME NEW sys, IsPrompt(sys), NEW items, IsList(items), NEW p, InputEnds(sys, items, p, p),
           NEW cs, IsList(cs), \A k \in DOMAIN cs : cs[k].type = "function_call",
           NEW due, due = {cs[k].call.id : k \in DOMAIN cs}
    PROVE  \E calls, got : InputEnds(sys, With(items, cs), calls, got) /\ Stands(calls, got, due)
<1> DEFINE N == Len(cs)
           upTo(n) == SubSeq(cs, 1, n)
           Ids(n) == {cs[k].call.id : k \in 1..n}
           S == {n \in 0..N : \E calls, got : InputEnds(sys, With(items, upTo(n)), calls, got) /\ Stands(calls, got, Ids(n))}
<1>1. N \in Nat /\ DOMAIN cs = 1..N
  BY ListHas
<1>2. /\ upTo(0) = <<>> /\ upTo(N) = cs
      /\ \A n \in 0..N : IsList(upTo(n))
      /\ \A n \in 0..(N - 1) : upTo(n + 1) = upTo(n) \o <<cs[n + 1]>>
  BY Prefix
<1>3. Ids(0) = {} /\ \A n \in Nat : Ids(n + 1) = Ids(n) \cup {cs[n + 1].call.id}
  <2>1. 1..0 = {} /\ \A n \in Nat : 1..(n + 1) = (1..n) \cup {n + 1}
    OBVIOUS
  <2>2. QED BY <2>1
<1> HIDE DEF upTo, Ids, N
<1>4. 0 \in S
  <2>1. With(items, upTo(0)) = items /\ Stands(p, p, Ids(0))
    BY <1>2, <1>3, WithIs DEF Stands
  <2>2. 0 \in 0..N
    BY <1>1
  <2>3. QED BY <2>1, <2>2
<1>5. ASSUME NEW n \in 0..(N - 1), n \in S PROVE n + 1 \in S
  <2> DEFINE it == cs[n + 1]
             a == With(items, upTo(n))
  <2>1. n \in Nat /\ n + 1 \in 1..N /\ n \in 0..N /\ n + 1 \in 0..N
    BY <1>1
  <2>2. it.type = "function_call"
    BY <1>1, <2>1
  <2>3. PICK calls, got : InputEnds(sys, a, calls, got) /\ Stands(calls, got, Ids(n))
    BY <1>5
  <2>4. IsList(a)
    BY <1>2, <2>1, WithIs
  <2>5. InputEnds(sys, a \o <<it>>, Ids(n) \cup {it.call.id}, {})
    <3> HIDE DEF it, a
    <3>1. QED BY <2>2, <2>3, <2>4, InputEndsCall
  <2>6. a \o <<it>> = With(items, upTo(n + 1))
    <3> DEFINE o == <<it>>
    <3>1. IsList(o) /\ IsList(upTo(n)) /\ upTo(n + 1) = With(upTo(n), o)
      BY <1>2, <2>1, One DEF With
    <3> HIDE DEF o
    <3>2. With(With(items, upTo(n)), o) = With(items, With(upTo(n), o))
      BY <3>1, WithIs
    <3>3. QED BY <3>1, <3>2 DEF o, With
  <2>7. Ids(n) \cup {it.call.id} = Ids(n + 1)
    BY <1>3, <2>1
  <2>8. Stands(Ids(n + 1), {}, Ids(n + 1))
    BY DEF Stands
  <2> HIDE DEF it, a
  <2>9. QED BY <2>1, <2>5, <2>6, <2>7, <2>8
<1> HIDE DEF S
<1>6. 0..N \subseteq S
  BY <1>1, <1>4, <1>5, UpTo
<1>7. N \in S
  BY <1>1, <1>6
<1>8. \E calls, got : InputEnds(sys, With(items, upTo(N)), calls, got) /\ Stands(calls, got, Ids(N))
  BY <1>7 DEF S
<1>9. Ids(N) = due
  BY <1>1 DEF Ids
<1>10. QED BY <1>2, <1>8, <1>9

\* The ids that calls and results have.
Due(calls) == {calls[i].id : i \in DOMAIN calls}

\* All calls have a result, in whatever order the tools were done.
LEMMA OrderCovers ==
    ASSUME IsList(awaited), NEW order \in ResultOrders
    PROVE  \A j \in DOMAIN awaited : \E i \in DOMAIN awaited : order[i] = j
<1> DEFINE D == DOMAIN awaited
<1>1. D = 1..Len(awaited) /\ Len(awaited) \in Nat
  BY ListHas
<1>2. IsFiniteSet(D)
  BY <1>1, FS_Interval
<1>3. order \in [D -> D] /\ \A i, j \in D : order[i] = order[j] => i = j
  BY DEF ResultOrders
<1> HIDE DEF D
<1>4. SUFFICES ASSUME NEW j \in D, \A i \in D : order[i] # j PROVE FALSE
  BY DEF D
<1> DEFINE T == D \ {j}
<1>5. IsFiniteSet(T) /\ Cardinality(T) < Cardinality(D)
  <2>1. T \in SUBSET D /\ T # D
    OBVIOUS
  <2>2. IsFiniteSet(T) /\ Cardinality(T) <= Cardinality(D) /\ Cardinality(T) # Cardinality(D)
    BY <1>2, <2>1, FS_Subset
  <2>3. Cardinality(T) \in Nat /\ Cardinality(D) \in Nat
    BY <1>2, <2>2, FS_CardinalityType
  <2>4. QED BY <2>2, <2>3
<1>6. order \in [D -> T]
  <2>1. \A i \in D : order[i] \in T
    BY <1>3, <1>4
  <2>2. QED BY <1>3, <2>1
<1> HIDE DEF T
<1>7. \E x, y \in D : x # y /\ order[x] = order[y]
  BY <1>2, <1>5, <1>6, FS_PigeonHole
<1>8. QED BY <1>3, <1>7

\* The results that a client sends are those of the calls it awaits.
LEMMA ResultsAreDue ==
    ASSUME IsList(awaited), NEW order \in ResultOrders, NEW output
    PROVE  Due(Results(order, output)) = Due(awaited) /\ (awaited # <<>> => Due(awaited) # {})
<1> DEFINE rs == Results(order, output)
           D == DOMAIN awaited
<1>1. order \in [D -> D]
  BY DEF ResultOrders
<1>2. DOMAIN rs = D /\ \A i \in D : rs[i].id = awaited[order[i]].id
  BY <1>1 DEF Results, Map
<1> HIDE DEF rs
<1>3. \A j \in D : \E i \in D : order[i] = j
  BY OrderCovers
<1>4. {rs[i].id : i \in DOMAIN rs} = {awaited[i].id : i \in D}
  BY <1>1, <1>2, <1>3
<1>5. awaited # <<>> => D # {}
  BY Nothings, ListHas
<1>6. QED BY <1>4, <1>5 DEF Due, rs

-----------------------------------------------------------------------------
(* A user's turn brings what is due *)

\* The results of a turn are of the calls.
LEMMA ResultsToldAmong ==
    ASSUME NEW rs, ResultList(rs)
    PROVE  ResultsAmong(ResultsTold(rs)) = Due(rs) /\ CallsAmong(ResultsTold(rs)) = {}
<1> DEFINE rt == ResultsTold(rs)
<1>1. DOMAIN rt = DOMAIN rs /\ \A i \in DOMAIN rs : rt[i] = ResultEvent(rs[i].id, rs[i].output)
  BY ResultsToldAre
<1>2. \A id, t : ResultEvent(id, t)[1] = "result" /\ ResultEvent(id, t)[2] = id
  BY DEF ResultEvent
<1> HIDE DEF rt
<1>3. \A i \in DOMAIN rt : rt[i][1] = "result" /\ rt[i][2] = rs[i].id
  BY <1>1, <1>2
<1>4. ResultsAmong(rt) = Due(rs)
  BY <1>1, <1>3 DEF ResultsAmong, Due
<1>5. CallsAmong(rt) = {}
  BY <1>3 DEF CallsAmong
<1>6. QED BY <1>4, <1>5 DEF rt

\* What is said beside results has neither results nor calls.
LEMMA ContentAmong ==
    ASSUME NEW content, Parts(content)
    PROVE  ResultsAmong(ContentTold(content)) = {} /\ CallsAmong(ContentTold(content)) = {}
<1> DEFINE te == TextEvents("user", ExtractText(content))
           ie == ImageEvents(content)
<1>1. IsList(te) /\ IsList(ie)
  BY ContentToldIs
<1>2. IsList(content) /\ IsList(ExtractText(content))
  BY PartsAre, WordingsAre
<1>3. CallsAmong(te) = {} /\ ResultsAmong(te) = {} /\ CallsAmong(ie) = {} /\ ResultsAmong(ie) = {}
  <2>1. "user" \notin {"call", "result"}
    OBVIOUS
  <2>2. QED BY <1>2, <2>1, NoneAmong
<1> HIDE DEF te, ie
<1>4. ResultsAmong(With(te, ie)) = {} /\ CallsAmong(With(te, ie)) = {}
  BY <1>1, <1>3, AmongJoin
<1>5. QED BY <1>4 DEF te, ie, ContentTold

\* A user's turn in a chat brings the results that are due.
LEMMA ChatTurnEnds ==
    ASSUME NEW rs, ResultList(rs), NEW content, Parts(content), client = "chat",
           NEW h, Conversation(h), NEW calls, NEW got, Ends(h, calls, got), Stands(calls, got, Due(rs))
    PROVE  \E p : Ends(With(h, UserTurn(rs, content)), p, p)
<1> DEFINE a == ToolMessages(rs)
           m == UserMessage(content)
           o == <<m>>
           b == IF content = <<>> THEN <<>> ELSE o
           ha == With(h, a)
<1>1. UserTurn(rs, content) = With(a, b)
  BY DEF UserTurn, ToolMessages, UserMessage, With
<1>2. IsList(a) /\ DOMAIN a = DOMAIN rs
      /\ \A i \in DOMAIN rs : EventsOfChat(a[i]) = <<ResultEvent(rs[i].id, rs[i].output)>>
  BY ToolMessagesAre DEF Conversation
<1>3. EventsOfChat(m) = ContentTold(content)
  BY UserMessageIs
<1>4. IsList(h)
  BY DEF Conversation
<1> HIDE DEF a, m
<1>5. Course(EventsIn(a), calls, got, calls, calls)
  <2> DEFINE t == EventsIn(a)
             ids == [k \in DOMAIN rs |-> rs[k].id]
  <2>1. IsList(t) /\ DOMAIN t = DOMAIN rs /\ \A k \in DOMAIN rs : t[k] = <<ResultEvent(rs[k].id, rs[k].output)>>
    BY <1>2, EventsInAre
  <2>2. \A k \in DOMAIN rs : ids[k] = rs[k].id
    OBVIOUS
  <2>3. Over(ids, t)
    BY <2>1 DEF Over
  <2> HIDE DEF t, ids
  <2>4. \A k \in DOMAIN t : ids[k] \in Due(rs)
    BY <2>1, <2>2 DEF Due
  <2>5. Due(rs) \subseteq calls
    BY DEF Stands
  <2>6. \A k \in DOMAIN t : ResultsAmong(t[k]) = {ids[k]} /\ ids[k] \in calls
    BY <2>1, <2>2, <2>4, <2>5, ResultIsAmong
  <2>7. Course(t, calls, got, calls, got \cup {ids[k] : k \in DOMAIN t})
    BY <2>1, <2>3, <2>6, CourseOfResults
  <2>8. {ids[k] : k \in DOMAIN t} = Due(rs)
    BY <2>1, <2>2 DEF Due
  <2>9. got \cup Due(rs) = calls
    BY DEF Stands
  <2>10. QED BY <2>7, <2>8, <2>9 DEF t
<1>6. IsList(ha) /\ Ends(ha, calls, calls)
  <2>1. IsList(EventsIn(h)) /\ IsList(EventsIn(a)) /\ EventsIn(ha) = With(EventsIn(h), EventsIn(a))
    BY <1>2, <1>4, EventsInAre, EventsInJoin
  <2>2. Course(EventsIn(ha), {}, {}, calls, calls)
    BY <1>5, <2>1, CourseJoin DEF Ends
  <2>3. IsList(ha)
    BY <1>2, <1>4, WithIs
  <2>4. QED BY <2>2, <2>3 DEF Ends
<1>7. IsList(o) /\ b \in {<<>>, o}
  BY One
<1>8. With(h, With(a, b)) = With(ha, b)
  <2>1. IsList(b)
    BY <1>7, Nothings
  <2> HIDE DEF b
  <2>2. QED BY <1>2, <1>4, <2>1, WithIs
<1>9. CASE b = <<>>
  BY <1>1, <1>6, <1>8, <1>9, WithIs
<1>10. CASE b = o
  <2>1. Follows(calls, calls, EventsOfChat(m), {}, {})
    BY <1>3, ContentAmong DEF Follows
  <2> HIDE DEF b, ha
  <2>2. Ends(ha \o <<m>>, {}, {})
    BY <1>6, <2>1, EndsMore
  <2>3. Ends(With(h, UserTurn(rs, content)), {}, {})
    BY <1>1, <1>8, <1>10, <2>2 DEF With, o
  <2>4. QED BY <2>3
<1>11. QED BY <1>7, <1>9, <1>10

\* One message more, in a dialogue.
LEMMA BlocksInMore ==
    ASSUME NEW h, IsList(h), NEW m
    PROVE  BlocksIn(With(h, <<m>>)) = With(BlocksIn(h), <<EventsOfBlocks(m)>>)
<1> DEFINE o == <<m>>
           w == h \o o
           a == BlocksIn(h)
           b == <<EventsOfBlocks(m)>>
           c == BlocksIn(w)
<1>1. IsList(o) /\ DOMAIN o = {1} /\ o[1] = m
  BY One
<1>2. IsList(b) /\ DOMAIN b = {1} /\ b[1] = EventsOfBlocks(m) /\ Over(b, o)
  <2> DEFINE e == EventsOfBlocks(m)
  <2> HIDE DEF e
  <2>1. IsList(<<e>>) /\ DOMAIN <<e>> = {1} /\ <<e>>[1] = e /\ <<e>> = [i \in {1} |-> <<e>>[i]]
    BY One
  <2>2. QED BY <1>1, <2>1 DEF e, Over
<1> HIDE DEF o, b
<1>3. /\ IsList(w)
      /\ \A i \in DOMAIN h : i \in DOMAIN w /\ w[i] = h[i]
      /\ \A i \in DOMAIN o : Len(h) + i \in DOMAIN w /\ w[Len(h) + i] = o[i]
  BY <1>1, Joined, JoinedAt
<1> HIDE DEF w
<1>4. Over(a, h) /\ (\A i \in DOMAIN h : a[i] = EventsOfBlocks(h[i])) /\ Over(c, w) /\ \A i \in DOMAIN w : c[i] = EventsOfBlocks(w[i])
  BY <1>3, BlocksInAre
<1> HIDE DEF a, c
<1>5. (\A i \in DOMAIN h : c[i] = a[i]) /\ \A i \in DOMAIN o : c[Len(h) + i] = b[i]
  BY <1>1, <1>2, <1>3, <1>4
<1>6. c = a \o b
  BY <1>1, <1>2, <1>4, <1>5, MapJoin DEF w
<1>7. QED BY <1>6 DEF With, a, b, c, w, o

\* A user's turn in a dialogue brings the results that are due.
LEMMA MessagesTurnEnds ==
    ASSUME NEW rs, ResultList(rs), NEW content, Parts(content), client = "messages",
           NEW h, Dialogue(h), Rounds(BlocksIn(h), Due(rs))
    PROVE  Rounds(BlocksIn(With(h, UserTurn(rs, content))), {})
<1> DEFINE m == BlockMessage("user", Map(rs, LAMBDA r : Result(r.id, r.texts, FALSE)) \o content)
           e == EventsOfBlocks(m)
           rt == ResultsTold(rs)
           ct == ContentTold(content)
           o == <<m>>
<1>1. UserTurn(rs, content) = o
  BY DEF UserTurn
<1>2. Dialogue(o) /\ DialogueTold(o) = With(rt, ct)
  BY <1>1, MessagesTurnTells
<1>3. IsBlockMessage(m)
  <2>1. o[1] = m /\ 1 \in DOMAIN o
    BY One
  <2> HIDE DEF m, o
  <2>2. QED BY <1>2, <2>1 DEF Dialogue
<1> HIDE DEF m
<1>4. e = With(rt, ct)
  BY <1>2, <1>3, OneDialogue
<1>5. IsList(rt) /\ IsList(ct)
  BY ResultsToldAre, ContentToldIs
<1>6. ResultsAmong(e) = Due(rs) /\ CallsAmong(e) = {}
  <2>1. /\ ResultsAmong(rt) = Due(rs) /\ CallsAmong(rt) = {}
        /\ ResultsAmong(ct) = {} /\ CallsAmong(ct) = {}
    BY ResultsToldAmong, ContentAmong
  <2> HIDE DEF rt, ct, e
  <2>2. QED BY <1>4, <1>5, <2>1, AmongJoin
<1>7. AllAtOnce(Due(rs), e, {})
  BY <1>6 DEF AllAtOnce
<1> HIDE DEF e
<1>8. IsList(h) /\ IsList(BlocksIn(h))
  BY BlocksInAre DEF Dialogue
<1>9. Rounds(With(BlocksIn(h), <<e>>), {})
  BY <1>7, <1>8, RoundsMore
<1>10. QED BY <1>1, <1>8, <1>9, BlocksInMore DEF e, o

\* The items that bring results.
OutputItems(rs) ==
    Map(rs, LAMBDA r : [type |-> "function_call_output", id |-> r.id, output |-> r.output, hasId |-> FALSE])

\* A user's turn in items brings the results that are due.
LEMMA ResponsesTurnEnds ==
    ASSUME NEW rs, ResultList(rs), NEW content, Parts(content), client = "responses",
           NEW sys, IsPrompt(sys), NEW items, IsList(items),
           NEW calls, NEW got, InputEnds(sys, items, calls, got), Stands(calls, got, Due(rs))
    PROVE  \E p : InputEnds(sys, With(items, UserTurn(rs, content)), p, p)
<1> DEFINE a == OutputItems(rs)
           m == [type |-> "message", role |-> "user", content |-> content]
           o == <<m>>
           b == IF content = <<>> THEN <<>> ELSE o
           ha == With(items, a)
<1>1. UserTurn(rs, content) = With(a, b)
  BY DEF UserTurn, OutputItems, With
<1>2. /\ Over(a, rs)
      /\ \A i \in DOMAIN rs : a[i].type = "function_call_output" /\ a[i].id = rs[i].id /\ a[i].output = rs[i].output
  BY DEF OutputItems, Map, Over
<1>3. IsItem(m) /\ m.type = "message"
  BY DEF IsItem
<1> HIDE DEF a, m
<1>4. IsList(a) /\ DOMAIN a = DOMAIN rs
  BY <1>2, Ones DEF ResultList
<1>5. InputEnds(sys, ha, calls, calls) /\ IsList(ha)
  <2>1. Due(rs) \subseteq calls /\ got \cup Due(rs) = calls
    BY DEF Stands
  <2>2. \A k \in DOMAIN a : a[k].type = "function_call_output" /\ IsList(a[k].output) /\ a[k].id \in calls
    BY <1>2, <1>4, <2>1 DEF ResultList, Due
  <2>3. {a[k].id : k \in DOMAIN a} = Due(rs)
    BY <1>2, <1>4 DEF Due
  <2>4. InputEnds(sys, With(items, a), calls, got \cup {a[k].id : k \in DOMAIN a})
    BY <1>4, <2>2, InputEndsOutputs
  <2>5. IsList(ha)
    BY <1>4, WithIs
  <2>6. QED BY <2>1, <2>3, <2>4, <2>5
<1>6. IsList(o) /\ b \in {<<>>, o}
  BY One
<1>7. With(items, With(a, b)) = With(ha, b)
  <2>1. IsList(b)
    BY <1>6, Nothings
  <2> HIDE DEF b
  <2>2. QED BY <1>4, <2>1, WithIs
<1>8. CASE b = <<>>
  BY <1>1, <1>5, <1>7, <1>8, WithIs
<1>9. CASE b = o
  <2> HIDE DEF b, ha
  <2>1. InputEnds(sys, ha \o <<m>>, {}, {})
    BY <1>3, <1>5, InputEndsMessage
  <2>2. InputEnds(sys, With(items, UserTurn(rs, content)), {}, {})
    BY <1>1, <1>7, <1>9, <2>1 DEF With, o
  <2>3. QED BY <2>2
<1>10. QED BY <1>6, <1>8, <1>9

-----------------------------------------------------------------------------
(* An answer leaves its calls due *)

\* The calls of an answer as a set of ids.
LEMMA DueIs ==
    ASSUME NEW calls
    PROVE  Due(calls) = {c.id : c \in ToSet(calls)} /\ Stands(Due(calls), {}, Due(calls))
<1>1. Due(calls) = {c.id : c \in ToSet(calls)}
  BY DEF Due, ToSet
<1>2. Stands(Due(calls), {}, Due(calls))
  BY DEF Stands
<1>3. QED BY <1>1, <1>2

\* An answer in a chat: its calls are due.
LEMMA ChatAnswerEnds ==
    ASSUME NEW got, IsAnswer(got), got.api = "chat", client = "chat",
           NEW h, Conversation(h), NEW p, Ends(h, p, p)
    PROVE  Ends(With(h, AsHistory(got)), Due(CallsOf(got)), {})
<1> DEFINE w == Written(got.content)
           m == ChatMessage("assistant", w, got.calls, NoCall)
<1>1. With(h, AsHistory(got)) = h \o <<m>> /\ CallsOf(got) = got.calls
  BY DEF AsHistory, Written, With, CallsOf
<1>2. IsPrompt(got.content) /\ IsList(got.calls)
  BY DEF IsAnswer
<1>3. Parts(w) /\ \A i \in DOMAIN w : w[i].type = "text"
  BY <1>2, WrittenIs
<1>4. /\ m = ChatMessage(m.role, m.content, m.calls, m.result)
      /\ m.role = "assistant" /\ m.content = w /\ m.calls = got.calls
  BY DEF ChatMessage
<1> HIDE DEF m, w
<1>5. IsTurn(m)
  BY <1>2, <1>3, <1>4 DEF IsTurn
<1>6. ResultsAmong(EventsOfChat(m)) = {} /\ CallsAmong(EventsOfChat(m)) = {c.id : c \in ToSet(m.calls)}
  BY <1>4, <1>5, TurnMarked, ChatMarks
<1>7. Follows(p, p, EventsOfChat(m), Due(got.calls), {})
  BY <1>4, <1>6, DueIs DEF Follows
<1>8. Ends(h \o <<m>>, Due(got.calls), {})
  BY <1>7, EndsMore DEF Conversation
<1>9. QED BY <1>1, <1>8

\* An answer in a dialogue: its calls are due.
LEMMA MessagesAnswerEnds ==
    ASSUME NEW got, IsAnswer(got), got.api = "messages", client = "messages",
           NEW h, Dialogue(h), Rounds(BlocksIn(h), {})
    PROVE  Rounds(BlocksIn(With(h, AsHistory(got))), Due(CallsOf(got)))
<1> DEFINE b == got.blocks
           m == BlockMessage("assistant", b)
           e == EventsOfBlocks(m)
<1>1. AsHistory(got) = <<m>> /\ CallsOf(got) = CallsIn(b)
  BY DEF AsHistory, CallsOf
<1>2. Reply(b)
  BY DEF IsAnswer
<1>3. Worded(b) /\ IsList(b) /\ \A i \in DOMAIN b : b[i].type \notin {"tool_result"}
  BY <1>2, ReplyIs DEF Reply
<1>4. e = Told("assistant", b)
  BY ToldIs
<1> HIDE DEF m, b, e
<1>5. OfType(b, {"tool_result"}) = <<>>
  BY <1>3, OfTypePart
<1>6. ResultsAmong(e) = {} /\ CallsAmong(e) = Due(CallsIn(b))
  <2>1. /\ CallsAmong(e) = {c.id : c \in ToSet(CallsIn(b))}
        /\ ResultsAmong(e) = {x.id : x \in ToSet(OfType(b, {"tool_result"}))}
    BY <1>3, <1>4, ToldAmong
  <2>2. ToSet(<<>>) = {}
    BY DEF ToSet
  <2>3. QED BY <1>5, <2>1, <2>2, DueIs
<1>7. AllAtOnce({}, e, Due(CallsIn(b)))
  BY <1>6 DEF AllAtOnce
<1>8. IsList(h) /\ IsList(BlocksIn(h))
  BY BlocksInAre DEF Dialogue
<1>9. Rounds(With(BlocksIn(h), <<e>>), Due(CallsIn(b)))
  BY <1>7, <1>8, RoundsMore
<1>10. QED BY <1>1, <1>8, <1>9, BlocksInMore DEF e

\* An answer in items: its calls are due.
LEMMA ResponsesAnswerEnds ==
    ASSUME NEW got, IsAnswer(got), got.api = "responses", client = "responses", Faithful,
           NEW sys, IsPrompt(sys), NEW hist, IsList(hist), NEW p, InputEnds(sys, hist, p, p)
    PROVE  \E calls, res : InputEnds(sys, With(hist, AsHistory(got)), calls, res) /\ Stands(calls, res, Due(CallsOf(got)))
<1>1. PICK content, calls : IsPrompt(content) /\ IsList(calls)
                            /\ got.items = Map(content, OutputMessage) \o Map(calls, OutputCall)
  BY DEF IsAnswer
<1> DEFINE items == got.items
           h == AsHistory(got)
           s == Map(content, OutputMessage)
           t == Map(calls, OutputCall)
           b == [i \in DOMAIN t |-> h[Len(s) + i]]
<1>2. /\ Over(s, content) /\ \A i \in DOMAIN content : s[i] = OutputMessage(content[i]) /\ s[i].type = "message"
  BY DEF Map, Over, OutputMessage
<1>3. Over(t, calls) /\ \A i \in DOMAIN calls : t[i].type = "function_call" /\ t[i].call = calls[i]
  BY DEF Map, Over, OutputCall
<1>4. h = Map(items, LAMBDA it : IF it.type = "message" THEN it
                                ELSE [type |-> it.type, call |-> it.call, hasId |-> kept = "as issued"])
  BY DEF AsHistory, Faithful
<1>5. Over(h, items) /\ \A i \in DOMAIN items :
         h[i] = IF items[i].type = "message" THEN items[i]
                ELSE [type |-> items[i].type, call |-> items[i].call, hasId |-> kept = "as issued"]
  BY <1>4 DEF Map, Over
<1>5a. \A i \in DOMAIN items : items[i].type # "message" =>
         h[i].type = items[i].type /\ h[i].call = items[i].call
  <2> SUFFICES ASSUME NEW i \in DOMAIN items, items[i].type # "message"
               PROVE  h[i].type = items[i].type /\ h[i].call = items[i].call
    OBVIOUS
  <2> DEFINE n(v) == [type |-> items[i].type, call |-> items[i].call, hasId |-> v]
  <2>1. h[i] = n(kept = "as issued")
    BY <1>5
  <2> HIDE DEF h, items
  <2>2. \A v : n(v).type = items[i].type /\ n(v).call = items[i].call
    OBVIOUS
  <2> HIDE DEF n
  <2>3. QED BY <2>1, <2>2
<1>6. CallsOf(got) = Map(OfType(items, {"function_call"}), LAMBDA it : it.call)
  BY DEF CallsOf
<1>7. IsList(content)
  BY <1>1, WrittenIs DEF Lists
<1>8. items = s \o t
  BY <1>1
<1> HIDE DEF items, h, s, t
<1>9. IsList(s) /\ IsList(t) /\ DOMAIN s = DOMAIN content /\ DOMAIN t = DOMAIN calls
  BY <1>1, <1>2, <1>3, <1>7, Ones
<1>10. Over(b, t) /\ \A i \in DOMAIN t : b[i] = h[Len(s) + i]
  BY DEF Over
<1> HIDE DEF b
<1>11. /\ \A i \in DOMAIN s : i \in DOMAIN items /\ items[i] = s[i]
       /\ \A i \in DOMAIN t : Len(s) + i \in DOMAIN items /\ items[Len(s) + i] = t[i]
  BY <1>8, <1>9, JoinedAt
<1>12. h = s \o b /\ IsList(b)
  <2>1. \A i \in DOMAIN s : h[i] = s[i]
    BY <1>2, <1>5, <1>9, <1>11
  <2>2. Over(s, s)
    BY <1>9, ListHas DEF Over
  <2>3. Over(h, s \o t)
    BY <1>5, <1>8
  <2>4. QED BY <1>9, <1>10, <2>1, <2>2, <2>3, MapJoin
<1>13. DOMAIN b = DOMAIN calls
  BY <1>9, <1>10, Ones
<1>14. \A i \in DOMAIN b : b[i].type = "function_call" /\ b[i].call = calls[i]
  <2> SUFFICES ASSUME NEW i \in DOMAIN calls PROVE b[i].type = "function_call" /\ b[i].call = calls[i]
    BY <1>13
  <2> DEFINE k == Len(s) + i
  <2>1. b[i] = h[k] /\ k \in DOMAIN items /\ items[k].type = "function_call" /\ items[k].call = calls[i]
    BY <1>3, <1>9, <1>10, <1>11
  <2>2. QED BY <1>5a, <2>1
<1>15. \E q : InputEnds(sys, With(hist, s), q, q) /\ IsList(With(hist, s))
  <2>0. IsList(With(hist, s))
    BY <1>9, WithIs
  <2>1. CASE content = <<>>
    <3>1. s = <<>>
      BY <1>2, <1>7, <2>1, Ones
    <3>2. QED BY <2>0, <3>1, WithIs
  <2>2. ASSUME NEW x, IsList(x), content = <<x>> PROVE \E q : InputEnds(sys, With(hist, s), q, q)
    <3>1. s = <<OutputMessage(x)>>
      <4>1. DOMAIN content = {1} /\ content[1] = x
        BY <2>2, One
      <4>2. Len(s) = 1 /\ s[1] = OutputMessage(x)
        BY <1>2, <1>7, <2>2, <4>1, One, Ones
      <4> DEFINE o == OutputMessage(x)
      <4> HIDE DEF o
      <4>3. IsList(<<o>>) /\ Len(<<o>>) = 1 /\ <<o>>[1] = o
        BY One
      <4>4. \A i \in 1..1 : i = 1
        OBVIOUS
      <4>5. \A i \in 1..Len(s) : s[i] = <<o>>[i]
        BY <4>2, <4>3, <4>4 DEF o
      <4>6. s = <<o>>
        BY <1>9, <4>2, <4>3, <4>5, SameList
      <4>7. QED BY <4>6 DEF o
    <3>2. InputEnds(sys, hist \o <<OutputMessage(x)>>, {}, {})
      BY <2>2, OutputMessageIs, InputEndsMessage
    <3>3. QED BY <3>1, <3>2 DEF With
  <2>3. QED BY <1>1, <2>0, <2>1, <2>2 DEF IsPrompt
<1>16. PICK q : InputEnds(sys, With(hist, s), q, q) /\ IsList(With(hist, s))
  BY <1>15
<1> DEFINE due == {b[k].call.id : k \in DOMAIN b}
<1>17. \E cs, res : InputEnds(sys, With(With(hist, s), b), cs, res) /\ Stands(cs, res, due)
  <2> DEFINE hs == With(hist, s)
  <2>1. InputEnds(sys, hs, q, q) /\ IsList(hs)
    BY <1>16
  <2>2. due = {b[k].call.id : k \in DOMAIN b}
    OBVIOUS
  <2> HIDE DEF hs, due
  <2>3. IsList(b) /\ \A k \in DOMAIN b : b[k].type = "function_call"
    BY <1>12, <1>14
  <2>4. \E cs, res : InputEnds(sys, With(hs, b), cs, res) /\ Stands(cs, res, due)
    BY <2>1, <2>2, <2>3, InputEndsCalls
  <2>5. QED BY <2>4 DEF hs
<1>18. With(With(hist, s), b) = With(hist, h)
  <2>1. With(With(hist, s), b) = With(hist, With(s, b))
    BY <1>9, <1>12, WithIs
  <2>2. With(s, b) = h
    BY <1>12 DEF With
  <2>3. QED BY <2>1, <2>2
<1>19. Due(CallsOf(got)) = due
  <2>1. OfType(items, {"function_call"}) = OfType(s, {"function_call"}) \o OfType(t, {"function_call"})
    BY <1>8, <1>9, OfTypeJoin
  <2>2. OfType(s, {"function_call"}) = <<>> /\ OfType(t, {"function_call"}) = t
    BY <1>2, <1>3, <1>9, OfTypePart
  <2>3. OfType(items, {"function_call"}) = t
    BY <1>9, <2>1, <2>2, Nothings
  <2>4. DOMAIN CallsOf(got) = DOMAIN t /\ \A i \in DOMAIN t : CallsOf(got)[i] = t[i].call
    BY <1>6, <2>3 DEF Map
  <2>5. Due(CallsOf(got)) = {calls[i].id : i \in DOMAIN calls}
    BY <1>3, <1>9, <2>4 DEF Due
  <2>6. QED BY <1>13, <1>14, <2>5
<1>20. QED BY <1>17, <1>18, <1>19 DEF h

-----------------------------------------------------------------------------
(* Calls and results in the exchange *)

\* How the history stands: which calls' results are due at its end.
OnCourse(c, sys, h, due) ==
    /\ c = "chat"      => \E calls, got : Ends(h, calls, got) /\ Stands(calls, got, due)
    /\ c = "messages"  => Rounds(BlocksIn(h), due)
    /\ c = "responses" => \E calls, got : InputEnds(sys, h, calls, got) /\ Stands(calls, got, due)

\* None are at first.
LEMMA NothingDue ==
    ASSUME IsPrompt(system)
    PROVE  OnCourse(client, system, <<>>, Due(<<>>)) /\ Due(<<>>) = {} /\ \A p : Stands(p, p, {})
<1>1. Due(<<>>) = {}
  BY DEF Due
<1>2. \A p : Stands(p, p, {})
  BY DEF Stands
<1>3. Ends(<<>>, {}, {}) /\ InputEnds(system, <<>>, {}, {}) /\ Rounds(<<>>, {})
  BY EndsNone, InputEndsNone, RoundsNone
<1>4. BlocksIn(<<>>) = <<>>
  BY DEF BlocksIn, Map
<1>5. OnCourse(client, system, <<>>, {})
  BY <1>2, <1>3, <1>4 DEF OnCourse
<1>6. QED BY <1>1, <1>2, <1>5

\* A user's turn brings what is due.
LEMMA UserOnCourse ==
    ASSUME client \in ClientApis, IsPrompt(system), Shaped(client, history),
           NEW rs, ResultList(rs), NEW content, Parts(content), OnCourse(client, system, history, Due(rs))
    PROVE  OnCourse(client, system, With(history, UserTurn(rs, content)), {})
<1> DEFINE w == With(history, UserTurn(rs, content))
<1>1. \A p : Stands(p, p, {})
  BY NothingDue
<1>2. CASE client = "chat"
  <2>1. PICK calls, got : Ends(history, calls, got) /\ Stands(calls, got, Due(rs))
    BY <1>2 DEF OnCourse
  <2>2. Conversation(history)
    BY <1>2 DEF Shaped
  <2>3. \E p : Ends(w, p, p)
    BY <1>2, <2>1, <2>2, ChatTurnEnds
  <2> HIDE DEF w
  <2>4. QED BY <1>1, <1>2, <2>3 DEF OnCourse, w
<1>3. CASE client = "messages"
  <2>1. Rounds(BlocksIn(history), Due(rs)) /\ Dialogue(history)
    BY <1>3 DEF OnCourse, Shaped
  <2>2. Rounds(BlocksIn(w), {})
    BY <1>3, <2>1, MessagesTurnEnds
  <2>3. QED BY <1>3, <2>2 DEF OnCourse
<1>4. CASE client = "responses"
  <2>1. PICK calls, got : InputEnds(system, history, calls, got) /\ Stands(calls, got, Due(rs))
    BY <1>4 DEF OnCourse
  <2>2. IsList(history)
    BY <1>4 DEF Shaped, KeptItems
  <2>3. \E p : InputEnds(system, w, p, p)
    BY <1>4, <2>1, <2>2, ResponsesTurnEnds
  <2> HIDE DEF w
  <2>4. QED BY <1>1, <1>4, <2>3 DEF OnCourse, w
<1>5. QED BY <1>2, <1>3, <1>4 DEF ClientApis

\* An answer leaves its calls due.
LEMMA AnswerOnCourse ==
    ASSUME client \in ClientApis, IsPrompt(system), Shaped(client, history), Faithful,
           NEW got, IsAnswer(got), got.api = client, OnCourse(client, system, history, {})
    PROVE  OnCourse(client, system, With(history, AsHistory(got)), Due(CallsOf(got)))
<1> DEFINE w == With(history, AsHistory(got))
           due == Due(CallsOf(got))
<1>1. Stands(due, {}, due)
  BY DueIs
<1>2. \A calls, res : Stands(calls, res, {}) => calls = res
  BY DEF Stands
<1>3. CASE client = "chat"
  <2>1. PICK p : Ends(history, p, p)
    BY <1>2, <1>3 DEF OnCourse
  <2>2. Conversation(history)
    BY <1>3 DEF Shaped
  <2>3. Ends(w, due, {})
    BY <1>3, <2>1, <2>2, ChatAnswerEnds
  <2>4. QED BY <1>1, <1>3, <2>3 DEF OnCourse
<1>4. CASE client = "messages"
  <2>1. Rounds(BlocksIn(history), {}) /\ Dialogue(history)
    BY <1>4 DEF OnCourse, Shaped
  <2>2. Rounds(BlocksIn(w), due)
    BY <1>4, <2>1, MessagesAnswerEnds
  <2>3. QED BY <1>4, <2>2 DEF OnCourse
<1>5. CASE client = "responses"
  <2>1. PICK p : InputEnds(system, history, p, p)
    BY <1>2, <1>5 DEF OnCourse
  <2>2. IsList(history) /\ Faithful
    BY <1>5 DEF Shaped, KeptItems
  <2>3. \E calls, res : InputEnds(system, w, calls, res) /\ Stands(calls, res, due)
    BY <1>5, <2>1, <2>2, ResponsesAnswerEnds
  <2> HIDE DEF w, due
  <2>4. QED BY <1>5, <2>3 DEF OnCourse, w, due
<1>6. QED BY <1>3, <1>4, <1>5 DEF ClientApis

\* The calls that are awaited are those that are due at the end of the history.
CInv ==
    /\ phase \in {"asked", "sent"} => awaited = <<>>
    /\ phase # "unreadable" /\ Faithful => OnCourse(client, system, history, Due(awaited))

\* So it is at first.
LEMMA CourseInit == Init => CInv
<1> SUFFICES ASSUME Init PROVE CInv
  OBVIOUS
<1>1. IsPrompt(system) /\ history = <<>> /\ awaited = <<>>
  BY ExchangeInit DEF Init, EInv
<1>2. QED BY <1>1, NothingDue DEF CInv

\* The client's turn keeps that.
LEMMA SpeakingStays == ASSUME EInv, CInv, ClientSpeaks PROVE CInv'
<1>1. PICK order \in ResultOrders, output \in Outputs, content \in Contents : history' = history \o UserTurn(Results(order, output), content)
  BY DEF ClientSpeaks, Contents
<1> DEFINE rs == Results(order, output)
<1>2. /\ client' = client /\ system' = system /\ kept' = kept /\ awaited' = <<>> /\ phase = "client"
      /\ client \in ClientApis /\ IsPrompt(system) /\ Shaped(client, history) /\ IsList(awaited)
  BY Apis DEF ClientSpeaks, EInv
<1>3. ResultList(rs) /\ Parts(content) /\ Due(rs) = Due(awaited)
  BY <1>2, ResultsAreList, ResultsAreDue, ContentIs
<1>4. history' = With(history, UserTurn(rs, content))
  BY <1>1 DEF With
<1> HIDE DEF rs
<1>5. ASSUME Faithful PROVE OnCourse(client, system, history', {})
  <2>1. OnCourse(client, system, history, Due(rs))
    BY <1>2, <1>3, <1>5 DEF CInv
  <2>2. QED BY <1>2, <1>3, <1>4, <2>1, UserOnCourse
<1>6. Faithful' = Faithful
  BY <1>2 DEF Faithful
<1>7. Due(awaited') = {}
  BY <1>2, NothingDue
<1>8. QED BY <1>2, <1>5, <1>6, <1>7 DEF CInv

\* So do a request and its failure.
LEMMA SendingStays == ASSUME CInv, Send \/ Fail PROVE CInv'
<1>1. /\ client' = client /\ system' = system /\ kept' = kept /\ history' = history /\ awaited' = awaited
      /\ phase \in {"asked", "sent"}
  BY DEF Send, Fail
<1>2. Faithful' = Faithful
  BY <1>1 DEF Faithful
<1>3. QED BY <1>1, <1>2 DEF CInv

\* An answer is read as one of the client's API, or not at all.
LEMMA AnswerRead ==
    ASSUME EInv, Answer
    PROVE  \/ phase' = "unreadable"
           \/ \E got : /\ IsAnswer(got) /\ got.api = client /\ phase' = "client"
                       /\ history' = With(history, AsHistory(got)) /\ awaited' = CallsOf(got)
<1>a. PICK shape \in Shapes : \E a \in AnswersOf(request.api, shape) :
        IF AnswerConverts(a, client)
        THEN LET got == ConvertedAnswer(a, client)
             IN  /\ history' = history \o AsHistory(got)
                 /\ awaited' = CallsOf(got)
                 /\ phase' = "client"
        ELSE phase' = "unreadable"
  BY DEF Answer
<1>1. PICK a \in AnswersOf(request.api, shape) :
        IF AnswerConverts(a, client)
        THEN LET got == ConvertedAnswer(a, client)
             IN  /\ history' = history \o AsHistory(got)
                 /\ awaited' = CallsOf(got)
                 /\ phase' = "client"
        ELSE phase' = "unreadable"
  BY <1>a
<1> DEFINE got == ConvertedAnswer(a, client)
<1>2. client \in ClientApis /\ phase = "sent"
  BY Apis DEF EInv, Answer
<1>3. PICK api \in Open : Converts(ClientRequest, api) /\ request = Converted(ClientRequest, api)
  BY <1>2 DEF EInv
<1>4. request.api = api
  BY <1>2, <1>3, ClientRequestIs, ConvertedTo
<1>5. api \in {"chat", "messages", "responses", "converse"} /\ (api = "responses" => client = "responses")
  BY Apis
<1>6. Answered(a, api)
  <2>1. shape \in Seq({"text", "thinking", "use", "broken"})
    BY ExchangeAssumption
  <2>2. QED BY <1>1, <1>4, <1>5, <2>1, AnswersAre DEF Answered
<1>7. IsAnswer(got) /\ got.api = client
  BY <1>2, <1>5, <1>6, ConvertedIs DEF AnswersLike, Answered, ClientApis
<1>8. CASE AnswerConverts(a, client)
  <2> HIDE DEF got
  <2>1. history' = With(history, AsHistory(got)) /\ awaited' = CallsOf(got) /\ phase' = "client"
    BY <1>1, <1>8 DEF got, With
  <2>2. QED BY <1>7, <2>1
<1>9. QED BY <1>1, <1>8

\* So does an answer.
LEMMA AnswerStays == ASSUME EInv, CInv, Answer PROVE CInv'
<1>1. /\ client' = client /\ system' = system /\ kept' = kept /\ phase = "sent"
      /\ client \in ClientApis /\ IsPrompt(system) /\ Shaped(client, history)
  BY Apis DEF Answer, EInv
<1>2. Faithful' = Faithful
  BY <1>1 DEF Faithful
<1>3. CASE phase' = "unreadable"
  BY <1>3 DEF CInv
<1>4. ASSUME NEW got, IsAnswer(got), got.api = client, phase' = "client",
             history' = With(history, AsHistory(got)), awaited' = CallsOf(got)
      PROVE  CInv'
  <2>1. ASSUME Faithful PROVE OnCourse(client, system, history', Due(awaited'))
    <3>1. OnCourse(client, system, history, {})
      BY <1>1, <2>1, NothingDue DEF CInv
    <3>2. QED BY <1>1, <1>4, <2>1, <3>1, AnswerOnCourse
  <2>2. QED BY <1>1, <1>2, <1>4, <2>1 DEF CInv
<1>5. QED BY <1>3, <1>4, AnswerRead

\* Requests of a chat.
LEMMA ChatRequestTogether ==
    ASSUME NEW sys, IsPrompt(sys), NEW h, Conversation(h), NEW p, Ends(h, p, p),
           NEW r, r.messages = Map(sys, SystemMessage) \o h
    PROVE  Together(r.messages) /\ Together(ChatToMessages(r).messages) /\ Together(ChatToConverse(r).messages)
<1>1. Turns(r.messages) = h
  BY ConversationSpeaks, ChatTells
<1>2. ChatToMessages(r).messages = Map(h, MessagesMessage) /\ ChatToConverse(r).messages = Map(h, BedrockMessage)
  BY <1>1 DEF ChatToMessages, ChatToConverse
<1>3. QED BY <1>2, ConversationTogether

\* A history with nothing due becomes requests in which results follow their calls.
LEMMA RequestTogether ==
    ASSUME EInv, Faithful, phase = "sent", OnCourse(client, system, history, {}),
           request.api # "responses", kept # "as issued"
    PROVE  Together(request.messages)
<1> DEFINE r == ClientRequest
<1>1. PICK api \in Open : Converts(r, api) /\ request = Converted(r, api)
  BY DEF EInv
<1>2. /\ client \in ClientApis /\ api \in {"chat", "messages", "responses", "converse"}
      /\ IsPrompt(system) /\ Shaped(client, history) /\ PlainItems(client, history, kept)
  BY Apis DEF EInv
<1>3. request.api = api
  BY <1>1, <1>2, ClientRequestIs, ConvertedTo
<1>4. \A calls, got : Stands(calls, got, {}) => calls = got
  BY DEF Stands
<1>5. CASE client = "chat"
  <2>1. PICK p : Ends(history, p, p)
    BY <1>4, <1>5 DEF OnCourse
  <2>2. Conversation(history)
    BY <1>2, <1>5 DEF Shaped
  <2>3. r.api = "chat" /\ r.messages = Map(system, SystemMessage) \o history
    BY <1>5 DEF ClientRequest
  <2> HIDE DEF r
  <2>4. Together(r.messages) /\ Together(ChatToMessages(r).messages) /\ Together(ChatToConverse(r).messages)
    BY <1>2, <2>1, <2>2, <2>3, ChatRequestTogether
  <2>5. request \in {r, ChatToMessages(r), ChatToConverse(r)}
    BY <1>1, <1>2, <1>3, <2>3 DEF Converted
  <2>6. QED BY <2>4, <2>5
<1>6. CASE client = "messages"
  <2>1. Dialogue(history) /\ Rounds(BlocksIn(history), {})
    BY <1>2, <1>6 DEF OnCourse, Shaped
  <2>2. r.api = "messages" /\ r.system = system /\ r.messages = history
    BY <1>6 DEF ClientRequest
  <2> HIDE DEF r
  <2>3. request \in {r, MessagesToChat(r), MessagesToConverse(r)}
    BY <1>1, <1>2, <1>3, <2>2 DEF Converted
  <2>4. /\ Together(history) /\ Together(Map(history, MessagesToBedrockMessage))
        /\ Together(Map(system, SystemMessage) \o FlattenSeq(Map(history, ChatMessages)))
    BY <1>2, <2>1, RoundsTogether
  <2>5. /\ MessagesToChat(r).messages = Map(system, SystemMessage) \o FlattenSeq(Map(history, ChatMessages))
        /\ MessagesToConverse(r).messages = Map(history, MessagesToBedrockMessage)
    BY <2>2 DEF MessagesToChat, MessagesToConverse
  <2>6. QED BY <2>2, <2>3, <2>4, <2>5
<1>7. CASE client = "responses"
  <2> DEFINE to == ResponsesToChat(r)
  <2>1. PICK p : InputEnds(system, history, p, p)
    BY <1>4, <1>7 DEF OnCourse
  <2>2. PICK h : /\ MessagesOfInput(Map(system, SystemMessage), history) = With(Map(system, SystemMessage), h)
                 /\ Conversation(h) /\ Ends(h, p, p)
    BY <2>1 DEF InputEnds
  <2>3. r.api = "responses" /\ r.system = system /\ r.items = Map(history, ReadItem)
    BY <1>7 DEF ClientRequest
  <2>4. Map(history, ReadItem) = history
    BY <1>2, <1>7, ReadItems DEF Shaped
  <2> HIDE DEF r
  <2>5. to.messages = Map(system, SystemMessage) \o h
    BY <2>2, <2>3, <2>4 DEF ResponsesToChat, With
  <2>6. request \in {to, ChatToMessages(to), ChatToConverse(to)}
    BY <1>1, <1>2, <1>3, <2>3 DEF Converted
  <2> HIDE DEF to
  <2>7. Together(to.messages) /\ Together(ChatToMessages(to).messages) /\ Together(ChatToConverse(to).messages)
    BY <1>2, <2>2, <2>5, ChatRequestTogether
  <2>8. QED BY <2>6, <2>7
<1>8. QED BY <1>2, <1>5, <1>6, <1>7 DEF ClientApis

\* ResultsFollowTheirCalls, for any conversation: in whatever order its tools
\* were done and whatever the APIs of its earlier answers, an upstream is sent
\* the results of an answer's calls right after them, all of them, and no other,
\* unless they are items of Responses that come back as they were issued.
THEOREM ResultsStayWithCalls ==
    ASSUME "responses" \in Clients => "by plano" \notin Keeping
    PROVE  Spec => []ResultsFollowTheirCalls
<1>1. Init => CInv
  BY CourseInit
<1>2. EInv /\ CInv /\ [Next]_vars => CInv'
  <2> SUFFICES ASSUME EInv, CInv, [Next]_vars PROVE CInv'
    OBVIOUS
  <2>1. CASE UNCHANGED vars
    BY <2>1 DEF vars, CInv, Faithful
  <2>2. QED BY <2>1, SpeakingStays, SendingStays, AnswerStays DEF Next
<1>3. EInv /\ CInv => ResultsFollowTheirCalls
  <2> SUFFICES ASSUME EInv, CInv, phase = "sent", request.api # "responses", kept # "as issued"
               PROVE  Together(request.messages)
    BY DEF ResultsFollowTheirCalls, Together
  <2>1. Faithful
    BY DEF Faithful, EInv
  <2>2. OnCourse(client, system, history, {})
    BY <2>1, NothingDue DEF CInv, EInv
  <2>3. QED BY <2>1, <2>2, RequestTogether
<1>4. QED BY <1>1, <1>2, <1>3, ExchangeInvariance, PTL DEF Spec

=============================================================================
