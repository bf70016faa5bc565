--------------------------- MODULE LlmChatProofs ---------------------------
(***************************************************************************)
(* What holds of LlmChat for any number of requests, models, aliases and   *)
(* sessions.  The inductive invariant says of each request where it stands *)
(* in its candidate list and which models it has tried.  The second part   *)
(* is about StreamTask, by which an answer reaches the client, and the     *)
(* third about Signals, which is what the task's end has looked for in the *)
(* conversation.                                                           *)
(***************************************************************************)
EXTENDS LlmChat, StreamTask, Signals, FiniteSetTheorems, SequenceTheorems, WellFoundedInduction,
        TLAPS

PoolOf(q) ==
    IF q.chosen # NoModel THEN {q.chosen}
    ELSE IF q.asked # NoAlias THEN Candidates(q.asked) ELSE {}

\* The first n candidates of a request.
Taken(q, n) == {q.order[i] : i \in 1..n}

\* The candidate list is a permutation of the pool, and no model comes after
\* one that was in worse health when they were ordered.
WellOrdered(q) ==
    /\ Len(q.order) >= 1
    /\ {q.order[i] : i \in 1..Len(q.order)} = PoolOf(q)
    /\ \A i, j \in 1..Len(q.order) : q.order[i] = q.order[j] => i = j
    /\ q.chosen = NoModel =>
          /\ q.healthy \subseteq PoolOf(q)
          /\ \A i, j \in 1..Len(q.order) :
                q.order[j] \in q.healthy /\ q.order[i] \notin q.healthy => j < i

Good(q) ==
    /\ q.pc \in {"idle", "parse", "decide"} =>
          /\ q.pos = 0 /\ q.failed = {} /\ q.chosen = NoModel /\ q.outcome = "none"
    /\ q.pc = "route" =>
          /\ q.pos = 0 /\ q.failed = {} /\ q.chosen = NoModel /\ q.outcome = "none"
          /\ WellOrdered(q)
    /\ q.pc = "send" =>
          /\ q.pos \in 0..Len(q.order) - 1 /\ q.outcome = "none"
          /\ q.failed = Taken(q, q.pos)
          /\ WellOrdered(q)
    /\ q.pc = "await" =>
          /\ q.pos \in 1..Len(q.order) /\ q.outcome = "none"
          /\ q.failed = Taken(q, q.pos - 1)
          /\ WellOrdered(q)
    /\ q.pc = "done" /\ ( \/ q.outcome = "unreachable"
                          \/ q.outcome = "relayed" /\ q.status \in DocumentedRetryable )
          => q.failed = PoolOf(q)

IInv == TypeOK /\ \A r \in Request : Good(req[r])

-----------------------------------------------------------------------------

\* What order_candidates returns is a permutation of its argument, available
\* models first.
LEMMA OrderProperties ==
    ASSUME NEW C \in SUBSET Model, NEW s \in OrderCandidates(C)
    PROVE  /\ s \in Seq(Model)
           /\ C # {} => Len(s) >= 1
           /\ {s[i] : i \in 1..Len(s)} = C
           /\ \A i, j \in 1..Len(s) : s[i] = s[j] => i = j
           /\ \A i, j \in 1..Len(s) : IsAvailable(s[j]) /\ ~IsAvailable(s[i]) => j < i
<1> DEFINE n == Cardinality(C)
<1>1. IsFiniteSet(C)
  BY LlmChatAssumption, FS_Subset
<1>2. n \in Nat
  BY <1>1, FS_CardinalityType
<1> HIDE DEF n
<1>3. /\ s \in [1..n -> C]
      /\ \A i, j \in 1..n : s[i] = s[j] => i = j
      /\ \A m \in C : \E i \in 1..n : s[i] = m
      /\ \A i, j \in 1..n : IsAvailable(s[j]) /\ ~IsAvailable(s[i]) => j < i
  BY DEF OrderCandidates, Bijection, Injection, Surjection, IsInjective, n
<1>4. s \in Seq(C) /\ Len(s) = n
  BY <1>2, <1>3
<1>5. s \in Seq(Model)
  BY <1>2, <1>3
<1>6. C # {} => n >= 1
  BY <1>2, <1>3
<1>7. {s[i] : i \in 1..n} = C
  BY <1>3
<1> QED
  BY <1>3, <1>4, <1>5, <1>6, <1>7

LEMMA InitGood == Init => IInv
<1> SUFFICES ASSUME Init PROVE IInv
  OBVIOUS
<1>1. NoRequest \in Requests
  BY DEF NoRequest, Requests
<1>2. TypeOK
  BY <1>1, CooldownAssumption DEF Init, HealthInit, TypeOK, CooldownType,
                                   Cache!CacheInit, Cache!CacheType
<1>3. Good(NoRequest)
  BY DEF NoRequest, Good
<1> QED
  BY <1>2, <1>3 DEF Init, IInv

\* The cooldowns keep their type under every operation of the tracker.
LEMMA CooldownsTyped ==
    ASSUME CooldownType,
           \/ UNCHANGED cooldowns
           \/ Elapse
           \/ \E m \in Model : MarkHealthy(m)
           \/ \E m \in Model, ra \in RetryAfters \cup {NoRetryAfter} : MarkUnhealthy(m, ra)
    PROVE  CooldownType'
<1> USE CooldownAssumption, LlmChatAssumption DEF CooldownType
<1>1. CASE UNCHANGED cooldowns
  BY <1>1
<1>2. CASE Elapse
  BY <1>2 DEF Elapse, IsAvailable
<1>3. CASE \E m \in Model : MarkHealthy(m)
  BY <1>3 DEF MarkHealthy
<1>4. CASE \E m \in Model, ra \in RetryAfters \cup {NoRetryAfter} : MarkUnhealthy(m, ra)
  <2>1. PICK m \in Model, ra \in RetryAfters \cup {NoRetryAfter} : MarkUnhealthy(m, ra)
    BY <1>4
  <2>2. (IF ra = NoRetryAfter THEN DefaultCooldown ELSE ra) \in Nat
    OBVIOUS
  <2>3. Lesser(IF ra = NoRetryAfter THEN DefaultCooldown ELSE ra, MaxCooldown) \in 0..MaxCooldown
    BY <2>2 DEF Lesser
  <2> QED
    BY <2>1, <2>3 DEF MarkUnhealthy
<1> QED
  BY <1>1, <1>2, <1>3, <1>4

\* An attempt under way is made with a model of the pool that has not failed.
LEMMA CurrentInPool ==
    ASSUME IInv, NEW r \in Request, req[r].pc = "await"
    PROVE  /\ Current(r) \in Model
           /\ Current(r) \in PoolOf(req[r])
           /\ Current(r) \notin req[r].failed
<1> DEFINE q == req[r]
<1>1. q \in Requests /\ Good(q)
  BY DEF IInv, TypeOK
<1>2. q.order \in Seq(Model) /\ q.pos \in 1..Len(q.order) /\ WellOrdered(q)
      /\ q.failed = Taken(q, q.pos - 1)
  BY <1>1 DEF Good, Requests
<1>3. q.order[q.pos] \in Model
  BY <1>2
<1>4. q.order[q.pos] \in PoolOf(q)
  BY <1>2 DEF WellOrdered
<1>5. q.order[q.pos] \notin Taken(q, q.pos - 1)
  BY <1>2 DEF WellOrdered, Taken
<1> QED
  BY <1>2, <1>3, <1>4, <1>5 DEF Current


\* A step that changes one request only needs to be looked at there.
LEMMA OneRequestChanges ==
    ASSUME IInv, NEW r \in Request,
           req' = [req EXCEPT ![r] = req'[r]],
           req'[r] \in Requests, Good(req'[r]),
           CooldownType', Cache!CacheType'
    PROVE  IInv'
<1>1. req' \in [Request -> Requests]
  BY DEF IInv, TypeOK
<1>2. \A x \in Request : req'[x] = IF x = r THEN req'[r] ELSE req[x]
  BY DEF IInv, TypeOK
<1>3. (\A x \in Request : Good(req[x]))'
  BY <1>2 DEF IInv
<1> QED
  BY <1>1, <1>3 DEF IInv, TypeOK, Cache!CacheType

\* Pins stay models, whatever is put, lost or found.
LEMMA CacheTyped ==
    ASSUME Cache!CacheType
    PROVE  /\ \A s \in Session \cup {NoSession}, m \in Model :
                 CacheRoute(s, m) => Cache!CacheType'
           /\ \A lost : Cache!Forget(lost) => Cache!CacheType'
           /\ \A s \in Session \cup {NoSession} :
                 GetCachedRoute(s) \subseteq Model \cup {NoModel}
<1>1. ASSUME NEW s \in Session \cup {NoSession}, NEW m \in Model, CacheRoute(s, m)
      PROVE  Cache!CacheType'
  <2>1. CASE UNCHANGED pins
    BY <2>1 DEF Cache!CacheType
  <2>2. CASE \E lost \in SUBSET Session : Cache!Store(s, m, lost)
    BY <2>2 DEF Cache!CacheType, Cache!Store
  <2> QED
    BY <1>1, <2>1, <2>2 DEF CacheRoute, Cache!Put
<1>2. ASSUME NEW lost, Cache!Forget(lost)
      PROVE  Cache!CacheType'
  BY <1>2 DEF Cache!CacheType, Cache!Forget
<1>3. ASSUME NEW s \in Session \cup {NoSession}
      PROVE  GetCachedRoute(s) \subseteq Model \cup {NoModel}
  BY DEF GetCachedRoute, Cache!Lookups, Cache!CacheType
<1> QED
  BY <1>1, <1>2, <1>3

\* What a response leaves of a request.
LEMMA RespondTyped ==
    ASSUME req \in [Request -> Requests], NEW r \in Request, NEW code \in Nat,
           NEW kind \in {"none", "relayed", "unreachable", "rejected", "decided"},
           Respond(r, kind, code)
    PROVE  /\ req' = [req EXCEPT ![r] = req'[r]]
           /\ req'[r] \in Requests
           /\ req'[r].pc = "done" /\ req'[r].outcome = kind /\ req'[r].status = code
           /\ req'[r].failed = req[r].failed /\ PoolOf(req'[r]) = PoolOf(req[r])
<1> DEFINE q == req[r]
<1> DEFINE q2 == [q EXCEPT !.pc = "done", !.outcome = kind, !.status = code]
<1>1. q \in Requests
  OBVIOUS
<1>2. req'[r] = q2 /\ req' = [req EXCEPT ![r] = q2]
  BY DEF Respond
<1> HIDE DEF q
<1>3. q2 \in Requests
  BY <1>1 DEF Requests
<1>4. /\ q2.pc = "done" /\ q2.outcome = kind /\ q2.status = code
      /\ q2.failed = q.failed /\ q2.chosen = q.chosen /\ q2.asked = q.asked
  BY <1>1 DEF Requests
<1> HIDE DEF q2
<1>5. PoolOf(q2) = PoolOf(q)
  BY <1>4 DEF PoolOf
<1> QED
  BY <1>2, <1>3, <1>4, <1>5 DEF q

\* A field of a request given another of its values leaves a request.
LEMMA RequestFed ==
    ASSUME NEW q \in Requests
    PROVE  /\ [q EXCEPT !.pc = "parse"] \in Requests
           /\ [q EXCEPT !.pc = "send"] \in Requests
           /\ [q EXCEPT !.pc = "done"] \in Requests
           /\ [q EXCEPT !.outcome = "decided"] \in Requests
           /\ [q EXCEPT !.status = 200] \in Requests
           /\ \A s \in Session \cup {NoSession} : [q EXCEPT !.session = s] \in Requests
           /\ \A b \in BOOLEAN : [q EXCEPT !.internal = b] \in Requests
           /\ \A m \in Model \cup {NoModel} : [q EXCEPT !.pinned = m] \in Requests
           /\ \A m \in Model \cup {NoModel} : [q EXCEPT !.chosen = m] \in Requests
           /\ \A o \in Seq(Model) : [q EXCEPT !.order = o] \in Requests
<1>1. [q EXCEPT !.pc = "parse"] \in Requests
  BY DEF Requests
<1>2. [q EXCEPT !.pc = "send"] \in Requests
  BY DEF Requests
<1>3. [q EXCEPT !.pc = "done"] \in Requests
  BY DEF Requests
<1>4. [q EXCEPT !.outcome = "decided"] \in Requests
  BY DEF Requests
<1>5. [q EXCEPT !.status = 200] \in Requests
  BY DEF Requests
<1>6. ASSUME NEW s \in Session \cup {NoSession} PROVE [q EXCEPT !.session = s] \in Requests
  BY DEF Requests
<1>7. ASSUME NEW b \in BOOLEAN PROVE [q EXCEPT !.internal = b] \in Requests
  BY DEF Requests
<1>8. ASSUME NEW m \in Model \cup {NoModel} PROVE [q EXCEPT !.pinned = m] \in Requests
  BY DEF Requests
<1>9. ASSUME NEW m \in Model \cup {NoModel} PROVE [q EXCEPT !.chosen = m] \in Requests
  BY DEF Requests
<1>10. ASSUME NEW o \in Seq(Model) PROVE [q EXCEPT !.order = o] \in Requests
  BY DEF Requests
<1> QED
  BY <1>1, <1>2, <1>3, <1>4, <1>5, <1>6, <1>7, <1>8, <1>9, <1>10

\* A chat request that is received is a request.
LEMMA Received ==
    ASSUME NEW q \in Requests, NEW s \in Session \cup {NoSession},
           NEW internal \in BOOLEAN, NEW m \in Model \cup {NoModel},
           NEW t, t = [q EXCEPT !.pc = "parse", !.session = s, !.internal = internal,
                                !.pinned = m]
    PROVE  t \in Requests
<1> DEFINE a == [q EXCEPT !.pc = "parse"]
           b == [a EXCEPT !.session = s]
           c == [b EXCEPT !.internal = internal]
           d == [c EXCEPT !.pinned = m]
<1>1. a \in Requests
  BY RequestFed
<1>2. b \in Requests
  BY <1>1, RequestFed
<1>3. c \in Requests
  BY <1>2, RequestFed
<1>4. d \in Requests
  BY <1>3, RequestFed
<1>5. QED
  BY <1>4

\* What the steps make of a request is one.
LEMMA RequestsFed ==
    ASSUME NEW q \in Requests,
           NEW s \in Session \cup {NoSession}, NEW m \in Model \cup {NoModel}
    PROVE  /\ \A order \in Seq(Model) :
                 [q EXCEPT !.pc = "send", !.order = order, !.chosen = m] \in Requests
           /\ [q EXCEPT !.pc = "done", !.session = s, !.pinned = m, !.chosen = m,
                        !.outcome = "decided", !.status = 200] \in Requests
           /\ [q EXCEPT !.pc = "done", !.chosen = m, !.outcome = "decided",
                        !.status = 200] \in Requests
<1>1. ASSUME NEW order \in Seq(Model)
      PROVE  [q EXCEPT !.pc = "send", !.order = order, !.chosen = m] \in Requests
  <2> DEFINE a == [q EXCEPT !.pc = "send"]
             b == [a EXCEPT !.order = order]
             c == [b EXCEPT !.chosen = m]
  <2>1. a \in Requests
    BY RequestFed
  <2>2. b \in Requests
    BY <2>1, RequestFed
  <2>3. c \in Requests
    BY <2>2, RequestFed
  <2>4. QED
    BY <2>3
<1>2. ASSUME NEW p \in Requests
      PROVE  [p EXCEPT !.pc = "done", !.chosen = m, !.outcome = "decided",
                       !.status = 200] \in Requests
  <2> DEFINE a == [p EXCEPT !.pc = "done"]
             b == [a EXCEPT !.chosen = m]
             c == [b EXCEPT !.outcome = "decided"]
             d == [c EXCEPT !.status = 200]
  <2>1. a \in Requests
    BY RequestFed
  <2>2. b \in Requests
    BY <2>1, RequestFed
  <2>3. c \in Requests
    BY <2>2, RequestFed
  <2>4. d \in Requests
    BY <2>3, RequestFed
  <2>5. QED
    BY <2>4
<1>3. [q EXCEPT !.pc = "done", !.session = s, !.pinned = m, !.chosen = m,
               !.outcome = "decided", !.status = 200] \in Requests
  <2> DEFINE a == [q EXCEPT !.session = s]
             b == [a EXCEPT !.pinned = m]
             c == [b EXCEPT !.pc = "done", !.chosen = m, !.outcome = "decided",
                            !.status = 200]
  <2>1. a \in Requests
    BY RequestFed
  <2>2. b \in Requests
    BY <2>1, RequestFed
  <2>3. c \in Requests
    BY <2>2, <1>2
  <2>4. QED
    BY <2>3
<1> QED
  BY <1>1, <1>2, <1>3

\* The steps of llm_chat before the attempt loop keep the invariant.
LEMMA BeforeAttempts ==
    ASSUME IInv, NEW r \in Request,
           \/ ReceiveChat(r) \/ Parse(r) \/ UnknownModel(r) \/ Abandon(r)
           \/ UsePin(r) \/ RouteTo(r) \/ NoRoute(r)
    PROVE  IInv'
<1> DEFINE q == req[r]
<1> DEFINE q2 == req'[r]
<1>1. /\ q \in Requests /\ Good(q) /\ Cache!CacheType /\ CooldownType
      /\ req \in [Request -> Requests]
  BY DEF IInv, TypeOK, Cache!CacheType
<1>2. UNCHANGED cooldowns => CooldownType'
  BY <1>1 DEF CooldownType
<1>3. UNCHANGED pins => Cache!CacheType'
  BY <1>1 DEF Cache!CacheType
<1>4. CASE ReceiveChat(r)
  <2>1. PICK s \in Session \cup {NoSession}, internal \in BOOLEAN :
          \E found \in (IF internal THEN {NoModel} ELSE GetCachedRoute(s)) :
              req' = [req EXCEPT ![r].pc = "parse", ![r].session = s,
                                 ![r].internal = internal, ![r].pinned = found]
    BY <1>4 DEF ReceiveChat
  <2>2. PICK found \in Model \cup {NoModel} :
          req' = [req EXCEPT ![r].pc = "parse", ![r].session = s,
                             ![r].internal = internal, ![r].pinned = found]
    BY <1>1, <2>1, CacheTyped
  <2>3. /\ q2 = [q EXCEPT !.pc = "parse", !.session = s, !.internal = internal,
                          !.pinned = found]
        /\ req' = [req EXCEPT ![r] = q2]
    BY <1>1, <2>2
  <2>typed. q2 \in Requests
    <3> HIDE DEF q, q2
    <3> QED
      BY <1>1, <2>3, Received
  <2>4. Good(q2)
    BY <1>1, <1>4, <2>2 DEF Good, Requests, ReceiveChat
  <2> QED
    BY <1>2, <1>3, <1>4, <2>3, <2>typed, <2>4, OneRequestChanges DEF ReceiveChat
<1>5. CASE Parse(r)
  <2>0. PICK a \in Alias :
          /\ Candidates(a) # {}
          /\ \E s \in OrderCandidates(Candidates(a)) :
               req' = [req EXCEPT ![r].pc = "route", ![r].asked = a, ![r].order = s,
                                  ![r].healthy = {m \in Candidates(a) : IsAvailable(m)}]
    BY <1>5 DEF Parse
  <2>1. PICK s \in OrderCandidates(Candidates(a)) :
          req' = [req EXCEPT ![r].pc = "route", ![r].asked = a, ![r].order = s,
                                ![r].healthy = {m \in Candidates(a) : IsAvailable(m)}]
    BY <2>0
  <2>2. Candidates(a) \in SUBSET Model
    BY LlmChatAssumption DEF Candidates
  <2>3. /\ s \in Seq(Model)
        /\ Len(s) >= 1
        /\ {s[i] : i \in 1..Len(s)} = Candidates(a)
        /\ \A i, j \in 1..Len(s) : s[i] = s[j] => i = j
        /\ \A i, j \in 1..Len(s) : IsAvailable(s[j]) /\ ~IsAvailable(s[i]) => j < i
    BY <2>0, <2>2, OrderProperties
  <2>4. req' = [req EXCEPT ![r] = q2] /\ q2 \in Requests
    BY <1>1, <2>1, <2>2, <2>3 DEF Requests
  <2>5. /\ q2.pc = "route" /\ q2.asked = a /\ q2.order = s
        /\ q2.healthy = {m \in Candidates(a) : IsAvailable(m)}
        /\ q2.pos = 0 /\ q2.failed = {} /\ q2.chosen = NoModel /\ q2.outcome = "none"
    BY <1>1, <1>5, <2>1 DEF Good, Requests, Parse
  <2>6. PoolOf(q2) = Candidates(a)
    BY <2>5, LlmChatAssumption DEF PoolOf
  <2>7. \A i \in 1..Len(s) : s[i] \in Candidates(a)
    BY <2>3
  <2>8. WellOrdered(q2)
    BY <2>3, <2>5, <2>6, <2>7 DEF WellOrdered
  <2>9. Good(q2)
    BY <2>5, <2>8 DEF Good
  <2> QED
    BY <1>2, <1>3, <1>5, <2>4, <2>9, OneRequestChanges DEF Parse
<1>6. CASE UnknownModel(r) \/ Abandon(r)
  <2>1. PICK code \in Nat : Respond(r, "rejected", code)
    BY <1>6 DEF UnknownModel, Abandon
  <2>2. /\ req' = [req EXCEPT ![r] = q2] /\ q2 \in Requests
        /\ q2.pc = "done" /\ q2.outcome = "rejected"
    BY <1>1, <2>1, RespondTyped
  <2>3. Good(q2)
    BY <2>2 DEF Good
  <2> QED
    BY <1>2, <1>3, <1>6, <2>2, <2>3, OneRequestChanges DEF UnknownModel, Abandon
<1>7. CASE UsePin(r)
  <2>1. q.pinned \in Model /\ <<q.pinned>> \in Seq(Model)
    BY <1>1, <1>7 DEF UsePin, Requests
  <2>2. /\ q2 = [q EXCEPT !.pc = "send", !.order = <<q.pinned>>, !.chosen = q.pinned]
        /\ req' = [req EXCEPT ![r] = q2]
    BY <1>1, <1>7 DEF UsePin
  <2>typed. q2 \in Requests
    <3> HIDE DEF q, q2
    <3> QED
      BY <1>1, <2>1, <2>2, RequestsFed
  <2>3. /\ q2.pc = "send" /\ q2.order = <<q.pinned>> /\ q2.chosen = q.pinned
        /\ q2.pos = 0 /\ q2.failed = {} /\ q2.outcome = "none"
    BY <1>1, <1>7 DEF Good, Requests, UsePin
  <2>4. WellOrdered(q2)
    BY <2>1, <2>3, LlmChatAssumption DEF WellOrdered, PoolOf
  <2>5. Good(q2)
    BY <2>3, <2>4 DEF Good, Taken
  <2> QED
    BY <1>2, <1>3, <1>7, <2>2, <2>typed, <2>5, OneRequestChanges DEF UsePin
<1>8. CASE RouteTo(r)
  <2>1. PICK m \in RouterModels :
          /\ req' = [req EXCEPT ![r].pc = "send", ![r].order = <<m>>, ![r].chosen = m]
          /\ CacheRoute(q.session, m)
    BY <1>8 DEF RouteTo
  <2>2. m \in Model /\ <<m>> \in Seq(Model)
    BY LlmChatAssumption
  <2>3. /\ q2 = [q EXCEPT !.pc = "send", !.order = <<m>>, !.chosen = m]
        /\ req' = [req EXCEPT ![r] = q2]
    BY <1>1, <2>1
  <2>typed. q2 \in Requests
    <3> HIDE DEF q, q2
    <3> QED
      BY <1>1, <2>2, <2>3, RequestsFed
  <2>4. /\ q2.pc = "send" /\ q2.order = <<m>> /\ q2.chosen = m
        /\ q2.pos = 0 /\ q2.failed = {} /\ q2.outcome = "none"
    BY <1>1, <1>8, <2>1 DEF Good, Requests, RouteTo
  <2>5. WellOrdered(q2)
    BY <2>2, <2>4, LlmChatAssumption DEF WellOrdered, PoolOf
  <2>6. Good(q2)
    BY <2>4, <2>5 DEF Good, Taken
  <2>7. Cache!CacheType'
    BY <1>1, <2>1, <2>2, CacheTyped DEF Requests
  <2> QED
    BY <1>2, <1>8, <2>3, <2>typed, <2>6, <2>7, OneRequestChanges DEF RouteTo
<1>9. CASE NoRoute(r)
  <2>1. /\ WellOrdered(q) /\ q.pos = 0 /\ q.failed = {} /\ q.outcome = "none"
        /\ q.order \in Seq(Model)
    BY <1>1, <1>9 DEF NoRoute, Good, Requests
  <2>2. q.order[1] \in Model
    BY <2>1 DEF WellOrdered
  <2>3. /\ q2 = [q EXCEPT !.pc = "send"]
        /\ req' = [req EXCEPT ![r] = q2]
    BY <1>1, <1>9 DEF NoRoute
  <2>typed. q2 \in Requests
    <3> HIDE DEF q, q2
    <3> QED
      BY <1>1, <2>3, RequestFed
  <2>4. /\ q2.pc = "send" /\ q2.order = q.order /\ q2.pos = 0 /\ q2.failed = {}
        /\ q2.outcome = "none" /\ q2.chosen = q.chosen /\ q2.asked = q.asked
        /\ q2.healthy = q.healthy
    BY <1>1, <1>9, <2>1 DEF NoRoute, Requests
  <2>5. WellOrdered(q2)
    <3>1. PoolOf(q2) = PoolOf(q)
      BY <2>4 DEF PoolOf
    <3> HIDE DEF q, q2
    <3> QED
      BY <2>1, <2>4, <3>1 DEF WellOrdered
  <2>6. Good(q2)
    <3>1. Taken(q2, 0) = {}
      BY DEF Taken
    <3>2. Len(q2.order) \in Nat /\ Len(q2.order) >= 1
      BY <2>1, <2>4, <2>5 DEF WellOrdered
    <3> QED
      BY <2>4, <2>5, <3>1, <3>2 DEF Good
  <2>7. Cache!CacheType'
    BY <1>1, <1>9, <2>2, CacheTyped DEF Requests, NoRoute
  <2> QED
    BY <1>2, <1>9, <2>3, <2>typed, <2>6, <2>7, OneRequestChanges DEF NoRoute
<1> QED
  BY <1>4, <1>5, <1>6, <1>7, <1>8, <1>9

\* A failed attempt either leaves candidates to try or has used up the pool.
LEMMA TryNextGood ==
    ASSUME IInv, NEW r \in Request, req[r].pc = "await",
           NEW code \in Nat, NEW kind \in {"relayed", "unreachable"},
           TryNext(r, kind, code)
    PROVE  /\ req' = [req EXCEPT ![r] = req'[r]]
           /\ req'[r] \in Requests
           /\ Good(req'[r])
<1> DEFINE q == req[r]
<1> DEFINE m == Current(r)
<1>1. /\ q \in Requests /\ Good(q) /\ req \in [Request -> Requests]
  BY DEF IInv, TypeOK
<1>2. /\ q.order \in Seq(Model) /\ q.pos \in 1..Len(q.order) /\ WellOrdered(q)
      /\ q.failed = Taken(q, q.pos - 1) /\ q.outcome = "none"
  BY <1>1 DEF Good, Requests
<1>3. m = q.order[q.pos] /\ m \in Model
  BY <1>1, CurrentInPool DEF Current
<1>4. q.failed \cup {m} = Taken(q, q.pos)
  BY <1>2, <1>3 DEF Taken
<1>5. CASE ~IsLast(r) /\ req' = [req EXCEPT ![r].pc = "send", ![r].failed = @ \cup {Current(r)}]
  <2> DEFINE q2 == [q EXCEPT !.pc = "send", !.failed = q.failed \cup {m}]
  <2>1. req'[r] = q2 /\ req' = [req EXCEPT ![r] = q2]
    BY <1>1, <1>5
  <2>2. q.pos # Len(q.order)
    BY <1>5 DEF IsLast
  <2> HIDE DEF q, m
  <2>3. q2 \in Requests
    BY <1>1, <1>3 DEF Requests
  <2>4. /\ q2.pc = "send" /\ q2.order = q.order /\ q2.pos = q.pos /\ q2.outcome = "none"
        /\ q2.chosen = q.chosen /\ q2.asked = q.asked /\ q2.healthy = q.healthy
        /\ q2.failed = Taken(q, q.pos)
    BY <1>1, <1>2, <1>4 DEF Requests
  <2> HIDE DEF q2
  <2>5. PoolOf(q2) = PoolOf(q)
    BY <2>4 DEF PoolOf
  <2>6. WellOrdered(q2)
    BY <1>2, <2>4, <2>5 DEF WellOrdered
  <2>7. Taken(q2, q2.pos) = Taken(q, q.pos)
    BY <2>4 DEF Taken
  <2>8. q2.pos \in 0..Len(q2.order) - 1
    BY <1>2, <2>2, <2>4
  <2>9. Good(q2)
    BY <2>4, <2>6, <2>7, <2>8 DEF Good
  <2> QED
    BY <2>1, <2>3, <2>9
<1>6. CASE IsLast(r) /\ req' = [req EXCEPT ![r].pc = "done", ![r].failed = @ \cup {Current(r)},
                                           ![r].outcome = kind, ![r].status = code]
  <2> DEFINE q2 == [q EXCEPT !.pc = "done", !.failed = q.failed \cup {m},
                             !.outcome = kind, !.status = code]
  <2>1. req'[r] = q2 /\ req' = [req EXCEPT ![r] = q2]
    BY <1>1, <1>6
  <2>2. q.pos = Len(q.order)
    BY <1>6 DEF IsLast
  <2> HIDE DEF q, m
  <2>3. q2 \in Requests
    <3> DEFINE tried == q.failed \cup {m}
    <3>1. tried \in SUBSET Model /\ code \in Nat
          /\ kind \in {"none", "relayed", "unreachable", "rejected", "decided"}
      BY <1>1, <1>3 DEF Requests
    <3>2. q2 = [q EXCEPT !.pc = "done", !.failed = tried, !.outcome = kind, !.status = code]
      OBVIOUS
    <3> HIDE DEF tried, q2
    <3> QED
      BY <1>1, <3>1, <3>2 DEF Requests
  <2>4. /\ q2.pc = "done" /\ q2.chosen = q.chosen /\ q2.asked = q.asked
        /\ q2.failed = Taken(q, Len(q.order))
    BY <1>1, <1>2, <1>4, <2>2 DEF Requests
  <2> HIDE DEF q2
  <2>5. PoolOf(q2) = PoolOf(q)
    BY <2>4 DEF PoolOf
  <2>6. Taken(q, Len(q.order)) = PoolOf(q)
    BY <1>2 DEF WellOrdered, Taken
  <2>7. Good(q2)
    BY <2>4, <2>5, <2>6 DEF Good
  <2> QED
    BY <2>1, <2>3, <2>7
<1> QED
  BY <1>5, <1>6 DEF TryNext

\* The attempt loop keeps the invariant.
LEMMA Attempts ==
    ASSUME IInv, NEW r \in Request,
           Send(r) \/ UpstreamFails(r) \/ UpstreamUnreachable(r) \/ UpstreamAnswers(r)
    PROVE  IInv'
<1> DEFINE q == req[r]
<1>1. /\ q \in Requests /\ Good(q) /\ Cache!CacheType /\ CooldownType
      /\ req \in [Request -> Requests]
  BY DEF IInv, TypeOK, Cache!CacheType
<1>2. UNCHANGED cooldowns => CooldownType'
  BY <1>1 DEF CooldownType
<1>3. UNCHANGED pins => Cache!CacheType'
  BY <1>1 DEF Cache!CacheType
<1>4. CASE Send(r)
  <2> DEFINE q2 == [q EXCEPT !.pc = "await", !.pos = q.pos + 1]
  <2>1. req'[r] = q2 /\ req' = [req EXCEPT ![r] = q2]
    BY <1>1, <1>4 DEF Send
  <2>2. /\ q.order \in Seq(Model) /\ q.pos \in 0..Len(q.order) - 1 /\ WellOrdered(q)
        /\ q.failed = Taken(q, q.pos) /\ q.outcome = "none"
    BY <1>1, <1>4 DEF Good, Requests, Send
  <2> HIDE DEF q
  <2>3. q2 \in Requests
    <3> DEFINE next == q.pos + 1
    <3>1. next \in Nat /\ q2 = [q EXCEPT !.pc = "await", !.pos = next]
      BY <1>1 DEF Requests
    <3> HIDE DEF next, q2
    <3> QED
      BY <1>1, <3>1 DEF Requests
  <2>4. /\ q2.pc = "await" /\ q2.order = q.order /\ q2.pos = q.pos + 1 /\ q2.outcome = "none"
        /\ q2.chosen = q.chosen /\ q2.asked = q.asked /\ q2.healthy = q.healthy
        /\ q2.failed = Taken(q, q.pos)
    BY <1>1, <2>2 DEF Requests
  <2> HIDE DEF q2
  <2>5. PoolOf(q2) = PoolOf(q)
    BY <2>4 DEF PoolOf
  <2>6. WellOrdered(q2)
    BY <2>2, <2>4, <2>5 DEF WellOrdered
  <2>7. q2.pos \in 1..Len(q2.order) /\ q2.pos - 1 = q.pos
    BY <2>2, <2>4
  <2>8. Taken(q2, q2.pos - 1) = Taken(q, q.pos)
    BY <2>4, <2>7 DEF Taken
  <2>9. Good(q2)
    BY <2>4, <2>6, <2>7, <2>8 DEF Good
  <2> QED
    BY <1>2, <1>3, <1>4, <2>1, <2>3, <2>9, OneRequestChanges DEF Send
<1>5. CASE UpstreamFails(r)
  <2>1. PICK code \in Statuses, ra \in RetryAfters \cup {NoRetryAfter} :
          MarkUnhealthy(Current(r), ra) /\ TryNext(r, "relayed", code)
    BY <1>5 DEF UpstreamFails
  <2>2. req[r].pc = "await" /\ UNCHANGED pins
    BY <1>5 DEF UpstreamFails
  <2>3. code \in Nat
    BY LlmChatAssumption
  <2>4. /\ req' = [req EXCEPT ![r] = req'[r]]
        /\ req'[r] \in Requests /\ Good(req'[r])
    BY <2>1, <2>2, <2>3, TryNextGood
  <2>5. CooldownType'
    BY <1>1, <2>1, <2>2, CurrentInPool, CooldownsTyped
  <2> QED
    BY <1>3, <2>2, <2>4, <2>5, OneRequestChanges
<1>6. CASE UpstreamUnreachable(r)
  <2>1. /\ MarkUnhealthy(Current(r), NoRetryAfter) /\ TryNext(r, "unreachable", 500)
        /\ req[r].pc = "await" /\ UNCHANGED pins
    BY <1>6 DEF UpstreamUnreachable
  <2>2. /\ req' = [req EXCEPT ![r] = req'[r]]
        /\ req'[r] \in Requests /\ Good(req'[r])
    BY <2>1, TryNextGood
  <2>3. CooldownType'
    BY <1>1, <2>1, CurrentInPool, CooldownsTyped
  <2> QED
    BY <1>3, <2>1, <2>2, <2>3, OneRequestChanges
<1>7. CASE UpstreamAnswers(r)
  <2>1. PICK code \in Statuses : ~IsRetryableStatus(code) /\ Respond(r, "relayed", code)
    BY <1>7 DEF UpstreamAnswers
  <2>2. /\ MarkHealthy(Current(r)) /\ req[r].pc = "await" /\ UNCHANGED pins
    BY <1>7 DEF UpstreamAnswers
  <2>3. code \in Nat
    BY LlmChatAssumption
  <2>4. /\ req' = [req EXCEPT ![r] = req'[r]] /\ req'[r] \in Requests
        /\ req'[r].pc = "done" /\ req'[r].outcome = "relayed" /\ req'[r].status = code
    BY <1>1, <2>1, <2>3, RespondTyped
  <2>5. code \notin DocumentedRetryable
    BY <2>1 DEF IsRetryableStatus, DocumentedRetryable
  <2>6. Good(req'[r])
    BY <2>4, <2>5 DEF Good
  <2>7. CooldownType'
    BY <1>1, <2>2, CurrentInPool, CooldownsTyped
  <2> QED
    BY <1>3, <2>2, <2>4, <2>6, <2>7, OneRequestChanges
<1> QED
  BY <1>4, <1>5, <1>6, <1>7

\* The routing service keeps the invariant.
LEMMA Decisions ==
    ASSUME IInv, NEW r \in Request,
           ReceiveDecision(r) \/ PinnedDecision(r) \/ Decide(r) \/ Leave(r)
    PROVE  IInv'
<1> DEFINE q == req[r]
<1> DEFINE q2 == req'[r]
<1>1. /\ q \in Requests /\ Good(q) /\ Cache!CacheType /\ CooldownType
      /\ req \in [Request -> Requests]
  BY DEF IInv, TypeOK, Cache!CacheType
<1>2. UNCHANGED cooldowns => CooldownType'
  BY <1>1 DEF CooldownType
<1>3. UNCHANGED pins => Cache!CacheType'
  BY <1>1 DEF Cache!CacheType
<1>4. CASE ReceiveDecision(r)
  <2>1. PICK s \in Session \cup {NoSession} :
          req' = [req EXCEPT ![r].pc = "decide", ![r].session = s]
    BY <1>4 DEF ReceiveDecision
  <2>2. req' = [req EXCEPT ![r] = q2] /\ q2 \in Requests
    BY <1>1, <2>1 DEF Requests
  <2>3. /\ q2.pc = "decide" /\ q2.pos = 0 /\ q2.failed = {} /\ q2.chosen = NoModel
        /\ q2.outcome = "none"
    BY <1>1, <1>4, <2>1 DEF Good, Requests, ReceiveDecision
  <2>4. Good(q2)
    BY <2>3 DEF Good
  <2> QED
    BY <1>2, <1>3, <1>4, <2>2, <2>4, OneRequestChanges DEF ReceiveDecision
<1>5. CASE PinnedDecision(r)
  <2>1. PICK s \in Session :
          /\ pins[s] # NoModel
          /\ req' = [req EXCEPT ![r].pc = "done", ![r].session = s, ![r].pinned = pins[s],
                                ![r].chosen = pins[s], ![r].outcome = "decided",
                                ![r].status = 200]
    BY <1>5 DEF PinnedDecision
  <2>2. pins[s] \in Model
    BY <1>1, <2>1 DEF Cache!CacheType
  <2>3. q2 = [q EXCEPT !.pc = "done", !.session = s, !.pinned = pins[s],
                       !.chosen = pins[s], !.outcome = "decided", !.status = 200]
        /\ req' = [req EXCEPT ![r] = q2]
    BY <1>1, <2>1
  <2> HIDE DEF q, q2
  <2>4. q2 \in Requests
    BY <1>1, <2>2, <2>3, RequestsFed
  <2>typed. q2.pc = "done" /\ q2.outcome = "decided"
    BY <1>1, <2>3 DEF Requests
  <2>5. Good(q2)
    BY <2>typed DEF Good
  <2> QED
    BY <1>2, <1>3, <1>5, <2>3, <2>4, <2>5, OneRequestChanges DEF PinnedDecision, q2
<1>6. CASE Decide(r)
  <2>1. PICK m \in RouterModels \cup {Sentinel} :
          /\ CacheRoute(req[r].session, m)
          /\ req' = [req EXCEPT ![r].pc = "done", ![r].chosen = m, ![r].outcome = "decided",
                                ![r].status = 200]
    BY <1>6 DEF Decide
  <2>2. m \in Model
    BY LlmChatAssumption
  <2>3. q2 = [q EXCEPT !.pc = "done", !.chosen = m, !.outcome = "decided", !.status = 200]
        /\ req' = [req EXCEPT ![r] = q2]
    BY <1>1, <2>1
  <2>4. Cache!CacheType'
    BY <1>1, <2>1, <2>2, CacheTyped DEF Requests
  <2> HIDE DEF q, q2
  <2>5. q2 \in Requests
    BY <1>1, <2>2, <2>3, RequestsFed
  <2>typed. q2.pc = "done" /\ q2.outcome = "decided"
    BY <1>1, <2>3 DEF Requests
  <2>6. Good(q2)
    BY <2>typed DEF Good
  <2> QED
    BY <1>2, <1>6, <2>3, <2>4, <2>5, <2>6, OneRequestChanges DEF Decide, q2
<1>7. CASE Leave(r)
  <2>1. q2 = NoRequest /\ req' = [req EXCEPT ![r] = q2]
    BY <1>1, <1>7 DEF Leave
  <2>2. NoRequest \in Requests /\ Good(NoRequest)
    BY DEF NoRequest, Requests, Good
  <2> QED
    BY <1>2, <1>3, <1>7, <2>1, <2>2, OneRequestChanges DEF Leave
<1> QED
  BY <1>4, <1>5, <1>6, <1>7

LEMMA StepKeepsIInv == IInv /\ [Next]_vars => IInv'
<1> SUFFICES ASSUME IInv, [Next]_vars PROVE IInv'
  OBVIOUS
<1>1. TypeOK /\ CooldownType /\ Cache!CacheType
  BY DEF IInv, TypeOK, Cache!CacheType
<1>2. ASSUME NEW r \in Request,
             \/ ReceiveChat(r) \/ ReceiveDecision(r) \/ PinnedDecision(r)
             \/ Progress(r) \/ Leave(r)
      PROVE  IInv'
  BY <1>2, BeforeAttempts, Attempts, Decisions DEF Progress
<1>3. ASSUME NEW s \in Session, Forget(s)
      PROVE  IInv'
  <2>1. Cache!CacheType' /\ UNCHANGED <<cooldowns, req>>
    BY <1>1, <1>3, CacheTyped DEF Forget
  <2> QED
    BY <1>1, <2>1 DEF IInv, TypeOK, CooldownType
<1>4. CASE Tick
  <2>1. CooldownType' /\ UNCHANGED <<pins, req>>
    BY <1>1, <1>4, CooldownsTyped DEF Tick
  <2> QED
    BY <2>1 DEF IInv, TypeOK, Cache!CacheType
<1>5. CASE Restart
  <2>1. CooldownType'
    BY <1>5, CooldownAssumption DEF Restart, CooldownType
  <2>2. Cache!CacheType'
    BY <1>1, <1>5, CacheTyped DEF Restart
  <2>3. NoRequest \in Requests /\ Good(NoRequest)
    BY DEF NoRequest, Requests, Good
  <2> QED
    BY <1>5, <2>1, <2>2, <2>3 DEF Restart, IInv, TypeOK, Cache!CacheType
<1>6. CASE UNCHANGED vars
  BY <1>6 DEF vars, IInv, TypeOK, CooldownType, Cache!CacheType
<1> QED
  BY <1>2, <1>3, <1>4, <1>5, <1>6 DEF Next

LEMMA Invariance == Spec => []IInv
BY InitGood, StepKeepsIInv, PTL DEF Spec

-----------------------------------------------------------------------------

\* Every cooldown stays below the cap, every pin is a model, every request is
\* in one of its phases.
THEOREM TypeCorrect == Spec => []TypeOK
<1>1. IInv => TypeOK
  BY DEF IInv
<1> QED
  BY <1>1, Invariance, PTL

\* The attempt loop of send_upstream gives up only when the whole pool failed.
THEOREM FailureExhaustsPool == Spec => []NoEarlyGiveUp
<1>1. IInv => NoEarlyGiveUp
  <2> SUFFICES ASSUME IInv, NEW r \in Request, GaveUp(r)
               PROVE  req[r].failed = Pool(r)
    BY DEF NoEarlyGiveUp
  <2>1. Good(req[r]) /\ req[r] \in Requests
    BY DEF IInv, TypeOK
  <2>2. req[r].pc = "done"
    BY <2>1 DEF Good, GaveUp, Requests
  <2> QED
    BY <2>1, <2>2 DEF Good, GaveUp, Pool, PoolOf
<1> QED
  BY <1>1, Invariance, PTL

\* The loop never posts a request twice to a model, nor to one outside its pool.
THEOREM CandidatesTriedOnce == Spec => []EachCandidateOnce
<1>1. IInv => EachCandidateOnce
  BY CurrentInPool DEF EachCandidateOnce, Pool, PoolOf
<1> QED
  BY <1>1, Invariance, PTL

\* Models in cooldown are tried only after the healthy ones of the pool failed.
THEOREM CooledDownLast == Spec => []HealthyFirst
<1>1. IInv => HealthyFirst
  <2> SUFFICES ASSUME IInv, NEW r \in Request,
                      req[r].pc = "await", req[r].chosen = NoModel,
                      Current(r) \notin req[r].healthy,
                      NEW m \in req[r].healthy
               PROVE  m \in req[r].failed
    BY DEF HealthyFirst
  <2> DEFINE q == req[r]
  <2>1. q \in Requests /\ Good(q)
    BY DEF IInv, TypeOK
  <2>2. q.order \in Seq(Model) /\ q.pos \in 1..Len(q.order) /\ WellOrdered(q)
        /\ q.failed = Taken(q, q.pos - 1)
    BY <2>1 DEF Good, Requests
  <2>3. PICK j \in 1..Len(q.order) : q.order[j] = m
    BY <2>2 DEF WellOrdered
  <2>4. j < q.pos
    BY <2>2, <2>3 DEF WellOrdered, Current
  <2> QED
    BY <2>2, <2>3, <2>4 DEF Taken
<1> QED
  BY <1>1, Invariance, PTL

-----------------------------------------------------------------------------

\* An internal call has no pin, and no other model imposed on it than one of
\* the router's; what waits for a decision is neither internal nor pinned.
Unpinned(q) ==
    /\ q.pc \in {"idle", "decide"} => ~q.internal /\ q.pinned = NoModel
    /\ q.internal => q.pinned = NoModel /\ q.chosen \in RouterModels \cup {NoModel}

UnpinnedInv == \A r \in Request : Unpinned(req[r])

LEMMA InitUnpinned == Init => UnpinnedInv
BY DEF Init, UnpinnedInv, Unpinned, NoRequest

LEMMA StepKeepsUnpinned == TypeOK /\ UnpinnedInv /\ [Next]_vars => UnpinnedInv'
<1> SUFFICES ASSUME TypeOK, UnpinnedInv, [Next]_vars, NEW r \in Request
             PROVE  Unpinned(req[r])'
  BY DEF UnpinnedInv
<1>1. req \in [Request -> Requests] /\ Unpinned(req[r])
  BY DEF TypeOK, UnpinnedInv
<1>2. CASE req'[r] = req[r]
  BY <1>1, <1>2 DEF Unpinned
<1>3. ASSUME NEW t \in Request, ReceiveChat(t)
      PROVE  Unpinned(req[r])'
  BY <1>1, <1>3 DEF ReceiveChat, Unpinned, Requests
<1>4. ASSUME NEW t \in Request, t # r, Progress(t) \/ ReceiveDecision(t) \/ PinnedDecision(t)
      PROVE  req'[r] = req[r]
  <2> DEFINE Others == req'[r] = req[r]
  <2>1. Parse(t) => Others
    BY <1>1, <1>4 DEF Parse
  <2>2. UnknownModel(t) \/ Abandon(t) => Others
    BY <1>1, <1>4 DEF UnknownModel, Abandon, Respond
  <2>3. UsePin(t) \/ RouteTo(t) \/ NoRoute(t) => Others
    BY <1>1, <1>4 DEF UsePin, RouteTo, NoRoute
  <2>4. Send(t) => Others
    BY <1>1, <1>4 DEF Send
  <2>5. UpstreamFails(t) \/ UpstreamUnreachable(t) => Others
    BY <1>1, <1>4 DEF UpstreamFails, UpstreamUnreachable, TryNext
  <2>6. UpstreamAnswers(t) => Others
    BY <1>1, <1>4 DEF UpstreamAnswers, Respond
  <2>7. ReceiveDecision(t) \/ PinnedDecision(t) => Others
    BY <1>1, <1>4 DEF ReceiveDecision, PinnedDecision
  <2>8. Decide(t) => Others
    BY <1>1, <1>4 DEF Decide
  <2> QED
    BY <1>4, <2>1, <2>2, <2>3, <2>4, <2>5, <2>6, <2>7, <2>8 DEF Progress
<1>5. ASSUME Progress(r) \/ ReceiveDecision(r) \/ PinnedDecision(r)
      PROVE  Unpinned(req[r])'
  <2> DEFINE q == req[r]
             Kept == /\ req'[r].pc \notin {"idle", "decide"}
                     /\ req'[r].internal = q.internal /\ req'[r].pinned = q.pinned
             Same == Kept /\ req'[r].chosen = q.chosen
  <2>1. Parse(r) => Same
    BY <1>1 DEF Parse, Requests
  <2>2. UnknownModel(r) \/ Abandon(r) => Same
    BY <1>1 DEF UnknownModel, Abandon, Respond, Requests
  <2>3. UsePin(r) => Kept /\ q.pinned # NoModel
    BY <1>1 DEF UsePin, Requests
  <2>4. RouteTo(r) => Kept /\ req'[r].chosen \in RouterModels
    BY <1>1 DEF RouteTo, Requests
  <2>5. NoRoute(r) => Same
    BY <1>1 DEF NoRoute, Requests
  <2>6. Send(r) => Same
    BY <1>1 DEF Send, Requests
  <2>7. UpstreamFails(r) \/ UpstreamUnreachable(r) => Same
    BY <1>1 DEF UpstreamFails, UpstreamUnreachable, TryNext, Requests
  <2>8. UpstreamAnswers(r) => Same
    BY <1>1 DEF UpstreamAnswers, Respond, Requests
  <2>9. ReceiveDecision(r) => /\ q.pc = "idle"
                              /\ req'[r].internal = q.internal /\ req'[r].pinned = q.pinned
    BY <1>1 DEF ReceiveDecision, Requests
  <2>10. PinnedDecision(r) => /\ q.pc = "idle" /\ req'[r].pc = "done"
                              /\ req'[r].internal = q.internal
    BY <1>1 DEF PinnedDecision, Requests
  <2>11. Decide(r) => /\ q.pc = "decide" /\ req'[r].pc = "done"
                      /\ req'[r].internal = q.internal
    BY <1>1 DEF Decide, Requests
  <2>12. q \in Requests
    BY <1>1
  <2> QED
    BY <1>1, <1>5, <2>1, <2>2, <2>3, <2>4, <2>5, <2>6, <2>7, <2>8, <2>9, <2>10, <2>11, <2>12
    DEF Progress, Unpinned
<1>6. ASSUME NEW t \in Request, Leave(t)
      PROVE  Unpinned(req[r])'
  BY <1>1, <1>6 DEF Leave, NoRequest, Unpinned, Requests
<1>7. CASE Restart
  BY <1>7 DEF Restart, NoRequest, Unpinned
<1>8. CASE Tick \/ (\E s \in Session : Forget(s)) \/ UNCHANGED vars
  BY <1>2, <1>8 DEF Tick, Forget, vars
<1> QED
  BY <1>2, <1>3, <1>4, <1>5, <1>6, <1>7, <1>8 DEF Next

LEMMA UnpinnedAlways == Spec => []UnpinnedInv
BY InitUnpinned, StepKeepsUnpinned, TypeCorrect, PTL DEF Spec

\* The model of an internal call is its own alias's or the router's, whatever
\* other requests pin for its session.
THEOREM InternalKeepsItsModel == Spec => []InternalNotPinned
<1>1. IInv /\ UnpinnedInv => InternalNotPinned
  BY CurrentInPool DEF InternalNotPinned, UnpinnedInv, Unpinned, PoolOf
<1> QED
  BY <1>1, UnpinnedAlways, Invariance, PTL

-----------------------------------------------------------------------------

\* One failure of a backend never blames another, and nothing but an attempt's
\* end, time and a restart moves a cooldown.
THEOREM BlameIsOwn == Spec => OnlyOwnAnswersCount
<1> DEFINE Moved(m) == cooldowns'[m] \notin {cooldowns[m], cooldowns[m] - 1}
           EndedFor(m) == \E r \in Request :
                             /\ req[r].pc = "await" /\ Current(r) = m
                             /\ req'[r].pc \in {"send", "done"}
           Act == \A m \in Model :
                     Moved(m) => \/ EndedFor(m)
                                 \/ req' = [r \in Request |-> NoRequest]
<1>1. TypeOK /\ [Next]_vars => Act
  <2> SUFFICES ASSUME TypeOK, [Next]_vars, NEW m \in Model, Moved(m)
               PROVE  EndedFor(m) \/ req' = [r \in Request |-> NoRequest]
    OBVIOUS
  <2>1. cooldowns \in [Model -> 0..MaxCooldown] /\ req \in [Request -> Requests]
    BY DEF TypeOK, CooldownType
  <2>2. ASSUME NEW r \in Request,
               UpstreamFails(r) \/ UpstreamUnreachable(r) \/ UpstreamAnswers(r)
        PROVE  EndedFor(m)
    <3>1. req[r].pc = "await" /\ req'[r].pc \in {"send", "done"}
      BY <2>1, <2>2 DEF UpstreamFails, UpstreamUnreachable, UpstreamAnswers, TryNext,
                        Respond, Requests
    <3>2. cooldowns'[m] # cooldowns[m]
      OBVIOUS
    <3>3. Current(r) = m
      BY <2>1, <2>2, <3>2 DEF UpstreamFails, UpstreamUnreachable, UpstreamAnswers,
                              MarkUnhealthy, MarkHealthy
    <3> QED
      BY <3>1, <3>3
  <2>3. CASE Tick
    BY <2>1, <2>3, CooldownAssumption DEF Tick, Elapse, IsAvailable
  <2>4. CASE Restart
    BY <2>4 DEF Restart
  <2>5. CASE UNCHANGED cooldowns
    BY <2>5
  <2>6. ASSUME NEW r \in Request,
               \/ ReceiveChat(r) \/ ReceiveDecision(r) \/ PinnedDecision(r) \/ Leave(r)
               \/ Parse(r) \/ UnknownModel(r) \/ Abandon(r) \/ UsePin(r) \/ RouteTo(r)
               \/ NoRoute(r) \/ Send(r) \/ Decide(r)
        PROVE  UNCHANGED cooldowns
    BY <2>6 DEF ReceiveChat, ReceiveDecision, PinnedDecision, Leave, Parse, UnknownModel,
                Abandon, UsePin, RouteTo, NoRoute, Send, Decide
  <2>7. ASSUME NEW s \in Session, Forget(s)
        PROVE  UNCHANGED cooldowns
    BY <2>7 DEF Forget
  <2> HIDE DEF Moved, EndedFor
  <2> QED
    BY <2>2, <2>3, <2>4, <2>5, <2>6, <2>7 DEF Next, Progress, vars
<1> QED
  BY <1>1, TypeCorrect, PTL DEF Spec, OnlyOwnAnswersCount

\* A turn that was served from its session's pin never writes it: only a fresh
\* decision does.
THEOREM OnlyDecisionsPin == Spec => PinnedTurnsDoNotRepin
<1> DEFINE Moved(s) == pins'[s] \notin {pins[s], NoModel}
           Decided(s) == \E r \in Request :
                            /\ req[r].session = s /\ req[r].pinned = NoModel
                            /\ req[r].pc \in {"route", "decide"} /\ req'[r].pc \in {"send", "done"}
           Act == \A s \in Session : Moved(s) => Decided(s)
<1>1. TypeOK /\ UnpinnedInv /\ [Next]_vars => Act
  <2> SUFFICES ASSUME TypeOK, UnpinnedInv, [Next]_vars, NEW s \in Session, Moved(s)
               PROVE  Decided(s)
    OBVIOUS
  <2>1. pins \in [Session -> Model \cup {NoModel}] /\ req \in [Request -> Requests]
    BY DEF TypeOK, Cache!CacheType
  <2>2. ASSUME NEW t, NEW m, CacheRoute(t, m)
        PROVE  t = s
    <3>1. CASE UNCHANGED pins
      BY <3>1
    <3>2. CASE t # NoSession /\ \E lost \in SUBSET Session : Cache!Store(t, m, lost)
      BY <3>2, <2>1 DEF Cache!Store
    <3> QED
      BY <2>2, <3>1, <3>2 DEF CacheRoute, Cache!Put
  <2>3. ASSUME NEW r \in Request, RouteTo(r) \/ NoRoute(r) \/ Decide(r)
        PROVE  Decided(s)
    <3>1. /\ req[r].pc \in {"route", "decide"}
          /\ \E m : CacheRoute(req[r].session, m)
          /\ req[r].pc = "route" => req[r].pinned = NoModel
      BY <2>3 DEF RouteTo, NoRoute, Decide
    <3>2. req[r].session = s /\ req[r].pinned = NoModel
      BY <3>1, <2>2 DEF UnpinnedInv, Unpinned
    <3>3. RouteTo(r) => req'[r].pc = "send"
      BY <2>1 DEF RouteTo
    <3>4. NoRoute(r) => req'[r].pc = "send"
      BY <2>1 DEF NoRoute
    <3>5. Decide(r) => req'[r].pc = "done"
      BY <2>1 DEF Decide
    <3> QED
      BY <2>3, <3>1, <3>2, <3>3, <3>4, <3>5
  <2>4. CASE Restart
    BY <2>4 DEF Restart, Cache!Forget
  <2>5. ASSUME NEW t \in Session, Forget(t)
        PROVE  FALSE
    BY <2>5 DEF Forget, Cache!Forget
  <2>6. CASE UNCHANGED pins
    BY <2>6
  <2>7. ASSUME NEW r \in Request,
               \/ ReceiveChat(r) \/ ReceiveDecision(r) \/ PinnedDecision(r) \/ Leave(r)
               \/ Parse(r) \/ UnknownModel(r) \/ Abandon(r) \/ UsePin(r) \/ Send(r)
               \/ UpstreamFails(r) \/ UpstreamUnreachable(r) \/ UpstreamAnswers(r)
        PROVE  UNCHANGED pins
    BY <2>7 DEF ReceiveChat, ReceiveDecision, PinnedDecision, Leave, Parse, UnknownModel,
                Abandon, UsePin, Send, UpstreamFails, UpstreamUnreachable, UpstreamAnswers
  <2>8. CASE Tick
    BY <2>8, <2>6 DEF Tick
  <2> HIDE DEF Moved, Decided
  <2> QED
    BY <2>3, <2>4, <2>5, <2>6, <2>7, <2>8 DEF Next, Progress, vars
<1> QED
  BY <1>1, TypeCorrect, UnpinnedAlways, PTL DEF Spec, PinnedTurnsDoNotRepin

-----------------------------------------------------------------------------
(* The task that carries a response: the inductive invariant ties what has *)
(* been delivered to what has been read, counts both, and spells the       *)
(* callbacks out.                                                          *)

\* One if the task has a chunk in its hands, which nobody else has.
Hand == IF pc \in {"filter", "send"} THEN 1 ELSE 0

Types ==
    /\ pc \in {"next", "filter", "send", "done"}
    /\ read \in 0..MaxChunks
    /\ withheld \subseteq 1..(read - Hand)
    /\ channel \in Seq(1..(read - Hand)) /\ Len(channel) <= BufferSize
    /\ got \in Seq(1..(read - Hand))
    /\ client \in {"reading", "gone", "ended"}
    /\ part \in {"delta", "whole", "head", "tail"}
    /\ seen \subseteq {"whole", "head", "tail"}
    /\ captured \in BOOLEAN
    /\ read - Hand \in Nat

\* A connection that is over holds no chunk.
Closed ==
    /\ client = "gone" => channel = <<>>
    /\ client = "ended" => channel = <<>> /\ pc = "done"

Contents(seq) == {seq[i] : i \in 1..Len(seq)}
Ascending(seq) == \A i, j \in 1..Len(seq) : i < j => seq[i] < seq[j]

\* What has been delivered is what has been read, in order.
Carried ==
    /\ Ascending(Delivered)
    /\ client # "gone" => Contents(Delivered) = Forwarded

\* Every chunk read is counted somewhere, and few were lost with the client.
Counted ==
    /\ client # "gone" =>
          read = Cardinality(withheld) + Len(got) + Len(channel) + Hand
    /\ client = "gone" =>
          read - Cardinality(withheld) - Len(got)
             <= BufferSize + (IF pc = "next" THEN 0 ELSE 1)

\* The callbacks of a stream that is still running.
Begun == IF read = 0 THEN <<>> ELSE <<"first">>

Called ==
    calls \in IF pc = "done"
              THEN {Append(Begun, "complete"), Append(Append(Begun, "error"), "complete")}
              ELSE {Begun}

TaskInv == Types /\ Closed /\ Carried /\ Counted /\ Called

-----------------------------------------------------------------------------
(* Sequences *)

\* What is in a sequence after one more chunk, later than all, was appended.
LEMMA AppendAscending ==
    ASSUME NEW n \in Nat, NEW m \in Nat, n < m, NEW seq \in Seq(1..n), Ascending(seq)
    PROVE  /\ Ascending(Append(seq, m))
           /\ Contents(Append(seq, m)) = Contents(seq) \cup {m}
<1>1. /\ Len(Append(seq, m)) = Len(seq) + 1 /\ Len(seq) \in Nat
      /\ Append(seq, m)[Len(seq) + 1] = m
      /\ \A i \in 1..Len(seq) : Append(seq, m)[i] = seq[i] /\ seq[i] \in 1..n
  OBVIOUS
<1>2. Ascending(Append(seq, m))
  <2>1. SUFFICES ASSUME NEW i \in 1..(Len(seq) + 1), NEW j \in 1..(Len(seq) + 1), i < j
                 PROVE  Append(seq, m)[i] < Append(seq, m)[j]
    BY <1>1 DEF Ascending
  <2>2. i \in 1..Len(seq)
    BY <1>1, <2>1
  <2>3. CASE j = Len(seq) + 1
    BY <1>1, <2>2, <2>3
  <2>4. CASE j \in 1..Len(seq)
    BY <1>1, <2>1, <2>2, <2>4 DEF Ascending
  <2> QED BY <1>1, <2>3, <2>4
<1>3. 1..(Len(seq) + 1) = 1..Len(seq) \cup {Len(seq) + 1}
  BY <1>1
<1>4. Contents(Append(seq, m)) = Contents(seq) \cup {m}
  BY <1>1, <1>3 DEF Contents
<1> QED BY <1>2, <1>4

\* A prefix of an ascending sequence ascends.
LEMMA PrefixAscending ==
    ASSUME NEW S, NEW one \in Seq(S), NEW two \in Seq(S), Ascending(one \o two)
    PROVE  Ascending(one)
<1>1. \A i \in 1..Len(one) : (one \o two)[i] = one[i]
  OBVIOUS
<1>2. Len(one) \in Nat /\ Len(one) <= Len(one \o two)
  OBVIOUS
<1> QED BY <1>1, <1>2 DEF Ascending

\* Handing the head of the channel to the client delivers the same chunks.
LEMMA ReceiveDelivers ==
    ASSUME NEW S, NEW one \in Seq(S), NEW two \in Seq(S), two # <<>>
    PROVE  /\ Append(one, Head(two)) \o Tail(two) = one \o two
           /\ Append(one, Head(two)) \in Seq(S) /\ Tail(two) \in Seq(S)
           /\ Len(Append(one, Head(two))) = Len(one) + 1
           /\ Len(Tail(two)) = Len(two) - 1
<1>1. Head(two) \in S /\ Tail(two) \in Seq(S) /\ Len(two) \in Nat \ {0}
  BY HeadTailProperties, EmptySeq
<1>2. Append(one, Head(two)) \in Seq(S) /\ Len(Append(one, Head(two))) = Len(one) + 1
  BY <1>1
<1>3. Len(Tail(two)) = Len(two) - 1
  BY <1>1
<1>4. Append(one, Head(two)) \o Tail(two) = one \o two
  BY <1>1, <1>2, <1>3
<1> QED BY <1>1, <1>2, <1>3, <1>4

\* Sending a chunk delivers it after all the others.
LEMMA SendDelivers ==
    ASSUME NEW S, NEW one \in Seq(S), NEW two \in Seq(S), NEW x \in S
    PROVE  /\ one \o Append(two, x) = Append(one \o two, x)
           /\ Len(Append(two, x)) = Len(two) + 1
  OBVIOUS

-----------------------------------------------------------------------------
(* The initial states and what the invariant says *)

LEMMA InitInvariant == TaskInit => TaskInv
<1> SUFFICES ASSUME TaskInit PROVE TaskInv
  OBVIOUS
<1>1. Types
  <2>1. pc = "next" /\ read = 0 /\ withheld = {} /\ client = "reading" /\ part = "delta"
    BY DEF TaskInit
  <2>2. channel = <<>> /\ got = <<>> /\ seen = {} /\ captured \in BOOLEAN
    BY DEF TaskInit
  <2>3. Hand = 0
    BY <2>1 DEF Hand
  <2>4. read \in 0..MaxChunks /\ read - Hand \in Nat
    BY <2>1, <2>3, StreamAssumption
  <2>5. /\ channel \in Seq(1..(read - Hand)) /\ got \in Seq(1..(read - Hand))
        /\ Len(channel) = 0
    BY <2>2, EmptySeq
  <2>6. Len(channel) <= BufferSize
    BY <2>5, StreamAssumption
  <2> QED BY <2>1, <2>2, <2>4, <2>5, <2>6 DEF Types
<1> USE DEF TaskInit
<1>2. Closed /\ Called
  BY DEF Closed, Called, Begun
<1>3. Delivered = <<>> /\ Forwarded = {}
  BY DEF Delivered, Forwarded
<1>4. Carried
  BY <1>3 DEF Carried, Ascending, Contents
<1>5. Counted
  BY FS_EmptySet DEF Counted, Hand
<1> QED BY <1>1, <1>2, <1>4, <1>5 DEF TaskInv

\* A callback is never repeated, and the others have their places.
LEMMA CalledInOrder == TaskInv => CallbackOrder /\ calls \in Seq({"first", "error", "complete"})
<1> SUFFICES ASSUME TaskInv
             PROVE  CallbackOrder /\ calls \in Seq({"first", "error", "complete"})
  OBVIOUS
<1> DEFINE S == {"first", "error", "complete"}
           failed == Append(Begun, "error")
<1>1. /\ Begun \in Seq(S) /\ Len(Begun) \in {0, 1}
      /\ \A i \in 1..Len(Begun) : i = 1 /\ Begun[i] = "first"
  <2>1. CASE read = 0
    BY <2>1, EmptySeq DEF Begun
  <2>2. CASE read # 0
    <3>1. Begun = Append(<<>>, "first")
      BY <2>2 DEF Begun
    <3>2. <<>> \in Seq(S) /\ Len(<<>>) = 0 /\ "first" \in S
      BY EmptySeq
    <3> HIDE DEF S
    <3> QED BY <3>1, <3>2, AppendProperties
  <2> QED BY <2>1, <2>2
<1>2. /\ failed \in Seq(S) /\ Len(failed) = Len(Begun) + 1
      /\ \A i \in 1..Len(failed) :
            failed[i] = IF i = Len(failed) THEN "error" ELSE "first"
      /\ Len(failed) \in {1, 2}
  BY <1>1, AppendProperties
<1>3. ASSUME NEW seq \in {Begun, failed}
      PROVE  /\ Append(seq, "complete") \in Seq(S)
             /\ Len(Append(seq, "complete")) = Len(seq) + 1
             /\ \A i \in 1..Len(seq) : Append(seq, "complete")[i] = seq[i]
             /\ Append(seq, "complete")[Len(seq) + 1] = "complete"
  BY <1>1, <1>2, AppendProperties
<1>4. CASE calls = Begun
  BY <1>1, <1>4 DEF CallbackOrder
<1>5. CASE calls = Append(Begun, "complete")
  BY <1>1, <1>3, <1>5 DEF CallbackOrder
<1>6. CASE calls = Append(failed, "complete")
  BY <1>1, <1>2, <1>3, <1>6 DEF CallbackOrder
<1> QED BY <1>4, <1>5, <1>6 DEF TaskInv, Called

LEMMA InvariantImplies ==
    TaskInv => TaskTypeOK /\ EveryChunkOnceInOrder /\ BoundedReadAhead /\ CallbackOrder
<1> SUFFICES ASSUME TaskInv
             PROVE  TaskTypeOK /\ EveryChunkOnceInOrder /\ BoundedReadAhead /\ CallbackOrder
  OBVIOUS
<1> USE StreamAssumption
<1>1. 1..(read - Hand) \subseteq 1..MaxChunks
  BY DEF TaskInv, Types, Hand
<1>2. channel \in Seq(1..MaxChunks) /\ got \in Seq(1..MaxChunks)
  BY <1>1, SeqMonotonic DEF TaskInv, Types
<1>3. TaskTypeOK
  BY <1>1, <1>2, CalledInOrder DEF TaskInv, Types, TaskTypeOK
<1>4. EveryChunkOnceInOrder
  BY DEF TaskInv, Carried, EveryChunkOnceInOrder, Ascending, Contents
<1>5. Cardinality(withheld) \in Nat
  <2>1. IsFiniteSet(1..(read - Hand)) /\ withheld \in SUBSET (1..(read - Hand))
    BY FS_Interval DEF TaskInv, Types
  <2> QED BY ONLY <2>1, FS_Subset, FS_CardinalityType
<1>6. Len(got) \in Nat /\ Len(channel) \in Nat
  BY DEF TaskInv, Types
<1>7. BoundedReadAhead
  BY <1>5, <1>6 DEF TaskInv, Types, Counted, BoundedReadAhead, Hand
<1> QED BY <1>3, <1>4, <1>7, CalledInOrder

-----------------------------------------------------------------------------
(* Every step keeps the invariant *)

\* Facts about the sizes, in the form the arithmetic needs.
LEMMA Sizes ==
    TaskInv => /\ Len(got) \in Nat /\ Len(channel) \in Nat /\ read \in Nat
            /\ IsFiniteSet(withheld) /\ Cardinality(withheld) \in Nat
            /\ read - Hand \in Nat /\ Hand \in {0, 1}
<1> SUFFICES ASSUME TaskInv
             PROVE  /\ Len(got) \in Nat /\ Len(channel) \in Nat /\ read \in Nat
                    /\ IsFiniteSet(withheld) /\ Cardinality(withheld) \in Nat
                    /\ read - Hand \in Nat /\ Hand \in {0, 1}
  OBVIOUS
<1>1. Len(got) \in Nat /\ Len(channel) \in Nat /\ read \in Nat
  BY StreamAssumption DEF TaskInv, Types
<1>2. read - Hand \in Nat /\ Hand \in {0, 1}
  BY DEF TaskInv, Types, Hand
<1>3. IsFiniteSet(1..(read - Hand)) /\ withheld \in SUBSET (1..(read - Hand))
  BY <1>2, FS_Interval DEF TaskInv, Types
<1>4. IsFiniteSet(withheld) /\ Cardinality(withheld) \in Nat
  BY ONLY <1>3, FS_Subset, FS_CardinalityType
<1> QED BY <1>1, <1>2, <1>4

LEMMA ReadChunkKeeps == TaskInv /\ ReadChunk => TaskInv'
<1> SUFFICES ASSUME TaskInv, ReadChunk PROVE TaskInv'
  OBVIOUS
<1>1. /\ pc = "next" /\ pc' = "filter" /\ read' = read + 1 /\ read < MaxChunks
      /\ Hand = 0 /\ Hand' = 1
      /\ withheld' = withheld /\ channel' = channel /\ got' = got
      /\ client' = client /\ captured' = captured
  BY DEF ReadChunk, Hand
<1>2. read \in Nat /\ Len(got) \in Nat /\ Len(channel) \in Nat /\ read' - Hand' = read
  BY <1>1, Sizes
<1>3. Types'
  <2>1. part' \in {"delta", "whole", "head", "tail"} /\ seen' \subseteq {"whole", "head", "tail"}
    BY DEF ReadChunk, NextParts, TaskInv, Types
  <2> QED BY <1>1, <1>2, <2>1, StreamAssumption DEF TaskInv, Types
<1>4. Closed'
  BY <1>1 DEF TaskInv, Closed
<1>5. Carried'
  <2>1. Delivered' = Delivered
    BY <1>1 DEF Delivered
  <2>2. withheld \subseteq 1..read
    BY <1>1, <1>2 DEF TaskInv, Types
  <2>3. Forwarded' = Forwarded
    BY <1>1, <1>2, <2>2 DEF Forwarded
  <2> QED BY <1>1, <2>1, <2>3 DEF TaskInv, Carried
<1>6. Counted'
  <2>1. Cardinality(withheld') = Cardinality(withheld) /\ Cardinality(withheld) \in Nat
    BY <1>1, Sizes
  <2> QED BY <1>1, <1>2, <2>1, StreamAssumption DEF TaskInv, Counted
<1>7. Called'
  <2>1. read' # 0 /\ calls = Begun
    BY <1>1, <1>2 DEF TaskInv, Called
  <2>2. CASE read = 0
    BY <1>1, <2>1, <2>2 DEF ReadChunk, Called, Begun
  <2>3. CASE read # 0
    BY <1>1, <2>1, <2>3 DEF ReadChunk, Called, Begun
  <2> QED BY <2>2, <2>3
<1> QED BY <1>3, <1>4, <1>5, <1>6, <1>7 DEF TaskInv

\* The loop ends where it waits for the upstream, whether its body is over or
\* breaks off.
LEMMA ReadEndsKeep == TaskInv /\ (ReadEnd \/ ReadError) => TaskInv'
<1> SUFFICES ASSUME TaskInv, ReadEnd \/ ReadError PROVE TaskInv'
  OBVIOUS
<1>1. /\ pc = "next" /\ pc' = "done" /\ Hand = 0 /\ Hand' = 0
      /\ calls' \in {Append(calls, "complete"), Append(Append(calls, "error"), "complete")}
      /\ read' = read /\ withheld' = withheld /\ channel' = channel /\ got' = got
      /\ client' = client /\ part' = part /\ seen' = seen /\ captured' = captured
  BY DEF ReadEnd, ReadError, Break, Hand
<1>2. Types' /\ Closed'
  BY <1>1 DEF TaskInv, Types, Closed
<1>3. Carried'
  BY <1>1 DEF TaskInv, Carried, Delivered, Forwarded
<1>4. Counted'
  <2>1. Cardinality(withheld') = Cardinality(withheld)
    BY <1>1
  <2> QED BY <1>1, <2>1, Sizes, StreamAssumption DEF TaskInv, Counted
<1>5. Called'
  BY <1>1 DEF TaskInv, Called, Begun
<1> QED BY <1>2, <1>3, <1>4, <1>5 DEF TaskInv

LEMMA FilterAnswersKeeps == TaskInv /\ FilterAnswers => TaskInv'
<1> SUFFICES ASSUME TaskInv, FilterAnswers PROVE TaskInv'
  OBVIOUS
<1>1. /\ pc = "filter" /\ Hand = 1
      /\ read' = read /\ channel' = channel /\ got' = got
      /\ client' = client /\ part' = part /\ seen' = seen
  BY DEF FilterAnswers, Hand
<1>2. read \in Nat /\ Len(got) \in Nat /\ Len(channel) \in Nat /\ read - 1 \in Nat
  BY <1>1, Sizes
<1>3. /\ withheld \subseteq 1..(read - 1) /\ IsFiniteSet(withheld)
      /\ Cardinality(withheld) \in Nat
  BY <1>1, Sizes DEF TaskInv, Types
<1>4. CASE /\ pc' = "send" /\ captured' \in BOOLEAN
           /\ withheld' = withheld /\ calls' = calls
  <2>1. Hand' = 1
    BY <1>4 DEF Hand
  <2>2. Types' /\ Closed'
    BY <1>1, <1>4, <2>1 DEF TaskInv, Types, Closed
  <2>3. Carried'
    BY <1>1, <1>4 DEF TaskInv, Carried, Delivered, Forwarded
  <2>4. Counted'
    <3>1. Cardinality(withheld') = Cardinality(withheld)
      BY <1>4
    <3> QED BY <1>1, <1>4, <2>1, <3>1 DEF TaskInv, Counted
  <2>5. Called'
    BY <1>1, <1>4 DEF TaskInv, Called, Begun
  <2> QED BY <2>2, <2>3, <2>4, <2>5 DEF TaskInv
<1>5. CASE /\ pc' \in {"next", "done"} /\ captured' = captured
           /\ withheld' = withheld \cup {read}
           /\ IF pc' = "next" THEN calls' = calls
              ELSE calls' = Append(Append(calls, "error"), "complete")
  <2>1. Hand' = 0 /\ read' - Hand' = read
    BY <1>1, <1>2, <1>5 DEF Hand
  <2>2. Types'
    <3>1. channel \in Seq(1..read) /\ got \in Seq(1..read)
      <4>1. 1..(read - 1) \subseteq 1..read
        BY <1>2
      <4>2. channel \in Seq(1..(read - 1)) /\ got \in Seq(1..(read - 1))
        BY <1>1 DEF TaskInv, Types
      <4> QED BY <4>1, <4>2, SeqMonotonic
    <3>2. withheld' \subseteq 1..read
      BY <1>2, <1>3, <1>5
    <3> QED BY <1>1, <1>2, <1>5, <2>1, <3>1, <3>2 DEF TaskInv, Types
  <2>3. Closed'
    BY <1>1, <1>5 DEF TaskInv, Closed
  <2>4. Carried'
    <3>1. Forwarded' = Forwarded
      BY <1>1, <1>5 DEF Forwarded
    <3> QED BY <1>1, <3>1 DEF TaskInv, Carried, Delivered
  <2>5. Counted'
    <3>1. Cardinality(withheld') = Cardinality(withheld) + 1
      <4>1. read \notin withheld
        BY <1>2, <1>3
      <4> QED BY <1>3, <1>5, <4>1, FS_AddElement
    <3> QED BY <1>1, <1>2, <1>3, <2>1, <3>1, StreamAssumption DEF TaskInv, Counted
  <2>6. Called'
    BY <1>1, <1>5 DEF TaskInv, Called, Begun
  <2> QED BY <2>2, <2>3, <2>4, <2>5, <2>6 DEF TaskInv
<1>6. captured \in BOOLEAN /\ (captured \/ part = "whole") \in BOOLEAN
  BY DEF TaskInv, Types
<1>7. \/ /\ pc' = "send" /\ captured' = (captured \/ part = "whole")
         /\ withheld' = withheld /\ calls' = calls
      \/ /\ pc' \in {"next", "done"} /\ captured' = captured
         /\ withheld' = withheld \cup {read}
         /\ IF pc' = "next" THEN calls' = calls
            ELSE calls' = Append(Append(calls, "error"), "complete")
  BY DEF FilterAnswers, ProcessChunk, Break
<1> QED BY <1>4, <1>5, <1>6, <1>7

LEMMA SendChunkKeeps == TaskInv /\ SendChunk => TaskInv'
<1> SUFFICES ASSUME TaskInv, SendChunk PROVE TaskInv'
  OBVIOUS
<1>1. /\ pc = "send" /\ pc' = "next" /\ Hand = 1 /\ Hand' = 0
      /\ client = "reading" /\ Len(channel) < BufferSize
      /\ channel' = Append(channel, read)
      /\ read' = read /\ withheld' = withheld /\ got' = got /\ client' = client
      /\ calls' = calls /\ part' = part /\ seen' = seen /\ captured' = captured
  BY DEF SendChunk, Hand
<1>2. /\ read \in Nat /\ Len(got) \in Nat /\ Len(channel) \in Nat /\ read - 1 \in Nat
      /\ Cardinality(withheld) \in Nat
  BY <1>1, Sizes
<1>3. /\ channel \in Seq(1..(read - 1)) /\ got \in Seq(1..(read - 1))
      /\ withheld \subseteq 1..(read - 1) /\ read \in 1..read
      /\ 1..(read - 1) \subseteq 1..read
  BY <1>1, <1>2 DEF TaskInv, Types
<1>4. /\ channel \in Seq(1..read) /\ got \in Seq(1..read)
      /\ Delivered \in Seq(1..(read - 1))
  <2>1. channel \in Seq(1..read) /\ got \in Seq(1..read)
    BY <1>3, SeqMonotonic
  <2>2. Delivered \in Seq(1..(read - 1))
    BY <1>3, ConcatProperties DEF Delivered
  <2> QED BY <2>1, <2>2
<1>5. /\ Append(channel, read) \in Seq(1..read)
      /\ Len(Append(channel, read)) = Len(channel) + 1
  BY <1>3, <1>4, AppendProperties
<1>6. Types'
  BY <1>1, <1>2, <1>3, <1>4, <1>5, StreamAssumption DEF TaskInv, Types
<1>7. Closed'
  BY <1>1 DEF TaskInv, Closed
<1>8. Carried'
  <2>1. Delivered' = Append(Delivered, read)
    BY <1>1, <1>3, <1>4, SendDelivers DEF Delivered
  <2>2. /\ Ascending(Append(Delivered, read))
        /\ Contents(Append(Delivered, read)) = Contents(Delivered) \cup {read}
    BY <1>1, <1>2, <1>4, AppendAscending DEF TaskInv, Carried
  <2>3. Forwarded' = Forwarded \cup {read}
    BY <1>1, <1>2, <1>3 DEF Forwarded
  <2>4. Contents(Delivered) = Forwarded
    BY <1>1 DEF TaskInv, Carried
  <2> QED BY <2>1, <2>2, <2>3, <2>4 DEF Carried
<1>9. Counted'
  <2>1. Cardinality(withheld') = Cardinality(withheld)
    BY <1>1
  <2> QED BY <1>1, <1>2, <1>5, <2>1 DEF TaskInv, Counted
<1>10. Called'
  BY <1>1 DEF TaskInv, Called, Begun
<1> QED BY <1>6, <1>7, <1>8, <1>9, <1>10 DEF TaskInv

LEMMA ReceiverDroppedKeeps == TaskInv /\ ReceiverDropped => TaskInv'
<1> SUFFICES ASSUME TaskInv, ReceiverDropped PROVE TaskInv'
  OBVIOUS
<1>1. /\ pc = "send" /\ pc' = "done" /\ Hand = 1 /\ Hand' = 0
      /\ client = "gone" /\ calls' = Append(calls, "complete")
      /\ read' = read /\ withheld' = withheld /\ channel' = channel /\ got' = got
      /\ client' = client /\ part' = part /\ seen' = seen /\ captured' = captured
  BY DEF ReceiverDropped, Break, Hand
<1>2. read \in Nat /\ read - 1 \in Nat
  BY <1>1, Sizes
<1>3. Types'
  <2>1. 1..(read - 1) \subseteq 1..read
    BY <1>2
  <2>2. channel \in Seq(1..(read - 1)) /\ got \in Seq(1..(read - 1))
    BY <1>1 DEF TaskInv, Types
  <2>3. channel \in Seq(1..read) /\ got \in Seq(1..read)
    BY <2>1, <2>2, SeqMonotonic
  <2> QED BY <1>1, <1>2, <2>1, <2>3 DEF TaskInv, Types
<1>4. Closed'
  BY <1>1 DEF TaskInv, Closed
<1>5. Carried'
  BY <1>1 DEF TaskInv, Carried, Delivered
<1>6. Counted'
  <2>1. Cardinality(withheld') = Cardinality(withheld)
    BY <1>1
  <2> QED BY <1>1, <2>1 DEF TaskInv, Counted
<1>7. Called'
  BY <1>1 DEF TaskInv, Called, Begun
<1> QED BY <1>3, <1>4, <1>5, <1>6, <1>7 DEF TaskInv

LEMMA ReceiveKeeps == TaskInv /\ Receive => TaskInv'
<1> SUFFICES ASSUME TaskInv, Receive PROVE TaskInv'
  OBVIOUS
<1>1. /\ client = "reading" /\ channel # <<>>
      /\ got' = Append(got, Head(channel)) /\ channel' = Tail(channel)
      /\ pc' = pc /\ Hand' = Hand /\ read' = read /\ withheld' = withheld
      /\ client' = client /\ calls' = calls /\ part' = part /\ seen' = seen
      /\ captured' = captured
  BY DEF Receive, Hand
<1> DEFINE S == 1..(read - Hand)
<1>2. got \in Seq(S) /\ channel \in Seq(S)
  BY DEF TaskInv, Types
<1>3. /\ got' \o channel' = Delivered
      /\ got' \in Seq(S) /\ channel' \in Seq(S)
      /\ Len(got') = Len(got) + 1 /\ Len(channel') = Len(channel) - 1
  <2> HIDE DEF S
  <2> QED BY <1>1, <1>2, ReceiveDelivers DEF Delivered
<1>4. Types'
  BY <1>1, <1>3, Sizes, StreamAssumption DEF TaskInv, Types
<1>5. Closed'
  BY <1>1 DEF TaskInv, Closed
<1>6. Carried'
  BY <1>1, <1>3 DEF TaskInv, Carried, Delivered, Forwarded
<1>7. Counted'
  <2>1. Cardinality(withheld') = Cardinality(withheld)
    BY <1>1
  <2> QED BY <1>1, <1>3, <2>1, Sizes DEF TaskInv, Counted
<1>8. Called'
  BY <1>1 DEF TaskInv, Called, Begun
<1> QED BY <1>4, <1>5, <1>6, <1>7, <1>8 DEF TaskInv

LEMMA BodyEndsKeeps == TaskInv /\ BodyEnds => TaskInv'
<1> SUFFICES ASSUME TaskInv, BodyEnds PROVE TaskInv'
  OBVIOUS
<1>1. /\ client = "reading" /\ channel = <<>> /\ pc = "done" /\ client' = "ended"
      /\ pc' = pc /\ Hand' = Hand /\ read' = read /\ withheld' = withheld
      /\ channel' = channel /\ got' = got /\ calls' = calls /\ part' = part
      /\ seen' = seen /\ captured' = captured
  BY DEF BodyEnds, Hand
<1>2. Types' /\ Closed'
  BY <1>1 DEF TaskInv, Types, Closed
<1>3. Carried'
  BY <1>1 DEF TaskInv, Carried, Delivered, Forwarded
<1>4. Counted'
  <2>1. Cardinality(withheld') = Cardinality(withheld)
    BY <1>1
  <2> QED BY <1>1, <2>1 DEF TaskInv, Counted
<1>5. Called'
  BY <1>1 DEF TaskInv, Called, Begun
<1> QED BY <1>2, <1>3, <1>4, <1>5 DEF TaskInv

LEMMA DisconnectKeeps == TaskInv /\ Disconnect => TaskInv'
<1> SUFFICES ASSUME TaskInv, Disconnect PROVE TaskInv'
  OBVIOUS
<1>1. /\ client = "reading" /\ client' = "gone" /\ channel' = <<>>
      /\ pc' = pc /\ Hand' = Hand /\ read' = read /\ withheld' = withheld
      /\ got' = got /\ calls' = calls /\ part' = part
      /\ seen' = seen /\ captured' = captured
  BY DEF Disconnect, Hand
<1> DEFINE S == 1..(read - Hand)
<1>2. got \in Seq(S) /\ channel \in Seq(S)
  BY DEF TaskInv, Types
<1>3. channel' \in Seq(S) /\ Len(channel') = 0
  BY <1>1, EmptySeq
<1>4. Types'
  BY <1>1, <1>3, StreamAssumption DEF TaskInv, Types
<1>5. Closed'
  BY <1>1 DEF Closed
<1>6. Carried'
  <2>1. Delivered' = got
    BY <1>1, <1>2, ConcatEmptySeq DEF Delivered
  <2>2. Ascending(got)
    BY <1>2, PrefixAscending DEF TaskInv, Carried, Delivered
  <2> QED BY <1>1, <2>1, <2>2 DEF Carried
<1>7. Counted'
  <2>1. Cardinality(withheld') = Cardinality(withheld)
    BY <1>1
  <2>2. Len(channel) <= BufferSize
    BY DEF TaskInv, Types
  <2>3. Hand = IF pc \in {"filter", "send"} THEN 1 ELSE 0
    BY DEF Hand
  <2>4. pc = "next" => Hand = 0
    BY <2>3
  <2> QED BY <1>1, <2>1, <2>2, <2>4, Sizes, StreamAssumption DEF TaskInv, Counted
<1>8. Called'
  BY <1>1 DEF Disconnect, TaskInv, Called, Begun
<1> QED BY <1>4, <1>5, <1>6, <1>7, <1>8 DEF TaskInv

LEMMA StutterKeeps == TaskInv /\ UNCHANGED taskVars => TaskInv'
BY DEF taskVars, TaskInv, Types, Closed, Carried, Counted, Called, Begun, Hand, Delivered, Forwarded

LEMMA NextKeeps == TaskInv /\ [TaskNext]_taskVars => TaskInv'
<1> SUFFICES ASSUME TaskInv, [TaskNext]_taskVars PROVE TaskInv'
  OBVIOUS
<1>1. CASE ReadChunk
  BY <1>1, ReadChunkKeeps
<1>2. CASE ReadEnd \/ ReadError
  BY <1>2, ReadEndsKeep
<1>3. CASE FilterAnswers
  BY <1>3, FilterAnswersKeeps
<1>4. CASE SendChunk
  BY <1>4, SendChunkKeeps
<1>5. CASE ReceiverDropped
  BY <1>5, ReceiverDroppedKeeps
<1>6. CASE Receive
  BY <1>6, ReceiveKeeps
<1>7. CASE BodyEnds
  BY <1>7, BodyEndsKeeps
<1>8. CASE Disconnect
  BY <1>8, DisconnectKeeps
<1>9. CASE UNCHANGED taskVars
  BY <1>9, StutterKeeps
<1> QED BY <1>1, <1>2, <1>3, <1>4, <1>5, <1>6, <1>7, <1>8, <1>9 DEF TaskNext, Over

-----------------------------------------------------------------------------
(* The theorems *)

\* The invariant holds in every reachable state.
THEOREM TaskInvariance == TaskSpec => []TaskInv
BY InitInvariant, NextKeeps, PTL DEF TaskSpec

\* The channel of create_streaming_response never holds more chunks than
\* STREAM_BUFFER_SIZE, whatever that is.
THEOREM StreamTypeCorrect == TaskSpec => []TaskTypeOK
BY TaskInvariance, InvariantImplies, PTL

\* Each chunk a task reads reaches a client that stays once and in order,
\* unless the processor withholds it.
THEOREM ChunksInOrder == TaskSpec => []EveryChunkOnceInOrder
BY TaskInvariance, InvariantImplies, PTL

\* A task is at most a channel and one chunk ahead of its client, be it slow
\* or gone.
THEOREM ReadAheadBounded == TaskSpec => []BoundedReadAhead
BY TaskInvariance, InvariantImplies, PTL

\* on_complete is called at most once and after every other callback.
THEOREM CallbacksInOrder == TaskSpec => []CallbackOrder
BY TaskInvariance, InvariantImplies, PTL

-----------------------------------------------------------------------------
(* Signals: numbers *)

\* Induction over the natural numbers: a set of them that is not empty has a
\* least element.
LEMMA LeastNumber ==
    ASSUME NEW T \in SUBSET Nat, T # {}
    PROVE  \E n \in T : \A m \in T : n <= m
<1> DEFINE Below(n) == {m \in Nat : m < n}
           B == {Below(n) : n \in T}
<1>1. ASSUME NEW n \in Nat PROVE IsFiniteSet(Below(n))
  <2>1. Below(n) \in SUBSET Nat /\ \A s \in Below(n) : s <= n
    OBVIOUS
  <2>2. QED BY <2>1, FS_BoundedSetOfNaturals
<1>2. B \subseteq FiniteSubsetsOf(Nat) /\ B # {}
  BY <1>1 DEF FiniteSubsetsOf
<1>3. PICK b \in B : \A y \in B : ~(<<y, b>> \in StrictSubsetOrdering(Nat))
  BY <1>2, FS_StrictSubsetOrderingWellFounded, WFMin
<1>4. PICK n \in T : b = Below(n)
  BY <1>3
<1>5. ASSUME NEW m \in T, m < n PROVE FALSE
  <2>1. Below(m) \in B
    OBVIOUS
  <2>2. Below(m) \subseteq Below(n) /\ Below(m) # Below(n)
    BY <1>5
  <2>3. <<Below(m), b>> \in StrictSubsetOrdering(Nat)
    BY <2>2, <1>4 DEF StrictSubsetOrdering
  <2>4. QED BY <2>1, <2>3, <1>3
<1>6. QED BY <1>5

\* The same as a step from n to n + 1, up to a bound: for the set of the
\* numbers that have a property.
LEMMA UpTo ==
    ASSUME NEW N \in Nat, NEW S, 0 \in S, \A n \in 0..(N - 1) : n \in S => n + 1 \in S
    PROVE  0..N \subseteq S
<1> SUFFICES ASSUME {n \in 0..N : n \notin S} # {} PROVE FALSE
  OBVIOUS
<1> DEFINE T == {k \in 0..N : k \notin S}
<1>1. PICK n \in T : \A m \in T : n <= m
  <2>1. T \in SUBSET Nat /\ T # {}
    OBVIOUS
  <2>2. QED BY <2>1, LeastNumber
<1>2. n # 0 /\ n - 1 \in 0..(N - 1)
  BY <1>1
<1>3. n - 1 \in S
  BY <1>1, <1>2
<1>4. QED BY <1>1, <1>2, <1>3

-----------------------------------------------------------------------------
(* Scans of calls *)

\* A set of numbers with a bound has a greatest, and one of naturals a least.
LEMMA MaxIs ==
    ASSUME NEW T \in SUBSET Int, NEW N \in Int, T # {}, \A x \in T : x <= N
    PROVE  Max(T) \in T /\ \A x \in T : x <= Max(T)
<1> DEFINE D == {N - x : x \in T}
<1>1. D \in SUBSET Nat /\ D # {}
  <2>1. ASSUME NEW d \in D PROVE d \in Nat
    <3>1. PICK x \in T : d = N - x
      OBVIOUS
    <3>2. x \in Int /\ x <= N
      OBVIOUS
    <3>3. QED BY <3>1, <3>2
  <2>2. PICK x : x \in T
    OBVIOUS
  <2>3. N - x \in D
    BY <2>2
  <2> HIDE DEF D
  <2>4. QED BY <2>1, <2>3
<1>2. PICK d \in D : \A e \in D : d <= e
  BY <1>1, LeastNumber
<1>3. PICK x \in T : d = N - x
  BY <1>2
<1>4. \A y \in T : x >= y
  <2> SUFFICES ASSUME NEW y \in T PROVE x >= y
    OBVIOUS
  <2>1. N - y \in D
    OBVIOUS
  <2>2. QED BY <2>1, <1>2, <1>3
<1>5. Max(T) \in T /\ \A y \in T : Max(T) >= y
  BY <1>3, <1>4 DEF Max
<1>6. QED BY <1>5

LEMMA MinIs ==
    ASSUME NEW T \in SUBSET Nat, T # {}
    PROVE  Min(T) \in T /\ \A x \in T : Min(T) <= x
<1>1. PICK n \in T : \A m \in T : n <= m
  BY LeastNumber
<1>2. Min(T) \in T /\ \A y \in T : Min(T) =< y
  BY <1>1 DEF Min
<1>3. QED BY <1>2

\* A scan stops at calls with a reach only, never within the reach of an
\* earlier stop, and at every other call that has one.
LEMMA StopsIs ==
    ASSUME NEW N \in Nat, NEW reach \in [1..N -> Nat]
    PROVE  /\ Stops(N, reach) \subseteq {k \in 1..N : reach[k] # 0}
           /\ \A i, j \in Stops(N, reach) : i < j => reach[i] < j
           /\ \A k \in 1..N : reach[k] # 0 /\ k \notin Stops(N, reach) =>
                 \E i \in Stops(N, reach) : i < k /\ reach[i] >= k
<1> DEFINE Step(b, k) == IF reach[k] # 0 /\ \A stop \in b : reach[stop] < k THEN b \cup {k} ELSE b
           F(g, n) == [k \in 0..n |-> IF k = 0 THEN {} ELSE Step(g[k - 1], k)]
           IsAfter(g, n) == g = F(g, n)
           S == {n \in 0..N : \E g : IsAfter(g, n)}
<1>a. Stops(N, reach) = (CHOOSE g : g = F(g, N))[N]
  BY DEF Stops
<1> HIDE DEF Step
<1>1. 0 \in S
  <2>1. IsAfter([k \in 0..0 |-> {}], 0)
    OBVIOUS
  <2>2. \E g : IsAfter(g, 0)
    BY <2>1
  <2>3. QED BY <2>2
<1>2. ASSUME NEW n \in 0..(N - 1), n \in S PROVE n + 1 \in S
  <2>1. PICK g : IsAfter(g, n)
    BY <1>2
  <2> DEFINE h == [k \in 0..(n + 1) |-> IF k = n + 1 THEN Step(g[n], n + 1) ELSE g[k]]
  <2>2. ASSUME NEW k \in 0..(n + 1)
        PROVE  h[k] = IF k = 0 THEN {} ELSE Step(h[k - 1], k)
    <3>1. CASE k = n + 1
      BY <3>1
    <3>2. CASE k \in 0..n
      <4>1. g[k] = IF k = 0 THEN {} ELSE Step(g[k - 1], k)
        BY <2>1, <3>2
      <4>2. h[k] = g[k] /\ (k # 0 => h[k - 1] = g[k - 1])
        BY <3>2
      <4> HIDE DEF h
      <4>3. QED BY <4>1, <4>2
    <3>3. QED BY <3>1, <3>2
  <2>3. IsAfter(h, n + 1)
    BY <2>2
  <2>4. \E f : IsAfter(f, n + 1)
    BY <2>3
  <2>5. QED BY <2>4
<1>3. N \in S
  <2> HIDE DEF S
  <2>1. 0..N \subseteq S
    BY <1>1, <1>2, UpTo
  <2>2. QED BY <2>1
<1> DEFINE upTo == CHOOSE g : g = F(g, N)
<1>4. upTo = F(upTo, N)
  <2>1. \E g : g = F(g, N)
    BY <1>3
  <2> HIDE DEF F
  <2>2. QED BY <2>1
<1>5. upTo[0] = {} /\ \A n \in 1..N : upTo[n] = Step(upTo[n - 1], n)
  <2> HIDE DEF upTo
  <2>1. upTo = [k \in 0..N |-> IF k = 0 THEN {} ELSE Step(upTo[k - 1], k)]
    BY <1>4
  <2>2. upTo[0] = {}
    BY <2>1
  <2>3. ASSUME NEW n \in 1..N PROVE upTo[n] = Step(upTo[n - 1], n)
    <3>1. n \in 0..N /\ n # 0
      OBVIOUS
    <3>2. QED BY <2>1, <3>1
  <2>4. QED BY <2>2, <2>3
<1>6. Stops(N, reach) = upTo[N]
  BY <1>a
<1> HIDE DEF upTo, S, F
<1> DEFINE Fine(b, n) ==
              /\ b \subseteq {k \in 1..n : reach[k] # 0}
              /\ \A i, j \in b : i < j => reach[i] < j
              /\ \A k \in 1..n : reach[k] # 0 /\ k \notin b =>
                    \E i \in b : i < k /\ reach[i] >= k
           G == {n \in 0..N : Fine(upTo[n], n)}
<1>7. 0 \in G
  BY <1>5
<1>8. ASSUME NEW n \in 0..(N - 1), n \in G PROVE n + 1 \in G
  <2> DEFINE b == upTo[n]
             c == upTo[n + 1]
  <2>1. c = Step(b, n + 1) /\ Fine(b, n) /\ n + 1 \in 1..N
    BY <1>5, <1>8
  <2> HIDE DEF b, c
  <2>2. ASSUME c = b, reach[n + 1] = 0 \/ \E i \in b : reach[i] >= n + 1 PROVE Fine(c, n + 1)
    <3>1. \A k \in 1..(n + 1) : reach[k] # 0 /\ k \notin b => \E i \in b : i < k /\ reach[i] >= k
      <4> SUFFICES ASSUME NEW k \in 1..(n + 1), reach[k] # 0, k \notin b
                   PROVE  \E i \in b : i < k /\ reach[i] >= k
        OBVIOUS
      <4>1. CASE k = n + 1
        <5>1. PICK i \in b : reach[i] >= n + 1
          BY <2>2, <4>1
        <5>2. i < n + 1
          BY <2>1
        <5>3. QED BY <5>1, <5>2, <4>1
      <4>2. CASE k \in 1..n
        BY <4>2, <2>1
      <4>3. QED BY <4>1, <4>2
    <3>2. ASSUME NEW k \in c PROVE k \in 1..(n + 1) /\ reach[k] # 0
      BY <2>1, <2>2
    <3>3. QED BY <3>1, <3>2, <2>1, <2>2
  <2>3. ASSUME c = b \cup {n + 1}, reach[n + 1] # 0, \A i \in b : reach[i] < n + 1
        PROVE  Fine(c, n + 1)
    <3>1. \A k \in 1..(n + 1) : reach[k] # 0 /\ k \notin c => \E i \in c : i < k /\ reach[i] >= k
      <4> SUFFICES ASSUME NEW k \in 1..(n + 1), reach[k] # 0, k \notin c
                   PROVE  \E i \in c : i < k /\ reach[i] >= k
        OBVIOUS
      <4>1. k \in 1..n /\ k \notin b
        BY <2>3
      <4>2. QED BY <4>1, <2>1, <2>3
    <3>2. ASSUME NEW k \in c PROVE k \in 1..(n + 1) /\ reach[k] # 0
      <4>1. CASE k \in b
        BY <4>1, <2>1
      <4>2. CASE k = n + 1
        BY <4>2, <2>3, <2>1
      <4>3. QED BY <4>1, <4>2, <2>3
    <3>3. ASSUME NEW i \in c, NEW j \in c, i < j PROVE reach[i] < j
      <4>1. i \in b
        BY <2>1, <2>3, <3>3, <3>2
      <4>2. CASE j = n + 1
        BY <4>1, <4>2, <2>3
      <4>3. CASE j \in b
        BY <4>1, <4>3, <2>1, <3>3
      <4>4. QED BY <4>2, <4>3, <2>3
    <3>4. QED BY <3>1, <3>2, <3>3
  <2>4. Fine(c, n + 1)
    <3>1. CASE reach[n + 1] # 0 /\ \A i \in b : reach[i] < n + 1
      <4>1. c = b \cup {n + 1}
        BY <3>1, <2>1 DEF Step
      <4> HIDE DEF Fine
      <4>2. QED BY <4>1, <3>1, <2>3
    <3>2. CASE ~(reach[n + 1] # 0 /\ \A i \in b : reach[i] < n + 1)
      <4>1. c = b
        BY <3>2, <2>1 DEF Step
      <4>2. reach[n + 1] = 0 \/ \E i \in b : reach[i] >= n + 1
        <5>1. CASE \E i \in b : ~(reach[i] < n + 1)
          <6>1. PICK i \in b : ~(reach[i] < n + 1)
            BY <5>1
          <6>2. i \in 1..N
            BY <2>1
          <6>3. reach[i] >= n + 1
            BY <6>1, <6>2
          <6>4. QED BY <6>3
        <5>2. QED BY <5>1, <3>2
      <4> HIDE DEF Fine
      <4>3. QED BY <4>1, <4>2, <2>2
    <3> HIDE DEF Fine
    <3>3. QED BY <3>1, <3>2
  <2> HIDE DEF Fine
  <2>5. QED BY <2>4 DEF c
<1>9. Fine(upTo[N], N)
  <2> HIDE DEF G
  <2>1. 0..N \subseteq G
    BY <1>7, <1>8, UpTo
  <2>2. N \in G
    BY <2>1
  <2>3. QED BY <2>2 DEF G
<1>10. QED BY <1>6, <1>9

\* A list of the length of its domain.
LEMMA LenIs ==
    ASSUME NEW N \in Nat, NEW f \in [1..N -> Nat]
    PROVE  Len(f) = N
<1>1. f \in Seq(Nat)
  OBVIOUS
<1>2. QED BY <1>1

\* What is reported of the calls that have an end is not within an earlier
\* report's reach, and what is left out is.
LEMMA ScanIs ==
    ASSUME NEW N \in Nat, NEW end \in [1..N -> Nat], NEW reach \in [1..N -> Nat],
           \A i \in 1..N : end[i] = 0 <=> reach[i] = 0
    PROVE  LET found == Scan(end, reach)
           IN  /\ DOMAIN found \subseteq {i \in 1..N : end[i] # 0}
               /\ \A i \in DOMAIN found : found[i] = end[i]
               /\ \A i, j \in DOMAIN found : i < j => reach[i] < j
               /\ \A k \in 1..N : end[k] # 0 /\ k \notin DOMAIN found =>
                     \E i \in DOMAIN found : i < k /\ reach[i] >= k
<1>1. Scan(end, reach) = [i \in Stops(N, reach) |-> end[i]]
  BY LenIs DEF Scan
<1>2. QED BY <1>1, StopsIs

\* A list of calls, as far as its scans are concerned.
CallList(list) == Len(list) \in Nat /\ DOMAIN list = 1..Len(list)

\* A run is as long as it can be.
LEMMA RetryRun ==
    ASSUME NEW list, CallList(list), NEW i \in DOMAIN list
    PROVE  LET end == RunEnd(list, i, SameCall)
           IN  /\ end \in i..Len(list)
               /\ \A k \in i..end : SameCall(list[k], list[i])
               /\ \A j \in i..Len(list) : (\A k \in i..j : SameCall(list[k], list[i])) => j <= end
<1> DEFINE R == {j \in i..Len(list) : \A k \in i..j : SameCall(list[k], list[i])}
<1>1. i \in 1..Len(list) /\ Len(list) \in Nat
  BY DEF CallList
<1>2. i \in R
  BY <1>1 DEF SameCall
<1>3. RunEnd(list, i, SameCall) = Max(R)
  BY DEF RunEnd
<1>4. Max(R) \in R /\ \A x \in R : x <= Max(R)
  <2>1. R \in SUBSET Int
    BY <1>1
  <2>2. R # {} /\ Len(list) \in Int /\ \A x \in R : x <= Len(list)
    BY <1>1, <1>2
  <2> HIDE DEF R
  <2>3. QED BY <2>1, <2>2, MaxIs
<1>5. QED BY <1>3, <1>4

LEMMA DriftRun ==
    ASSUME NEW list, CallList(list), NEW i \in DOMAIN list
    PROVE  LET end == RunEnd(list, i, SameTool)
           IN  /\ end \in i..Len(list)
               /\ \A k \in i..end : SameTool(list[k], list[i])
               /\ \A j \in i..Len(list) : (\A k \in i..j : SameTool(list[k], list[i])) => j <= end
<1> DEFINE R == {j \in i..Len(list) : \A k \in i..j : SameTool(list[k], list[i])}
<1>1. i \in 1..Len(list) /\ Len(list) \in Nat
  BY DEF CallList
<1>2. i \in R
  BY <1>1 DEF SameTool
<1>3. RunEnd(list, i, SameTool) = Max(R)
  BY DEF RunEnd
<1>4. Max(R) \in R /\ \A x \in R : x <= Max(R)
  <2>1. R \in SUBSET Int
    BY <1>1
  <2>2. R # {} /\ Len(list) \in Int /\ \A x \in R : x <= Len(list)
    BY <1>1, <1>2
  <2> HIDE DEF R
  <2>3. QED BY <2>1, <2>2, MaxIs
<1>5. QED BY <1>3, <1>4

\* The p calls from i on come Cycles times in a row, and not more often.
LEMMA CyclesIs ==
    ASSUME NEW list, CallList(list), NEW i \in DOMAIN list,
           NEW p \in 2..5, i + p - 1 <= Len(list)
    PROVE  LET c == Cycles(list, i, p)
           IN  /\ c \in Nat \ {0} /\ i + c * p - 1 <= Len(list)
               /\ \A k \in i..(i + (c - 1) * p - 1) : list[k].tool = list[k + p].tool
               /\ \A d \in Nat \ {0} :
                     /\ i + d * p - 1 <= Len(list)
                     /\ \A k \in i..(i + (d - 1) * p - 1) : list[k].tool = list[k + p].tool
                     => d <= c
<1> DEFINE N == Len(list)
           R == {c \in 1..((N - i + 1) \div p) :
                    \A k \in i..(i + (c - 1) * p - 1) : list[k].tool = list[k + p].tool}
<1>1. i \in 1..N /\ N \in Nat
  BY DEF CallList
<1>2. (N - i + 1) \div p \in Nat /\ \A d \in Nat : d <= (N - i + 1) \div p <=> d * p <= N - i + 1
  <2>1. CASE p = 2
    BY <2>1, <1>1
  <2>2. CASE p = 3
    BY <2>2, <1>1
  <2>3. CASE p = 4
    BY <2>3, <1>1
  <2>4. CASE p = 5
    BY <2>4, <1>1
  <2>5. QED BY <2>1, <2>2, <2>3, <2>4
<1>3. 1 \in R
  <2>1. 1 \in 1..((N - i + 1) \div p)
    BY <1>1, <1>2
  <2>2. i..(i + (1 - 1) * p - 1) = {}
    BY <1>1
  <2>3. QED BY <2>1, <2>2
<1>4. Cycles(list, i, p) = Max(R)
  BY DEF Cycles
<1>5. Max(R) \in R /\ \A x \in R : x <= Max(R)
  <2> DEFINE M == (N - i + 1) \div p
  <2>1. R \in SUBSET (1..M) /\ M \in Int
    BY <1>2
  <2> HIDE DEF M, R
  <2>2. R \in SUBSET Int /\ R # {} /\ \A x \in R : x <= M
    BY <2>1, <1>3
  <2> HIDE DEF R
  <2>3. QED BY <2>2, <2>1, MaxIs
<1> DEFINE c == Max(R)
<1>6. c \in 1..((N - i + 1) \div p) /\ \A k \in i..(i + (c - 1) * p - 1) : list[k].tool = list[k + p].tool
  BY <1>5
<1>7. ASSUME NEW d \in Nat \ {0}, i + d * p - 1 <= N,
             \A k \in i..(i + (d - 1) * p - 1) : list[k].tool = list[k + p].tool
      PROVE  d <= c
  <2>1. d * p \in Int /\ d * p <= N - i + 1
    <3>1. d * p \in Int
      OBVIOUS
    <3> QED BY <3>1, <1>1, <1>7
  <2>2. d \in 1..((N - i + 1) \div p)
    BY <2>1, <1>2
  <2>3. d \in R
    BY <2>2, <1>7
  <2> HIDE DEF R
  <2>4. QED BY <2>3, <1>5
<1>8. c \in Nat \ {0} /\ i + c * p - 1 <= N
  <2> HIDE DEF c
  <2>1. c \in Nat \ {0} /\ c <= (N - i + 1) \div p
    BY <1>6, <1>2
  <2>2. c * p <= N - i + 1 /\ c * p \in Int
    BY <2>1, <1>2
  <2>3. QED BY <2>1, <2>2, <1>1
<1> HIDE DEF R
<1>9. QED BY <1>4, <1>6, <1>7, <1>8

LEMMA RetryEndIs ==
    ASSUME NEW list, CallList(list), NEW i \in DOMAIN list
    PROVE  LET end == RetryEnd(list, i)
           IN  /\ end \in Nat
               /\ end # 0 =>
                     /\ end \in (i + 2)..Len(list)
                     /\ \A k \in i..end : list[k].tool = list[i].tool
               /\ \A b \in (i + 2)..Len(list) :
                     (\A k \in i..b : SameCall(list[k], list[i])) => end >= b
<1> DEFINE end == RunEnd(list, i, SameCall)
<1>1. i \in 1..Len(list) /\ Len(list) \in Nat
  BY DEF CallList
<1>2. /\ end \in i..Len(list)
      /\ \A k \in i..end : SameCall(list[k], list[i])
      /\ \A j \in i..Len(list) : (\A k \in i..j : SameCall(list[k], list[i])) => j <= end
  BY RetryRun
<1>3. RetryEnd(list, i) = IF end - i + 1 >= 3 THEN end ELSE 0
  BY DEF RetryEnd, RetryThreshold
<1> HIDE DEF end
<1>4. \A k \in i..end : list[k].tool = list[i].tool
  BY <1>2 DEF SameCall
<1>5. ASSUME NEW b \in (i + 2)..Len(list), \A k \in i..b : SameCall(list[k], list[i])
      PROVE  RetryEnd(list, i) >= b
  <2>1. b <= end
    BY <1>1, <1>2, <1>5
  <2>2. QED BY <2>1, <1>1, <1>2, <1>3
<1>6. QED BY <1>1, <1>2, <1>3, <1>4, <1>5

\* Calls of one tool from i on are a run of drift, or all the same call.
LEMMA DriftEndIs ==
    ASSUME NEW list, CallList(list), NEW i \in DOMAIN list
    PROVE  LET end == DriftEnd(list, i)
           IN  /\ end \in Nat
               /\ end # 0 =>
                     /\ end \in (i + 2)..Len(list)
                     /\ \A k \in i..end : list[k].tool = list[i].tool
               /\ \A b \in (i + 2)..Len(list) :
                     (\A k \in i..b : list[k].tool = list[i].tool) =>
                         end >= b \/ RetryEnd(list, i) >= b
<1> DEFINE end == RunEnd(list, i, SameTool)
           varied == \E k \in i..end : list[k].args # list[i].args
<1>1. i \in 1..Len(list) /\ Len(list) \in Nat
  BY DEF CallList
<1>2. /\ end \in i..Len(list)
      /\ \A k \in i..end : SameTool(list[k], list[i])
      /\ \A j \in i..Len(list) : (\A k \in i..j : SameTool(list[k], list[i])) => j <= end
  BY DriftRun
<1>3. DriftEnd(list, i) = IF end - i + 1 >= 3 /\ varied THEN end ELSE 0
  BY DEF DriftEnd, ParameterDriftThreshold
<1> HIDE DEF end
<1>4. \A k \in i..end : list[k].tool = list[i].tool
  BY <1>2 DEF SameTool
<1>5. ASSUME NEW b \in (i + 2)..Len(list), \A k \in i..b : list[k].tool = list[i].tool
      PROVE  DriftEnd(list, i) >= b \/ RetryEnd(list, i) >= b
  <2>1. b <= end
    BY <1>1, <1>2, <1>5 DEF SameTool
  <2>2. CASE varied
    <3> HIDE DEF varied
    <3>1. QED BY <2>1, <2>2, <1>1, <1>2, <1>3
  <2>3. CASE ~varied
    <3>1. \A k \in i..b : SameCall(list[k], list[i])
      <4>1. i..b \subseteq i..end
        BY <2>1, <1>1, <1>2
      <4>2. QED BY <4>1, <2>3, <1>4 DEF SameCall
    <3>2. QED BY <3>1, RetryEndIs
  <2>4. QED BY <2>2, <2>3
<1> HIDE DEF varied
<1>6. QED BY <1>1, <1>2, <1>3, <1>4, <1>5

\* A pattern of p calls.
Periodic(list, a, b, p) ==
    /\ b - a + 1 >= 3 * p
    /\ \A k \in a..(b - p) : list[k].tool = list[k + p].tool
    /\ \E k \in a..b : list[k].tool # list[a].tool

\* If any call of a pattern differs from the first, one of the first p does.
LEMMA DiffersEarly ==
    ASSUME NEW list, NEW a \in Nat, NEW b \in Nat, NEW p \in 2..5, Periodic(list, a, b, p)
    PROVE  \E k \in a..(a + p - 1) : list[k].tool # list[a].tool
<1> DEFINE T == {k \in a..b : list[k].tool # list[a].tool}
<1>1. T \in SUBSET Nat /\ T # {}
  BY DEF Periodic
<1>2. PICK n \in T : \A m \in T : n <= m
  BY <1>1, LeastNumber
<1>3. n \in a..b /\ list[n].tool # list[a].tool
  BY <1>2
<1>4. SUFFICES ASSUME n > a + p - 1 PROVE FALSE
  <2>1. n \in a..(a + p - 1)
    BY <1>3, <1>4
  <2>2. QED BY <2>1, <1>3
<1>5. n - p \in a..(b - p) /\ n - p \in a..b /\ n - p < n /\ (n - p) + p = n
  BY <1>3, <1>4
<1>6. list[n - p].tool = list[n].tool
  BY <1>5 DEF Periodic
<1>7. n - p \in T
  BY <1>5, <1>6, <1>3
<1> HIDE DEF T
<1>8. QED BY <1>2, <1>5, <1>7

\* What starts at i is a pattern of whole cycles; there is one if a pattern does.
LEMMA OscillationEndIs ==
    ASSUME NEW list, CallList(list), NEW i \in DOMAIN list
    PROVE  LET end == OscillationEnd(list, i)
               p == Period(list, i)
           IN  /\ end \in Nat /\ end - p \in Nat /\ (end = 0 <=> end - p = 0)
               /\ end # 0 =>
                     /\ end \in (i + 2)..Len(list) /\ p \in 2..5
                     /\ Periodic(list, i, end, p) /\ (end - i + 1) % p = 0
               /\ \A q \in 2..5, b \in i..Len(list) : Periodic(list, i, b, q) => end # 0
<1> DEFINE N == Len(list)
           end == OscillationEnd(list, i)
           p == Period(list, i)
<1>1. i \in 1..N /\ N \in Nat
  BY DEF CallList
<1>2. Min({5, N - i + 1}) \in {5, N - i + 1} /\ Min({5, N - i + 1}) <= 5 /\ Min({5, N - i + 1}) <= N - i + 1
  <2> DEFINE T == {5, N - i + 1}
  <2>1. T \in SUBSET Nat /\ T # {} /\ 5 \in T /\ N - i + 1 \in T
    BY <1>1
  <2> HIDE DEF T
  <2>2. Min(T) \in T /\ Min(T) <= 5 /\ Min(T) <= N - i + 1
    BY <2>1, MinIs
  <2>3. QED BY <2>2 DEF T
<1>3. Periods(list, i) =
        {q \in 2..5 : /\ i + q - 1 <= N
                      /\ \E k \in i..(i + q - 1) : list[k].tool # list[i].tool
                      /\ Cycles(list, i, q) >= 3}
  <2> DEFINE m == Min({5, N - i + 1})
  <2>1. m \in Nat /\ m <= 5 /\ m <= N - i + 1 /\ (m = 5 \/ m = N - i + 1)
    BY <1>2, <1>1
  <2> HIDE DEF m
  <2>2. \A q : q \in 2..m <=> q \in 2..5 /\ i + q - 1 <= N
    BY <2>1, <1>1
  <2>3. Periods(list, i) = {q \in 2..m : /\ \E k \in i..(i + q - 1) : list[k].tool # list[i].tool
                                         /\ Cycles(list, i, q) >= 3}
    BY DEF Periods, m, OscillationCyclesThreshold
  <2>4. QED BY <2>2, <2>3
<1>4. CASE Periods(list, i) = {}
  <2>1. p = 0 /\ end = 0
    BY <1>4 DEF Period, OscillationEnd
  <2>2. ASSUME NEW q \in 2..5, NEW b \in i..N, Periodic(list, i, b, q) PROVE FALSE
    <3>1. i \in Nat /\ b \in Nat /\ b <= N
      BY <1>1
    <3>2. \E k \in i..(i + q - 1) : list[k].tool # list[i].tool
      BY <2>2, <3>1, DiffersEarly
    <3>3. b - i + 1 >= 3 * q
      BY <2>2 DEF Periodic
    <3>4. i + q - 1 <= N /\ i + 3 * q - 1 <= N
      BY <3>3, <3>1, <1>1
    <3>5. \A k \in i..(i + (3 - 1) * q - 1) : list[k].tool = list[k + q].tool
      <4>1. i..(i + (3 - 1) * q - 1) \subseteq i..(b - q)
        BY <3>3, <3>1, <1>1
      <4>2. QED BY <4>1, <2>2 DEF Periodic
    <3>6. 3 <= Cycles(list, i, q)
      <4> DEFINE c == Cycles(list, i, q)
      <4>1. \A d \in Nat \ {0} :
               /\ i + d * q - 1 <= N
               /\ \A k \in i..(i + (d - 1) * q - 1) : list[k].tool = list[k + q].tool
               => d <= c
        BY <3>4, CyclesIs
      <4>2. 3 \in Nat \ {0}
        OBVIOUS
      <4> HIDE DEF c
      <4>3. 3 <= c
        BY <4>1, <4>2, <3>4, <3>5
      <4>4. QED BY <4>3 DEF c
    <3>7. Cycles(list, i, q) \in Nat
      BY <3>4, CyclesIs
    <3>8. q \in Periods(list, i)
      BY <3>2, <3>4, <3>6, <3>7, <1>3
    <3>9. QED BY <3>8, <1>4
  <2>3. QED BY <2>1, <2>2
<1>5. CASE Periods(list, i) # {}
  <2> DEFINE c == Cycles(list, i, p)
  <2>1. p \in Periods(list, i)
    <3>1. Periods(list, i) \in SUBSET Nat
      BY <1>3
    <3>2. QED BY <3>1, <1>5, MinIs DEF Period
  <2>2. /\ p \in 2..5 /\ i + p - 1 <= N /\ c >= 3
        /\ \E k \in i..(i + p - 1) : list[k].tool # list[i].tool
    BY <2>1, <1>3
  <2>3. /\ c \in Nat \ {0} /\ i + c * p - 1 <= N
        /\ \A k \in i..(i + (c - 1) * p - 1) : list[k].tool = list[k + p].tool
    <3> HIDE DEF p
    <3>1. QED BY <2>2, CyclesIs
  <2>4. end = i + c * p - 1
    BY <2>2 DEF OscillationEnd
  <2> HIDE DEF c, p, end
  <2>5. /\ c * p \in Nat /\ c * p >= 3 * p /\ (c - 1) * p = c * p - p
        /\ (c * p) % p = 0
    <3>1. CASE p = 2
      BY <3>1, <2>2, <2>3
    <3>2. CASE p = 3
      BY <3>2, <2>2, <2>3
    <3>3. CASE p = 4
      BY <3>3, <2>2, <2>3
    <3>4. CASE p = 5
      BY <3>4, <2>2, <2>3
    <3>5. QED BY <3>1, <3>2, <3>3, <3>4, <2>2
  <2> DEFINE m == c * p
  <2>6. /\ m \in Nat /\ m >= 3 * p /\ m % p = 0 /\ end = i + m - 1 /\ i + m - 1 <= N
        /\ \A k \in i..(i + (m - p) - 1) : list[k].tool = list[k + p].tool
    BY <2>3, <2>4, <2>5
  <2> HIDE DEF m
  <2>7. end \in (i + 2)..N /\ end - p \in Nat /\ end # 0 /\ end - p # 0 /\ end - i + 1 = m
    <3>1. m \in Nat /\ m >= 3 * p /\ end = i + m - 1 /\ i + m - 1 <= N
      BY <2>6
    <3>2. p \in 2..5
      BY <2>2
    <3>3. i \in Nat /\ i >= 1
      BY <1>1
    <3>4. m >= 6 /\ m - p >= 1
      BY <3>1, <3>2
    <3>5. QED BY <3>1, <3>2, <3>3, <3>4, <1>1
  <2>8. Periodic(list, i, end, p)
    <3>1. end - i + 1 >= 3 * p
      BY <2>6, <2>7
    <3>2. i..(end - p) = i..(i + (m - p) - 1)
      BY <2>6, <2>2, <1>1
    <3>3. i..(i + p - 1) \subseteq i..end
      BY <2>6, <2>2, <1>1
    <3>4. QED BY <3>1, <3>2, <3>3, <2>2, <2>6 DEF Periodic
  <2>9. end \in Nat /\ (end = 0 <=> end - p = 0) /\ (end - i + 1) % p = 0
    BY <2>6, <2>7, <1>1
  <2>10. QED BY <2>2, <2>7, <2>8, <2>9 DEF end, p
<1>6. QED BY <1>4, <1>5

\* The reports of retries and of drift: disjoint, and no run is left out but for
\* being within one.
LEMMA RetriesAre ==
    ASSUME NEW list, CallList(list)
    PROVE  LET found == DetectRetry(list)
           IN  /\ \A i \in DOMAIN found :
                     i \in DOMAIN list /\ found[i] = RetryEnd(list, i) /\ found[i] # 0
               /\ \A i, j \in DOMAIN found : i < j => found[i] < j
               /\ \A k \in DOMAIN list : RetryEnd(list, k) # 0 =>
                     \E i \in DOMAIN found : i <= k /\ k <= found[i]
<1> DEFINE N == Len(list)
           end == [i \in DOMAIN list |-> RetryEnd(list, i)]
           found == DetectRetry(list)
<1>1. N \in Nat /\ DOMAIN list = 1..N
  BY DEF CallList
<1>2. end \in [1..N -> Nat] /\ \A i \in 1..N : end[i] = 0 \/ end[i] >= i
  BY <1>1, RetryEndIs
<1>3. found = Scan(end, end)
  BY DEF DetectRetry
<1>4. \A i \in 1..N : end[i] = RetryEnd(list, i)
  BY <1>1
<1> HIDE DEF N, end, found
<1>5. /\ DOMAIN found \subseteq {i \in 1..N : end[i] # 0}
      /\ \A i \in DOMAIN found : found[i] = end[i]
      /\ \A i, j \in DOMAIN found : i < j => end[i] < j
      /\ \A k \in 1..N : end[k] # 0 /\ k \notin DOMAIN found =>
            \E i \in DOMAIN found : i < k /\ end[i] >= k
  BY <1>1, <1>2, <1>3, ScanIs
<1>6. ASSUME NEW k \in 1..N, end[k] # 0 PROVE \E i \in DOMAIN found : i <= k /\ k <= found[i]
  <2>1. CASE k \in DOMAIN found
    <3>1. k <= k /\ k <= found[k]
      BY <2>1, <1>2, <1>5, <1>6, <1>1
    <3>2. QED BY <3>1, <2>1
  <2>2. CASE k \notin DOMAIN found
    <3>1. PICK i \in DOMAIN found : i < k /\ end[i] >= k
      BY <2>2, <1>5, <1>6
    <3>2. i \in 1..N /\ found[i] = end[i] /\ end[i] \in Nat
      BY <3>1, <1>2, <1>5
    <3>3. QED BY <3>1, <3>2
  <2>3. QED BY <2>1, <2>2
<1>7. QED BY <1>1, <1>4, <1>5, <1>6 DEF found

LEMMA DriftsAre ==
    ASSUME NEW list, CallList(list)
    PROVE  LET found == DetectParameterDrift(list)
           IN  /\ \A i \in DOMAIN found :
                     i \in DOMAIN list /\ found[i] = DriftEnd(list, i) /\ found[i] # 0
               /\ \A i, j \in DOMAIN found : i < j => found[i] < j
               /\ \A k \in DOMAIN list : DriftEnd(list, k) # 0 =>
                     \E i \in DOMAIN found : i <= k /\ k <= found[i]
<1> DEFINE N == Len(list)
           end == [i \in DOMAIN list |-> DriftEnd(list, i)]
           found == DetectParameterDrift(list)
<1>1. N \in Nat /\ DOMAIN list = 1..N
  BY DEF CallList
<1>2. end \in [1..N -> Nat] /\ \A i \in 1..N : end[i] = 0 \/ end[i] >= i
  BY <1>1, DriftEndIs
<1>3. found = Scan(end, end)
  BY DEF DetectParameterDrift
<1>4. \A i \in 1..N : end[i] = DriftEnd(list, i)
  BY <1>1
<1> HIDE DEF N, end, found
<1>5. /\ DOMAIN found \subseteq {i \in 1..N : end[i] # 0}
      /\ \A i \in DOMAIN found : found[i] = end[i]
      /\ \A i, j \in DOMAIN found : i < j => end[i] < j
      /\ \A k \in 1..N : end[k] # 0 /\ k \notin DOMAIN found =>
            \E i \in DOMAIN found : i < k /\ end[i] >= k
  BY <1>1, <1>2, <1>3, ScanIs
<1>6. ASSUME NEW k \in 1..N, end[k] # 0 PROVE \E i \in DOMAIN found : i <= k /\ k <= found[i]
  <2>1. CASE k \in DOMAIN found
    <3>1. k <= k /\ k <= found[k]
      BY <2>1, <1>2, <1>5, <1>6, <1>1
    <3>2. QED BY <3>1, <2>1
  <2>2. CASE k \notin DOMAIN found
    <3>1. PICK i \in DOMAIN found : i < k /\ end[i] >= k
      BY <2>2, <1>5, <1>6
    <3>2. i \in 1..N /\ found[i] = end[i] /\ end[i] \in Nat
      BY <3>1, <1>2, <1>5
    <3>3. QED BY <3>1, <3>2
  <2>3. QED BY <2>1, <2>2
<1>7. QED BY <1>1, <1>4, <1>5, <1>6 DEF found

\* The patterns that are kept are disjoint, and wherever a pattern starts it is
\* within one that was found, which is kept or starts within one that is.
LEMMA OscillationsAre ==
    ASSUME NEW list, CallList(list)
    PROVE  LET kept == DeduplicatePatterns(list, FindOscillations(list))
           IN  /\ \A i \in DOMAIN kept :
                     i \in DOMAIN list /\ kept[i] = OscillationEnd(list, i) /\ kept[i] # 0
               /\ \A i, j \in DOMAIN kept : i < j => kept[i] < j
               /\ \A k \in DOMAIN list : OscillationEnd(list, k) # 0 =>
                     \E m \in DOMAIN list :
                        /\ OscillationEnd(list, m) # 0
                        /\ m <= k /\ k <= OscillationEnd(list, m)
                        /\ \E i \in DOMAIN kept : i <= m /\ m <= kept[i]
<1> DEFINE N == Len(list)
           end == [i \in DOMAIN list |-> OscillationEnd(list, i)]
           reach == [i \in DOMAIN end |-> end[i] - Period(list, i)]
           found == FindOscillations(list)
           start == [i \in DOMAIN list |-> IF i \in DOMAIN found THEN found[i] ELSE 0]
           kept == DeduplicatePatterns(list, found)
<1>1. N \in Nat /\ DOMAIN list = 1..N
  BY DEF CallList
<1>2. /\ end \in [1..N -> Nat] /\ reach \in [1..N -> Nat]
      /\ \A i \in 1..N : end[i] = OscillationEnd(list, i)
      /\ \A i \in 1..N : end[i] = 0 <=> reach[i] = 0
      /\ \A i \in 1..N : end[i] # 0 => end[i] >= i /\ reach[i] <= end[i]
  <2>1. ASSUME NEW i \in 1..N
        PROVE  /\ end[i] = OscillationEnd(list, i) /\ reach[i] = end[i] - Period(list, i)
               /\ end[i] \in Nat /\ reach[i] \in Nat
               /\ end[i] = 0 <=> reach[i] = 0
               /\ end[i] # 0 => end[i] >= i /\ reach[i] <= end[i]
    <3>1. end[i] = OscillationEnd(list, i) /\ reach[i] = end[i] - Period(list, i)
      BY <1>1
    <3>2. i \in DOMAIN list
      BY <1>1
    <3> DEFINE e == OscillationEnd(list, i)
               p == Period(list, i)
    <3>3. /\ e \in Nat /\ e - p \in Nat /\ (e = 0 <=> e - p = 0)
          /\ e # 0 => e \in (i + 2)..N /\ p \in 2..5
      BY <3>2, OscillationEndIs
    <3>4. end[i] = e /\ reach[i] = e - p
      BY <3>1
    <3> HIDE DEF end, reach, e, p, N
    <3>5. e # 0 => e >= i /\ e - p <= e
      BY <3>3, <1>1
    <3>6. end[i] = OscillationEnd(list, i) /\ reach[i] = end[i] - Period(list, i)
      BY <3>1
    <3>7. QED BY <3>3, <3>4, <3>5, <3>6
  <2>2. DOMAIN end = 1..N /\ DOMAIN reach = 1..N
    BY <1>1
  <2>3. end = [i \in 1..N |-> end[i]] /\ reach = [i \in 1..N |-> reach[i]]
    BY <1>1
  <2> HIDE DEF end, reach
  <2>4. QED BY <2>1, <2>3
<1>3. found = Scan(end, reach)
  BY DEF FindOscillations
<1>4. kept = Scan(start, start) /\ DOMAIN start = 1..N
  BY <1>1 DEF DeduplicatePatterns
<1>5. \A i \in 1..N : start[i] = IF i \in DOMAIN found THEN found[i] ELSE 0
  BY <1>1
<1> HIDE DEF N, end, reach, found, start, kept
<1>6. /\ DOMAIN found \subseteq {i \in 1..N : end[i] # 0}
      /\ \A i \in DOMAIN found : found[i] = end[i]
      /\ \A k \in 1..N : end[k] # 0 /\ k \notin DOMAIN found =>
            \E i \in DOMAIN found : i < k /\ reach[i] >= k
  BY <1>1, <1>2, <1>3, ScanIs
<1>7. start \in [1..N -> Nat]
  <2>1. start = [i \in 1..N |-> start[i]]
    BY <1>1 DEF start
  <2>2. \A i \in 1..N : start[i] \in Nat
    BY <1>2, <1>5, <1>6
  <2>3. QED BY <2>1, <2>2
<1>8. /\ DOMAIN kept \subseteq {i \in 1..N : start[i] # 0}
      /\ \A i \in DOMAIN kept : kept[i] = start[i]
      /\ \A i, j \in DOMAIN kept : i < j => start[i] < j
      /\ \A k \in 1..N : start[k] # 0 /\ k \notin DOMAIN kept =>
            \E i \in DOMAIN kept : i < k /\ start[i] >= k
  BY <1>1, <1>4, <1>7, ScanIs
<1>9. ASSUME NEW i \in DOMAIN kept
      PROVE  i \in 1..N /\ i \in DOMAIN found /\ kept[i] = end[i] /\ kept[i] # 0
  BY <1>5, <1>6, <1>8
<1>10. ASSUME NEW m \in DOMAIN found PROVE \E i \in DOMAIN kept : i <= m /\ m <= kept[i]
  <2>1. m \in 1..N /\ start[m] = end[m] /\ end[m] # 0 /\ end[m] >= m
    BY <1>2, <1>5, <1>6
  <2>2. CASE m \in DOMAIN kept
    <3>1. m <= m /\ m <= kept[m]
      BY <2>1, <2>2, <1>9, <1>1, <1>2
    <3>2. QED BY <3>1, <2>2
  <2>3. CASE m \notin DOMAIN kept
    <3>1. PICK i \in DOMAIN kept : i < m /\ start[i] >= m
      BY <2>1, <2>3, <1>8
    <3>2. i \in 1..N /\ kept[i] = start[i] /\ start[i] \in Nat
      BY <1>7, <1>8
    <3>3. QED BY <3>1, <3>2, <2>1
  <2>4. QED BY <2>2, <2>3
<1>11. ASSUME NEW k \in 1..N, end[k] # 0
       PROVE  \E m \in DOMAIN found : m <= k /\ k <= end[m]
  <2>1. CASE k \in DOMAIN found
    <3>1. k <= k /\ k <= end[k]
      BY <1>2, <1>11, <1>1
    <3>2. QED BY <3>1, <2>1
  <2>2. CASE k \notin DOMAIN found
    <3>1. PICK m \in DOMAIN found : m < k /\ reach[m] >= k
      BY <2>2, <1>6, <1>11
    <3>2. m \in 1..N /\ end[m] # 0 /\ reach[m] <= end[m] /\ end[m] \in Nat /\ reach[m] \in Nat
      BY <3>1, <1>2, <1>6
    <3>3. QED BY <3>1, <3>2
  <2>3. QED BY <2>1, <2>2
<1>12. ASSUME NEW k \in 1..N, end[k] # 0
       PROVE  \E m \in 1..N : /\ end[m] # 0 /\ m <= k /\ k <= end[m]
                              /\ \E i \in DOMAIN kept : i <= m /\ m <= kept[i]
  <2>1. PICK m \in DOMAIN found : m <= k /\ k <= end[m]
    BY <1>11, <1>12
  <2>2. m \in 1..N /\ end[m] # 0 /\ \E i \in DOMAIN kept : i <= m /\ m <= kept[i]
    BY <1>6, <1>10
  <2>3. QED BY <2>1, <2>2
<1>13. \A i, j \in DOMAIN kept : i < j => kept[i] < j
  BY <1>8
<1>14. \A i \in DOMAIN kept : i \in DOMAIN list /\ kept[i] = OscillationEnd(list, i) /\ kept[i] # 0
  BY <1>1, <1>2, <1>9
<1>15. \A k \in DOMAIN list : OscillationEnd(list, k) # 0 =>
          \E m \in DOMAIN list :
             /\ OscillationEnd(list, m) # 0
             /\ m <= k /\ k <= OscillationEnd(list, m)
             /\ \E i \in DOMAIN kept : i <= m /\ m <= kept[i]
  <2> SUFFICES ASSUME NEW n \in DOMAIN list, OscillationEnd(list, n) # 0
               PROVE  \E m \in DOMAIN list :
                         /\ OscillationEnd(list, m) # 0
                         /\ m <= n /\ n <= OscillationEnd(list, m)
                         /\ \E i \in DOMAIN kept : i <= m /\ m <= kept[i]
    OBVIOUS
  <2>1. n \in 1..N /\ end[n] # 0
    BY <1>1, <1>2
  <2>2. PICK m \in 1..N : /\ end[m] # 0 /\ m <= n /\ n <= end[m]
                          /\ \E i \in DOMAIN kept : i <= m /\ m <= kept[i]
    BY <2>1, <1>12
  <2>3. m \in DOMAIN list /\ end[m] = OscillationEnd(list, m)
    BY <1>1, <1>2
  <2>4. QED BY <2>2, <2>3
<1>16. QED BY <1>13, <1>14, <1>15 DEF kept, found

-----------------------------------------------------------------------------
(* Loops found *)

\* What LoopsFound says of a list of calls and the loops reported of it.
WellReported(list, found) ==
    LET loops == {l \in Stretches(list) : l.last - l.first >= 2 /\ IsLoop(list, l.first, l.last)}
        hiding == {o \in loops : \E l \in found : Overlap(o, l)}
    IN  /\ \A s \in loops : \E o \in hiding : Overlap(s, o)
        /\ \A l \in found : IsLoop(list, l.first, l.last)
        /\ \A l, o \in found :
              /\ l # o
              /\ l.kind = o.kind \/ {l.kind, o.kind} = {"retry", "parameter_drift"}
              => ~Overlap(l, o)

\* A loop is calls of one tool or a pattern.
LEMMA LoopIs ==
    ASSUME NEW list, NEW a \in Nat, NEW b \in Nat, a + 2 <= b
    PROVE  IsLoop(list, a, b) <=>
              \/ \A k \in a..b : list[k].tool = list[a].tool
              \/ \E p \in 2..5 : Periodic(list, a, b, p) /\ (b - a + 1) % p = 0
<1>1. b - a + 1 >= 3
  OBVIOUS
<1>2. QED BY <1>1 DEF IsLoop, Periodic

\* A stretch that shares a call with a loop that a reported one overlaps.
Hidden(list, s, found) ==
    \E a, b \in DOMAIN list :
        /\ a + 2 <= b /\ IsLoop(list, a, b)
        /\ s.first <= b /\ a <= s.last
        /\ \E l \in found : a <= l.last /\ l.first <= b

LEMMA WellReportedIf ==
    ASSUME NEW list, CallList(list), NEW found,
           \A s \in Stretches(list) :
              s.first + 2 <= s.last /\ IsLoop(list, s.first, s.last) => Hidden(list, s, found),
           \A l \in found : IsLoop(list, l.first, l.last),
           \A l, o \in found :
              /\ l # o
              /\ l.kind = o.kind \/ {l.kind, o.kind} = {"retry", "parameter_drift"}
              => ~Overlap(l, o)
    PROVE  WellReported(list, found)
<1> DEFINE loops == {l \in Stretches(list) : l.last - l.first >= 2 /\ IsLoop(list, l.first, l.last)}
           hiding == {o \in loops : \E l \in found : Overlap(o, l)}
<1>1. ASSUME NEW s \in loops PROVE \E o \in hiding : Overlap(s, o)
  <2>1. s.first \in DOMAIN list /\ s.last \in DOMAIN list /\ s \in Stretches(list)
    BY DEF Stretches
  <2>2. s.first \in Nat /\ s.last \in Nat
    BY <2>1 DEF CallList
  <2>3. Hidden(list, s, found)
    BY <2>1, <2>2
  <2>4. PICK a \in DOMAIN list, b \in DOMAIN list :
           /\ a + 2 <= b /\ IsLoop(list, a, b)
           /\ s.first <= b /\ a <= s.last
           /\ \E l \in found : a <= l.last /\ l.first <= b
    BY <2>3 DEF Hidden
  <2> DEFINE o == [first |-> a, last |-> b]
  <2>5. a \in Nat /\ b \in Nat
    BY DEF CallList
  <2>6. o \in loops
    BY <2>4, <2>5 DEF Stretches
  <2>7. (\E l \in found : Overlap(o, l)) /\ Overlap(s, o)
    BY <2>4 DEF Overlap
  <2>8. QED BY <2>6, <2>7
<1>2. QED BY <1>1 DEF WellReported

LEMMA LoopsWellReported ==
    ASSUME NEW list, CallList(list)
    PROVE  WellReported(list, Loops(list))
<1> DEFINE N == Len(list)
           r == DetectRetry(list)
           d == DetectParameterDrift(list)
           k == DeduplicatePatterns(list, FindOscillations(list))
           retries == Patterns("retry", r)
           drifts == Patterns("parameter_drift", d)
           kept == {x \in drifts : \A y \in retries : ~Overlap(x, y)}
           oscillations == Patterns("oscillation", k)
           found == Loops(list)
<1>1. N \in Nat /\ DOMAIN list = 1..N
  BY DEF CallList
<1>2. found = IF N < 3 THEN {} ELSE retries \cup kept \cup oscillations
  BY DEF Loops, RetryThreshold
<1>3. /\ retries = {[kind |-> "retry", first |-> i, last |-> r[i]] : i \in DOMAIN r}
      /\ drifts = {[kind |-> "parameter_drift", first |-> i, last |-> d[i]] : i \in DOMAIN d}
      /\ oscillations = {[kind |-> "oscillation", first |-> i, last |-> k[i]] : i \in DOMAIN k}
  BY DEF Patterns
<1>4. /\ \A i \in DOMAIN r : /\ i \in 1..N /\ r[i] \in (i + 2)..N /\ IsLoop(list, i, r[i])
      /\ \A i, j \in DOMAIN r : i < j => r[i] < j
      /\ \A i \in 1..N : RetryEnd(list, i) # 0 => \E j \in DOMAIN r : j <= i /\ i <= r[j]
  <2>1. ASSUME NEW i \in DOMAIN r
        PROVE  i \in 1..N /\ r[i] \in (i + 2)..N /\ IsLoop(list, i, r[i])
    <3>1. i \in 1..N /\ r[i] = RetryEnd(list, i) /\ r[i] # 0
      BY <1>1, RetriesAre
    <3>2. r[i] \in (i + 2)..N /\ \A j \in i..r[i] : list[j].tool = list[i].tool
      BY <1>1, <3>1, RetryEndIs
    <3> HIDE DEF r, N
    <3>3. i \in Nat /\ r[i] \in Nat /\ i + 2 <= r[i]
      BY <1>1, <3>1, <3>2
    <3>4. QED BY <3>1, <3>2, <3>3, LoopIs
  <2>2. QED BY <2>1, <1>1, RetriesAre
<1>5. /\ \A i \in DOMAIN d : /\ i \in 1..N /\ d[i] \in (i + 2)..N /\ IsLoop(list, i, d[i])
      /\ \A i, j \in DOMAIN d : i < j => d[i] < j
      /\ \A i \in 1..N : DriftEnd(list, i) # 0 => \E j \in DOMAIN d : j <= i /\ i <= d[j]
  <2>1. ASSUME NEW i \in DOMAIN d
        PROVE  i \in 1..N /\ d[i] \in (i + 2)..N /\ IsLoop(list, i, d[i])
    <3>1. i \in 1..N /\ d[i] = DriftEnd(list, i) /\ d[i] # 0
      BY <1>1, DriftsAre
    <3>2. d[i] \in (i + 2)..N /\ \A j \in i..d[i] : list[j].tool = list[i].tool
      BY <1>1, <3>1, DriftEndIs
    <3> HIDE DEF d, N
    <3>3. i \in Nat /\ d[i] \in Nat /\ i + 2 <= d[i]
      BY <1>1, <3>1, <3>2
    <3>4. QED BY <3>1, <3>2, <3>3, LoopIs
  <2>2. QED BY <2>1, <1>1, DriftsAre
<1>6. ASSUME NEW i \in 1..N, OscillationEnd(list, i) # 0
      PROVE  OscillationEnd(list, i) \in (i + 2)..N /\ IsLoop(list, i, OscillationEnd(list, i))
  <2> DEFINE e == OscillationEnd(list, i)
             p == Period(list, i)
  <2>1. e \in (i + 2)..N /\ p \in 2..5 /\ Periodic(list, i, e, p) /\ (e - i + 1) % p = 0
    BY <1>1, <1>6, OscillationEndIs
  <2> HIDE DEF e, p, N
  <2>2. i \in Nat /\ e \in Nat /\ i + 2 <= e
    BY <1>1, <2>1
  <2>3. IsLoop(list, i, e)
    BY <2>1, <2>2, LoopIs
  <2>4. QED BY <2>1, <2>3 DEF e
<1>7. /\ \A i \in DOMAIN k : /\ i \in 1..N /\ k[i] \in (i + 2)..N /\ IsLoop(list, i, k[i])
      /\ \A i, j \in DOMAIN k : i < j => k[i] < j
      /\ \A i \in 1..N : OscillationEnd(list, i) # 0 =>
            \E m \in 1..N :
               /\ OscillationEnd(list, m) # 0
               /\ m <= i /\ i <= OscillationEnd(list, m)
               /\ \E j \in DOMAIN k : j <= m /\ m <= k[j]
  <2>1. ASSUME NEW i \in DOMAIN k
        PROVE  i \in 1..N /\ k[i] \in (i + 2)..N /\ IsLoop(list, i, k[i])
    <3>1. i \in 1..N /\ k[i] = OscillationEnd(list, i) /\ k[i] # 0
      BY <1>1, OscillationsAre
    <3> HIDE DEF k, N
    <3>2. QED BY <3>1, <1>6
  <2>2. QED BY <2>1, <1>1, OscillationsAre
<1> HIDE DEF N, r, d, k, retries, drifts, oscillations, found
<1>8. CASE N < 3
  <2>1. found = {}
    BY <1>2, <1>8
  <2>2. ASSUME NEW s \in Stretches(list), s.first + 2 <= s.last PROVE FALSE
    <3>1. s.first \in 1..N /\ s.last \in 1..N
      BY <1>1 DEF Stretches
    <3>2. QED BY <3>1, <2>2, <1>8, <1>1
  <2>3. WellReported(list, found)
    BY <2>1, <2>2, WellReportedIf
  <2>4. QED BY <2>3 DEF found
<1>9. CASE ~(N < 3)
  <2>1. found = retries \cup kept \cup oscillations
    BY <1>2, <1>9
  <2>2. ASSUME NEW l \in found
        PROVE  /\ l.first \in 1..N /\ l.last \in (l.first + 2)..N
               /\ IsLoop(list, l.first, l.last)
    <3>1. CASE l \in retries
      BY <3>1, <1>3, <1>4
    <3>2. CASE l \in kept
      BY <3>2, <1>3, <1>5
    <3>3. CASE l \in oscillations
      BY <3>3, <1>3, <1>7
    <3>4. QED BY <3>1, <3>2, <3>3, <2>1
  <2>3. ASSUME NEW s \in Stretches(list), s.first + 2 <= s.last, IsLoop(list, s.first, s.last)
        PROVE  Hidden(list, s, found)
    <3> DEFINE a == s.first
               b == s.last
    <3>1. a \in 1..N /\ b \in 1..N /\ a + 2 <= b /\ a \in Nat /\ b \in Nat
      BY <2>3, <1>1 DEF Stretches
    <3>2. CASE RetryEnd(list, a) # 0
      <4>1. PICK j \in DOMAIN r : j <= a /\ a <= r[j]
        BY <3>1, <3>2, <1>4
      <4> DEFINE l == [kind |-> "retry", first |-> j, last |-> r[j]]
      <4>2. l \in found /\ l.first = j /\ l.last = r[j]
        BY <4>1, <1>3, <2>1
      <4>3. j \in 1..N /\ r[j] \in 1..N /\ j + 2 <= r[j] /\ IsLoop(list, j, r[j])
        BY <4>1, <1>4, <1>1
      <4>4. s.first <= r[j] /\ j <= s.last /\ j <= l.last /\ l.first <= r[j]
        BY <4>1, <4>2, <4>3, <3>1
      <4> HIDE DEF l
      <4>5. QED BY <4>2, <4>3, <4>4, <1>1 DEF Hidden
    <3>3. CASE DriftEnd(list, a) # 0
      <4>1. PICK j \in DOMAIN d : j <= a /\ a <= d[j]
        BY <3>1, <3>3, <1>5
      <4> DEFINE x == [kind |-> "parameter_drift", first |-> j, last |-> d[j]]
      <4>2. x \in drifts /\ x.first = j /\ x.last = d[j]
        BY <4>1, <1>3
      <4>3. j \in 1..N /\ d[j] \in 1..N /\ j + 2 <= d[j] /\ IsLoop(list, j, d[j])
        BY <4>1, <1>5, <1>1
      <4>4. s.first <= d[j] /\ j <= s.last
        BY <4>1, <4>3, <3>1
      <4>5. \E l \in found : j <= l.last /\ l.first <= d[j]
        <5>1. CASE x \in kept
          <6>1. x \in found /\ j <= x.last /\ x.first <= d[j]
            BY <5>1, <4>2, <4>3, <2>1
          <6> HIDE DEF x
          <6>2. QED BY <6>1
        <5>2. CASE x \notin kept
          <6> HIDE DEF x
          <6>1. PICK y \in retries : Overlap(x, y)
            BY <5>2, <4>2
          <6>2. y \in found
            BY <2>1
          <6>3. QED BY <6>1, <6>2, <4>2 DEF Overlap
        <5>3. QED BY <5>1, <5>2
      <4> HIDE DEF x
      <4>6. QED BY <4>3, <4>4, <4>5, <1>1 DEF Hidden
    <3>4. CASE \A q \in a..b : list[q].tool = list[a].tool
      <4>1. b \in (a + 2)..N
        BY <3>1, <1>1
      <4>2. DriftEnd(list, a) >= b \/ RetryEnd(list, a) >= b
        <5> HIDE DEF a, b
        <5>1. a \in DOMAIN list /\ b \in (a + 2)..Len(list)
          BY <3>1, <4>1, <1>1 DEF N
        <5>2. QED BY <5>1, <3>4, DriftEndIs
      <4>3. DriftEnd(list, a) # 0 \/ RetryEnd(list, a) # 0
        BY <4>2, <3>1
      <4>4. QED BY <4>3, <3>2, <3>3
    <3>5. CASE \E p \in 2..5 : Periodic(list, a, b, p)
      <4>1. OscillationEnd(list, a) # 0
        <5> HIDE DEF a, b
        <5>1. a \in DOMAIN list /\ b \in a..Len(list)
          BY <3>1, <1>1 DEF N
        <5>2. QED BY <5>1, <3>5, OscillationEndIs
      <4>2. PICK m \in 1..N :
              /\ OscillationEnd(list, m) # 0
              /\ m <= a /\ a <= OscillationEnd(list, m)
              /\ \E j \in DOMAIN k : j <= m /\ m <= k[j]
        BY <4>1, <3>1, <1>7
      <4> DEFINE e == OscillationEnd(list, m)
      <4>3. e \in (m + 2)..N /\ IsLoop(list, m, e)
        BY <4>2, <1>6
      <4>4. PICK j \in DOMAIN k : j <= m /\ m <= k[j]
        BY <4>2
      <4> DEFINE l == [kind |-> "oscillation", first |-> j, last |-> k[j]]
      <4>5. l \in found /\ l.first = j /\ l.last = k[j] /\ j \in 1..N
        BY <4>4, <1>3, <1>7, <2>1
      <4>6. m <= a /\ a <= e
        BY <4>2
      <4> HIDE DEF e, l
      <4>7. e \in 1..N /\ m + 2 <= e /\ s.first <= e /\ m <= s.last /\ m <= l.last /\ l.first <= e
        BY <4>3, <4>4, <4>5, <4>6, <3>1, <1>1
      <4>8. QED BY <4>3, <4>5, <4>7, <1>1 DEF Hidden
    <3>6. QED BY <3>1, <3>4, <3>5, <2>3, LoopIs
  <2>4. ASSUME NEW l \in found, NEW o \in found, l # o,
               l.kind = o.kind \/ {l.kind, o.kind} = {"retry", "parameter_drift"}
        PROVE  ~Overlap(l, o)
    <3>1. ASSUME NEW f, f \in {r, d, k}, NEW x, NEW y \in DOMAIN f, x \in DOMAIN f, x # y
          PROVE  ~(x <= f[y] /\ y <= f[x])
      <4>1. /\ x \in 1..N /\ y \in 1..N /\ f[x] \in (x + 2)..N /\ f[y] \in (y + 2)..N
            /\ (x < y => f[x] < y) /\ (y < x => f[y] < x)
        BY <3>1, <1>4, <1>5, <1>7
      <4>2. QED BY <4>1, <3>1, <1>1
    <3>2. CASE l \in retries /\ o \in retries
      BY <3>1, <3>2, <1>3, <2>4 DEF Overlap
    <3>3. CASE l \in kept /\ o \in kept
      BY <3>1, <3>3, <1>3, <2>4 DEF Overlap
    <3>4. CASE l \in oscillations /\ o \in oscillations
      BY <3>1, <3>4, <1>3, <2>4 DEF Overlap
    <3>5. CASE l \in kept /\ o \in retries
      BY <3>5
    <3>6. CASE l \in retries /\ o \in kept
      BY <3>6 DEF Overlap
    <3>7. /\ \A x \in retries : x.kind = "retry"
          /\ \A x \in kept : x.kind = "parameter_drift"
          /\ \A x \in oscillations : x.kind = "oscillation"
      BY <1>3
    <3> HIDE DEF kept
    <3>8. QED BY <3>2, <3>3, <3>4, <3>5, <3>6, <3>7, <2>1, <2>4
  <2>5. WellReported(list, found)
    <3> HIDE DEF kept
    <3>1. QED BY <2>2, <2>3, <2>4, WellReportedIf
  <2>6. QED BY <2>5 DEF found
<1>10. QED BY <1>8, <1>9

-----------------------------------------------------------------------------
(* Rows *)

\* Row y is row x, or x with one more mark in its text.
SameRow(x, y, mark) ==
    \/ x = y
    \/ /\ x.from = y.from /\ x.from # "function_call"
       /\ x.text # EmptyText /\ y.text # EmptyText
       /\ y.text.topic = x.text.topic /\ y.text.wording = x.text.wording
       /\ y.text.marks = x.text.marks \cup {mark}

\* Rows that differ in the mark at most.
SameRows(rows, others, mark) ==
    /\ \E T : rows \in Seq(T) /\ others \in Seq(T)
    /\ Len(others) = Len(rows)
    /\ \A k \in 1..Len(rows) : SameRow(rows[k], others[k], mark)

LEMMA RowsJoin ==
    ASSUME NEW mark, NEW r, NEW s, NEW q, NEW t, SameRows(r, s, mark), SameRows(q, t, mark)
    PROVE  SameRows(r \o q, s \o t, mark)
<1>1. PICK A : r \in Seq(A) /\ s \in Seq(A)
  BY DEF SameRows
<1>2. PICK B : q \in Seq(B) /\ t \in Seq(B)
  BY DEF SameRows
<1> DEFINE T == A \cup B
<1>3. r \in Seq(T) /\ s \in Seq(T) /\ q \in Seq(T) /\ t \in Seq(T)
  BY <1>1, <1>2
<1>4. Len(r) = Len(s) /\ Len(q) = Len(t)
  BY DEF SameRows
<1> HIDE DEF T
<1>5. r \o q \in Seq(T) /\ s \o t \in Seq(T) /\ Len(r \o q) = Len(r) + Len(q) /\ Len(s \o t) = Len(r) + Len(q)
  BY <1>3, <1>4
<1>6. ASSUME NEW k \in 1..Len(r \o q) PROVE SameRow((r \o q)[k], (s \o t)[k], mark)
  <2>1. CASE k \in 1..Len(r)
    <3>1. (r \o q)[k] = r[k] /\ (s \o t)[k] = s[k]
      BY <2>1, <1>3, <1>4
    <3>2. QED BY <3>1, <2>1 DEF SameRows
  <2>2. CASE k \notin 1..Len(r)
    <3>1. k - Len(r) \in 1..Len(q)
      BY <2>2, <1>3, <1>5
    <3>2. (r \o q)[k] = q[k - Len(r)] /\ (s \o t)[k] = t[k - Len(r)]
      BY <2>2, <1>3, <1>4, <1>5
    <3>3. QED BY <3>1, <3>2 DEF SameRows
  <2>3. QED BY <2>1, <2>2
<1>7. QED BY <1>5, <1>6 DEF SameRows

LEMMA RowSame ==
    ASSUME NEW mark, NEW x, NEW y, SameRow(x, y, mark)
    PROVE  SameRows(<<x>>, <<y>>, mark)
<1>1. <<x>> \in Seq({x, y}) /\ <<y>> \in Seq({x, y}) /\ Len(<<x>>) = 1 /\ Len(<<y>>) = 1
  OBVIOUS
<1>2. ASSUME NEW k \in 1..1 PROVE <<x>>[k] = x /\ <<y>>[k] = y
  <2>1. k = 1
    OBVIOUS
  <2>2. QED BY <2>1
<1>3. \A k \in 1..Len(<<x>>) : SameRow(<<x>>[k], <<y>>[k], mark)
  BY <1>1, <1>2
<1>4. QED BY <1>1, <1>3 DEF SameRows

\* A message that has one more mark, or not.
LEMMA RowsOfMarked ==
    ASSUME NEW mark, NEW m, IsMessage(m)
    PROVE  /\ SameRows(RowsOf(m), RowsOf(m), mark)
           /\ m.text # EmptyText =>
                 SameRows(RowsOf(m), RowsOf([m EXCEPT !.text.marks = @ \cup {mark}]), mark)
<1> DEFINE o == [m EXCEPT !.text.marks = @ \cup {mark}]
           list == [k \in DOMAIN m.calls |->
                        [from |-> "function_call", tool |-> m.calls[k].tool, args |-> m.calls[k].args]]
           Row(from, x) == <<[from |-> from, text |-> x]>>
           marked == [marks |-> m.text.marks \cup {mark}, topic |-> m.text.topic, wording |-> m.text.wording]
<1>1. /\ o.role = m.role /\ o.calls = m.calls /\ o.text = marked
  BY DEF IsMessage
<1>2. marked # EmptyText
  <2>1. marked.marks # {} /\ EmptyText.marks = {}
    BY DEF EmptyText
  <2>2. QED BY <2>1
<1>3. \E T : list \in Seq(T)
  <2>1. m.calls \in Seq(Range(m.calls))
    BY DEF IsMessage
  <2>2. DOMAIN m.calls = 1..Len(m.calls) /\ Len(m.calls) \in Nat
    BY <2>1
  <2>3. list \in Seq({list[k] : k \in DOMAIN m.calls})
    BY <2>2
  <2>4. QED BY <2>3
<1>4. SameRows(list, list, mark) /\ SameRows(<<>>, <<>>, mark)
  <2>1. <<>> \in Seq({})
    OBVIOUS
  <2>2. Len(<<>>) = 0
    OBVIOUS
  <2> HIDE DEF list
  <2>3. QED BY <1>3, <2>1, <2>2 DEF SameRows, SameRow
<1>5. ASSUME NEW from
      PROVE  /\ SameRows(Row(from, m.text), Row(from, m.text), mark)
             /\ m.text # EmptyText /\ from # "function_call" =>
                   SameRows(Row(from, m.text), Row(from, marked), mark)
  <2> DEFINE x == [from |-> from, text |-> m.text]
             y == [from |-> from, text |-> marked]
  <2>1. m.text # EmptyText /\ from # "function_call" => SameRow(x, y, mark)
    BY <1>2 DEF SameRow
  <2>2. SameRow(x, x, mark)
    BY DEF SameRow
  <2> HIDE DEF x, y
  <2>3. QED BY <2>1, <2>2, RowSame DEF x, y
<1> HIDE DEF o, list, marked, Row
<1>6. CASE m.role = "user"
  <2>1. RowsOf(m) = Row("human", m.text) /\ RowsOf(o) = Row("human", o.text)
    BY <1>1, <1>6 DEF RowsOf, Row
  <2>2. QED BY <2>1, <1>1, <1>5 DEF o
<1>7. CASE m.role = "tool"
  <2>1. RowsOf(m) = Row("observation", m.text) /\ RowsOf(o) = Row("observation", o.text)
    BY <1>1, <1>7 DEF RowsOf, Row
  <2>2. QED BY <2>1, <1>1, <1>5 DEF o
<1>8. CASE m.role = "assistant"
  <2>1. /\ RowsOf(m) = (IF m.text = EmptyText THEN <<>> ELSE Row("gpt", m.text)) \o list
        /\ RowsOf(o) = (IF o.text = EmptyText THEN <<>> ELSE Row("gpt", o.text)) \o list
    BY <1>1, <1>8 DEF RowsOf, Row, list
  <2>2. CASE m.text = EmptyText
    <3>1. RowsOf(m) = <<>> \o list
      BY <2>1, <2>2
    <3>2. SameRows(<<>> \o list, <<>> \o list, mark)
      BY <1>4, RowsJoin
    <3>3. QED BY <2>2, <3>1, <3>2
  <2>3. CASE m.text # EmptyText
    <3>1. RowsOf(m) = Row("gpt", m.text) \o list /\ RowsOf(o) = Row("gpt", marked) \o list
      BY <1>1, <1>2, <2>1, <2>3
    <3>2. /\ SameRows(Row("gpt", m.text), Row("gpt", m.text), mark)
          /\ SameRows(Row("gpt", m.text), Row("gpt", marked), mark)
      BY <1>5, <2>3
    <3>3. SameRows(RowsOf(m), RowsOf(m), mark) /\ SameRows(RowsOf(m), RowsOf(o), mark)
      BY <3>1, <3>2, <1>4, RowsJoin
    <3>4. QED BY <3>3 DEF o
  <2>4. QED BY <2>2, <2>3
<1>9. CASE m.role \notin {"user", "tool", "assistant"}
  <2>1. RowsOf(m) = <<>> /\ RowsOf(o) = <<>>
    BY <1>1, <1>9 DEF RowsOf
  <2>2. QED BY <2>1, <1>4 DEF o
<1>10. QED BY <1>6, <1>7, <1>8, <1>9

\* The rows of the messages are joined one message after another.
LEMMA AllRowsIs ==
    ASSUME NEW msgs, Len(msgs) \in Nat
    PROVE  \E upTo :
              /\ upTo[0] = <<>> /\ AllRows(msgs) = upTo[Len(msgs)]
              /\ \A n \in 1..Len(msgs) : upTo[n] = upTo[n - 1] \o RowsOf(msgs[n])
<1> DEFINE N == Len(msgs)
           Step(b, n) == b \o RowsOf(msgs[n])
           F(g, n) == [k \in 0..n |-> IF k = 0 THEN <<>> ELSE Step(g[k - 1], k)]
           IsAfter(g, n) == g = F(g, n)
           S == {n \in 0..N : \E g : IsAfter(g, n)}
<1>0. N \in Nat
  OBVIOUS
<1>a. AllRows(msgs) = (CHOOSE g : g = F(g, N))[N]
  BY DEF AllRows
<1> HIDE DEF N, Step
<1>1. 0 \in S
  <2>1. IsAfter([k \in 0..0 |-> <<>>], 0)
    OBVIOUS
  <2>2. \E g : IsAfter(g, 0)
    BY <2>1
  <2>3. QED BY <2>2, <1>0
<1>2. ASSUME NEW n \in 0..(N - 1), n \in S PROVE n + 1 \in S
  <2>1. PICK g : IsAfter(g, n)
    BY <1>2
  <2> DEFINE h == [k \in 0..(n + 1) |-> IF k = n + 1 THEN Step(g[n], n + 1) ELSE g[k]]
  <2>2. ASSUME NEW k \in 0..(n + 1)
        PROVE  h[k] = IF k = 0 THEN <<>> ELSE Step(h[k - 1], k)
    <3>1. CASE k = n + 1
      BY <3>1, <1>0
    <3>2. CASE k \in 0..n
      <4>1. g[k] = IF k = 0 THEN <<>> ELSE Step(g[k - 1], k)
        BY <2>1, <3>2
      <4>2. h[k] = g[k] /\ (k # 0 => h[k - 1] = g[k - 1])
        BY <3>2, <1>0
      <4> HIDE DEF h
      <4>3. QED BY <4>1, <4>2
    <3>3. QED BY <3>1, <3>2, <1>0
  <2>3. IsAfter(h, n + 1)
    BY <2>2
  <2>4. \E f : IsAfter(f, n + 1)
    BY <2>3
  <2>5. QED BY <2>4, <1>0
<1>3. N \in S
  <2> HIDE DEF S
  <2>1. 0..N \subseteq S
    BY <1>0, <1>1, <1>2, UpTo
  <2>2. QED BY <2>1, <1>0
<1> DEFINE upTo == CHOOSE g : g = F(g, N)
<1>4. upTo = F(upTo, N)
  <2>1. \E g : g = F(g, N)
    BY <1>3
  <2> HIDE DEF F
  <2>2. QED BY <2>1
<1>5. upTo[0] = <<>> /\ \A n \in 1..N : upTo[n] = Step(upTo[n - 1], n)
  <2> HIDE DEF upTo
  <2>1. upTo = [k \in 0..N |-> IF k = 0 THEN <<>> ELSE Step(upTo[k - 1], k)]
    BY <1>4
  <2>2. upTo[0] = <<>>
    BY <2>1, <1>0
  <2>3. ASSUME NEW n \in 1..N PROVE upTo[n] = Step(upTo[n - 1], n)
    <3>1. n \in 0..N /\ n # 0
      BY <1>0
    <3>2. QED BY <2>1, <3>1
  <2>4. QED BY <2>2, <2>3
<1>6. AllRows(msgs) = upTo[N]
  BY <1>a
<1> HIDE DEF upTo
<1>7. QED BY <1>5, <1>6 DEF N, Step

LEMMA AllRowsSame ==
    ASSUME NEW mark, NEW msgs, NEW others, Len(msgs) \in Nat, Len(others) = Len(msgs),
           \A n \in 1..Len(msgs) : SameRows(RowsOf(msgs[n]), RowsOf(others[n]), mark)
    PROVE  SameRows(AllRows(msgs), AllRows(others), mark)
<1> DEFINE N == Len(msgs)
<1>1. PICK u : /\ u[0] = <<>> /\ AllRows(msgs) = u[N]
               /\ \A n \in 1..N : u[n] = u[n - 1] \o RowsOf(msgs[n])
  BY AllRowsIs
<1>2. PICK v : /\ v[0] = <<>> /\ AllRows(others) = v[N]
               /\ \A n \in 1..N : v[n] = v[n - 1] \o RowsOf(others[n])
  <2>1. Len(others) \in Nat
    OBVIOUS
  <2>2. QED BY <2>1, AllRowsIs
<1>0. N \in Nat
  OBVIOUS
<1> DEFINE S == {n \in 0..N : SameRows(u[n], v[n], mark)}
<1>3. 0 \in S
  <2>1. <<>> \in Seq({}) /\ Len(<<>>) = 0
    OBVIOUS
  <2>2. SameRows(<<>>, <<>>, mark)
    BY <2>1 DEF SameRows
  <2>3. QED BY <2>2, <1>1, <1>2, <1>0
<1>4. ASSUME NEW n \in 0..(N - 1), n \in S PROVE n + 1 \in S
  <2>1. n + 1 \in 1..N /\ (n + 1) - 1 = n /\ n + 1 \in 0..N
    BY <1>0
  <2>2. u[n + 1] = u[n] \o RowsOf(msgs[n + 1]) /\ v[n + 1] = v[n] \o RowsOf(others[n + 1])
    BY <2>1, <1>1, <1>2
  <2>3. SameRows(u[n + 1], v[n + 1], mark)
    BY <2>1, <2>2, <1>4, RowsJoin
  <2>4. QED BY <2>1, <2>3
<1>5. N \in S
  <2> HIDE DEF S, N
  <2>1. 0..N \subseteq S
    BY <1>0, <1>3, <1>4, UpTo
  <2>2. QED BY <2>1, <1>0
<1>6. QED BY <1>1, <1>2, <1>5

LEMMA SliceSame ==
    ASSUME NEW mark, NEW rows, NEW others, SameRows(rows, others, mark)
    PROVE  SameRows(Slice(rows), Slice(others), mark)
<1> DEFINE N == Len(rows)
           x == Max({0, N - MaxMessages})
<1>1. PICK T : rows \in Seq(T) /\ others \in Seq(T)
  BY DEF SameRows
<1>2. N \in Nat /\ Len(others) = N /\ MaxMessages \in Nat
  BY <1>1, SignalsAssumption DEF SameRows
<1>3. x \in 0..N
  <2> DEFINE D == {0, N - MaxMessages}
  <2>1. D \in SUBSET Int /\ D # {} /\ (\A y \in D : y <= N) /\ 0 \in D /\ N \in Int
    BY <1>2
  <2> HIDE DEF D, N
  <2>2. Max(D) \in D /\ \A y \in D : y <= Max(D)
    BY <2>1, MaxIs
  <2>3. Max(D) \in Int /\ Max(D) <= N /\ 0 <= Max(D)
    BY <2>1, <2>2
  <2>4. Max(D) \in 0..N
    BY <2>3, <1>2
  <2>5. QED BY <2>4 DEF D
<1>4. Slice(rows) = SubSeq(rows, 1 + x, N) /\ Slice(others) = SubSeq(others, 1 + x, N)
  BY <1>2 DEF Slice
<1> DEFINE m == 1 + x
<1>5. m \in 1..(N + 1)
  BY <1>2, <1>3
<1> HIDE DEF N, x, m
<1>6. /\ SubSeq(rows, m, N) \in Seq(T) /\ SubSeq(others, m, N) \in Seq(T)
      /\ Len(SubSeq(rows, m, N)) = N - m + 1 /\ Len(SubSeq(others, m, N)) = N - m + 1
      /\ \A k \in 1..(N - m + 1) : /\ SubSeq(rows, m, N)[k] = rows[m + k - 1]
                                   /\ SubSeq(others, m, N)[k] = others[m + k - 1]
  BY <1>1, <1>2, <1>5 DEF N
<1>7. \A k \in 1..(N - m + 1) : m + k - 1 \in 1..N
  BY <1>2, <1>5
<1>8. \A k \in 1..(N - m + 1) : SameRow(SubSeq(rows, m, N)[k], SubSeq(others, m, N)[k], mark)
  BY <1>6, <1>7 DEF SameRows, N
<1>9. QED BY <1>4, <1>6, <1>8 DEF SameRows, m

\* The calls are the rows that are, one by one.
LEMMA CallsIs ==
    ASSUME NEW rows, Len(rows) \in Nat
    PROVE  \E upTo :
              /\ upTo[0] = <<>> /\ Calls(rows) = upTo[Len(rows)]
              /\ \A n \in 1..Len(rows) :
                    upTo[n] = IF rows[n].from = "function_call" THEN Append(upTo[n - 1], rows[n])
                              ELSE upTo[n - 1]
<1> DEFINE N == Len(rows)
           Step(b, n) == IF rows[n].from = "function_call" THEN Append(b, rows[n]) ELSE b
           F(g, n) == [k \in 0..n |-> IF k = 0 THEN <<>> ELSE Step(g[k - 1], k)]
           IsAfter(g, n) == g = F(g, n)
           S == {n \in 0..N : \E g : IsAfter(g, n)}
<1>0. N \in Nat
  OBVIOUS
<1>a. Calls(rows) = (CHOOSE g : g = F(g, N))[N]
  BY DEF Calls
<1> HIDE DEF N, Step
<1>1. 0 \in S
  <2>1. IsAfter([k \in 0..0 |-> <<>>], 0)
    OBVIOUS
  <2>2. \E g : IsAfter(g, 0)
    BY <2>1
  <2>3. QED BY <2>2, <1>0
<1>2. ASSUME NEW n \in 0..(N - 1), n \in S PROVE n + 1 \in S
  <2>1. PICK g : IsAfter(g, n)
    BY <1>2
  <2> DEFINE h == [k \in 0..(n + 1) |-> IF k = n + 1 THEN Step(g[n], n + 1) ELSE g[k]]
  <2>2. ASSUME NEW k \in 0..(n + 1)
        PROVE  h[k] = IF k = 0 THEN <<>> ELSE Step(h[k - 1], k)
    <3>1. CASE k = n + 1
      BY <3>1, <1>0
    <3>2. CASE k \in 0..n
      <4>1. g[k] = IF k = 0 THEN <<>> ELSE Step(g[k - 1], k)
        BY <2>1, <3>2
      <4>2. h[k] = g[k] /\ (k # 0 => h[k - 1] = g[k - 1])
        BY <3>2, <1>0
      <4> HIDE DEF h
      <4>3. QED BY <4>1, <4>2
    <3>3. QED BY <3>1, <3>2, <1>0
  <2>3. IsAfter(h, n + 1)
    BY <2>2
  <2>4. \E f : IsAfter(f, n + 1)
    BY <2>3
  <2>5. QED BY <2>4, <1>0
<1>3. N \in S
  <2> HIDE DEF S
  <2>1. 0..N \subseteq S
    BY <1>0, <1>1, <1>2, UpTo
  <2>2. QED BY <2>1, <1>0
<1> DEFINE upTo == CHOOSE g : g = F(g, N)
<1>4. upTo = F(upTo, N)
  <2>1. \E g : g = F(g, N)
    BY <1>3
  <2> HIDE DEF F
  <2>2. QED BY <2>1
<1>5. upTo[0] = <<>> /\ \A n \in 1..N : upTo[n] = Step(upTo[n - 1], n)
  <2> HIDE DEF upTo
  <2>1. upTo = [k \in 0..N |-> IF k = 0 THEN <<>> ELSE Step(upTo[k - 1], k)]
    BY <1>4
  <2>2. upTo[0] = <<>>
    BY <2>1, <1>0
  <2>3. ASSUME NEW n \in 1..N PROVE upTo[n] = Step(upTo[n - 1], n)
    <3>1. n \in 0..N /\ n # 0
      BY <1>0
    <3>2. QED BY <2>1, <3>1
  <2>4. QED BY <2>2, <2>3
<1>6. Calls(rows) = upTo[N]
  BY <1>a
<1> HIDE DEF upTo
<1>7. QED BY <1>5, <1>6 DEF N, Step

\* A mark more leaves the calls as they are.
LEMMA CallsSame ==
    ASSUME NEW mark, NEW rows, NEW others, SameRows(rows, others, mark)
    PROVE  Calls(rows) = Calls(others) /\ CallList(Calls(rows))
<1> DEFINE N == Len(rows)
<1>1. PICK T : rows \in Seq(T) /\ others \in Seq(T)
  BY DEF SameRows
<1>2. N \in Nat /\ Len(others) = N /\ \A k \in 1..N : rows[k] \in T
  BY <1>1 DEF SameRows
<1>3. PICK u : /\ u[0] = <<>> /\ Calls(rows) = u[N]
               /\ \A n \in 1..N : u[n] = IF rows[n].from = "function_call"
                                          THEN Append(u[n - 1], rows[n]) ELSE u[n - 1]
  BY <1>2, CallsIs
<1>4. PICK v : /\ v[0] = <<>> /\ Calls(others) = v[N]
               /\ \A n \in 1..N : v[n] = IF others[n].from = "function_call"
                                          THEN Append(v[n - 1], others[n]) ELSE v[n - 1]
  BY <1>2, CallsIs
<1> DEFINE S == {n \in 0..N : u[n] = v[n] /\ u[n] \in Seq(T)}
<1>5. 0 \in S
  <2>1. <<>> \in Seq(T)
    OBVIOUS
  <2>2. u[0] = v[0] /\ u[0] \in Seq(T)
    BY <2>1, <1>3, <1>4
  <2>3. 0 \in 0..N
    BY <1>2
  <2>4. QED BY <2>2, <2>3
<1>6. ASSUME NEW n \in 0..(N - 1), n \in S PROVE n + 1 \in S
  <2>1. n + 1 \in 1..N /\ (n + 1) - 1 = n /\ n + 1 \in 0..N
    BY <1>2
  <2>2. /\ u[n + 1] = IF rows[n + 1].from = "function_call" THEN Append(u[n], rows[n + 1]) ELSE u[n]
        /\ v[n + 1] = IF others[n + 1].from = "function_call" THEN Append(v[n], others[n + 1]) ELSE v[n]
    BY <2>1, <1>3, <1>4
  <2>3. SameRow(rows[n + 1], others[n + 1], mark) /\ rows[n + 1] \in T
    BY <2>1, <1>2 DEF SameRows
  <2>4. \/ rows[n + 1] = others[n + 1]
        \/ rows[n + 1].from # "function_call" /\ others[n + 1].from # "function_call"
    BY <2>3 DEF SameRow
  <2>5. u[n + 1] = v[n + 1]
    BY <2>2, <2>4, <1>6
  <2>6. u[n + 1] \in Seq(T)
    BY <2>2, <2>3, <1>6
  <2>7. QED BY <2>1, <2>5, <2>6
<1>7. N \in S
  <2> HIDE DEF S, N
  <2>1. 0..N \subseteq S
    BY <1>2, <1>5, <1>6, UpTo
  <2>2. QED BY <2>1, <1>2
<1>8. Calls(rows) \in Seq(T)
  BY <1>3, <1>7
<1>9. CallList(Calls(rows))
  BY <1>8 DEF CallList
<1>10. QED BY <1>3, <1>4, <1>7, <1>9

-----------------------------------------------------------------------------
(* Counting signals *)

\* Whatever enumerates a set from a finite one.
LEMMA CoveredIsFinite ==
    ASSUME NEW D, IsFiniteSet(D), NEW f, DOMAIN f = D, NEW S, \A s \in S : \E d \in D : f[d] = s
    PROVE  IsFiniteSet(S)
<1> DEFINE T == {f[d] : d \in D}
           g == [d \in D |-> f[d]]
<1>1. g \in Surjection(D, T)
  BY DEF Surjection
<1>2. IsFiniteSet(T)
  BY <1>1, FS_Surjection
<1>3. S \in SUBSET T
  OBVIOUS
<1>4. QED BY <1>2, <1>3, FS_Subset

\* As many signals or more.
Fewer(S, T) ==
    /\ IsFiniteSet(S) /\ IsFiniteSet(T)
    /\ Cardinality(S) \in Nat /\ Cardinality(T) \in Nat
    /\ Cardinality(S) <= Cardinality(T)

LEMMA FewerIf ==
    ASSUME NEW S, NEW T, IsFiniteSet(T), NEW f \in [S -> T],
           \A x, y \in S : f[x] = f[y] => x = y
    PROVE  Fewer(S, T)
<1>1. f \in Injection(S, T)
  BY DEF Injection, IsInjective
<1>2. IsFiniteSet(S) /\ Cardinality(S) <= Cardinality(T)
  BY <1>1, FS_Injection
<1>3. QED BY <1>2, FS_CardinalityType DEF Fewer

LEMMA SubsetFewer ==
    ASSUME NEW S, NEW T, IsFiniteSet(T), S \subseteq T
    PROVE  Fewer(S, T)
<1>1. IsFiniteSet(S) /\ Cardinality(S) <= Cardinality(T)
  BY FS_Subset
<1>2. QED BY <1>1, FS_CardinalityType DEF Fewer

LEMMA SomeIfMore ==
    ASSUME NEW S, NEW T, Fewer(S, T), S # {}
    PROVE  T # {}
<1>1. Cardinality(S) # 0
  BY FS_EmptySet DEF Fewer
<1>2. Cardinality(T) # 0
  BY <1>1 DEF Fewer
<1>3. QED BY <1>2, FS_EmptySet

\* Finitely many rows of finitely many kinds.
LEMMA SignsFinite ==
    ASSUME NEW kinds, IsFiniteSet(DOMAIN kinds), \A i \in DOMAIN kinds : IsFiniteSet(kinds[i])
    PROVE  IsFiniteSet(Signs(kinds))
<1> DEFINE Of(i) == {[kind |-> k, row |-> i] : k \in kinds[i]}
           All == {Of(i) : i \in DOMAIN kinds}
<1>1. ASSUME NEW i \in DOMAIN kinds PROVE IsFiniteSet(Of(i))
  <2> DEFINE f == [k \in kinds[i] |-> [kind |-> k, row |-> i]]
  <2>1. \A s \in Of(i) : \E k \in kinds[i] : f[k] = s
    OBVIOUS
  <2>2. DOMAIN f = kinds[i]
    OBVIOUS
  <2> HIDE DEF f, Of
  <2>3. QED BY <2>1, <2>2, CoveredIsFinite
<1>2. IsFiniteSet(All)
  <2> DEFINE f == [i \in DOMAIN kinds |-> Of(i)]
  <2>1. \A s \in All : \E i \in DOMAIN kinds : f[i] = s
    OBVIOUS
  <2>2. DOMAIN f = DOMAIN kinds
    OBVIOUS
  <2> HIDE DEF f, All
  <2>3. QED BY <2>1, <2>2, CoveredIsFinite
<1>3. \A T \in All : IsFiniteSet(T)
  BY <1>1
<1>4. Signs(kinds) = UNION All
  BY DEF Signs
<1> HIDE DEF All
<1>5. QED BY <1>2, <1>3, <1>4, FS_UNION

\* If no row has fewer kinds there are no fewer signals.
LEMMA SignsFewer ==
    ASSUME NEW kinds, NEW more, IsFiniteSet(DOMAIN kinds), DOMAIN more = DOMAIN kinds,
           \A i \in DOMAIN kinds : IsFiniteSet(more[i]),
           \A i \in DOMAIN kinds : \E g \in [kinds[i] -> more[i]] :
              \A x, y \in kinds[i] : g[x] = g[y] => x = y
    PROVE  Fewer(Signs(kinds), Signs(more))
<1> DEFINE Fits(i, g) == g \in [kinds[i] -> more[i]] /\ \A x, y \in kinds[i] : g[x] = g[y] => x = y
           into == [i \in DOMAIN kinds |-> CHOOSE g : Fits(i, g)]
           f == [s \in Signs(kinds) |-> [kind |-> into[s.row][s.kind], row |-> s.row]]
<1>1. ASSUME NEW i \in DOMAIN kinds PROVE Fits(i, into[i])
  <2>1. \E g : Fits(i, g)
    OBVIOUS
  <2> HIDE DEF Fits
  <2>2. QED BY <2>1
<1>2. IsFiniteSet(Signs(more))
  BY SignsFinite
<1> HIDE DEF into
<1>3. ASSUME NEW s \in Signs(kinds)
      PROVE  s.row \in DOMAIN kinds /\ s.kind \in kinds[s.row] /\ s = [kind |-> s.kind, row |-> s.row]
  BY DEF Signs
<1>4. ASSUME NEW s \in Signs(kinds) PROVE f[s] \in Signs(more)
  <2>1. into[s.row][s.kind] \in more[s.row]
    BY <1>1, <1>3
  <2>2. QED BY <2>1, <1>3 DEF Signs
<1>5. ASSUME NEW s \in Signs(kinds), NEW t \in Signs(kinds), f[s] = f[t] PROVE s = t
  <2>1. s.row = t.row /\ into[s.row][s.kind] = into[s.row][t.kind]
    BY <1>5
  <2>2. s.kind = t.kind
    BY <2>1, <1>1, <1>3
  <2>3. QED BY <2>1, <2>2, <1>3
<1>6. f \in [Signs(kinds) -> Signs(more)]
  BY <1>4
<1> HIDE DEF f
<1>7. QED BY <1>2, <1>5, <1>6, FewerIf

\* The same where every row has one kind at most.
LEMMA OneKindFewer ==
    ASSUME NEW kinds, NEW more, IsFiniteSet(DOMAIN kinds), DOMAIN more = DOMAIN kinds,
           \A i \in DOMAIN kinds : \A x, y \in kinds[i] : x = y,
           \A i \in DOMAIN kinds : \A x, y \in more[i] : x = y,
           \A i \in DOMAIN kinds : kinds[i] # {} => more[i] # {}
    PROVE  Fewer(Signs(kinds), Signs(more))
<1>1. ASSUME NEW i \in DOMAIN kinds PROVE IsFiniteSet(more[i])
  <2>1. CASE more[i] = {}
    BY <2>1, FS_EmptySet
  <2>2. CASE more[i] # {}
    <3>1. PICK x : more[i] = {x}
      BY <2>2
    <3>2. IsFiniteSet({x})
      BY FS_Singleton
    <3>3. QED BY <3>1, <3>2
  <2>3. QED BY <2>1, <2>2
<1>2. ASSUME NEW i \in DOMAIN kinds
      PROVE  \E g \in [kinds[i] -> more[i]] : \A x, y \in kinds[i] : g[x] = g[y] => x = y
  <2> DEFINE g == [x \in kinds[i] |-> CHOOSE y \in more[i] : TRUE]
  <2>1. g \in [kinds[i] -> more[i]]
    OBVIOUS
  <2>2. \A x, y \in kinds[i] : g[x] = g[y] => x = y
    OBVIOUS
  <2> HIDE DEF g
  <2>3. QED BY <2>1, <2>2
<1>3. QED BY <1>1, <1>2, SignsFewer

\* A text is of one family at most, and of one if it has a mark of any.
LEMMA FirstOfIs ==
    ASSUME NEW order, CallList(order), NEW marks
    PROVE  /\ \A x, y \in FirstOf(order, marks) : x = y
           /\ FirstOf(order, marks) # {} <=> \E k \in 1..Len(order) : order[k] \in marks
<1> DEFINE K == {k \in DOMAIN order : order[k] \in marks /\ \A j \in 1..(k - 1) : order[j] \notin marks}
<1>0. DOMAIN order = 1..Len(order) /\ Len(order) \in Nat
  BY DEF CallList
<1>1. \A j, k \in K : j = k
  BY <1>0
<1>2. ASSUME NEW n \in 1..Len(order), order[n] \in marks PROVE K # {}
  <2> DEFINE U == {k \in 1..Len(order) : order[k] \in marks}
  <2>1. U \in SUBSET Nat /\ U # {}
    BY <1>2
  <2>2. PICK k \in U : \A m \in U : k <= m
    BY <2>1, LeastNumber
  <2>3. k \in K
    BY <2>2, <1>0
  <2>4. QED BY <2>3
<1>3. FirstOf(order, marks) = {order[k] : k \in K}
  BY DEF FirstOf
<1>4. K # {} => \E k \in 1..Len(order) : order[k] \in marks
  BY <1>0
<1> HIDE DEF K
<1>5. QED BY <1>1, <1>2, <1>3, <1>4

\* Who said something, and what about, is the same; a mark may be new.
LEMMA SaidSame ==
    ASSUME NEW mark, NEW rows, NEW others, SameRows(rows, others, mark)
    PROVE  /\ Len(rows) \in Nat /\ Len(others) = Len(rows)
           /\ DOMAIN rows = 1..Len(rows) /\ DOMAIN others = 1..Len(rows)
           /\ Turns(others) = Turns(rows)
           /\ \A i \in 1..Len(rows) : others[i].from = rows[i].from
           /\ \A who \in {"human", "gpt"} : Said(others, who) = Said(rows, who)
           /\ \A i \in 1..Len(rows) : rows[i].from # "function_call" =>
                 /\ others[i].text.topic = rows[i].text.topic
                 /\ others[i].text.wording = rows[i].text.wording
                 /\ rows[i].text.marks \subseteq others[i].text.marks
                 /\ others[i].text.marks \subseteq rows[i].text.marks \cup {mark}
<1>1. PICK T : rows \in Seq(T) /\ others \in Seq(T)
  BY DEF SameRows
<1>2. /\ Len(rows) \in Nat /\ Len(others) = Len(rows)
      /\ DOMAIN rows = 1..Len(rows) /\ DOMAIN others = 1..Len(rows)
  BY <1>1 DEF SameRows
<1>3. \A i \in 1..Len(rows) : SameRow(rows[i], others[i], mark)
  BY DEF SameRows
<1>4. ASSUME NEW i \in 1..Len(rows)
      PROVE  /\ others[i].from = rows[i].from
             /\ others[i].text # EmptyText <=> rows[i].text # EmptyText
             /\ others[i].text.topic = rows[i].text.topic
             /\ others[i].text.wording = rows[i].text.wording
             /\ rows[i].text.marks \subseteq others[i].text.marks
             /\ others[i].text.marks \subseteq rows[i].text.marks \cup {mark}
  <2>1. CASE rows[i] = others[i]
    BY <2>1
  <2>2. CASE rows[i] # others[i]
    BY <2>2, <1>3 DEF SameRow
  <2>3. QED BY <2>1, <2>2
<1>5. Turns(others) = Turns(rows)
  BY <1>2, <1>4 DEF Turns
<1>6. \A who \in {"human", "gpt"} : Said(others, who) = Said(rows, who)
  BY <1>2, <1>4 DEF Said
<1>7. QED BY <1>2, <1>4, <1>5, <1>6

Explicit == <<"correction", "rephrase", "clarification">>
Content == <<"gratitude", "confirmation", "success">>
Failures == <<"invalid_args", "tool_not_found", "auth_misuse", "state_error", "bad_query">>
Exhaustions == <<"rate_limit", "api_error", "timeout", "network", "malformed_response",
                 "context_overflow">>

LEMMA OrdersAre ==
    /\ CallList(Explicit) /\ CallList(Content) /\ CallList(Failures) /\ CallList(Exhaustions)
    /\ \A mark \in ContentMarks :
          /\ \A k \in 1..Len(Explicit) : Explicit[k] # mark
          /\ \A k \in 1..Len(Failures) : Failures[k] # mark
          /\ \A k \in 1..Len(Exhaustions) : Exhaustions[k] # mark
    /\ \A mark \in TroubleMarks : \A k \in 1..Len(Content) : Content[k] # mark
<1>1. CallList(Explicit) /\ CallList(Content) /\ CallList(Failures) /\ CallList(Exhaustions)
  <2>1. CallList(Explicit)
    BY DEF CallList, Explicit
  <2>2. CallList(Content)
    BY DEF CallList, Content
  <2>3. CallList(Failures)
    BY DEF CallList, Failures
  <2>4. CallList(Exhaustions)
    BY DEF CallList, Exhaustions
  <2>5. QED BY <2>1, <2>2, <2>3, <2>4
<1>2. ASSUME NEW mark \in ContentMarks
      PROVE  /\ \A k \in 1..Len(Explicit) : Explicit[k] # mark
             /\ \A k \in 1..Len(Failures) : Failures[k] # mark
             /\ \A k \in 1..Len(Exhaustions) : Exhaustions[k] # mark
  <2>1. \A k \in 1..Len(Explicit) : Explicit[k] # mark
    BY DEF Explicit, ContentMarks
  <2>2. \A k \in 1..Len(Failures) : Failures[k] # mark
    BY DEF Failures, ContentMarks
  <2>3. \A k \in 1..Len(Exhaustions) : Exhaustions[k] # mark
    BY DEF Exhaustions, ContentMarks
  <2>4. QED BY <2>1, <2>2, <2>3
<1>3. ASSUME NEW mark \in TroubleMarks PROVE \A k \in 1..Len(Content) : Content[k] # mark
  BY DEF Content, TroubleMarks
<1>4. QED BY <1>1, <1>2, <1>3

\* Only the marks of the families looked for matter.
LEMMA FirstOfSame ==
    ASSUME NEW order, CallList(order), NEW marks, NEW more,
           \A k \in 1..Len(order) : order[k] \in more <=> order[k] \in marks
    PROVE  FirstOf(order, more) = FirstOf(order, marks)
<1>1. DOMAIN order = 1..Len(order) /\ Len(order) \in Nat
  BY DEF CallList
<1>2. \A k \in DOMAIN order : \A j \in 1..(k - 1) : order[j] \in more <=> order[j] \in marks
  <2> SUFFICES ASSUME NEW k \in DOMAIN order, NEW j \in 1..(k - 1)
               PROVE  order[j] \in more <=> order[j] \in marks
    OBVIOUS
  <2>1. j \in 1..Len(order)
    BY <1>1
  <2>2. QED BY <2>1
<1> DEFINE K(m) == {k \in DOMAIN order : order[k] \in m /\ \A j \in 1..(k - 1) : order[j] \notin m}
<1>3. K(more) = K(marks)
  BY <1>1, <1>2
<1>4. FirstOf(order, more) = {order[k] : k \in K(more)} /\ FirstOf(order, marks) = {order[k] : k \in K(marks)}
  BY DEF FirstOf
<1> HIDE DEF K
<1>5. QED BY <1>3, <1>4

\* A family that a text belongs to is not lost by more marks.
LEMMA FirstOfMore ==
    ASSUME NEW order, CallList(order), NEW marks, NEW more, marks \subseteq more,
           FirstOf(order, marks) # {}
    PROVE  FirstOf(order, more) # {}
<1>1. PICK k \in 1..Len(order) : order[k] \in marks
  BY FirstOfIs
<1>2. order[k] \in more
  BY <1>1
<1>3. QED BY <1>2, FirstOfIs

\* Misalignment: a text has one sign at most, which a sign of trouble does not
\* take away nor a sign of content bring.
LEMMA MisalignedMarked ==
    ASSUME NEW mark, NEW rows, NEW others, SameRows(rows, others, mark), NEW i \in Said(rows, "human")
    PROVE  /\ \A x, y \in Misaligned(rows, i) : x = y
           /\ \A x, y \in Misaligned(others, i) : x = y
           /\ mark \in TroubleMarks /\ Misaligned(rows, i) # {} => Misaligned(others, i) # {}
           /\ mark \in ContentMarks /\ Misaligned(others, i) # {} => Misaligned(rows, i) # {}
<1> DEFINE said == Said(rows, "human")
           e == FirstOf(Explicit, rows[i].text.marks)
           f == FirstOf(Explicit, others[i].text.marks)
<1>1. /\ Misaligned(rows, i) = IF e # {} THEN e ELSE IF RestatesLast(rows, i) THEN {"restated"} ELSE {}
      /\ Misaligned(others, i) = IF f # {} THEN f ELSE IF RestatesLast(others, i) THEN {"restated"} ELSE {}
  BY DEF Misaligned, Explicit
<1>2. Said(others, "human") = said /\ \A j \in said : j \in 1..Len(rows) /\ rows[j].from # "function_call"
  BY SaidSame DEF Said
<1>3. ASSUME NEW j \in said
      PROVE  /\ others[j].text.topic = rows[j].text.topic
             /\ rows[j].text.marks \subseteq others[j].text.marks
             /\ others[j].text.marks \subseteq rows[j].text.marks \cup {mark}
  BY <1>2, SaidSame
<1>4. (\A x, y \in e : x = y) /\ (\A x, y \in f : x = y)
  BY OrdersAre, FirstOfIs
<1>5. e # {} => f # {}
  BY <1>3, OrdersAre, FirstOfMore
<1>6. ASSUME mark \in ContentMarks PROVE f = e
  <2>1. \A k \in 1..Len(Explicit) : Explicit[k] # mark
    BY <1>6, OrdersAre
  <2>2. CallList(Explicit)
    BY OrdersAre
  <2>3. \A k \in 1..Len(Explicit) :
           Explicit[k] \in others[i].text.marks <=> Explicit[k] \in rows[i].text.marks
    BY <2>1, <1>3
  <2>4. QED BY <2>2, <2>3, FirstOfSame
<1>7. "confirms" \in others[i].text.marks => "confirms" \in rows[i].text.marks \/ mark = "confirms"
  BY <1>3
<1>8. /\ "confirms" \in rows[i].text.marks => "confirms" \in others[i].text.marks
      /\ mark \in TroubleMarks => mark # "confirms"
  BY <1>3 DEF TroubleMarks
<1>9. \A j \in said :
         /\ SimilarRephrase(others[i].text, others[j].text) => SimilarRephrase(rows[i].text, rows[j].text)
         /\ mark \in TroubleMarks /\ SimilarRephrase(rows[i].text, rows[j].text) =>
               SimilarRephrase(others[i].text, others[j].text)
  BY <1>3, <1>7, <1>8 DEF SimilarRephrase
<1>10. /\ RestatesLast(others, i) => RestatesLast(rows, i)
       /\ mark \in TroubleMarks /\ RestatesLast(rows, i) => RestatesLast(others, i)
  BY <1>2, <1>9 DEF RestatesLast
<1> HIDE DEF said, e, f
<1>11. QED BY <1>1, <1>4, <1>5, <1>6, <1>10

\* What one more mark does to the disengagement of a text.
Replaced(mark, marks, more) ==
    /\ IsFiniteSet(Disengaged(marks)) /\ IsFiniteSet(Disengaged(more))
    /\ mark \in ContentMarks => Disengaged(more) \subseteq Disengaged(marks)
    /\ mark \in TroubleMarks =>
          /\ \A k \in {"escalation", "quit"} : k \in Disengaged(marks) => k \in Disengaged(more)
          /\ \E g \in [Disengaged(marks) -> Disengaged(more)] :
                \A x, y \in Disengaged(marks) : g[x] = g[y] => x = y

\* Disengagement: a sign of trouble replaces a sign at most, a sign of content
\* only takes one away.
LEMMA DisengagedMarked ==
    ASSUME NEW mark, NEW marks, NEW more, marks \subseteq more, more \subseteq marks \cup {mark}
    PROVE  Replaced(mark, marks, more)
<1> DEFINE All == {"shouting", "escalation", "quit", "profanity", "punctuation", "complaint"}
<1>1. IsFiniteSet(All)
  <2> DEFINE list == <<"shouting", "escalation", "quit", "profanity", "punctuation", "complaint">>
  <2>1. DOMAIN list = 1..6 /\ \A s \in All : \E d \in 1..6 : list[d] = s
    <3>1. /\ list[1] = "shouting" /\ list[2] = "escalation" /\ list[3] = "quit"
          /\ list[4] = "profanity" /\ list[5] = "punctuation" /\ list[6] = "complaint"
      OBVIOUS
    <3>2. DOMAIN list = 1..6
      OBVIOUS
    <3>3. 1 \in 1..6 /\ 2 \in 1..6 /\ 3 \in 1..6 /\ 4 \in 1..6 /\ 5 \in 1..6 /\ 6 \in 1..6
      OBVIOUS
    <3> HIDE DEF list
    <3>4. QED BY <3>1, <3>2, <3>3
  <2>2. IsFiniteSet(1..6)
    <3>1. 1 \in Int /\ 6 \in Int
      OBVIOUS
    <3>2. QED BY <3>1, FS_Interval
  <2> HIDE DEF list, All
  <2>3. QED BY <2>1, <2>2, CoveredIsFinite
<1>2. Disengaged(marks) \subseteq All /\ Disengaged(more) \subseteq All
  BY DEF Disengaged
<1>3. IsFiniteSet(Disengaged(marks)) /\ IsFiniteSet(Disengaged(more))
  BY <1>1, <1>2, FS_Subset
<1>4. ASSUME mark \in ContentMarks PROVE Disengaged(more) \subseteq Disengaged(marks)
  <2>1. \A k \in All : k \in more <=> k \in marks
    BY <1>4 DEF ContentMarks
  <2>2. QED BY <2>1 DEF Disengaged
<1>5. ASSUME mark \in TroubleMarks
      PROVE  \A k \in All \ {"complaint"} : k \in Disengaged(marks) => k \in Disengaged(more)
  BY <1>5 DEF Disengaged, TroubleMarks
<1>6. ASSUME mark \in TroubleMarks, "complaint" \in Disengaged(marks), "complaint" \notin Disengaged(more)
      PROVE  mark \in Disengaged(more) /\ mark \notin Disengaged(marks)
  BY <1>6 DEF Disengaged
<1>7. ASSUME mark \in TroubleMarks
      PROVE  \E g \in [Disengaged(marks) -> Disengaged(more)] :
                \A x, y \in Disengaged(marks) : g[x] = g[y] => x = y
  <2> DEFINE D == Disengaged(marks)
             E == Disengaged(more)
             g == [k \in D |-> IF k \in E THEN k ELSE mark]
  <2>1. \A k \in D : k \notin E => k = "complaint"
    BY <1>2, <1>5, <1>7
  <2> HIDE DEF D, E
  <2>2. g \in [D -> E]
    BY <2>1, <1>6, <1>7 DEF D, E
  <2>3. \A x, y \in D : g[x] = g[y] => x = y
    BY <2>1, <1>6, <1>7 DEF D, E
  <2> HIDE DEF g
  <2>4. QED BY <2>2, <2>3 DEF D, E
<1>8. QED BY <1>3, <1>4, <1>5, <1>7 DEF Replaced

\* The signals of an order of families in the rows I.
Told(order, rows, I) == Signs([i \in I |-> FirstOf(order, rows[i].text.marks)])

\* Signals of families: none is lost by a mark, and none won by a mark of
\* another family.
LEMMA FirstsFewer ==
    ASSUME NEW order, CallList(order), NEW mark, NEW rows, NEW others, SameRows(rows, others, mark),
           NEW I, I \subseteq {i \in 1..Len(rows) : rows[i].from # "function_call"}
    PROVE  /\ Fewer(Told(order, rows, I), Told(order, others, I))
           /\ (\A k \in 1..Len(order) : order[k] # mark) =>
                 Fewer(Told(order, others, I), Told(order, rows, I))
<1> DEFINE f == [i \in I |-> FirstOf(order, rows[i].text.marks)]
           g == [i \in I |-> FirstOf(order, others[i].text.marks)]
<1>1. IsFiniteSet(I)
  <2>1. Len(rows) \in Nat
    BY SaidSame
  <2>2. IsFiniteSet(1..Len(rows))
    BY <2>1, FS_Interval
  <2>3. QED BY <2>2, FS_Subset
<1>2. \A i \in I : (\A x, y \in f[i] : x = y) /\ (\A x, y \in g[i] : x = y)
  BY FirstOfIs
<1>3. ASSUME NEW i \in I
      PROVE  /\ rows[i].text.marks \subseteq others[i].text.marks
             /\ others[i].text.marks \subseteq rows[i].text.marks \cup {mark}
  BY SaidSame
<1>4. \A i \in I : f[i] # {} => g[i] # {}
  <2> SUFFICES ASSUME NEW i \in I, FirstOf(order, rows[i].text.marks) # {}
               PROVE  FirstOf(order, others[i].text.marks) # {}
    OBVIOUS
  <2>1. QED BY <1>3, FirstOfMore
<1>5. ASSUME \A k \in 1..Len(order) : order[k] # mark PROVE \A i \in I : g[i] = f[i]
  <2> SUFFICES ASSUME NEW i \in I
               PROVE  FirstOf(order, others[i].text.marks) = FirstOf(order, rows[i].text.marks)
    OBVIOUS
  <2>1. \A k \in 1..Len(order) : order[k] \in others[i].text.marks <=> order[k] \in rows[i].text.marks
    BY <1>3, <1>5
  <2>2. QED BY <2>1, FirstOfSame
<1>6. DOMAIN f = I /\ DOMAIN g = I
  OBVIOUS
<1> HIDE DEF f, g
<1>7. Fewer(Signs(f), Signs(g))
  BY <1>1, <1>2, <1>4, <1>6, OneKindFewer
<1>8. (\A k \in 1..Len(order) : order[k] # mark) => Fewer(Signs(g), Signs(f))
  <2> SUFFICES ASSUME \A k \in 1..Len(order) : order[k] # mark
               PROVE  Fewer(Signs(g), Signs(f))
    OBVIOUS
  <2>1. \A i \in I : g[i] # {} => f[i] # {}
    BY <1>5
  <2>2. QED BY <2>1, <1>1, <1>2, <1>6, OneKindFewer
<1>9. QED BY <1>7, <1>8 DEF f, g, Told

\* Repetition is told by what texts are about; a mark can only excuse it.
LEMMA StagnationMarked ==
    ASSUME NEW mark, NEW rows, NEW others, SameRows(rows, others, mark)
    PROVE  /\ IsFiniteSet(Dragging(rows) \cup Repetition(rows))
           /\ Dragging(others) = Dragging(rows)
           /\ Repetition(others) \subseteq Repetition(rows)
           /\ mark \in TroubleMarks => Repetition(others) = Repetition(rows)
<1> DEFINE said == Said(rows, "human") \cup Said(rows, "gpt")
           Excused(r, i) == r[i].from = "human" /\ "positive" \in r[i].text.marks
<1>1. Said(others, "human") = Said(rows, "human") /\ Said(others, "gpt") = Said(rows, "gpt")
  BY SaidSame
<1>2. /\ Len(rows) \in Nat /\ Len(others) = Len(rows) /\ DOMAIN rows = 1..Len(rows)
      /\ Turns(others) = Turns(rows)
  BY SaidSame
<1>3. said \subseteq 1..Len(rows)
  BY <1>2 DEF Said
<1>4. \A i \in said :
         /\ rows[i].from \in {"human", "gpt"} /\ others[i].from = rows[i].from
         /\ others[i].text.topic = rows[i].text.topic
         /\ others[i].text.wording = rows[i].text.wording
         /\ rows[i].text.marks \subseteq others[i].text.marks
         /\ others[i].text.marks \subseteq rows[i].text.marks \cup {mark}
  <2> SUFFICES ASSUME NEW i \in said
               PROVE  /\ rows[i].from \in {"human", "gpt"} /\ others[i].from = rows[i].from
                      /\ others[i].text.topic = rows[i].text.topic
                      /\ others[i].text.wording = rows[i].text.wording
                      /\ rows[i].text.marks \subseteq others[i].text.marks
                      /\ others[i].text.marks \subseteq rows[i].text.marks \cup {mark}
    OBVIOUS
  <2>1. i \in 1..Len(rows) /\ rows[i].from \in {"human", "gpt"} /\ rows[i].from # "function_call"
    BY <1>3 DEF Said
  <2>2. QED BY <2>1, SaidSame
<1>5. ASSUME NEW i \in said PROVE Repeated(others, i) <=> Repeated(rows, i)
  <2> DEFINE who == rows[i].from
  <2>1. Said(others, others[i].from) = Said(rows, who)
    BY <1>1, <1>4
  <2>2. Said(rows, who) \subseteq said
    BY <1>4
  <2>3. \A j \in Said(rows, who) :
           /\ others[j].text.topic = rows[j].text.topic
           /\ others[j].text.wording = rows[j].text.wording
    BY <1>4, <2>2
  <2>4. others[i].text.topic = rows[i].text.topic /\ others[i].text.wording = rows[i].text.wording
    BY <1>4
  <2>5. QED BY <2>1, <2>3, <2>4 DEF Repeated
<1>6. /\ Repetition(rows) = {[kind |-> "repetition", row |-> i] :
                                i \in {i \in said : ~Excused(rows, i) /\ Repeated(rows, i)}}
      /\ Repetition(others) = {[kind |-> "repetition", row |-> i] :
                                  i \in {i \in said : ~Excused(others, i) /\ Repeated(others, i)}}
  BY <1>1 DEF Repetition
<1>7. \A i \in said : Excused(rows, i) => Excused(others, i)
  BY <1>4
<1>8. ASSUME mark \in TroubleMarks PROVE \A i \in said : Excused(others, i) => Excused(rows, i)
  <2>1. mark # "positive"
    BY <1>8 DEF TroubleMarks
  <2>2. QED BY <1>4, <2>1
<1> HIDE DEF said, Excused
<1>9. Repetition(others) \subseteq Repetition(rows)
  BY <1>5, <1>6, <1>7
<1>10. mark \in TroubleMarks => Repetition(others) = Repetition(rows)
  BY <1>5, <1>6, <1>7, <1>8
<1>11. Dragging(others) = Dragging(rows)
  BY <1>2 DEF Dragging
<1>12. IsFiniteSet(Repetition(rows))
  <2> DEFINE f == [i \in 1..Len(rows) |-> [kind |-> "repetition", row |-> i]]
  <2>1. DOMAIN f = 1..Len(rows) /\ IsFiniteSet(1..Len(rows))
    BY <1>2, FS_Interval
  <2>2. \A s \in Repetition(rows) : \E i \in 1..Len(rows) : f[i] = s
    BY <1>3, <1>6
  <2> HIDE DEF f
  <2>3. QED BY <2>1, <2>2, CoveredIsFinite
<1>13. IsFiniteSet(Dragging(rows))
  BY FS_EmptySet, FS_Singleton DEF Dragging
<1>14. QED BY <1>9, <1>10, <1>11, <1>12, <1>13, FS_Union

LEMMA LoopsFinite ==
    ASSUME NEW list, CallList(list)
    PROVE  IsFiniteSet(Loops(list))
<1> DEFINE N == Len(list)
           r == DetectRetry(list)
           d == DetectParameterDrift(list)
           k == DeduplicatePatterns(list, FindOscillations(list))
<1>1. IsFiniteSet(1..N)
  BY FS_Interval DEF CallList
<1>2. ASSUME NEW kind, NEW found, DOMAIN found \subseteq DOMAIN list
      PROVE  IsFiniteSet(Patterns(kind, found))
  <2> DEFINE f == [i \in DOMAIN found |-> [kind |-> kind, first |-> i, last |-> found[i]]]
  <2>1. IsFiniteSet(DOMAIN found)
    BY <1>1, <1>2, FS_Subset DEF CallList
  <2>2. DOMAIN f = DOMAIN found /\ \A s \in Patterns(kind, found) : \E i \in DOMAIN found : f[i] = s
    BY DEF Patterns
  <2> HIDE DEF f
  <2>3. QED BY <2>1, <2>2, CoveredIsFinite
<1>3. DOMAIN r \subseteq DOMAIN list /\ DOMAIN d \subseteq DOMAIN list /\ DOMAIN k \subseteq DOMAIN list
  BY RetriesAre, DriftsAre, OscillationsAre
<1> HIDE DEF r, d, k
<1> DEFINE All == Patterns("retry", r) \cup Patterns("parameter_drift", d) \cup Patterns("oscillation", k)
<1>4. IsFiniteSet(All)
  BY <1>2, <1>3, FS_Union
<1>5. Loops(list) \subseteq All
  BY DEF Loops, r, d, k
<1>6. QED BY <1>4, <1>5, FS_Subset

\* There is more trouble in h than in g, and less content.
Worse(g, h) ==
    /\ Fewer(g.misalignment, h.misalignment)
    /\ Fewer(g.stagnation, h.stagnation)
    /\ Fewer(g.disengagement, h.disengagement)
    /\ Fewer(h.satisfaction, g.satisfaction)
    /\ Fewer(g.failure, h.failure)
    /\ Fewer(g.loops, h.loops) /\ g.loops = h.loops
    /\ Fewer(g.exhaustion, h.exhaustion)
    /\ (\E s \in g.disengagement : s.kind \in {"escalation", "quit"}) =>
          \E s \in h.disengagement : s.kind \in {"escalation", "quit"}

\* Misalignment and disengagement of all the user's messages.
LEMMA UsersSigns ==
    ASSUME NEW mark, NEW rows, NEW others, SameRows(rows, others, mark)
    PROVE  LET said == Said(rows, "human")
               mis == Signs([i \in said |-> Misaligned(rows, i)])
               misMarked == Signs([i \in said |-> Misaligned(others, i)])
               dis == Signs([i \in said |-> Disengaged(rows[i].text.marks)])
               disMarked == Signs([i \in said |-> Disengaged(others[i].text.marks)])
           IN  /\ mark \in TroubleMarks =>
                     /\ Fewer(mis, misMarked) /\ Fewer(dis, disMarked)
                     /\ (\E s \in dis : s.kind \in {"escalation", "quit"}) =>
                           \E s \in disMarked : s.kind \in {"escalation", "quit"}
               /\ mark \in ContentMarks =>
                     /\ Fewer(misMarked, mis) /\ disMarked \subseteq dis /\ IsFiniteSet(dis)
<1> DEFINE said == Said(rows, "human")
           m == [i \in said |-> Misaligned(rows, i)]
           n == [i \in said |-> Misaligned(others, i)]
           d == [i \in said |-> Disengaged(rows[i].text.marks)]
           e == [i \in said |-> Disengaged(others[i].text.marks)]
<1>1. said \subseteq 1..Len(rows) /\ IsFiniteSet(said)
  <2>1. said \subseteq 1..Len(rows) /\ Len(rows) \in Nat
    BY SaidSame DEF Said
  <2>2. IsFiniteSet(1..Len(rows))
    BY <2>1, FS_Interval
  <2>3. QED BY <2>1, <2>2, FS_Subset
<1>2. DOMAIN m = said /\ DOMAIN n = said /\ DOMAIN d = said /\ DOMAIN e = said
  OBVIOUS
<1>3. ASSUME NEW i \in said
      PROVE  /\ rows[i].text.marks \subseteq others[i].text.marks
             /\ others[i].text.marks \subseteq rows[i].text.marks \cup {mark}
  <2>1. i \in 1..Len(rows) /\ rows[i].from # "function_call"
    BY <1>1 DEF Said
  <2>2. QED BY <2>1, SaidSame
<1>4. ASSUME NEW i \in said
      PROVE  /\ \A x, y \in m[i] : x = y
             /\ \A x, y \in n[i] : x = y
             /\ mark \in TroubleMarks /\ m[i] # {} => n[i] # {}
             /\ mark \in ContentMarks /\ n[i] # {} => m[i] # {}
  <2>1. m[i] = Misaligned(rows, i) /\ n[i] = Misaligned(others, i)
    OBVIOUS
  <2>2. QED BY <2>1, MisalignedMarked
<1>5. ASSUME NEW i \in said
      PROVE  /\ IsFiniteSet(d[i]) /\ IsFiniteSet(e[i])
             /\ mark \in ContentMarks => e[i] \subseteq d[i]
             /\ mark \in TroubleMarks =>
                   /\ \A k \in {"escalation", "quit"} : k \in d[i] => k \in e[i]
                   /\ \E g \in [d[i] -> e[i]] : \A x, y \in d[i] : g[x] = g[y] => x = y
  <2>1. d[i] = Disengaged(rows[i].text.marks) /\ e[i] = Disengaged(others[i].text.marks)
    OBVIOUS
  <2>2. Replaced(mark, rows[i].text.marks, others[i].text.marks)
    BY <1>3, DisengagedMarked
  <2> HIDE DEF d, e
  <2>3. QED BY <2>1, <2>2 DEF Replaced
<1> HIDE DEF m, n, d, e, said
<1>6. ASSUME mark \in TroubleMarks
      PROVE  /\ Fewer(Signs(m), Signs(n)) /\ Fewer(Signs(d), Signs(e))
             /\ (\E s \in Signs(d) : s.kind \in {"escalation", "quit"}) =>
                   \E s \in Signs(e) : s.kind \in {"escalation", "quit"}
  <2>1. Fewer(Signs(m), Signs(n))
    BY <1>1, <1>2, <1>4, <1>6, OneKindFewer
  <2>2. Fewer(Signs(d), Signs(e))
    BY <1>1, <1>2, <1>5, <1>6, SignsFewer
  <2>3. ASSUME NEW s \in Signs(d), s.kind \in {"escalation", "quit"}
        PROVE  \E t \in Signs(e) : t.kind \in {"escalation", "quit"}
    <3>1. PICK i \in said : \E k \in d[i] : s = [kind |-> k, row |-> i]
      BY <1>2 DEF Signs
    <3>2. s.kind \in d[i]
      BY <3>1
    <3>3. s.kind \in e[i]
      BY <3>2, <2>3, <1>5, <1>6
    <3>4. [kind |-> s.kind, row |-> i] \in Signs(e)
      BY <3>3, <1>2 DEF Signs
    <3>5. QED BY <3>4, <2>3
  <2>4. QED BY <2>1, <2>2, <2>3
<1>7. ASSUME mark \in ContentMarks
      PROVE  Fewer(Signs(n), Signs(m)) /\ Signs(e) \subseteq Signs(d) /\ IsFiniteSet(Signs(d))
  <2>1. Fewer(Signs(n), Signs(m))
    BY <1>1, <1>2, <1>4, <1>7, OneKindFewer
  <2>2. IsFiniteSet(Signs(d))
    BY <1>1, <1>2, <1>5, SignsFinite
  <2>3. Signs(e) \subseteq Signs(d)
    BY <1>2, <1>5, <1>7 DEF Signs
  <2>4. QED BY <2>1, <2>2, <2>3
<1>8. QED BY <1>6, <1>7 DEF m, n, d, e, said

\* One more sign of trouble makes things worse, and one of content better.
LEMMA GroupsMarked ==
    ASSUME NEW mark, NEW rows, NEW others, SameRows(rows, others, mark)
    PROVE  /\ mark \in TroubleMarks => Worse(Groups(rows), Groups(others))
           /\ mark \in ContentMarks => Worse(Groups(others), Groups(rows))
<1> DEFINE said == Said(rows, "human")
           results == {i \in 1..Len(rows) : rows[i].from = "observation"}
           mis(r) == Signs([i \in said |-> Misaligned(r, i)])
           sta(r) == Dragging(r) \cup Repetition(r)
           dis(r) == Signs([i \in said |-> Disengaged(r[i].text.marks)])
           sat(r) == Told(Content, r, said)
           fai(r) == Told(Failures, r, results)
           exh(r) == Told(Exhaustions, r, results)
           All(r) == [misalignment |-> mis(r), stagnation |-> sta(r), disengagement |-> dis(r),
                      satisfaction |-> sat(r), failure |-> fai(r), loops |-> Loops(Calls(r)),
                      exhaustion |-> exh(r)]
<1>1. /\ DOMAIN rows = 1..Len(rows) /\ DOMAIN others = 1..Len(rows)
      /\ Said(others, "human") = said
      /\ \A i \in 1..Len(rows) : others[i].from = rows[i].from
  BY SaidSame
<1>2. {i \in DOMAIN rows : rows[i].from = "observation"} = results
      /\ {i \in DOMAIN others : others[i].from = "observation"} = results
  BY <1>1
<1>3. Groups(rows) = All(rows) /\ Groups(others) = All(others)
  <2>1. Groups(rows) = All(rows)
    BY <1>2 DEF Groups, Told, Satisfied, Failed, Exhausted, Content, Failures, Exhaustions
  <2>2. Groups(others) = All(others)
    BY <1>1, <1>2 DEF Groups, Told, Satisfied, Failed, Exhausted, Content, Failures, Exhaustions
  <2>3. QED BY <2>1, <2>2
<1>4. said \subseteq {i \in 1..Len(rows) : rows[i].from # "function_call"}
  BY <1>1 DEF Said
<1>5. results \subseteq {i \in 1..Len(rows) : rows[i].from # "function_call"}
  OBVIOUS
<1> HIDE DEF said, results
<1>6. /\ Fewer(sat(rows), sat(others))
      /\ (\A k \in 1..Len(Content) : Content[k] # mark) => Fewer(sat(others), sat(rows))
  BY <1>4, OrdersAre, FirstsFewer
<1>7. /\ Fewer(fai(rows), fai(others))
      /\ (\A k \in 1..Len(Failures) : Failures[k] # mark) => Fewer(fai(others), fai(rows))
  BY <1>5, OrdersAre, FirstsFewer
<1>8. /\ Fewer(exh(rows), exh(others))
      /\ (\A k \in 1..Len(Exhaustions) : Exhaustions[k] # mark) => Fewer(exh(others), exh(rows))
  BY <1>5, OrdersAre, FirstsFewer
<1>9. /\ mark \in TroubleMarks =>
            /\ Fewer(mis(rows), mis(others)) /\ Fewer(dis(rows), dis(others))
            /\ (\E s \in dis(rows) : s.kind \in {"escalation", "quit"}) =>
                  \E s \in dis(others) : s.kind \in {"escalation", "quit"}
      /\ mark \in ContentMarks =>
            /\ Fewer(mis(others), mis(rows)) /\ dis(others) \subseteq dis(rows) /\ IsFiniteSet(dis(rows))
  BY UsersSigns DEF said
<1>10. /\ IsFiniteSet(sta(rows)) /\ sta(others) \subseteq sta(rows)
       /\ mark \in TroubleMarks => sta(others) = sta(rows)
  BY StagnationMarked
<1>11. /\ Loops(Calls(others)) = Loops(Calls(rows))
       /\ Fewer(Loops(Calls(rows)), Loops(Calls(rows)))
  <2>1. Calls(rows) = Calls(others) /\ CallList(Calls(rows))
    BY CallsSame
  <2>2. IsFiniteSet(Loops(Calls(rows)))
    BY <2>1, LoopsFinite
  <2>3. QED BY <2>1, <2>2, SubsetFewer
<1> HIDE DEF mis, sta, dis, sat, fai, exh
<1>12. ASSUME mark \in TroubleMarks PROVE Worse(All(rows), All(others))
  <2>1. Fewer(sta(rows), sta(others))
    BY <1>10, <1>12, SubsetFewer
  <2>2. Fewer(sat(others), sat(rows))
    BY <1>6, <1>12, OrdersAre
  <2>3. QED BY <2>1, <2>2, <1>7, <1>8, <1>9, <1>11, <1>12 DEF Worse
<1>13. ASSUME mark \in ContentMarks PROVE Worse(All(others), All(rows))
  <2>1. Fewer(sta(others), sta(rows)) /\ Fewer(dis(others), dis(rows))
    BY <1>9, <1>10, <1>13, SubsetFewer
  <2>2. Fewer(fai(others), fai(rows)) /\ Fewer(exh(others), exh(rows))
    BY <1>7, <1>8, <1>13, OrdersAre
  <2>3. QED BY <2>1, <2>2, <1>6, <1>9, <1>11, <1>13 DEF Worse
<1>14. QED BY <1>3, <1>12, <1>13

-----------------------------------------------------------------------------
(* The score *)

Weight(n) == CASE n = 0 -> 0 [] n = 1 -> 12 [] n = 2 -> 16 [] OTHER -> 19

\* What each category takes off the score.
Unclear(count, turns) == IF 10 * count > 3 * turns THEN 15 ELSE 0
Stuck(count) == IF count > 2 THEN 8 * Severity(count) ELSE 0

SumOf(g, turns) ==
    50 + Weight(Cardinality(g.satisfaction))
       - 10 * Severity(Cardinality(g.disengagement))
       - Unclear(Cardinality(g.misalignment), turns)
       - Stuck(Cardinality(g.stagnation))
       - 8 * Cardinality(g.failure) - 5 * Cardinality(g.loops) - 3 * Cardinality(g.exhaustion)

\* What makes the score nothing.
GivesUp(g) ==
    \/ \E s \in g.disengagement : s.kind \in {"escalation", "quit"}
    \/ Severity(Cardinality(g.disengagement)) = 3
    \/ Severity(Cardinality(g.stagnation)) = 3

Clamp(sum) == Max({0, Min({100, sum})})

LEMMA ScoreIs ==
    ASSUME NEW g, NEW n
    PROVE  Score(g, n) = IF GivesUp(g) THEN 0 ELSE Clamp(SumOf(g, Max({n, 1})))
BY DEF Score, GivesUp, Clamp, SumOf, Weight, Unclear, Stuck

LEMMA ClampIs ==
    ASSUME NEW sum \in Int
    PROVE  Clamp(sum) = IF sum < 0 THEN 0 ELSE IF sum > 100 THEN 100 ELSE sum
<1> DEFINE m == Min({100, sum})
<1>1. m = IF sum > 100 THEN 100 ELSE sum
  BY DEF Min
<1>2. m \in Int
  BY <1>1
<1> HIDE DEF m
<1>3. Max({0, m}) = IF m < 0 THEN 0 ELSE m
  BY <1>2 DEF Max
<1>4. QED BY <1>1, <1>3 DEF Clamp, m

\* T weighs no less than S.
Heavier(S, T, turns) ==
    LET a == Cardinality(S)
        b == Cardinality(T)
    IN  /\ Severity(a) \in 0..3 /\ Severity(b) \in 0..3 /\ Severity(a) <= Severity(b)
        /\ Weight(a) \in Int /\ Weight(b) \in Int /\ Weight(a) <= Weight(b)
        /\ Unclear(a, turns) \in Int /\ Unclear(b, turns) \in Int
        /\ Unclear(a, turns) <= Unclear(b, turns)
        /\ Stuck(a) \in Int /\ Stuck(b) \in Int /\ Stuck(a) <= Stuck(b)
        /\ a \in Int /\ b \in Int /\ a <= b

\* More signals never weigh less.
LEMMA Weighs ==
    ASSUME NEW S, NEW T, Fewer(S, T), NEW turns \in Int
    PROVE  Heavier(S, T, turns)
<1> DEFINE a == Cardinality(S)
           b == Cardinality(T)
<1>0. a \in Nat /\ b \in Nat /\ a <= b
  BY DEF Fewer
<1> HIDE DEF a, b
<1>1. Severity(a) \in 0..3 /\ Severity(b) \in 0..3 /\ Severity(a) <= Severity(b)
  BY <1>0 DEF Severity
<1>2. Weight(a) \in Int /\ Weight(b) \in Int /\ Weight(a) <= Weight(b)
  BY <1>0 DEF Weight
<1>3. /\ Unclear(a, turns) \in Int /\ Unclear(b, turns) \in Int
      /\ Unclear(a, turns) <= Unclear(b, turns)
  BY <1>0 DEF Unclear
<1>4. Stuck(a) \in Int /\ Stuck(b) \in Int /\ Stuck(a) <= Stuck(b)
  BY <1>0, <1>1 DEF Stuck
<1>5. QED BY <1>0, <1>1, <1>2, <1>3, <1>4 DEF Heavier, a, b

LEMMA ScoreMoves ==
    ASSUME NEW g, NEW h, Worse(g, h), NEW n \in Nat
    PROVE  /\ Score(h, n) <= Score(g, n)
           /\ IsConcerning(g, QualityOf(Score(g, n))) => IsConcerning(h, QualityOf(Score(h, n)))
<1> DEFINE t == Max({n, 1})
           x == SumOf(g, t)
           y == SumOf(h, t)
<1>1. t \in Int
  BY DEF Max
<1>2. /\ Heavier(g.misalignment, h.misalignment, t) /\ Heavier(g.stagnation, h.stagnation, t)
      /\ Heavier(g.disengagement, h.disengagement, t) /\ Heavier(h.satisfaction, g.satisfaction, t)
      /\ Heavier(g.failure, h.failure, t) /\ Heavier(g.loops, h.loops, t) /\ g.loops = h.loops
      /\ Heavier(g.exhaustion, h.exhaustion, t)
  <2> HIDE DEF t
  <2>1. QED BY <1>1, Weighs DEF Worse
<1> HIDE DEF t
<1>3. x \in Int /\ y \in Int /\ y <= x
  <2> DEFINE S(k) == Severity(Cardinality(k.disengagement))
             W(k) == Weight(Cardinality(k.satisfaction))
             U(k) == Unclear(Cardinality(k.misalignment), t)
             K(k) == Stuck(Cardinality(k.stagnation))
             F(k) == Cardinality(k.failure)
             L(k) == Cardinality(k.loops)
             E(k) == Cardinality(k.exhaustion)
  <2>1. S(g) \in Int /\ S(h) \in Int /\ S(g) <= S(h)
    BY <1>2 DEF Heavier
  <2>2. W(g) \in Int /\ W(h) \in Int /\ W(h) <= W(g)
    BY <1>2 DEF Heavier
  <2>3. U(g) \in Int /\ U(h) \in Int /\ U(g) <= U(h)
    BY <1>2 DEF Heavier
  <2>4. K(g) \in Int /\ K(h) \in Int /\ K(g) <= K(h)
    BY <1>2 DEF Heavier
  <2>5. F(g) \in Int /\ F(h) \in Int /\ F(g) <= F(h) /\ L(g) \in Int /\ L(h) = L(g)
        /\ E(g) \in Int /\ E(h) \in Int /\ E(g) <= E(h)
    BY <1>2 DEF Heavier
  <2>6. /\ x = 50 + W(g) - 10 * S(g) - U(g) - K(g) - 8 * F(g) - 5 * L(g) - 3 * E(g)
        /\ y = 50 + W(h) - 10 * S(h) - U(h) - K(h) - 8 * F(h) - 5 * L(h) - 3 * E(h)
    BY DEF SumOf
  <2> HIDE DEF S, W, U, K, F, L, E, x, y
  <2>7. QED BY <2>1, <2>2, <2>3, <2>4, <2>5, <2>6
<1>4. GivesUp(g) => GivesUp(h)
  <2>1. Severity(Cardinality(g.disengagement)) = 3 => Severity(Cardinality(h.disengagement)) = 3
    BY <1>2 DEF Heavier
  <2>2. Severity(Cardinality(g.stagnation)) = 3 => Severity(Cardinality(h.stagnation)) = 3
    BY <1>2 DEF Heavier
  <2>3. QED BY <2>1, <2>2 DEF GivesUp, Worse
<1> HIDE DEF x, y
<1>5. /\ Score(g, n) = IF GivesUp(g) THEN 0 ELSE IF x < 0 THEN 0 ELSE IF x > 100 THEN 100 ELSE x
      /\ Score(h, n) = IF GivesUp(h) THEN 0 ELSE IF y < 0 THEN 0 ELSE IF y > 100 THEN 100 ELSE y
  BY <1>3, ScoreIs, ClampIs DEF t, x, y
<1>6. Score(g, n) \in Int /\ Score(h, n) \in Int /\ Score(h, n) <= Score(g, n)
  BY <1>3, <1>4, <1>5
<1>7. ASSUME NEW s \in Int PROVE QualityOf(s) \in {"poor", "severe"} <=> s < 40
  BY DEF QualityOf
<1>8. /\ g.disengagement # {} => h.disengagement # {}
      /\ g.failure # {} => h.failure # {}
  BY SomeIfMore DEF Worse
<1>9. ASSUME IsConcerning(g, QualityOf(Score(g, n))) PROVE IsConcerning(h, QualityOf(Score(h, n)))
  <2>1. QualityOf(Score(g, n)) \in {"poor", "severe"} => QualityOf(Score(h, n)) \in {"poor", "severe"}
    BY <1>6, <1>7
  <2>2. Cardinality(g.stagnation) > 2 => Cardinality(h.stagnation) > 2
    BY <1>2 DEF Heavier
  <2>3. QED BY <2>1, <2>2, <1>2, <1>8, <1>9 DEF IsConcerning
<1>10. QED BY <1>6, <1>9

-----------------------------------------------------------------------------
(* The reports of a conversation *)

\* A conversation is of its messages, and its report is of them all.
SignalsInv ==
    /\ dialogue \in Dialogues
    /\ messages \in Seq(dialogue.made_of)
    /\ report # NoReport => report = Report(messages)

LEMMA SignalsInvariant == SignalsSpec => []SignalsInv
<1>1. SignalsInit => SignalsInv
  BY DEF SignalsInit, SignalsInv
<1>2. SignalsInv /\ [SignalsNext]_signalsVars => SignalsInv'
  <2> SUFFICES ASSUME SignalsInv, [SignalsNext]_signalsVars PROVE SignalsInv'
    OBVIOUS
  <2> USE DEF SignalsInv
  <2>1. CASE Continue
    <3>1. PICK m \in dialogue.made_of : messages' = Append(messages, m)
      BY <2>1 DEF Continue
    <3>2. QED BY <2>1, <3>1 DEF Continue
  <2>2. CASE Analyze
    <3>1. dialogue' = dialogue /\ messages' = messages /\ report' = Report(messages)
      BY <2>2 DEF Analyze
    <3>2. report' # NoReport => report' = Report(messages')
      BY <3>1
    <3>3. QED BY <3>1, <3>2
  <2>3. CASE UNCHANGED signalsVars
    <3>1. dialogue' = dialogue /\ messages' = messages /\ report' = report
      BY <2>3 DEF signalsVars
    <3>2. QED BY <3>1
  <2>4. QED BY <2>1, <2>2, <2>3 DEF SignalsNext
<1>3. QED BY <1>1, <1>2, PTL DEF SignalsSpec

LEMMA ReportIs ==
    ASSUME NEW msgs
    PROVE  LET rows == Slice(AllRows(msgs))
               n == Cardinality(Turns(rows))
           IN  /\ Report(msgs).groups = Groups(rows)
               /\ Report(msgs).score = Score(Groups(rows), n)
               /\ Report(msgs).flag = IsConcerning(Groups(rows), QualityOf(Score(Groups(rows), n)))
BY DEF Report

\* The rows analysed, of a conversation and of it with one more mark.
LEMMA RowsAreSame ==
    ASSUME NEW mark, NEW msgs, NEW others, NEW M, msgs \in Seq(M), \A m \in M : IsMessage(m),
           Len(others) = Len(msgs),
           \A n \in 1..Len(msgs) :
              \/ others[n] = msgs[n]
              \/ msgs[n].text # EmptyText /\ others[n] = [msgs[n] EXCEPT !.text.marks = @ \cup {mark}]
    PROVE  SameRows(Slice(AllRows(msgs)), Slice(AllRows(others)), mark)
<1>1. Len(msgs) \in Nat
  OBVIOUS
<1>2. ASSUME NEW n \in 1..Len(msgs) PROVE SameRows(RowsOf(msgs[n]), RowsOf(others[n]), mark)
  <2>1. IsMessage(msgs[n])
    OBVIOUS
  <2>2. CASE others[n] = msgs[n]
    BY <2>1, <2>2, RowsOfMarked
  <2>3. CASE msgs[n].text # EmptyText /\ others[n] = [msgs[n] EXCEPT !.text.marks = @ \cup {mark}]
    BY <2>1, <2>3, RowsOfMarked
  <2>4. QED BY <2>2, <2>3
<1>3. SameRows(AllRows(msgs), AllRows(others), mark)
  BY <1>1, <1>2, AllRowsSame
<1>4. QED BY <1>3, SliceSame

\* Whatever calls a conversation makes, in any window: each loop of them has a
\* call in common with a reported loop, or with one that a reported loop
\* overlaps, and no call is reported twice (signals/execution/loops.rs).
THEOREM FindsLoops == SignalsSpec => []LoopsFound
<1>1. SignalsInv => LoopsFound
  <2> SUFFICES ASSUME SignalsInv, report # NoReport
               PROVE  WellReported(Calls(Slice(AllRows(messages))), report.groups.loops)
    BY DEF LoopsFound, WellReported
  <2> DEFINE rows == Slice(AllRows(messages))
  <2>1. messages \in Seq(dialogue.made_of) /\ \A m \in dialogue.made_of : IsMessage(m)
    BY SignalsAssumption DEF SignalsInv
  <2>2. SameRows(rows, rows, "correction")
    BY <2>1, RowsAreSame
  <2>3. report.groups = Groups(rows)
    BY ReportIs DEF SignalsInv
  <2> HIDE DEF rows
  <2>4. report.groups.loops = Loops(Calls(rows))
    BY <2>3 DEF Groups
  <2>5. CallList(Calls(rows))
    BY <2>2, CallsSame
  <2>6. WellReported(Calls(rows), report.groups.loops)
    BY <2>4, <2>5, LoopsWellReported
  <2>7. QED BY <2>6 DEF rows
<1>2. QED BY <1>1, SignalsInvariant, PTL

\* The score and the flag of a message with one more mark.
LEMMA OneMarkMore ==
    ASSUME SignalsInv, report # NoReport, NEW i \in DOMAIN messages, messages[i].text # EmptyText,
           NEW mark
    PROVE  LET other == Report([messages EXCEPT ![i].text.marks = @ \cup {mark}])
           IN  /\ mark \in TroubleMarks => other.score <= report.score /\ (report.flag => other.flag)
               /\ mark \in ContentMarks => other.score >= report.score /\ (other.flag => report.flag)
<1> DEFINE changed == [messages EXCEPT ![i].text.marks = @ \cup {mark}]
           rows == Slice(AllRows(messages))
           others == Slice(AllRows(changed))
           n == Cardinality(Turns(rows))
<1>1. messages \in Seq(dialogue.made_of) /\ \A m \in dialogue.made_of : IsMessage(m)
  BY SignalsAssumption DEF SignalsInv
<1>2. Len(messages) \in Nat /\ DOMAIN messages = 1..Len(messages) /\ DOMAIN changed = 1..Len(messages)
  BY <1>1
<1>3. Len(changed) = Len(messages)
  BY <1>1
<1>4. ASSUME NEW k \in 1..Len(messages)
      PROVE  \/ changed[k] = messages[k]
             \/ /\ messages[k].text # EmptyText
                /\ changed[k] = [messages[k] EXCEPT !.text.marks = @ \cup {mark}]
  BY <1>2
<1> HIDE DEF changed
<1>5. SameRows(rows, others, mark)
  BY <1>1, <1>3, <1>4, RowsAreSame
<1> HIDE DEF rows, others
<1>6. Turns(others) = Turns(rows) /\ n \in Nat
  <2>1. Turns(others) = Turns(rows) /\ Len(rows) \in Nat /\ DOMAIN rows = 1..Len(rows)
    BY <1>5, SaidSame
  <2>2. IsFiniteSet(1..Len(rows)) /\ Turns(rows) \subseteq 1..Len(rows)
    BY <2>1, FS_Interval DEF Turns
  <2>3. IsFiniteSet(Turns(rows))
    BY <2>2, FS_Subset
  <2>4. QED BY <2>1, <2>3, FS_CardinalityType
<1> DEFINE g == Groups(rows)
           h == Groups(others)
<1>7. /\ report.score = Score(g, n) /\ report.flag = IsConcerning(g, QualityOf(Score(g, n)))
      /\ Report(changed).score = Score(h, n)
      /\ Report(changed).flag = IsConcerning(h, QualityOf(Score(h, n)))
  <2>1. report.score = Score(g, n) /\ report.flag = IsConcerning(g, QualityOf(Score(g, n)))
    BY ReportIs DEF SignalsInv, rows
  <2>2. /\ Report(changed).score = Score(h, n)
        /\ Report(changed).flag = IsConcerning(h, QualityOf(Score(h, n)))
    BY <1>6, ReportIs DEF others
  <2>3. QED BY <2>1, <2>2
<1>8. (mark \in TroubleMarks => Worse(g, h)) /\ (mark \in ContentMarks => Worse(h, g))
  BY <1>5, GroupsMarked
<1> HIDE DEF g, h, n
<1>9. mark \in TroubleMarks =>
         Report(changed).score <= report.score /\ (report.flag => Report(changed).flag)
  BY <1>6, <1>7, <1>8, ScoreMoves
<1>10. mark \in ContentMarks =>
          Report(changed).score >= report.score /\ (Report(changed).flag => report.flag)
  <2> SUFFICES ASSUME mark \in ContentMarks
               PROVE  Report(changed).score >= report.score /\ (Report(changed).flag => report.flag)
    OBVIOUS
  <2>1. /\ Score(g, n) <= Score(h, n)
        /\ IsConcerning(h, QualityOf(Score(h, n))) => IsConcerning(g, QualityOf(Score(g, n)))
    BY <1>6, <1>8, ScoreMoves
  <2>2. QED BY <1>7, <2>1
<1>11. QED BY <1>9, <1>10 DEF changed

\* Whatever else a conversation says: a sign of trouble more in one of its
\* messages never raises the score nor takes the flag away, and a sign of
\* content never lowers it nor sets it (signals/analyzer.rs and the detectors).
THEOREM SignsMoveScores == SignalsSpec => []SignsMoveTheScore
<1>1. SignalsInv => SignsMoveTheScore
  <2> SUFFICES ASSUME SignalsInv, report # NoReport,
                      NEW i \in DOMAIN messages, messages[i].text # EmptyText,
                      NEW mark \in TroubleMarks \cup ContentMarks
               PROVE  LET other == Report([messages EXCEPT ![i].text.marks = @ \cup {mark}])
                      IN  /\ mark \in TroubleMarks => other.score <= report.score /\ (report.flag => other.flag)
                          /\ mark \in ContentMarks => other.score >= report.score /\ (other.flag => report.flag)
    BY DEF SignsMoveTheScore
  <2>1. QED BY OneMarkMore
<1>2. QED BY <1>1, SignalsInvariant, PTL

-----------------------------------------------------------------------------
(* Signals: longer conversations *)

\* Where a scan stops does not change with the calls that come later, if what
\* they change is of no scan that went on behind it.
LEMMA StopsGrow ==
    ASSUME NEW N \in Nat, NEW M \in Nat, N <= M, NEW reach \in [1..N -> Nat], NEW far \in [1..M -> Nat],
           \A k \in 1..N : reach[k] # 0 => far[k] # 0,
           \A i, k \in 1..N : i < k /\ reach[k] # 0 /\ far[i] # reach[i] => reach[i] >= k
    PROVE  /\ Stops(N, reach) \subseteq Stops(M, far)
           /\ \A K \in Stops(N, reach) : \A k \in 1..K : k \in Stops(N, reach) <=> k \in Stops(M, far)
           /\ \A i, k \in Stops(N, reach) : i < k => far[i] = reach[i]
<1> DEFINE S == Stops(N, reach)
           T == Stops(M, far)
<1>1. /\ S \subseteq {k \in 1..N : reach[k] # 0}
      /\ \A i, j \in S : i < j => reach[i] < j
      /\ \A k \in 1..N : reach[k] # 0 /\ k \notin S => \E i \in S : i < k /\ reach[i] >= k
  BY StopsIs
<1>2. /\ T \subseteq {k \in 1..M : far[k] # 0}
      /\ \A i, j \in T : i < j => far[i] < j
      /\ \A k \in 1..M : far[k] # 0 /\ k \notin T => \E i \in T : i < k /\ far[i] >= k
  BY StopsIs
<1> HIDE DEF S, T
<1>3. ASSUME NEW i \in S, NEW k \in S, i < k PROVE far[i] = reach[i]
  <2>1. i \in 1..N /\ k \in 1..N /\ reach[k] # 0 /\ reach[i] < k /\ reach[i] \in Nat
    BY <1>1, <1>3
  <2>2. far[i] # reach[i] => reach[i] >= k
    BY <2>1, <1>3
  <2>3. QED BY <2>1, <2>2
<1>4. ASSUME NEW K \in S PROVE \A k \in 1..K : k \in S <=> k \in T
  <2> DEFINE D == {k \in 1..K : ~(k \in S <=> k \in T)}
  <2> SUFFICES ASSUME D # {} PROVE FALSE
    OBVIOUS
  <2>1. K \in 1..N /\ D \in SUBSET Nat /\ reach[K] # 0
    BY <1>1
  <2>2. PICK k \in D : \A m \in D : k <= m
    BY <2>1, LeastNumber
  <2>3. k \in 1..K /\ k \in 1..N /\ k \in 1..M /\ ~(k \in S <=> k \in T)
    BY <2>1, <2>2
  <2>4. ASSUME NEW m \in 1..N, m < k PROVE m \in S <=> m \in T
    <3>1. m \in 1..K /\ m \notin D
      BY <2>1, <2>2, <2>3, <2>4
    <3>2. QED BY <3>1
  <2> HIDE DEF D
  <2>5. CASE k \in S
    <3>1. k \notin T /\ far[k] # 0
      BY <1>1, <2>3, <2>5
    <3>2. PICK i \in T : i < k /\ far[i] >= k
      BY <1>2, <2>3, <3>1
    <3>3. i \in 1..N /\ i \in S
      BY <1>2, <2>3, <2>4, <3>2
    <3>4. far[i] = reach[i] /\ reach[i] < k /\ reach[i] \in Nat
      BY <1>1, <1>3, <2>5, <3>2, <3>3
    <3>5. QED BY <3>2, <3>4, <2>3
  <2>6. CASE k \notin S
    <3>1. k \in T /\ far[k] # 0 /\ k # K
      BY <1>2, <2>3, <2>6
    <3>2. k < K
      BY <2>1, <2>3, <3>1
    <3>3. reach[k] # 0
      <4>1. far[k] # reach[k] => reach[k] >= K
        BY <2>1, <2>3, <3>2
      <4>2. QED BY <4>1, <3>1, <3>2, <2>1, <2>3
    <3>4. PICK i \in S : i < k /\ reach[i] >= k
      BY <1>1, <2>3, <2>6, <3>3
    <3>5. i \in 1..N /\ i \in T /\ reach[i] \in Nat
      BY <1>1, <2>4, <3>4
    <3>6. far[i] = reach[i]
      BY <1>3, <3>2, <3>4, <3>5, <2>1, <2>3
    <3>7. far[i] < k
      BY <1>2, <3>1, <3>4, <3>5
    <3>8. QED BY <3>4, <3>5, <3>6, <3>7, <2>3
  <2>7. QED BY <2>5, <2>6
<1>5. S \subseteq T
  <2> SUFFICES ASSUME NEW K \in S PROVE K \in T
    OBVIOUS
  <2>1. K \in 1..K
    BY <1>1
  <2>2. QED BY <2>1, <1>4
<1>6. QED BY <1>3, <1>4, <1>5 DEF S, T

\* More calls after those of a list.
Longer(list, more) ==
    /\ CallList(list) /\ CallList(more) /\ Len(list) <= Len(more)
    /\ \A k \in 1..Len(list) : more[k] = list[k]

\* A run that ends before the list does is the same in a longer one.
LEMMA RetryRunGrows ==
    ASSUME NEW list, NEW more, Longer(list, more), NEW i \in 1..Len(list)
    PROVE  LET e == RunEnd(list, i, SameCall)
               f == RunEnd(more, i, SameCall)
           IN  /\ e \in i..Len(list) /\ f \in i..Len(more) /\ e <= f
               /\ e < Len(list) => f = e
               /\ \A k \in i..e : list[k].args = list[i].args
               /\ e = Len(list) => \A k \in i..Len(list) : RunEnd(list, k, SameCall) = Len(list)
<1> DEFINE N == Len(list)
           e == RunEnd(list, i, SameCall)
           f == RunEnd(more, i, SameCall)
<1>1. N \in Nat /\ Len(more) \in Nat /\ N <= Len(more) /\ DOMAIN list = 1..N /\ DOMAIN more = 1..Len(more)
  BY DEF Longer, CallList
<1>2. /\ e \in i..N
      /\ \A k \in i..e : SameCall(list[k], list[i])
      /\ \A j \in i..N : (\A k \in i..j : SameCall(list[k], list[i])) => j <= e
  BY <1>1, RetryRun DEF Longer
<1>3. /\ f \in i..Len(more)
      /\ \A k \in i..f : SameCall(more[k], more[i])
      /\ \A j \in i..Len(more) : (\A k \in i..j : SameCall(more[k], more[i])) => j <= f
  <2>1. CallList(more) /\ i \in DOMAIN more
    BY <1>1 DEF Longer
  <2> HIDE DEF N
  <2>2. QED BY <2>1, RetryRun
<1> HIDE DEF e, f
<1>4. e <= f
  <2>1. \A k \in i..e : more[k] = list[k] /\ more[i] = list[i]
    BY <1>1, <1>2 DEF Longer
  <2>2. e \in i..Len(more) /\ \A k \in i..e : SameCall(more[k], more[i])
    BY <1>1, <1>2, <2>1
  <2>3. QED BY <2>2, <1>3
<1>5. ASSUME e < N PROVE f = e
  <2> SUFFICES ASSUME e < f PROVE FALSE
    BY <1>2, <1>3, <1>4
  <2>1. e + 1 \in i..N /\ e + 1 \in i..f
    BY <1>1, <1>2, <1>3, <1>5
  <2>2. \A k \in i..(e + 1) : more[k] = list[k] /\ more[i] = list[i] /\ k \in i..f
    BY <1>1, <1>2, <1>3, <2>1 DEF Longer
  <2>3. \A k \in i..(e + 1) : SameCall(list[k], list[i])
    BY <1>3, <2>2
  <2>4. e + 1 <= e
    BY <1>2, <2>1, <2>3
  <2>5. QED BY <2>4, <1>2
<1>6. ASSUME e = N, NEW k \in i..N PROVE RunEnd(list, k, SameCall) = N
  <2> DEFINE g == RunEnd(list, k, SameCall)
  <2>1. /\ g \in k..N
        /\ \A j \in k..N : (\A n \in k..j : SameCall(list[n], list[k])) => j <= g
    <3>1. CallList(list) /\ k \in DOMAIN list
      BY <1>1 DEF Longer
    <3>2. QED BY <3>1, RetryRun
  <2> HIDE DEF g
  <2>2. \A n \in k..N : SameCall(list[n], list[k])
    <3>1. \A n \in k..N : n \in i..e
      BY <1>1, <1>6
    <3>2. k \in i..e
      BY <1>1, <1>6
    <3>3. QED BY <3>1, <3>2, <1>2 DEF SameCall
  <2>3. N <= g
    BY <2>1, <2>2, <1>1
  <2>4. QED BY <2>1, <2>3, <1>1 DEF g
<1>7. \A k \in i..e : list[k].args = list[i].args
  BY <1>2 DEF SameCall
<1>8. QED BY <1>2, <1>3, <1>4, <1>5, <1>6, <1>7 DEF e, f

LEMMA DriftRunGrows ==
    ASSUME NEW list, NEW more, Longer(list, more), NEW i \in 1..Len(list)
    PROVE  LET e == RunEnd(list, i, SameTool)
               f == RunEnd(more, i, SameTool)
           IN  /\ e \in i..Len(list) /\ f \in i..Len(more) /\ e <= f
               /\ e < Len(list) => f = e
               /\ \A k \in i..e : list[k].tool = list[i].tool
               /\ e = Len(list) => \A k \in i..Len(list) : RunEnd(list, k, SameTool) = Len(list)
<1> DEFINE N == Len(list)
           e == RunEnd(list, i, SameTool)
           f == RunEnd(more, i, SameTool)
<1>1. N \in Nat /\ Len(more) \in Nat /\ N <= Len(more) /\ DOMAIN list = 1..N /\ DOMAIN more = 1..Len(more)
  BY DEF Longer, CallList
<1>2. /\ e \in i..N
      /\ \A k \in i..e : SameTool(list[k], list[i])
      /\ \A j \in i..N : (\A k \in i..j : SameTool(list[k], list[i])) => j <= e
  BY <1>1, DriftRun DEF Longer
<1>3. /\ f \in i..Len(more)
      /\ \A k \in i..f : SameTool(more[k], more[i])
      /\ \A j \in i..Len(more) : (\A k \in i..j : SameTool(more[k], more[i])) => j <= f
  <2>1. CallList(more) /\ i \in DOMAIN more
    BY <1>1 DEF Longer
  <2> HIDE DEF N
  <2>2. QED BY <2>1, DriftRun
<1> HIDE DEF e, f
<1>4. e <= f
  <2>1. \A k \in i..e : more[k] = list[k] /\ more[i] = list[i]
    BY <1>1, <1>2 DEF Longer
  <2>2. e \in i..Len(more) /\ \A k \in i..e : SameTool(more[k], more[i])
    BY <1>1, <1>2, <2>1
  <2>3. QED BY <2>2, <1>3
<1>5. ASSUME e < N PROVE f = e
  <2> SUFFICES ASSUME e < f PROVE FALSE
    BY <1>2, <1>3, <1>4
  <2>1. e + 1 \in i..N /\ e + 1 \in i..f
    BY <1>1, <1>2, <1>3, <1>5
  <2>2. \A k \in i..(e + 1) : more[k] = list[k] /\ more[i] = list[i] /\ k \in i..f
    BY <1>1, <1>2, <1>3, <2>1 DEF Longer
  <2>3. \A k \in i..(e + 1) : SameTool(list[k], list[i])
    BY <1>3, <2>2
  <2>4. e + 1 <= e
    BY <1>2, <2>1, <2>3
  <2>5. QED BY <2>4, <1>2
<1>6. ASSUME e = N, NEW k \in i..N PROVE RunEnd(list, k, SameTool) = N
  <2> DEFINE g == RunEnd(list, k, SameTool)
  <2>1. /\ g \in k..N
        /\ \A j \in k..N : (\A n \in k..j : SameTool(list[n], list[k])) => j <= g
    <3>1. CallList(list) /\ k \in DOMAIN list
      BY <1>1 DEF Longer
    <3>2. QED BY <3>1, DriftRun
  <2> HIDE DEF g
  <2>2. \A n \in k..N : SameTool(list[n], list[k])
    <3>1. \A n \in k..N : n \in i..e
      BY <1>1, <1>6
    <3>2. k \in i..e
      BY <1>1, <1>6
    <3>3. QED BY <3>1, <3>2, <1>2 DEF SameTool
  <2>3. N <= g
    BY <2>1, <2>2, <1>1
  <2>4. QED BY <2>1, <2>3, <1>1 DEF g
<1>7. \A k \in i..e : list[k].tool = list[i].tool
  BY <1>2 DEF SameTool
<1>8. QED BY <1>2, <1>3, <1>4, <1>5, <1>6, <1>7 DEF e, f

\* What later calls do to the retries and the drift of a list.
LEMMA RetryEndGrows ==
    ASSUME NEW list, NEW more, Longer(list, more), NEW i \in 1..Len(list)
    PROVE  LET d == RetryEnd(list, i)
               e == RetryEnd(more, i)
           IN  /\ d \in Nat /\ e \in Nat
               /\ d # 0 => e # 0 /\ d \in i..Len(list) /\ e >= d
               /\ d # 0 /\ e # d => d = Len(list)
               /\ \A k \in 1..Len(list) : i < k /\ RetryEnd(list, k) # 0 /\ e # d => d >= k
<1> DEFINE N == Len(list)
           d == RunEnd(list, i, SameCall)
           e == RunEnd(more, i, SameCall)
<1>1. N \in Nat /\ Len(more) \in Nat /\ N <= Len(more)
  BY DEF Longer, CallList
<1>2. /\ d \in i..N /\ e \in i..Len(more) /\ d <= e
      /\ d < N => e = d
      /\ d = N => \A k \in i..N : RunEnd(list, k, SameCall) = N
  BY RetryRunGrows
<1>3. /\ RetryEnd(list, i) = IF d - i + 1 >= 3 THEN d ELSE 0
      /\ RetryEnd(more, i) = IF e - i + 1 >= 3 THEN e ELSE 0
      /\ \A k \in 1..N : RetryEnd(list, k) =
            IF RunEnd(list, k, SameCall) - k + 1 >= 3 THEN RunEnd(list, k, SameCall) ELSE 0
  BY DEF RetryEnd, RetryThreshold
<1> HIDE DEF d, e
<1>4. /\ RetryEnd(list, i) \in Nat /\ RetryEnd(more, i) \in Nat
      /\ RetryEnd(list, i) # 0 =>
            /\ RetryEnd(more, i) # 0 /\ RetryEnd(list, i) \in i..N
            /\ RetryEnd(more, i) >= RetryEnd(list, i)
      /\ RetryEnd(list, i) # 0 /\ RetryEnd(more, i) # RetryEnd(list, i) => RetryEnd(list, i) = N
  BY <1>1, <1>2, <1>3
<1>5. ASSUME NEW k \in 1..N, i < k, RetryEnd(list, k) # 0, RetryEnd(more, i) # RetryEnd(list, i)
      PROVE  RetryEnd(list, i) >= k
  <2>1. d = N /\ k \in i..N
    BY <1>1, <1>2, <1>3, <1>5
  <2>2. RunEnd(list, k, SameCall) = N
    BY <1>2, <2>1
  <2>3. N - k + 1 >= 3
    BY <1>3, <1>5, <2>2
  <2>4. QED BY <1>1, <1>3, <1>5, <2>1, <2>3
<1>6. QED BY <1>4, <1>5

LEMMA DriftEndGrows ==
    ASSUME NEW list, NEW more, Longer(list, more), NEW i \in 1..Len(list)
    PROVE  LET d == DriftEnd(list, i)
               e == DriftEnd(more, i)
           IN  /\ d \in Nat /\ e \in Nat
               /\ d # 0 => e # 0 /\ d \in i..Len(list) /\ e >= d
               /\ d # 0 /\ e # d => d = Len(list)
               /\ \A k \in 1..Len(list) : i < k /\ DriftEnd(list, k) # 0 /\ e # d => d >= k
<1> DEFINE N == Len(list)
           d == RunEnd(list, i, SameTool)
           e == RunEnd(more, i, SameTool)
           Varied(l, a, b) == \E k \in a..b : l[k].args # l[a].args
<1>1. N \in Nat /\ Len(more) \in Nat /\ N <= Len(more) /\ \A k \in 1..N : more[k] = list[k]
  BY DEF Longer, CallList
<1>2. /\ d \in i..N /\ e \in i..Len(more) /\ d <= e
      /\ d < N => e = d
      /\ d = N => \A k \in i..N : RunEnd(list, k, SameTool) = N
  BY DriftRunGrows
<1>3. /\ DriftEnd(list, i) = IF d - i + 1 >= 3 /\ Varied(list, i, d) THEN d ELSE 0
      /\ DriftEnd(more, i) = IF e - i + 1 >= 3 /\ Varied(more, i, e) THEN e ELSE 0
      /\ \A k \in 1..N : DriftEnd(list, k) =
            IF RunEnd(list, k, SameTool) - k + 1 >= 3 /\ Varied(list, k, RunEnd(list, k, SameTool))
            THEN RunEnd(list, k, SameTool) ELSE 0
  BY DEF DriftEnd, ParameterDriftThreshold
<1>4. Varied(list, i, d) => Varied(more, i, e)
  <2> HIDE DEF d, e
  <2>1. \A k \in i..d : k \in i..e /\ k \in 1..N /\ more[k] = list[k] /\ more[i] = list[i]
    BY <1>1, <1>2
  <2>2. QED BY <2>1
<1>5. d < N => (Varied(more, i, e) => Varied(list, i, d))
  <2> HIDE DEF d, e
  <2>1. d < N => \A k \in i..e : k \in i..d /\ more[k] = list[k] /\ more[i] = list[i]
    BY <1>1, <1>2
  <2>2. QED BY <2>1
<1>6. ASSUME d = N, NEW k \in i..N, Varied(list, k, N) PROVE Varied(list, i, N)
  <2>1. PICK j \in k..N : list[j].args # list[k].args
    BY <1>6
  <2>2. j \in i..N /\ k \in i..N
    BY <1>1
  <2>3. list[j].args # list[i].args \/ list[k].args # list[i].args
    BY <2>1
  <2>4. QED BY <2>2, <2>3
<1> HIDE DEF d, e, Varied
<1>7. /\ DriftEnd(list, i) \in Nat /\ DriftEnd(more, i) \in Nat
      /\ DriftEnd(list, i) # 0 =>
            /\ DriftEnd(more, i) # 0 /\ DriftEnd(list, i) \in i..N
            /\ DriftEnd(more, i) >= DriftEnd(list, i)
      /\ DriftEnd(list, i) # 0 /\ DriftEnd(more, i) # DriftEnd(list, i) => DriftEnd(list, i) = N
  BY <1>1, <1>2, <1>3, <1>4, <1>5
<1>8. ASSUME NEW k \in 1..N, i < k, DriftEnd(list, k) # 0, DriftEnd(more, i) # DriftEnd(list, i)
      PROVE  DriftEnd(list, i) >= k
  <2>1. d = N /\ k \in i..N
    BY <1>1, <1>2, <1>3, <1>4, <1>5, <1>8
  <2>2. RunEnd(list, k, SameTool) = N
    BY <1>2, <2>1
  <2>3. N - k + 1 >= 3 /\ Varied(list, k, N)
    BY <1>3, <1>8, <2>2
  <2>4. Varied(list, i, d)
    BY <1>6, <2>1, <2>3
  <2>5. QED BY <1>1, <1>3, <1>8, <2>1, <2>3, <2>4
<1>9. QED BY <1>7, <1>8

\* Which lengths of patterns are found from a call on, and which is taken.
LEMMA PeriodsAre ==
    ASSUME NEW list, CallList(list), NEW i \in DOMAIN list
    PROVE  /\ Periods(list, i) =
                 {q \in 2..5 : /\ i + q - 1 <= Len(list)
                               /\ \E k \in i..(i + q - 1) : list[k].tool # list[i].tool
                               /\ Cycles(list, i, q) >= 3}
           /\ \A q \in Periods(list, i) : Period(list, i) \in Periods(list, i) /\ Period(list, i) <= q
<1> DEFINE N == Len(list)
           m == Min({5, N - i + 1})
<1>1. i \in 1..N /\ N \in Nat
  BY DEF CallList
<1>2. m \in {5, N - i + 1} /\ m <= 5 /\ m <= N - i + 1
  <2> DEFINE T == {5, N - i + 1}
  <2>1. T \in SUBSET Nat /\ T # {} /\ 5 \in T /\ N - i + 1 \in T
    BY <1>1
  <2> HIDE DEF T
  <2>2. Min(T) \in T /\ Min(T) <= 5 /\ Min(T) <= N - i + 1
    BY <2>1, MinIs
  <2>3. QED BY <2>2 DEF T
<1> DEFINE Q == {q \in 2..5 : /\ i + q - 1 <= N
                              /\ \E k \in i..(i + q - 1) : list[k].tool # list[i].tool
                              /\ Cycles(list, i, q) >= 3}
<1>3. Periods(list, i) = {q \in 2..m : /\ \E k \in i..(i + q - 1) : list[k].tool # list[i].tool
                                       /\ Cycles(list, i, q) >= 3}
  BY DEF Periods, OscillationCyclesThreshold
<1> HIDE DEF m
<1>4. \A q : q \in 2..m <=> q \in 2..5 /\ i + q - 1 <= N
  BY <1>1, <1>2
<1>5. Periods(list, i) = Q
  BY <1>3, <1>4
<1>6. ASSUME NEW q \in Periods(list, i)
      PROVE  Period(list, i) \in Periods(list, i) /\ Period(list, i) <= q
  <2>1. Periods(list, i) \in SUBSET Nat /\ Periods(list, i) # {}
    BY <1>5, <1>6
  <2>2. Period(list, i) = Min(Periods(list, i))
    BY <2>1 DEF Period
  <2>3. QED BY <2>1, <2>2, MinIs
<1>7. QED BY <1>5, <1>6

\* The period of what starts at i is the shortest, and it comes as often as it can.
LEMMA ShortestPeriod ==
    ASSUME NEW list, CallList(list), NEW i \in DOMAIN list
    PROVE  LET end == OscillationEnd(list, i)
               p == Period(list, i)
               c == Cycles(list, i, p)
           IN  /\ \A q \in 2..5, b \in i..Len(list) : Periodic(list, i, b, q) => end # 0 /\ p <= q
               /\ end # 0 => p \in 2..5 /\ i + p - 1 <= Len(list) /\ end = i + c * p - 1
<1> DEFINE N == Len(list)
           end == OscillationEnd(list, i)
           p == Period(list, i)
<1>1. i \in 1..N /\ N \in Nat /\ i \in Nat
  BY DEF CallList
<1>2. ASSUME NEW q \in 2..5, NEW b \in i..N, Periodic(list, i, b, q) PROVE end # 0 /\ p <= q
  <2>1. end # 0
    BY <1>2, OscillationEndIs
  <2>2. b \in Nat /\ b - i + 1 >= 3 * q
    BY <1>1, <1>2 DEF Periodic
  <2>3. \E k \in i..(i + q - 1) : list[k].tool # list[i].tool
    BY <1>1, <1>2, <2>2, DiffersEarly
  <2>4. i + q - 1 <= N /\ i + 3 * q - 1 <= N
    BY <2>2, <1>1
  <2>5. \A k \in i..(i + (3 - 1) * q - 1) : list[k].tool = list[k + q].tool
    <3>1. i..(i + (3 - 1) * q - 1) \subseteq i..(b - q)
      BY <2>2, <1>1
    <3>2. QED BY <3>1, <1>2 DEF Periodic
  <2>6. 3 <= Cycles(list, i, q) /\ Cycles(list, i, q) \in Nat
    <3> DEFINE c == Cycles(list, i, q)
    <3>1. c \in Nat /\ \A d \in Nat \ {0} :
             /\ i + d * q - 1 <= N
             /\ \A k \in i..(i + (d - 1) * q - 1) : list[k].tool = list[k + q].tool
             => d <= c
      BY <2>4, CyclesIs
    <3>2. 3 \in Nat \ {0}
      OBVIOUS
    <3> HIDE DEF c
    <3>3. 3 <= c /\ c \in Nat
      BY <3>1, <3>2, <2>4, <2>5
    <3>4. QED BY <3>3 DEF c
  <2>7. q \in Periods(list, i)
    BY <2>3, <2>4, <2>6, PeriodsAre
  <2>8. QED BY <2>1, <2>7, PeriodsAre
<1>3. ASSUME end # 0
      PROVE  p \in 2..5 /\ i + p - 1 <= N /\ end = i + Cycles(list, i, p) * p - 1
  <2>1. p \in 2..5
    BY <1>3, OscillationEndIs
  <2>2. end \in (i + 2)..N /\ Periodic(list, i, end, p)
    BY <1>3, OscillationEndIs
  <2>3. i + p - 1 <= N
    BY <2>1, <2>2, <1>1 DEF Periodic
  <2>4. end = i + Cycles(list, i, p) * p - 1
    BY <2>1 DEF OscillationEnd
  <2>5. QED BY <2>1, <2>3, <2>4
<1>4. QED BY <1>2, <1>3

\* A pattern goes on with its period when it goes on.
LEMMA OscillationEndGrows ==
    ASSUME NEW list, NEW more, Longer(list, more), NEW i \in 1..Len(list)
    PROVE  LET d == OscillationEnd(list, i)
               e == OscillationEnd(more, i)
               p == Period(list, i)
           IN  /\ d # 0 => e # 0 /\ Period(more, i) = p /\ e >= d
               /\ d # 0 /\ e # d => d + p > Len(list) /\ e > Len(list)
               /\ d = 0 /\ e # 0 => i + 3 * Period(more, i) - 1 > Len(list)
<1> DEFINE N == Len(list)
           M == Len(more)
           d == OscillationEnd(list, i)
           e == OscillationEnd(more, i)
           p == Period(list, i)
           q == Period(more, i)
<1>1. /\ N \in Nat /\ M \in Nat /\ N <= M /\ i \in Nat /\ i \in 1..N /\ i \in 1..M
      /\ \A k \in 1..N : more[k] = list[k]
      /\ CallList(list) /\ CallList(more) /\ i \in DOMAIN list /\ i \in DOMAIN more
  BY DEF Longer, CallList
<1>2. /\ d \in Nat
      /\ d # 0 => d \in (i + 2)..N /\ p \in 2..5 /\ Periodic(list, i, d, p)
  BY <1>1, OscillationEndIs
<1>3. /\ e \in Nat
      /\ e # 0 => e \in (i + 2)..M /\ q \in 2..5 /\ Periodic(more, i, e, q)
  BY <1>1, OscillationEndIs
<1>4. ASSUME NEW r \in 2..5, NEW b \in i..N, Periodic(list, i, b, r) PROVE e # 0 /\ q <= r
  <2>1. i..(b - r) \subseteq 1..N /\ i..b \subseteq 1..N
    BY <1>1
  <2>2. \A k \in i..(b - r) : k + r \in 1..N
    BY <1>1
  <2>3. Periodic(more, i, b, r)
    BY <1>1, <1>4, <2>1, <2>2 DEF Periodic
  <2>4. b \in i..M
    BY <1>1
  <2>5. QED BY <1>1, <2>3, <2>4, ShortestPeriod
<1>5. ASSUME e # 0, i + 3 * q - 1 <= N PROVE d # 0 /\ p <= q
  <2> DEFINE b == i + 3 * q - 1
  <2>1. q \in 2..5 /\ e \in Nat /\ Periodic(more, i, e, q) /\ b \in i..N
    BY <1>1, <1>3, <1>5
  <2>2. \E k \in i..(i + q - 1) : more[k].tool # more[i].tool
    BY <1>1, <2>1, DiffersEarly
  <2>3. b <= e
    <3>1. e - i + 1 >= 3 * q /\ q \in 2..5 /\ e \in Nat /\ i \in Nat
      BY <2>1, <1>1 DEF Periodic
    <3> HIDE DEF e, q, N, M
    <3>2. QED BY <3>1
  <2>4. /\ i..(b - q) \subseteq i..(e - q) /\ i..(b - q) \subseteq 1..N
        /\ i..(i + q - 1) \subseteq i..b /\ i..(i + q - 1) \subseteq 1..N
        /\ b - i + 1 >= 3 * q /\ \A k \in i..(b - q) : k + q \in 1..N
    <3>1. q \in Int /\ 2 <= q /\ q <= 5 /\ e \in Int /\ b = i + 3 * q - 1 /\ b <= N
      BY <2>1, <1>1
    <3> HIDE DEF b, e, q, N, M
    <3>2. b \in Int /\ i \in Int /\ N \in Int /\ 1 <= i /\ i + q - 1 <= b /\ b - q <= N /\ b - q <= e - q
      BY <3>1, <2>3, <1>1
    <3>3. \A k \in i..(b - q) : k + q \in 1..N
      BY <3>1, <3>2
    <3>4. b - i + 1 >= 3 * q
      BY <3>1, <3>2
    <3>5. QED BY <3>1, <3>2, <3>3, <3>4
  <2> HIDE DEF b
  <2>5. \A k \in i..(b - q) : list[k].tool = list[k + q].tool
    BY <1>1, <2>1, <2>4 DEF Periodic
  <2>6. \E k \in i..b : list[k].tool # list[i].tool
    BY <1>1, <2>2, <2>4
  <2>7. Periodic(list, i, b, q)
    BY <2>4, <2>5, <2>6 DEF Periodic
  <2>8. QED BY <1>1, <2>1, <2>7, ShortestPeriod
<1>6. ASSUME d # 0 PROVE e # 0 /\ q = p
  <2>1. d \in i..N /\ p \in 2..5 /\ Periodic(list, i, d, p) /\ d - i + 1 >= 3 * p
    BY <1>1, <1>2, <1>6 DEF Periodic
  <2>2. e # 0 /\ q <= p /\ q \in 2..5
    BY <1>3, <1>4, <2>1
  <2>3. i + 3 * q - 1 <= N
    <3>1. /\ d <= N /\ d \in Int /\ N \in Int /\ i \in Int /\ p \in Int /\ q \in Int
          /\ q <= p /\ d - i + 1 >= 3 * p
      BY <1>1, <2>1, <2>2
    <3> HIDE DEF d, p, q, N
    <3>2. QED BY <3>1
  <2>4. p <= q
    BY <1>5, <2>2, <2>3
  <2>5. QED BY <2>1, <2>2, <2>4
<1>7. ASSUME d # 0 PROVE e >= d /\ (e # d => d + p > N /\ e > N)
  <2> DEFINE c == Cycles(list, i, p)
             f == Cycles(more, i, p)
  <2>1. /\ p \in 2..5 /\ i + p - 1 <= N /\ d = i + c * p - 1 /\ e = i + f * p - 1
    BY <1>1, <1>6, <1>7, ShortestPeriod
  <2>2. /\ c \in Nat \ {0} /\ i + c * p - 1 <= N
        /\ \A k \in i..(i + (c - 1) * p - 1) : list[k].tool = list[k + p].tool
        /\ \A n \in Nat \ {0} :
              /\ i + n * p - 1 <= N
              /\ \A k \in i..(i + (n - 1) * p - 1) : list[k].tool = list[k + p].tool
              => n <= c
    <3> HIDE DEF p
    <3>1. QED BY <1>1, <2>1, CyclesIs
  <2>3. /\ f \in Nat \ {0} /\ i + f * p - 1 <= M
        /\ \A k \in i..(i + (f - 1) * p - 1) : more[k].tool = more[k + p].tool
        /\ \A n \in Nat \ {0} :
              /\ i + n * p - 1 <= M
              /\ \A k \in i..(i + (n - 1) * p - 1) : more[k].tool = more[k + p].tool
              => n <= f
    <3> HIDE DEF p
    <3>1. i + p - 1 <= M
      BY <1>1, <2>1
    <3>2. QED BY <1>1, <2>1, <3>1, CyclesIs
  <2> DEFINE x == c * p
             y == f * p
  <2>4. /\ x \in Nat /\ y \in Nat /\ (c - 1) * p = x - p /\ (f - 1) * p = y - p
        /\ (c + 1) * p = x + p /\ x >= p /\ (c < f => y >= x + p)
    <3> HIDE DEF c, f, p, q, d, e
    <3>1. CASE p = 2
      BY <3>1, <2>2, <2>3
    <3>2. CASE p = 3
      BY <3>2, <2>2, <2>3
    <3>3. CASE p = 4
      BY <3>3, <2>2, <2>3
    <3>4. CASE p = 5
      BY <3>4, <2>2, <2>3
    <3>5. QED BY <2>1, <3>1, <3>2, <3>3, <3>4
  <2> HIDE DEF c, f, p, q, d, e, N, M
  <2>5. /\ d = i + x - 1 /\ e = i + y - 1 /\ i + x - 1 <= N /\ i + y - 1 <= M
        /\ \A k \in i..(i + (x - p) - 1) : list[k].tool = list[k + p].tool
        /\ \A k \in i..(i + (y - p) - 1) : more[k].tool = more[k + p].tool
    BY <2>1, <2>2, <2>3, <2>4
  <2>6. /\ (i + x - 1 <= M /\ \A k \in i..(i + (x - p) - 1) : more[k].tool = more[k + p].tool) => c <= f
        /\ (i + (x + p) - 1 <= N /\ \A k \in i..(i + x - 1) : list[k].tool = list[k + p].tool) => c + 1 <= c
    <3>1. c + 1 \in Nat \ {0} /\ (c + 1) - 1 = c
      BY <2>2
    <3>2. QED BY <2>2, <2>3, <2>4, <3>1
  <2> HIDE DEF x, y
  <2>7. c <= f
    <3>1. i + x - 1 <= M
      BY <1>1, <2>1, <2>4, <2>5
    <3>2. ASSUME NEW k \in i..(i + (x - p) - 1) PROVE more[k].tool = more[k + p].tool
      <4>1. k \in 1..N /\ k + p \in 1..N
        BY <1>1, <2>1, <2>4, <2>5
      <4>2. QED BY <1>1, <2>5, <4>1
    <3>3. QED BY <2>6, <3>1, <3>2
  <2>8. ASSUME c < f, i + (x + p) - 1 <= N PROVE FALSE
    <3>1. ASSUME NEW k \in i..(i + x - 1) PROVE list[k].tool = list[k + p].tool
      <4>1. k \in i..(i + (y - p) - 1) /\ k \in 1..N /\ k + p \in 1..N
        BY <1>1, <2>1, <2>4, <2>8
      <4>2. QED BY <1>1, <2>5, <4>1
    <3>2. QED BY <2>2, <2>6, <2>8, <3>1
  <2>9. CASE c = f
    <3>1. x = y
      BY <2>9 DEF x, y
    <3>2. QED BY <2>5, <3>1, <2>4, <1>1
  <2>10. CASE c < f
    <3>1. i + (x + p) - 1 > N
      BY <2>8, <2>4, <2>10, <2>1, <1>1
    <3>2. QED BY <2>1, <2>4, <2>5, <2>10, <3>1, <1>1
  <2>11. QED BY <2>2, <2>3, <2>7, <2>9, <2>10
<1>8. ASSUME d = 0, e # 0 PROVE i + 3 * q - 1 > N
  <2>1. q \in 2..5
    BY <1>3, <1>8
  <2>2. QED BY <1>1, <1>5, <1>8, <2>1
<1>9. QED BY <1>6, <1>7, <1>8

\* A pattern within one of a longer period that goes on behind it: only two
\* within four, and then the longer is one of two as well.
LEMMA PatternWithin ==
    ASSUME NEW list, NEW i \in Nat, NEW e \in Nat, NEW k \in Nat, NEW b \in Nat,
           NEW p \in 2..5, NEW r \in 2..5, r < p, i < k, k + 3 * r - 1 < e,
           Periodic(list, i, e, p), Periodic(list, k, b, r)
    PROVE  \E q \in 2..5 : q < p /\ Periodic(list, i, i + 3 * q - 1, q)
<1> DEFINE T == [j \in 0..11 |-> list[k + j].tool]
           X(m) == list[m].tool
<1>1. /\ \A m \in i..(e - p) : X(m) = X(m + p)
      /\ e - i + 1 >= 3 * p
      /\ \A m \in k..(b - r) : X(m) = X(m + r)
      /\ b - k + 1 >= 3 * r
  BY DEF Periodic
<1>2. /\ \E n \in k..(k + r - 1) : X(n) # X(k)
      /\ \E n \in i..(i + p - 1) : X(n) # X(i)
  BY DiffersEarly
<1> HIDE DEF X
<1>3. /\ \A j \in 0..11 : T[j] = X(k + j)
  BY DEF X
<1> HIDE DEF T
<1>4. ASSUME NEW j \in 0..11, j + r <= 3 * r - 1 PROVE T[j] = T[j + r]
  <2>1. k + j \in k..(b - r) /\ j + r \in 0..11
    BY <1>1, <1>4
  <2>2. X(k + j) = X((k + j) + r) /\ (k + j) + r = k + (j + r)
    BY <1>1, <2>1
  <2>3. QED BY <1>3, <2>1, <2>2
<1>5. ASSUME NEW j \in 0..11, j + p <= 3 * r - 1 PROVE T[j] = T[j + p]
  <2>1. k + j \in i..(e - p) /\ j + p \in 0..11
    BY <1>1, <1>5
  <2>2. X(k + j) = X((k + j) + p) /\ (k + j) + p = k + (j + p)
    BY <1>1, <2>1
  <2>3. QED BY <1>3, <2>1, <2>2
<1>6. PICK j \in 0..(r - 1) : T[j] # T[0]
  <2>1. PICK n \in k..(k + r - 1) : X(n) # X(k)
    BY <1>2
  <2>2. n - k \in 0..(r - 1) /\ n - k \in 0..11 /\ k + (n - k) = n /\ 0 \in 0..11 /\ k + 0 = k
    BY <2>1
  <2>3. T[n - k] = X(n) /\ T[0] = X(k)
    BY <1>3, <2>2
  <2>4. QED BY <2>1, <2>2, <2>3
<1>7. CASE r = 2 /\ p = 3
  <2>1. T[0] = T[3] /\ T[1] = T[3]
    BY <1>4, <1>5, <1>7
  <2>2. QED BY <1>6, <1>7, <2>1
<1>8. CASE r = 2 /\ p = 5
  <2>1. T[0] = T[5] /\ T[1] = T[3] /\ T[3] = T[5]
    BY <1>4, <1>5, <1>8
  <2>2. QED BY <1>6, <1>8, <2>1
<1>9. CASE r = 3 /\ p = 4
  <2>1. T[0] = T[4] /\ T[1] = T[4] /\ T[1] = T[5] /\ T[2] = T[5]
    BY <1>4, <1>5, <1>9
  <2>2. QED BY <1>6, <1>9, <2>1
<1>10. CASE r = 3 /\ p = 5
  <2>1. T[0] = T[5] /\ T[2] = T[5] /\ T[1] = T[6] /\ T[3] = T[6] /\ T[0] = T[3]
    BY <1>4, <1>5, <1>10
  <2>2. QED BY <1>6, <1>10, <2>1
<1>11. CASE r = 4 /\ p = 5
  <2>1. /\ T[0] = T[5] /\ T[1] = T[5] /\ T[1] = T[6] /\ T[2] = T[6]
        /\ T[2] = T[7] /\ T[3] = T[7]
    BY <1>4, <1>5, <1>11
  <2>2. QED BY <1>6, <1>11, <2>1
<1>12. CASE r = 2 /\ p = 4
  <2> DEFINE D == {m \in i..(k + 3) : X(m) # X(m + 2)}
  <2>1. k + 6 <= e /\ k + 5 <= b
    BY <1>1, <1>12
  <2>2. ASSUME D # {} PROVE FALSE
    <3>1. D \in SUBSET Int /\ k + 3 \in Int /\ \A x \in D : x <= k + 3
      OBVIOUS
    <3>2. PICK n : n \in D /\ \A x \in D : x <= n
      <4> HIDE DEF D
      <4>1. QED BY <2>2, <3>1, MaxIs
    <3>3. n \in i..(k + 3) /\ X(n) # X(n + 2)
      BY <3>2
    <3>4. n < k
      <4>1. SUFFICES ASSUME n >= k PROVE FALSE
        BY <3>3
      <4>2. n \in k..(b - 2)
        BY <4>1, <3>3, <2>1
      <4>3. QED BY <1>1, <1>12, <3>3, <4>2
    <3>5. n \in i..(e - 4) /\ n + 2 \in i..(e - 4) /\ n + 4 \in i..(k + 3) /\ n + 4 > n
      BY <3>3, <3>4, <2>1
    <3>6. X(n) = X(n + 4) /\ X(n + 2) = X((n + 2) + 4)
      BY <1>1, <1>12, <3>5
    <3>7. X(n + 4) = X((n + 4) + 2)
      <4>1. n + 4 \notin D
        BY <3>2, <3>5
      <4>2. QED BY <4>1, <3>5
    <3>8. (n + 4) + 2 = (n + 2) + 4
      BY <3>3
    <3>9. QED BY <3>3, <3>6, <3>7, <3>8
  <2>3. ASSUME NEW m \in i..(i + 3) PROVE list[m].tool = list[m + 2].tool
    <3>1. m \in i..(k + 3)
      OBVIOUS
    <3>2. QED BY <2>2, <3>1 DEF X
  <2>4. \E n \in i..(i + 5) : list[n].tool # list[i].tool
    <3>1. i..(i + 4 - 1) \subseteq i..(i + 5)
      OBVIOUS
    <3>2. QED BY <1>2, <1>12, <3>1 DEF X
  <2>5. Periodic(list, i, i + 3 * 2 - 1, 2)
    <3>1. i + 3 * 2 - 1 = i + 5 /\ (i + 5) - i + 1 >= 3 * 2 /\ (i + 5) - 2 = i + 3
      OBVIOUS
    <3>2. Periodic(list, i, i + 5, 2)
      BY <3>1, <2>3, <2>4 DEF Periodic
    <3>3. QED BY <3>1, <3>2
  <2>6. 2 \in 2..5 /\ 2 < p
    BY <1>12
  <2>7. QED BY <2>5, <2>6
<1>13. QED BY <1>7, <1>8, <1>9, <1>10, <1>11, <1>12

\* What grows with later calls held its scan up to the last of what was found.
LEMMA NewPatternFollows ==
    ASSUME NEW list, NEW more, Longer(list, more), NEW i \in 1..Len(list), NEW k \in 1..Len(list),
           i < k, OscillationEnd(list, k) # 0,
           OscillationEnd(more, i) - Period(more, i) # OscillationEnd(list, i) - Period(list, i)
    PROVE  OscillationEnd(list, i) - Period(list, i) >= k
<1> DEFINE N == Len(list)
           M == Len(more)
           d == OscillationEnd(list, i)
           e == OscillationEnd(more, i)
           q == Period(list, i)
           p == Period(more, i)
           b == OscillationEnd(list, k)
           r == Period(list, k)
<1>1. /\ N \in Nat /\ M \in Nat /\ N <= M /\ i \in Nat /\ i \in 1..N /\ k \in Nat /\ k \in 1..N
      /\ \A n \in 1..N : more[n] = list[n]
      /\ CallList(list) /\ CallList(more) /\ i \in DOMAIN list /\ i \in DOMAIN more /\ k \in DOMAIN list
  BY DEF Longer, CallList
<1>2. /\ d \in Nat /\ d - q \in Nat /\ (d = 0 <=> d - q = 0)
      /\ d # 0 => d \in (i + 2)..N /\ q \in 2..5
  BY <1>1, OscillationEndIs
<1>3. /\ e \in Nat /\ e - p \in Nat /\ (e = 0 <=> e - p = 0)
      /\ e # 0 => e \in (i + 2)..M /\ p \in 2..5 /\ Periodic(more, i, e, p)
  BY <1>1, OscillationEndIs
<1>4. b \in (k + 2)..N /\ r \in 2..5 /\ Periodic(list, k, b, r)
  BY <1>1, OscillationEndIs
<1>5. k + 3 * r - 1 <= N
  <2>1. b - k + 1 >= 3 * r
    BY <1>4 DEF Periodic
  <2> HIDE DEF b, r
  <2>2. QED BY <2>1, <1>4, <1>1
<1>6. /\ d # 0 => e # 0 /\ p = q /\ e >= d
      /\ d # 0 /\ e # d => d + q > N /\ e > N
      /\ d = 0 /\ e # 0 => i + 3 * p - 1 > N
  BY OscillationEndGrows
<1>a. e - p # d - q
  OBVIOUS
<1>7. SUFFICES ASSUME d - q < k PROVE FALSE
  BY <1>1, <1>2
<1> HIDE DEF N, M, d, e, q, p, b, r
<1>8. e # 0 /\ p \in 2..5 /\ e \in Nat /\ e > N /\ r < p
  <2>1. CASE d # 0
    <3>1. e # 0 /\ p = q /\ e # d /\ d + q > N /\ e > N
      BY <2>1, <1>6, <1>a
    <3>2. r < p
      BY <2>1, <3>1, <1>1, <1>2, <1>4, <1>5, <1>7
    <3>3. QED BY <3>1, <3>2, <1>3
  <2>2. CASE d = 0
    <3>1. e # 0
      BY <2>2, <1>2, <1>3, <1>a
    <3>2. e - i + 1 >= 3 * p
      BY <3>1, <1>3 DEF Periodic
    <3>3. /\ i \in Nat /\ k \in Nat /\ N \in Nat /\ e \in Nat /\ p \in 2..5 /\ r \in 2..5
          /\ k + 3 * r - 1 <= N /\ i + 3 * p - 1 > N
      BY <2>2, <3>1, <1>1, <1>3, <1>4, <1>5, <1>6
    <3>4. e > N /\ r < p
      BY <3>2, <3>3
    <3>5. QED BY <3>1, <3>3, <3>4
  <2>3. QED BY <2>1, <2>2
<1>9. Periodic(more, k, b, r)
  <2>1. k..(b - r) \subseteq 1..N /\ k..b \subseteq 1..N /\ \A m \in k..(b - r) : m + r \in 1..N
    BY <1>1, <1>4
  <2>2. QED BY <1>1, <1>4, <2>1 DEF Periodic
<1>10. PICK s \in 2..5 : s < p /\ Periodic(more, i, i + 3 * s - 1, s)
  <2>1. k + 3 * r - 1 < e /\ b \in Nat
    BY <1>1, <1>4, <1>5, <1>8
  <2>2. QED BY <1>1, <1>3, <1>4, <1>7, <1>8, <1>9, <2>1, PatternWithin
<1>11. p <= s
  <2>1. i + 3 * s - 1 \in i..M
    <3>1. e - i + 1 >= 3 * p
      BY <1>3, <1>8 DEF Periodic
    <3>2. QED BY <3>1, <1>1, <1>3, <1>8, <1>10
  <2>2. QED BY <1>1, <1>10, <2>1, ShortestPeriod DEF p, M
<1>12. QED BY <1>8, <1>10, <1>11

\* Of two scans: what the later calls change is of no scan that went on.
ReachGrows(N, M, reach, far) ==
    /\ N \in Nat /\ M \in Nat /\ N <= M /\ reach \in [1..N -> Nat] /\ far \in [1..M -> Nat]
    /\ \A k \in 1..N : reach[k] # 0 => far[k] # 0
    /\ \A i, k \in 1..N : i < k /\ reach[k] # 0 /\ far[i] # reach[i] => reach[i] >= k

StopsStay(N, S, T, reach, far) ==
    /\ S \subseteq T /\ S \subseteq 1..N
    /\ \A K \in S : \A k \in 1..K : k \in S <=> k \in T
    /\ \A i, k \in S : i < k => far[i] = reach[i]

LEMMA ScanGrows ==
    ASSUME NEW N, NEW M, NEW end, NEW reach, NEW till, NEW far,
           end \in [1..N -> Nat], till \in [1..M -> Nat], ReachGrows(N, M, reach, far)
    PROVE  StopsStay(N, DOMAIN Scan(end, reach), DOMAIN Scan(till, far), reach, far)
<1>1. DOMAIN Scan(end, reach) = Stops(N, reach) /\ DOMAIN Scan(till, far) = Stops(M, far)
  BY LenIs DEF Scan, ReachGrows
<1>2. Stops(N, reach) \subseteq 1..N
  BY StopsIs DEF ReachGrows
<1>3. /\ Stops(N, reach) \subseteq Stops(M, far)
      /\ \A K \in Stops(N, reach) : \A k \in 1..K : k \in Stops(N, reach) <=> k \in Stops(M, far)
      /\ \A i, k \in Stops(N, reach) : i < k => far[i] = reach[i]
  <2>1. /\ N \in Nat /\ M \in Nat /\ N <= M /\ reach \in [1..N -> Nat] /\ far \in [1..M -> Nat]
        /\ \A k \in 1..N : reach[k] # 0 => far[k] # 0
        /\ \A i, k \in 1..N : i < k /\ reach[k] # 0 /\ far[i] # reach[i] => reach[i] >= k
    BY DEF ReachGrows
  <2>2. QED BY <2>1, StopsGrow, ZenonT(20)
<1>4. QED BY <1>1, <1>2, <1>3 DEF StopsStay

\* What has been found stays found: at the same first calls.
LEMMA RetriesGrow ==
    ASSUME NEW list, NEW more, Longer(list, more)
    PROVE  DOMAIN DetectRetry(list) \subseteq DOMAIN DetectRetry(more)
<1> DEFINE N == Len(list)
           M == Len(more)
           end == [i \in DOMAIN list |-> RetryEnd(list, i)]
           till == [i \in DOMAIN more |-> RetryEnd(more, i)]
<1>1. N \in Nat /\ M \in Nat /\ N <= M /\ DOMAIN list = 1..N /\ DOMAIN more = 1..M
  BY DEF Longer, CallList
<1>2. end \in [1..N -> Nat] /\ till \in [1..M -> Nat]
  BY <1>1, RetryEndIs DEF Longer
<1>3. DetectRetry(list) = Scan(end, end) /\ DetectRetry(more) = Scan(till, till)
  BY DEF DetectRetry
<1>4. /\ \A i \in 1..N : end[i] = RetryEnd(list, i)
      /\ \A i \in 1..N : till[i] = RetryEnd(more, i)
  BY <1>1
<1>5. \A i \in 1..N : RetryEnd(list, i) # 0 => RetryEnd(more, i) # 0
  BY RetryEndGrows
<1>6. \A i, k \in 1..N : i < k /\ RetryEnd(list, k) # 0 /\ RetryEnd(more, i) # RetryEnd(list, i) =>
          RetryEnd(list, i) >= k
  BY RetryEndGrows
<1> HIDE DEF N, M, end, till
<1>7. \A k \in 1..N : end[k] # 0 => till[k] # 0
  BY <1>4, <1>5
<1>8. \A i, k \in 1..N : i < k /\ end[k] # 0 /\ till[i] # end[i] => end[i] >= k
  BY <1>4, <1>6
<1>9. ReachGrows(N, M, end, till)
  BY <1>1, <1>2, <1>7, <1>8 DEF ReachGrows
<1>10. QED BY <1>2, <1>3, <1>9, ScanGrows DEF StopsStay

LEMMA DriftsGrow ==
    ASSUME NEW list, NEW more, Longer(list, more)
    PROVE  DOMAIN DetectParameterDrift(list) \subseteq DOMAIN DetectParameterDrift(more)
<1> DEFINE N == Len(list)
           M == Len(more)
           end == [i \in DOMAIN list |-> DriftEnd(list, i)]
           till == [i \in DOMAIN more |-> DriftEnd(more, i)]
<1>1. N \in Nat /\ M \in Nat /\ N <= M /\ DOMAIN list = 1..N /\ DOMAIN more = 1..M
  BY DEF Longer, CallList
<1>2. end \in [1..N -> Nat] /\ till \in [1..M -> Nat]
  BY <1>1, DriftEndIs DEF Longer
<1>3. DetectParameterDrift(list) = Scan(end, end) /\ DetectParameterDrift(more) = Scan(till, till)
  BY DEF DetectParameterDrift
<1>4. /\ \A i \in 1..N : end[i] = DriftEnd(list, i)
      /\ \A i \in 1..N : till[i] = DriftEnd(more, i)
  BY <1>1
<1>5. \A i \in 1..N : DriftEnd(list, i) # 0 => DriftEnd(more, i) # 0
  BY DriftEndGrows
<1>6. \A i, k \in 1..N : i < k /\ DriftEnd(list, k) # 0 /\ DriftEnd(more, i) # DriftEnd(list, i) =>
          DriftEnd(list, i) >= k
  BY DriftEndGrows
<1> HIDE DEF N, M, end, till
<1>7. \A k \in 1..N : end[k] # 0 => till[k] # 0
  BY <1>4, <1>5
<1>8. \A i, k \in 1..N : i < k /\ end[k] # 0 /\ till[i] # end[i] => end[i] >= k
  BY <1>4, <1>6
<1>9. ReachGrows(N, M, end, till)
  BY <1>1, <1>2, <1>7, <1>8 DEF ReachGrows
<1>10. QED BY <1>2, <1>3, <1>9, ScanGrows DEF StopsStay

\* How far a pattern holds the scan.
LEMMA OscillationReach ==
    ASSUME NEW list, CallList(list)
    PROVE  LET end == [i \in DOMAIN list |-> OscillationEnd(list, i)]
               reach == [i \in DOMAIN list |-> OscillationEnd(list, i) - Period(list, i)]
           IN  /\ end \in [1..Len(list) -> Nat] /\ reach \in [1..Len(list) -> Nat]
               /\ FindOscillations(list) = Scan(end, reach)
               /\ \A i \in 1..Len(list) : reach[i] = 0 <=> OscillationEnd(list, i) = 0
<1> DEFINE N == Len(list)
           end == [i \in DOMAIN list |-> OscillationEnd(list, i)]
           reach == [i \in DOMAIN list |-> OscillationEnd(list, i) - Period(list, i)]
<1>1. N \in Nat /\ DOMAIN list = 1..N
  BY DEF CallList
<1>2. ASSUME NEW i \in 1..N
      PROVE  /\ OscillationEnd(list, i) \in Nat /\ OscillationEnd(list, i) - Period(list, i) \in Nat
             /\ OscillationEnd(list, i) - Period(list, i) = 0 <=> OscillationEnd(list, i) = 0
  BY <1>1, OscillationEndIs
<1>3. end \in [1..N -> Nat] /\ reach \in [1..N -> Nat]
  BY <1>1, <1>2
<1>4. FindOscillations(list) = Scan(end, reach)
  <2>1. DOMAIN end = DOMAIN list /\ \A i \in DOMAIN list : end[i] = OscillationEnd(list, i)
    OBVIOUS
  <2>2. reach = [i \in DOMAIN end |-> end[i] - Period(list, i)]
    BY <2>1
  <2>3. QED BY <2>2 DEF FindOscillations
<1>5. \A i \in 1..N : reach[i] = OscillationEnd(list, i) - Period(list, i)
  BY <1>1
<1> HIDE DEF end, reach
<1>6. \A i \in 1..N : reach[i] = 0 <=> OscillationEnd(list, i) = 0
  BY <1>2, <1>5
<1>7. QED BY <1>3, <1>4, <1>6 DEF end, reach

LEMMA FoundGrow ==
    ASSUME NEW list, NEW more, Longer(list, more)
    PROVE  LET S == DOMAIN FindOscillations(list)
               T == DOMAIN FindOscillations(more)
           IN  /\ S \subseteq T /\ S \subseteq 1..Len(list)
               /\ \A i \in S : OscillationEnd(list, i) # 0 /\ FindOscillations(list)[i] = OscillationEnd(list, i)
               /\ \A i \in T : OscillationEnd(more, i) # 0 /\ FindOscillations(more)[i] = OscillationEnd(more, i)
               /\ \A K \in S : \A k \in 1..K : k \in S <=> k \in T
               /\ \A i, k \in S : i < k => OscillationEnd(more, i) = OscillationEnd(list, i)
<1> DEFINE N == Len(list)
           M == Len(more)
           end == [i \in DOMAIN list |-> OscillationEnd(list, i)]
           reach == [i \in DOMAIN list |-> OscillationEnd(list, i) - Period(list, i)]
           till == [i \in DOMAIN more |-> OscillationEnd(more, i)]
           far == [i \in DOMAIN more |-> OscillationEnd(more, i) - Period(more, i)]
<1>1. N \in Nat /\ M \in Nat /\ N <= M /\ DOMAIN list = 1..N /\ DOMAIN more = 1..M
  BY DEF Longer, CallList
<1>2. /\ end \in [1..N -> Nat] /\ reach \in [1..N -> Nat]
      /\ FindOscillations(list) = Scan(end, reach)
      /\ \A i \in 1..N : reach[i] = 0 <=> OscillationEnd(list, i) = 0
  BY OscillationReach DEF Longer
<1>3. /\ till \in [1..M -> Nat] /\ far \in [1..M -> Nat]
      /\ FindOscillations(more) = Scan(till, far)
      /\ \A i \in 1..M : far[i] = 0 <=> OscillationEnd(more, i) = 0
  BY OscillationReach DEF Longer
<1>4. /\ \A i \in 1..N : end[i] = OscillationEnd(list, i)
      /\ \A i \in 1..M : till[i] = OscillationEnd(more, i)
      /\ \A i \in 1..N : reach[i] = OscillationEnd(list, i) - Period(list, i)
      /\ \A i \in 1..N : far[i] = OscillationEnd(more, i) - Period(more, i)
  BY <1>1
<1>5. \A k \in 1..N : reach[k] # 0 => far[k] # 0
  <2>1. \A k \in 1..N : OscillationEnd(list, k) # 0 => OscillationEnd(more, k) # 0
    BY OscillationEndGrows
  <2> HIDE DEF end, till, reach, far
  <2>2. 1..N \subseteq 1..M
    BY <1>1
  <2>3. QED BY <1>2, <1>3, <2>1, <2>2
<1>6. \A i, k \in 1..N : i < k /\ reach[k] # 0 /\ far[i] # reach[i] => reach[i] >= k
  <2>1. \A i, k \in 1..N :
           /\ i < k /\ OscillationEnd(list, k) # 0
           /\ OscillationEnd(more, i) - Period(more, i) # OscillationEnd(list, i) - Period(list, i)
           => OscillationEnd(list, i) - Period(list, i) >= k
    BY NewPatternFollows
  <2> HIDE DEF end, till, reach, far
  <2>2. QED BY <1>2, <1>4, <2>1
<1> HIDE DEF N, M, end, till, reach, far
<1> DEFINE S == DOMAIN Scan(end, reach)
           T == DOMAIN Scan(till, far)
<1>7. /\ S \subseteq T /\ S \subseteq 1..N
      /\ \A K \in S : \A k \in 1..K : k \in S <=> k \in T
      /\ \A i, k \in S : i < k => far[i] = reach[i]
  <2>1. ReachGrows(N, M, reach, far)
    BY <1>1, <1>2, <1>3, <1>5, <1>6 DEF ReachGrows
  <2>2. StopsStay(N, S, T, reach, far)
    BY <1>2, <1>3, <2>1, ScanGrows
  <2> HIDE DEF S, T
  <2>3. QED BY <2>2 DEF StopsStay
<1>8. /\ S \subseteq {i \in 1..N : end[i] # 0} /\ \A i \in S : Scan(end, reach)[i] = end[i]
  <2>1. \A i \in 1..N : end[i] = 0 <=> reach[i] = 0
    BY <1>2, <1>4
  <2>2. QED BY <1>1, <1>2, <2>1, ScanIs
<1>9. /\ T \subseteq {i \in 1..M : till[i] # 0} /\ \A i \in T : Scan(till, far)[i] = till[i]
  <2>1. \A i \in 1..M : till[i] = 0 <=> far[i] = 0
    BY <1>3, <1>4
  <2>2. QED BY <1>1, <1>3, <2>1, ScanIs
<1>10. ASSUME NEW i \in S, NEW k \in S, i < k PROVE OscillationEnd(more, i) = OscillationEnd(list, i)
  <2> HIDE DEF S, T
  <2>1. i \in 1..N /\ OscillationEnd(list, i) # 0
    BY <1>4, <1>8 DEF S
  <2>2. OscillationEnd(more, i) - Period(more, i) = OscillationEnd(list, i) - Period(list, i)
    BY <1>4, <1>7, <1>10, <2>1
  <2>3. Period(more, i) = Period(list, i) /\ i \in DOMAIN list /\ i \in DOMAIN more
    BY <2>1, <1>1, OscillationEndGrows DEF N
  <2>4. /\ OscillationEnd(more, i) \in Nat /\ OscillationEnd(list, i) \in Nat
        /\ Period(list, i) \in 2..5
    BY <2>1, <2>3, OscillationEndIs DEF Longer
  <2>5. QED BY <2>2, <2>3, <2>4
<1>11. QED BY <1>2, <1>3, <1>4, <1>7, <1>8, <1>9, <1>10, <1>1 DEF N, M

\* ... and the same patterns are kept.
LEMMA KeptGrow ==
    ASSUME NEW list, NEW more, Longer(list, more)
    PROVE  DOMAIN DeduplicatePatterns(list, FindOscillations(list)) \subseteq
               DOMAIN DeduplicatePatterns(more, FindOscillations(more))
<1> DEFINE N == Len(list)
           M == Len(more)
           found == FindOscillations(list)
           now == FindOscillations(more)
           start == [i \in DOMAIN list |-> IF i \in DOMAIN found THEN found[i] ELSE 0]
           far == [i \in DOMAIN more |-> IF i \in DOMAIN now THEN now[i] ELSE 0]
<1>1. N \in Nat /\ M \in Nat /\ N <= M /\ DOMAIN list = 1..N /\ DOMAIN more = 1..M
  BY DEF Longer, CallList
<1>2. /\ DOMAIN found \subseteq DOMAIN now /\ DOMAIN found \subseteq 1..N
      /\ \A i \in DOMAIN found : OscillationEnd(list, i) # 0 /\ found[i] = OscillationEnd(list, i)
      /\ \A i \in DOMAIN now : OscillationEnd(more, i) # 0 /\ now[i] = OscillationEnd(more, i)
      /\ \A K \in DOMAIN found : \A k \in 1..K : k \in DOMAIN found <=> k \in DOMAIN now
      /\ \A i, k \in DOMAIN found : i < k => OscillationEnd(more, i) = OscillationEnd(list, i)
  BY FoundGrow
<1>3. /\ \A i \in 1..N : OscillationEnd(list, i) \in Nat
      /\ \A i \in 1..M : OscillationEnd(more, i) \in Nat
  BY <1>1, OscillationEndIs DEF Longer
<1>4. /\ DeduplicatePatterns(list, found) = Scan(start, start)
      /\ DeduplicatePatterns(more, now) = Scan(far, far)
  BY DEF DeduplicatePatterns
<1>5. /\ \A i \in 1..N : start[i] = IF i \in DOMAIN found THEN found[i] ELSE 0
      /\ \A i \in 1..M : far[i] = IF i \in DOMAIN now THEN now[i] ELSE 0
      /\ start = [i \in 1..N |-> start[i]] /\ far = [i \in 1..M |-> far[i]]
  BY <1>1
<1> HIDE DEF N, M, found, now, start, far
<1>6. start \in [1..N -> Nat] /\ far \in [1..M -> Nat]
  <2>1. \A i \in 1..N : start[i] \in Nat
    BY <1>2, <1>3, <1>5
  <2>2. \A i \in 1..M : far[i] \in Nat
    BY <1>2, <1>3, <1>5
  <2>3. QED BY <1>5, <2>1, <2>2
<1>7. 1..N \subseteq 1..M
  BY <1>1
<1>8. \A k \in 1..N : start[k] # 0 => far[k] # 0
  BY <1>2, <1>5, <1>7
<1>9. ASSUME NEW i \in 1..N, NEW k \in 1..N, i < k, start[k] # 0, far[i] # start[i]
      PROVE  start[i] >= k
  <2>1. k \in DOMAIN found /\ i \in 1..k
    BY <1>5, <1>9
  <2>2. i \in DOMAIN found <=> i \in DOMAIN now
    BY <1>2, <2>1
  <2>3. i \in DOMAIN found
    BY <1>5, <1>7, <1>9, <2>2
  <2>4. OscillationEnd(more, i) = OscillationEnd(list, i)
    BY <1>2, <1>9, <2>1, <2>3
  <2>5. QED BY <1>2, <1>5, <1>7, <1>9, <2>2, <2>3, <2>4
<1>10. DOMAIN Scan(start, start) \subseteq DOMAIN Scan(far, far)
  <2>1. ReachGrows(N, M, start, far)
    BY <1>1, <1>6, <1>8, <1>9 DEF ReachGrows
  <2>2. QED BY <1>6, <2>1, ScanGrows DEF StopsStay
<1>11. QED BY <1>4, <1>10 DEF found, now

\* Two runs of drift have no call of a retry both.
LEMMA RetryWithinRun ==
    ASSUME NEW list, CallList(list), NEW i \in DOMAIN list, NEW k \in DOMAIN list, NEW j \in DOMAIN list,
           DriftEnd(list, i) # 0, RetryEnd(list, j) # 0, DriftEnd(list, i) < k,
           j <= DriftEnd(list, i), i <= RetryEnd(list, j), k <= RetryEnd(list, j)
    PROVE  FALSE
<1> DEFINE N == Len(list)
           e == RunEnd(list, i, SameTool)
           f == RetryEnd(list, j)
<1>1. N \in Nat /\ i \in 1..N /\ j \in 1..N /\ k \in 1..N /\ i \in Nat /\ j \in Nat /\ k \in Nat
  BY DEF CallList
<1>2. DriftEnd(list, i) = e
  BY DEF DriftEnd
<1>3. /\ e \in i..N /\ \A n \in i..e : SameTool(list[n], list[i])
      /\ \A b \in i..N : (\A n \in i..b : SameTool(list[n], list[i])) => b <= e
  BY DriftRun
<1>4. f \in (j + 2)..N /\ \A n \in j..f : list[n].tool = list[j].tool
  BY RetryEndIs
<1>5. e < k /\ j <= e /\ k <= f
  BY <1>2
<1> HIDE DEF N, e, f
<1>6. e \in j..f /\ e + 1 \in j..f /\ e + 1 \in i..N /\ e \in i..e
  BY <1>1, <1>3, <1>4, <1>5
<1>7. list[e + 1].tool = list[i].tool
  BY <1>3, <1>4, <1>6 DEF SameTool
<1>8. ASSUME NEW n \in i..(e + 1) PROVE SameTool(list[n], list[i])
  <2>1. n \in i..e \/ n = e + 1
    BY <1>3, <1>1
  <2>2. QED BY <2>1, <1>3, <1>7 DEF SameTool
<1>9. e + 1 <= e
  BY <1>3, <1>6, <1>8
<1>10. QED BY <1>9, <1>3, <1>1

\* Loops add up: every one is still there, except drift that has become part of
\* a retry, and that retry is a new one, of no other drift.
LEMMA LoopsGrow ==
    ASSUME NEW list, NEW more, Longer(list, more)
    PROVE  Fewer(Loops(list), Loops(more))
<1> DEFINE N == Len(list)
           M == Len(more)
           r == DetectRetry(list)
           t == DetectRetry(more)
           d == DetectParameterDrift(list)
           e == DetectParameterDrift(more)
           k == DeduplicatePatterns(list, FindOscillations(list))
           l == DeduplicatePatterns(more, FindOscillations(more))
           S == Loops(list)
           T == Loops(more)
<1>1. /\ N \in Nat /\ M \in Nat /\ N <= M /\ DOMAIN list = 1..N /\ DOMAIN more = 1..M
      /\ CallList(list) /\ CallList(more)
  BY DEF Longer, CallList
<1>2. /\ DOMAIN r \subseteq DOMAIN t /\ DOMAIN d \subseteq DOMAIN e /\ DOMAIN k \subseteq DOMAIN l
  BY RetriesGrow, DriftsGrow, KeptGrow
<1>3. /\ \A i \in DOMAIN r : i \in 1..N /\ r[i] = RetryEnd(list, i) /\ r[i] # 0
      /\ \A i \in DOMAIN t : i \in 1..M /\ t[i] = RetryEnd(more, i) /\ t[i] # 0
  BY <1>1, RetriesAre
<1>4. /\ \A i \in DOMAIN d : i \in 1..N /\ d[i] = DriftEnd(list, i) /\ d[i] # 0
      /\ \A i \in DOMAIN e : i \in 1..M /\ e[i] = DriftEnd(more, i) /\ e[i] # 0
      /\ \A i, j \in DOMAIN e : i < j => e[i] < j
  BY <1>1, DriftsAre
<1>5. IsFiniteSet(T)
  BY <1>1, LoopsFinite
<1>6. CASE N < 3
  <2>1. S = {}
    BY <1>6 DEF Loops, RetryThreshold
  <2>2. QED BY <2>1, <1>5, SubsetFewer
<1>7. CASE N >= 3
  <2> DEFINE Kept(found, retries, i) ==
               \A j \in DOMAIN retries : ~(i <= retries[j] /\ j <= found[i])
             Loop(kind, i, end) == [kind |-> kind, first |-> i, last |-> end]
  <2>1. /\ S = Patterns("retry", r)
                 \cup {x \in Patterns("parameter_drift", d) : \A y \in Patterns("retry", r) : ~Overlap(x, y)}
                 \cup Patterns("oscillation", k)
        /\ T = Patterns("retry", t)
                 \cup {x \in Patterns("parameter_drift", e) : \A y \in Patterns("retry", t) : ~Overlap(x, y)}
                 \cup Patterns("oscillation", l)
    BY <1>1, <1>7 DEF Loops, RetryThreshold
  <2> HIDE DEF N, M, r, t, d, e, k, l, S, T
  <2>2. ASSUME NEW x \in S
        PROVE  \/ x.kind = "retry" /\ x.first \in DOMAIN r /\ x = Loop("retry", x.first, r[x.first])
               \/ /\ x.kind = "parameter_drift" /\ x.first \in DOMAIN d
                  /\ x = Loop("parameter_drift", x.first, d[x.first]) /\ Kept(d, r, x.first)
               \/ x.kind = "oscillation" /\ x.first \in DOMAIN k /\ x = Loop("oscillation", x.first, k[x.first])
    <3>1. CASE x \in Patterns("retry", r)
      BY <3>1 DEF Patterns
    <3>2. CASE x \in Patterns("oscillation", k)
      BY <3>2 DEF Patterns
    <3>3. CASE x \in Patterns("parameter_drift", d) /\ \A y \in Patterns("retry", r) : ~Overlap(x, y)
      <4>1. PICK i \in DOMAIN d : x = Loop("parameter_drift", i, d[i])
        BY <3>3 DEF Patterns
      <4>2. x.kind = "parameter_drift" /\ x.first = i /\ x.last = d[i]
        BY <4>1
      <4>3. ASSUME NEW j \in DOMAIN r PROVE ~(i <= r[j] /\ j <= d[i])
        <5>1. Loop("retry", j, r[j]) \in Patterns("retry", r)
          BY DEF Patterns
        <5>2. ~Overlap(x, Loop("retry", j, r[j]))
          BY <3>3, <5>1
        <5>3. QED BY <5>2, <4>2 DEF Overlap
      <4>4. QED BY <4>1, <4>2, <4>3
    <3>4. QED BY <2>1, <3>1, <3>2, <3>3
  <2>3. \A i \in DOMAIN t : Loop("retry", i, t[i]) \in T
    BY <2>1 DEF Patterns
  <2>4. \A i \in DOMAIN l : Loop("oscillation", i, l[i]) \in T
    BY <2>1 DEF Patterns
  <2>5. ASSUME NEW i \in DOMAIN e, Kept(e, t, i) PROVE Loop("parameter_drift", i, e[i]) \in T
    <3>1. Loop("parameter_drift", i, e[i]) \in Patterns("parameter_drift", e)
      BY DEF Patterns
    <3>2. ASSUME NEW y \in Patterns("retry", t) PROVE ~Overlap(Loop("parameter_drift", i, e[i]), y)
      <4>1. PICK j \in DOMAIN t : y = Loop("retry", j, t[j])
        BY DEF Patterns
      <4>2. QED BY <4>1, <2>5 DEF Overlap
    <3>3. QED BY <2>1, <3>1, <3>2
  \* How the loops of more stand for those of list.
  <2> DEFINE Stays(x, y) == x.kind = y.kind /\ x.first = y.first
             Becomes(x, y) == /\ x.kind = "parameter_drift" /\ y.kind = "retry"
                             /\ x.first \in DOMAIN d
                             /\ y.first \in DOMAIN t /\ y.first \notin DOMAIN r
                             /\ x.first <= t[y.first] /\ y.first <= e[x.first]
             Stands(x, y) == Stays(x, y) \/ Becomes(x, y)
  <2>6. ASSUME NEW i \in DOMAIN d, Kept(d, r, i), NEW j \in DOMAIN r, i <= t[j], j <= e[i]
        PROVE  FALSE
    <3>1. /\ i \in 1..N /\ j \in 1..N /\ i \in DOMAIN e /\ j \in DOMAIN t
          /\ d[i] = DriftEnd(list, i) /\ e[i] = DriftEnd(more, i)
          /\ r[j] = RetryEnd(list, j) /\ t[j] = RetryEnd(more, j)
      BY <1>2, <1>3, <1>4
    <3>2. /\ d[i] \in Nat /\ d[i] # 0 /\ e[i] \in Nat /\ (e[i] # d[i] => d[i] = N)
      BY <3>1, <1>4, DriftEndGrows DEF N
    <3>3. /\ r[j] \in Nat /\ r[j] # 0 /\ t[j] \in Nat /\ (t[j] # r[j] => r[j] = N)
      BY <3>1, <1>3, RetryEndGrows DEF N
    <3>4. ~(i <= r[j] /\ j <= d[i])
      BY <2>6
    <3>5. QED BY <1>1, <2>6, <3>1, <3>2, <3>3, <3>4
  <2>7. ASSUME NEW x \in S PROVE \E y \in T : Stands(x, y)
    <3>1. CASE x.kind = "retry" /\ x.first \in DOMAIN r
      <4>1. Loop("retry", x.first, t[x.first]) \in T
        BY <1>2, <2>3, <3>1
      <4>2. Stays(x, Loop("retry", x.first, t[x.first]))
        BY <3>1
      <4>3. QED BY <4>1, <4>2
    <3>2. CASE x.kind = "oscillation" /\ x.first \in DOMAIN k
      <4>1. Loop("oscillation", x.first, l[x.first]) \in T
        BY <1>2, <2>4, <3>2
      <4>2. Stays(x, Loop("oscillation", x.first, l[x.first]))
        BY <3>2
      <4>3. QED BY <4>1, <4>2
    <3>3. CASE x.kind = "parameter_drift" /\ x.first \in DOMAIN d /\ Kept(d, r, x.first)
      <4>1. x.first \in DOMAIN e
        BY <1>2, <3>3
      <4>2. CASE Kept(e, t, x.first)
        <5>1. Loop("parameter_drift", x.first, e[x.first]) \in T
          BY <2>5, <4>1, <4>2
        <5>2. Stays(x, Loop("parameter_drift", x.first, e[x.first]))
          BY <3>3
        <5>3. QED BY <5>1, <5>2
      <4>3. CASE ~Kept(e, t, x.first)
        <5>1. PICK j \in DOMAIN t : x.first <= t[j] /\ j <= e[x.first]
          BY <4>3
        <5>2. j \notin DOMAIN r
          BY <2>6, <3>3, <5>1
        <5>3. Loop("retry", j, t[j]) \in T
          BY <2>3
        <5>4. Becomes(x, Loop("retry", j, t[j]))
          BY <3>3, <5>1, <5>2
        <5>5. QED BY <5>3, <5>4
      <4>4. QED BY <4>2, <4>3
    <3>4. QED BY <2>2, <3>1, <3>2, <3>3
  <2>8. ASSUME NEW i \in DOMAIN d, NEW n \in DOMAIN d, i < n, NEW j \in DOMAIN t,
               i <= t[j], j <= e[i], n <= t[j], j <= e[n]
        PROVE  FALSE
    <3>1. i \in DOMAIN e /\ n \in DOMAIN e /\ e[i] < n
      BY <1>2, <1>4, <2>8
    <3>2. i \in DOMAIN more /\ n \in DOMAIN more /\ j \in DOMAIN more
      BY <1>1, <1>3, <1>4, <3>1
    <3>3. /\ e[i] = DriftEnd(more, i) /\ e[i] # 0 /\ t[j] = RetryEnd(more, j) /\ t[j] # 0
      BY <1>3, <1>4, <3>1
    <3>4. QED BY <1>1, <2>8, <3>1, <3>2, <3>3, RetryWithinRun
  <2>9. ASSUME NEW x \in S, NEW z \in S, NEW y \in T, Stands(x, y), Stands(z, y) PROVE x = z
    <3>1. CASE Stays(x, y) /\ Stays(z, y)
      <4>1. x.kind = z.kind /\ x.first = z.first
        BY <3>1
      <4>2. QED BY <4>1, <2>2
    <3>2. ASSUME NEW u \in S, NEW v \in S, Stays(u, y), Becomes(v, y) PROVE FALSE
      <4>1. u.kind = "retry" /\ u.first \notin DOMAIN r
        BY <3>2
      <4>2. QED BY <4>1, <2>2
    <3>3. CASE Becomes(x, y) /\ Becomes(z, y)
      <4>1. x.kind = "parameter_drift" /\ z.kind = "parameter_drift"
        BY <3>3
      <4>2. x.first \in Int /\ z.first \in Int
        BY <3>3, <1>4
      <4>3. x.first = z.first
        <5>1. ~(x.first < z.first)
          BY <2>8, <3>3
        <5>2. ~(z.first < x.first)
          BY <2>8, <3>3
        <5>3. QED BY <4>2, <5>1, <5>2
      <4>4. QED BY <4>1, <4>3, <2>2
    <3>4. QED BY <2>9, <3>1, <3>2, <3>3
  <2> HIDE DEF Stands
  <2> DEFINE f == [x \in S |-> CHOOSE y \in T : Stands(x, y)]
  <2>10. \A x \in S : f[x] \in T /\ Stands(x, f[x])
    BY <2>7
  <2>11. f \in [S -> T]
    BY <2>10
  <2> HIDE DEF f
  <2>12. \A x, z \in S : f[x] = f[z] => x = z
    BY <2>9, <2>10
  <2>13. QED BY <1>5, <2>11, <2>12, FewerIf DEF S, T
<1>8. QED BY <1>1, <1>6, <1>7

\* Rows that follow others.
MoreRows(rows, others) ==
    /\ \E T : rows \in Seq(T) /\ others \in Seq(T)
    /\ Len(rows) <= Len(others)
    /\ \A k \in 1..Len(rows) : others[k] = rows[k]

LEMMA RowsGrow ==
    ASSUME NEW M, NEW msgs \in Seq(M), NEW m \in M, \A x \in M : IsMessage(x), NEW mark
    PROVE  /\ MoreRows(AllRows(msgs), AllRows(Append(msgs, m)))
           /\ SameRows(AllRows(Append(msgs, m)), AllRows(Append(msgs, m)), mark)
<1> DEFINE N == Len(msgs)
           next == Append(msgs, m)
<1>1. /\ N \in Nat /\ next \in Seq(M) /\ Len(next) = N + 1 /\ next[N + 1] = m
      /\ \A n \in 1..N : next[n] = msgs[n]
      /\ \A n \in 1..N : msgs[n] \in M
      /\ \A n \in 1..(N + 1) : next[n] \in M
  OBVIOUS
<1>2. PICK u : /\ u[0] = <<>> /\ AllRows(msgs) = u[N]
               /\ \A n \in 1..N : u[n] = u[n - 1] \o RowsOf(msgs[n])
  BY <1>1, AllRowsIs
<1>3. PICK v : /\ v[0] = <<>> /\ AllRows(next) = v[N + 1]
               /\ \A n \in 1..(N + 1) : v[n] = v[n - 1] \o RowsOf(next[n])
  <2> HIDE DEF N, next
  <2>1. Len(next) \in Nat
    BY <1>1
  <2>2. \E v : /\ v[0] = <<>> /\ AllRows(next) = v[Len(next)]
                /\ \A n \in 1..Len(next) : v[n] = v[n - 1] \o RowsOf(next[n])
    BY <2>1, AllRowsIs
  <2>3. QED BY <1>1, <2>2
<1> HIDE DEF N, next
<1> DEFINE S == {n \in 0..N : v[n] = u[n]}
<1>4. 0 \in S
  BY <1>1, <1>2, <1>3
<1>5. ASSUME NEW n \in 0..(N - 1), n \in S PROVE n + 1 \in S
  <2>1. n + 1 \in 1..N /\ n + 1 \in 1..(N + 1) /\ (n + 1) - 1 = n /\ n + 1 \in 0..N
    BY <1>1
  <2>2. u[n + 1] = u[n] \o RowsOf(msgs[n + 1]) /\ v[n + 1] = v[n] \o RowsOf(next[n + 1])
    BY <2>1, <1>2, <1>3
  <2>3. QED BY <1>1, <1>5, <2>1, <2>2
<1>6. v[N] = u[N]
  <2> HIDE DEF S
  <2>1. 0..N \subseteq S
    BY <1>1, <1>4, <1>5, UpTo
  <2>2. QED BY <2>1, <1>1 DEF S
<1>7. AllRows(next) = AllRows(msgs) \o RowsOf(m)
  <2>1. N + 1 \in 1..(N + 1) /\ (N + 1) - 1 = N
    BY <1>1
  <2>2. QED BY <1>1, <1>2, <1>3, <1>6, <2>1
<1>8. SameRows(AllRows(msgs), AllRows(msgs), mark)
  BY <1>1, RowsOfMarked, AllRowsSame DEF N
<1>9. SameRows(RowsOf(m), RowsOf(m), mark)
  BY RowsOfMarked
<1>10. SameRows(AllRows(next), AllRows(next), mark)
  BY <1>7, <1>8, <1>9, RowsJoin
<1>11. MoreRows(AllRows(msgs), AllRows(next))
  <2> DEFINE r == AllRows(msgs)
             s == RowsOf(m)
  <2>1. PICK A : r \in Seq(A)
    BY <1>8 DEF SameRows
  <2>2. PICK B : s \in Seq(B)
    BY <1>9 DEF SameRows
  <2> DEFINE T == A \cup B
  <2>3. r \in Seq(T) /\ s \in Seq(T)
    BY <2>1, <2>2
  <2> HIDE DEF T, r, s
  <2>4. r \o s \in Seq(T) /\ Len(r) <= Len(r \o s) /\ \A k \in 1..Len(r) : (r \o s)[k] = r[k]
    BY <2>3
  <2>5. MoreRows(r, r \o s)
    BY <2>3, <2>4 DEF MoreRows
  <2>6. QED BY <2>5, <1>7 DEF r, s
<1>12. QED BY <1>10, <1>11 DEF next

LEMMA CallsGrow ==
    ASSUME NEW rows, NEW others, MoreRows(rows, others)
    PROVE  Longer(Calls(rows), Calls(others))
<1> DEFINE N == Len(rows)
           M == Len(others)
<1>1. PICK T : rows \in Seq(T) /\ others \in Seq(T)
  BY DEF MoreRows
<1>2. /\ N \in Nat /\ M \in Nat /\ N <= M
      /\ \A k \in 1..N : rows[k] \in T /\ others[k] = rows[k]
      /\ \A k \in 1..M : others[k] \in T
  BY <1>1 DEF MoreRows
<1>3. PICK u : /\ u[0] = <<>> /\ Calls(rows) = u[N]
               /\ \A n \in 1..N : u[n] = IF rows[n].from = "function_call"
                                          THEN Append(u[n - 1], rows[n]) ELSE u[n - 1]
  BY <1>2, CallsIs
<1>4. PICK v : /\ v[0] = <<>> /\ Calls(others) = v[M]
               /\ \A n \in 1..M : v[n] = IF others[n].from = "function_call"
                                          THEN Append(v[n - 1], others[n]) ELSE v[n - 1]
  BY <1>2, CallsIs
<1> HIDE DEF N, M
<1> DEFINE S == {n \in 0..N : u[n] = v[n] /\ u[n] \in Seq(T)}
<1>5. 0 \in S
  <2>1. <<>> \in Seq(T)
    OBVIOUS
  <2>2. u[0] = v[0] /\ u[0] \in Seq(T)
    BY <2>1, <1>3, <1>4
  <2>3. 0 \in 0..N
    BY <1>2
  <2>4. QED BY <2>2, <2>3
<1>6. ASSUME NEW n \in 0..(N - 1), n \in S PROVE n + 1 \in S
  <2>1. n + 1 \in 1..N /\ n + 1 \in 1..M /\ (n + 1) - 1 = n /\ n + 1 \in 0..N
    BY <1>2
  <2>2. /\ u[n + 1] = IF rows[n + 1].from = "function_call" THEN Append(u[n], rows[n + 1]) ELSE u[n]
        /\ v[n + 1] = IF others[n + 1].from = "function_call" THEN Append(v[n], others[n + 1]) ELSE v[n]
    BY <2>1, <1>3, <1>4
  <2>3. others[n + 1] = rows[n + 1] /\ rows[n + 1] \in T
    BY <2>1, <1>2
  <2>4. u[n + 1] = v[n + 1]
    BY <2>2, <2>3, <1>6
  <2>5. u[n + 1] \in Seq(T)
    BY <2>2, <2>3, <1>6
  <2>6. QED BY <2>1, <2>4, <2>5
<1>7. u[N] = v[N] /\ u[N] \in Seq(T)
  <2> HIDE DEF S
  <2>1. 0..N \subseteq S
    BY <1>2, <1>5, <1>6, UpTo
  <2>2. QED BY <2>1, <1>2 DEF S
<1> HIDE DEF S
<1> DEFINE Follows(a, b) ==
               /\ b \in Seq(T) /\ Len(a) <= Len(b)
               /\ \A k \in 1..Len(a) : b[k] = a[k]
           R == {n \in 0..(M - N) : Follows(u[N], v[N + n])}
<1>8. 0 \in R
  <2>1. 0 \in 0..(M - N) /\ N + 0 = N
    BY <1>2
  <2>2. Follows(u[N], v[N])
    BY <1>7
  <2>3. QED BY <2>1, <2>2
<1>9. ASSUME NEW n \in 0..((M - N) - 1), n \in R PROVE n + 1 \in R
  <2> DEFINE j == N + (n + 1)
             b == v[N + n]
  <2>1. j \in 1..M /\ j - 1 = N + n /\ n + 1 \in 0..(M - N)
    BY <1>2
  <2>2. v[j] = IF others[j].from = "function_call" THEN Append(v[j - 1], others[j]) ELSE v[j - 1]
    BY <2>1, <1>4
  <2>3. Follows(u[N], b)
    BY <1>9
  <2> HIDE DEF j, b
  <2>4. v[j] = b \/ v[j] = Append(b, others[j])
    BY <2>1, <2>2 DEF b
  <2>5. others[j] \in T
    BY <2>1, <1>2
  <2>6. Follows(u[N], Append(b, others[j]))
    BY <2>3, <2>5, <1>7
  <2>7. Follows(u[N], v[j])
    BY <2>3, <2>4, <2>6
  <2>8. QED BY <2>1, <2>7 DEF j
<1>10. Follows(u[N], v[M])
  <2> HIDE DEF R, Follows
  <2>1. M - N \in Nat
    BY <1>2
  <2>2. 0..(M - N) \subseteq R
    BY <2>1, <1>8, <1>9, UpTo
  <2>3. M - N \in R /\ N + (M - N) = M
    BY <2>1, <2>2, <1>2
  <2>4. QED BY <2>3 DEF R
<1>11. QED BY <1>3, <1>4, <1>7, <1>10 DEF Longer, CallList

\* More rows of the same kinds and more.
LEMMA SignsGrow ==
    ASSUME NEW kinds, NEW more, DOMAIN kinds \subseteq DOMAIN more,
           \A i \in DOMAIN kinds : kinds[i] \subseteq more[i]
    PROVE  Signs(kinds) \subseteq Signs(more)
BY DEF Signs

\* What the detectors make of a row is of the rows before it only.
LEMMA RowsKeepSigns ==
    ASSUME NEW rows, NEW others, MoreRows(rows, others)
    PROVE  /\ Len(rows) \in Nat /\ Len(others) \in Nat
           /\ DOMAIN rows = 1..Len(rows) /\ DOMAIN others = 1..Len(others)
           /\ \A i \in DOMAIN rows : i \in DOMAIN others /\ others[i] = rows[i]
           /\ \A who : Said(rows, who) = {i \in Said(others, who) : i \in DOMAIN rows}
           /\ \A i \in Said(rows, "human") : Misaligned(others, i) = Misaligned(rows, i)
           /\ \A i \in DOMAIN rows : Repeated(others, i) <=> Repeated(rows, i)
<1>1. /\ Len(rows) \in Nat /\ Len(others) \in Nat
      /\ DOMAIN rows = 1..Len(rows) /\ DOMAIN others = 1..Len(others) /\ Len(rows) <= Len(others)
  BY DEF MoreRows
<1>2. \A i \in DOMAIN rows : i \in DOMAIN others /\ others[i] = rows[i]
  BY <1>1 DEF MoreRows
<1>3. ASSUME NEW who PROVE Said(rows, who) = {i \in Said(others, who) : i \in DOMAIN rows}
  BY <1>2 DEF Said
<1>4. ASSUME NEW i \in Nat, NEW k \in Nat, i \in DOMAIN rows, k < i, k \in DOMAIN others PROVE k \in DOMAIN rows
  BY <1>1, <1>4
<1>5. ASSUME NEW i \in DOMAIN rows, NEW who, NEW k \in Said(others, who), k < i PROVE k \in Said(rows, who)
  <2>1. i \in Nat /\ k \in Nat /\ k \in DOMAIN others
    BY <1>1 DEF Said
  <2>2. QED BY <2>1, <1>3, <1>4, <1>5
<1>6. ASSUME NEW i \in Said(rows, "human") PROVE Misaligned(others, i) = Misaligned(rows, i)
  <2>1. i \in DOMAIN rows /\ others[i] = rows[i]
    BY <1>2 DEF Said
  <2>2. RestatesLast(rows, i) => RestatesLast(others, i)
    <3>1. SUFFICES ASSUME RestatesLast(rows, i) PROVE RestatesLast(others, i)
      OBVIOUS
    <3>2. PICK j \in Said(rows, "human") :
             /\ j < i /\ i - j <= 3
             /\ \A k \in Said(rows, "human") : ~(j < k /\ k < i)
             /\ SimilarRephrase(rows[i].text, rows[j].text)
      BY <3>1 DEF RestatesLast
    <3>3. j \in Said(others, "human") /\ others[j] = rows[j]
      BY <1>2, <1>3 DEF Said
    <3>4. \A k \in Said(others, "human") : ~(j < k /\ k < i)
      BY <2>1, <3>2, <1>5
    <3>5. QED BY <2>1, <3>2, <3>3, <3>4 DEF RestatesLast
  <2>3. RestatesLast(others, i) => RestatesLast(rows, i)
    <3>1. SUFFICES ASSUME RestatesLast(others, i) PROVE RestatesLast(rows, i)
      OBVIOUS
    <3>2. PICK j \in Said(others, "human") :
             /\ j < i /\ i - j <= 3
             /\ \A k \in Said(others, "human") : ~(j < k /\ k < i)
             /\ SimilarRephrase(others[i].text, others[j].text)
      BY <3>1 DEF RestatesLast
    <3>3. j \in Said(rows, "human")
      BY <2>1, <3>2, <1>5
    <3>4. others[j] = rows[j]
      BY <3>3, <1>2 DEF Said
    <3>5. \A k \in Said(rows, "human") : ~(j < k /\ k < i)
      BY <3>2, <1>3
    <3>6. QED BY <2>1, <3>2, <3>3, <3>4, <3>5 DEF RestatesLast
  <2>4. QED BY <2>1, <2>2, <2>3 DEF Misaligned
<1>7. ASSUME NEW i \in DOMAIN rows PROVE Repeated(others, i) <=> Repeated(rows, i)
  <2> DEFINE who == rows[i].from
             Near(said, j) == {k \in said : j <= k /\ k < i}
             Same(r, j) == r[i].text.topic # NoTopic /\ r[j].text.topic = r[i].text.topic
                           /\ r[j].text.wording = r[i].text.wording
  <2>1. others[i] = rows[i] /\ others[i].from = who
    BY <1>2
  <2>2. \A j : j \in Said(rows, who) /\ j < i <=> j \in Said(others, who) /\ j < i
    BY <1>3, <1>5
  <2>3. ASSUME NEW j PROVE Near(Said(rows, who), j) = Near(Said(others, who), j)
    BY <2>2
  <2>4. \A j \in Said(rows, who) : others[j] = rows[j]
    BY <1>2 DEF Said
  <2>5. Repeated(rows, i) <=>
           \E j \in Said(rows, who) : j < i /\ Cardinality(Near(Said(rows, who), j)) <= 2 /\ Same(rows, j)
    BY DEF Repeated
  <2>6. Repeated(others, i) <=>
           \E j \in Said(others, who) : j < i /\ Cardinality(Near(Said(others, who), j)) <= 2 /\ Same(others, j)
    BY <2>1 DEF Repeated
  <2>7. \A j \in Said(rows, who) : Same(others, j) <=> Same(rows, j)
    BY <2>1, <2>4
  <2> HIDE DEF who, Near, Same
  <2>8. QED BY <2>2, <2>3, <2>5, <2>6, <2>7
<1>8. QED BY <1>1, <1>2, <1>3, <1>6, <1>7

\* A conversation that drags goes on dragging, and what was said again was.
LEMMA StagnationGrows ==
    ASSUME NEW rows, NEW others, MoreRows(rows, others), SameRows(others, others, "correction")
    PROVE  Fewer(Dragging(rows) \cup Repetition(rows), Dragging(others) \cup Repetition(others))
<1> DEFINE S == Dragging(rows) \cup Repetition(rows)
           T == Dragging(others) \cup Repetition(others)
           drag == [kind |-> "dragging", row |-> Len(others)]
<1>1. /\ Len(others) \in Nat /\ DOMAIN others = 1..Len(others)
      /\ \A i \in DOMAIN rows : i \in DOMAIN others /\ others[i] = rows[i]
      /\ \A who : Said(rows, who) = {i \in Said(others, who) : i \in DOMAIN rows}
      /\ \A i \in DOMAIN rows : Repeated(others, i) <=> Repeated(rows, i)
  BY RowsKeepSigns
<1>2. IsFiniteSet(T)
  BY StagnationMarked
<1>3. Repetition(rows) \subseteq Repetition(others)
  <2> SUFFICES ASSUME NEW s \in Repetition(rows) PROVE s \in Repetition(others)
    OBVIOUS
  <2>1. PICK i \in Said(rows, "human") \cup Said(rows, "gpt") :
           /\ s = [kind |-> "repetition", row |-> i]
           /\ ~(rows[i].from = "human" /\ "positive" \in rows[i].text.marks)
           /\ Repeated(rows, i)
    BY DEF Repetition
  <2>2. i \in DOMAIN rows
    BY <2>1 DEF Said
  <2>3. i \in Said(others, "human") \cup Said(others, "gpt") /\ others[i] = rows[i] /\ Repeated(others, i)
    BY <1>1, <2>1, <2>2
  <2>4. QED BY <2>1, <2>3 DEF Repetition
<1>4. Dragging(rows) # {} => drag \in Dragging(others)
  <2>1. Turns(rows) \subseteq Turns(others)
    BY <1>1 DEF Turns
  <2>2. IsFiniteSet(Turns(others))
    <3>1. IsFiniteSet(1..Len(others)) /\ Turns(others) \subseteq 1..Len(others)
      BY <1>1, FS_Interval DEF Turns
    <3>2. QED BY <3>1, FS_Subset
  <2>3. Fewer(Turns(rows), Turns(others))
    BY <2>1, <2>2, SubsetFewer
  <2>4. /\ Cardinality(Turns(rows)) \in Nat /\ Cardinality(Turns(others)) \in Nat
        /\ Cardinality(Turns(rows)) <= Cardinality(Turns(others)) /\ BaselineTurns \in Nat
    BY <2>3, SignalsAssumption DEF Fewer
  <2>5. SUFFICES ASSUME Dragging(rows) # {} PROVE drag \in Dragging(others)
    OBVIOUS
  <2>6. Cardinality(Turns(rows)) - BaselineTurns > 4
    BY <2>5 DEF Dragging
  <2>7. Cardinality(Turns(others)) - BaselineTurns > 4
    BY <2>4, <2>6
  <2>8. QED BY <2>7 DEF Dragging
<1>5. /\ \A s \in Dragging(rows) : s.kind = "dragging"
      /\ \A s, t \in Dragging(rows) : s = t
      /\ \A s \in Repetition(rows) : s.kind = "repetition"
  BY DEF Dragging, Repetition
<1> DEFINE f == [s \in S |-> IF s.kind = "dragging" THEN drag ELSE s]
<1>6. f \in [S -> T]
  <2>1. ASSUME NEW s \in S PROVE (IF s.kind = "dragging" THEN drag ELSE s) \in T
    BY <1>3, <1>4, <1>5
  <2>2. QED BY <2>1
<1>7. ASSUME NEW s \in S, NEW t \in S, f[s] = f[t] PROVE s = t
  <2>1. /\ f[s] = IF s.kind = "dragging" THEN drag ELSE s
        /\ f[t] = IF t.kind = "dragging" THEN drag ELSE t
        /\ drag.kind = "dragging"
    OBVIOUS
  <2> HIDE DEF f, drag
  <2>2. s.kind = t.kind
    BY <1>7, <2>1
  <2>3. CASE s.kind = "dragging"
    <3>1. s \in Dragging(rows) /\ t \in Dragging(rows)
      BY <1>5, <2>2, <2>3
    <3>2. QED BY <3>1, <1>5
  <2>4. CASE s.kind # "dragging"
    BY <1>7, <2>1, <2>2, <2>4
  <2>5. QED BY <2>3, <2>4
<1> HIDE DEF f, S, T
<1>8. Fewer(S, T)
  BY <1>2, <1>6, <1>7, FewerIf
<1>9. QED BY <1>8 DEF S, T

\* No category has fewer signals of more rows.
LEMMA GroupsGrow ==
    ASSUME NEW rows, NEW others, MoreRows(rows, others), SameRows(others, others, "correction"),
           NEW g \in DOMAIN Groups(rows)
    PROVE  Cardinality(Groups(rows)[g]) <= Cardinality(Groups(others)[g])
<1> DEFINE said(r) == Said(r, "human")
           results(r) == {i \in DOMAIN r : r[i].from = "observation"}
           mis(r) == Signs([i \in said(r) |-> Misaligned(r, i)])
           sta(r) == Dragging(r) \cup Repetition(r)
           dis(r) == Signs([i \in said(r) |-> Disengaged(r[i].text.marks)])
           sat(r) == Signs([i \in said(r) |-> Satisfied(r[i].text.marks)])
           fai(r) == Signs([i \in results(r) |-> Failed(r[i].text.marks)])
           exh(r) == Signs([i \in results(r) |-> Exhausted(r[i].text.marks)])
           All(r) == [misalignment |-> mis(r), stagnation |-> sta(r), disengagement |-> dis(r),
                      satisfaction |-> sat(r), failure |-> fai(r), loops |-> Loops(Calls(r)),
                      exhaustion |-> exh(r)]
<1>1. /\ \A i \in DOMAIN rows : i \in DOMAIN others /\ others[i] = rows[i]
      /\ said(rows) = {i \in said(others) : i \in DOMAIN rows}
      /\ \A i \in said(rows) : Misaligned(others, i) = Misaligned(rows, i)
  BY RowsKeepSigns
<1>2. /\ said(rows) \subseteq said(others) /\ \A i \in said(rows) : others[i] = rows[i]
      /\ results(rows) \subseteq results(others) /\ \A i \in results(rows) : others[i] = rows[i]
  BY <1>1 DEF Said
<1>3. Groups(rows) = All(rows) /\ Groups(others) = All(others)
  BY DEF Groups
<1>4. Worse(All(others), All(others))
  <2>1. "correction" \in TroubleMarks
    BY DEF TroubleMarks
  <2> HIDE DEF All
  <2>2. QED BY <1>3, <2>1, GroupsMarked
<1>5. mis(rows) \subseteq mis(others)
  <2> DEFINE k == [i \in said(rows) |-> Misaligned(rows, i)]
             m == [i \in said(others) |-> Misaligned(others, i)]
  <2> HIDE DEF said
  <2>1. DOMAIN k \subseteq DOMAIN m /\ \A i \in DOMAIN k : k[i] \subseteq m[i]
    BY <1>1, <1>2
  <2> HIDE DEF k, m
  <2>2. Signs(k) \subseteq Signs(m)
    BY <2>1, SignsGrow
  <2>3. QED BY <2>2 DEF k, m
<1>6. dis(rows) \subseteq dis(others) /\ sat(rows) \subseteq sat(others)
  <2> HIDE DEF said
  <2>1. dis(rows) \subseteq dis(others)
    <3> DEFINE k == [i \in said(rows) |-> Disengaged(rows[i].text.marks)]
               m == [i \in said(others) |-> Disengaged(others[i].text.marks)]
    <3>1. DOMAIN k \subseteq DOMAIN m /\ \A i \in DOMAIN k : k[i] \subseteq m[i]
      BY <1>2
    <3> HIDE DEF k, m
    <3>2. Signs(k) \subseteq Signs(m)
      BY <3>1, SignsGrow
    <3>3. QED BY <3>2 DEF k, m
  <2>2. sat(rows) \subseteq sat(others)
    <3> DEFINE k == [i \in said(rows) |-> Satisfied(rows[i].text.marks)]
               m == [i \in said(others) |-> Satisfied(others[i].text.marks)]
    <3>1. DOMAIN k \subseteq DOMAIN m /\ \A i \in DOMAIN k : k[i] \subseteq m[i]
      BY <1>2
    <3> HIDE DEF k, m
    <3>2. Signs(k) \subseteq Signs(m)
      BY <3>1, SignsGrow
    <3>3. QED BY <3>2 DEF k, m
  <2>3. QED BY <2>1, <2>2
<1>7. fai(rows) \subseteq fai(others) /\ exh(rows) \subseteq exh(others)
  <2> HIDE DEF results
  <2>1. fai(rows) \subseteq fai(others)
    <3> DEFINE k == [i \in results(rows) |-> Failed(rows[i].text.marks)]
               m == [i \in results(others) |-> Failed(others[i].text.marks)]
    <3>1. DOMAIN k \subseteq DOMAIN m /\ \A i \in DOMAIN k : k[i] \subseteq m[i]
      BY <1>2
    <3> HIDE DEF k, m
    <3>2. Signs(k) \subseteq Signs(m)
      BY <3>1, SignsGrow
    <3>3. QED BY <3>2 DEF k, m
  <2>2. exh(rows) \subseteq exh(others)
    <3> DEFINE k == [i \in results(rows) |-> Exhausted(rows[i].text.marks)]
               m == [i \in results(others) |-> Exhausted(others[i].text.marks)]
    <3>1. DOMAIN k \subseteq DOMAIN m /\ \A i \in DOMAIN k : k[i] \subseteq m[i]
      BY <1>2
    <3> HIDE DEF k, m
    <3>2. Signs(k) \subseteq Signs(m)
      BY <3>1, SignsGrow
    <3>3. QED BY <3>2 DEF k, m
  <2>3. QED BY <2>1, <2>2
<1>8. Fewer(sta(rows), sta(others))
  BY StagnationGrows
<1>9. Fewer(Loops(Calls(rows)), Loops(Calls(others)))
  BY CallsGrow, LoopsGrow
<1> HIDE DEF mis, sta, dis, sat, fai, exh
<1>10. /\ IsFiniteSet(mis(others)) /\ IsFiniteSet(dis(others)) /\ IsFiniteSet(sat(others))
       /\ IsFiniteSet(fai(others)) /\ IsFiniteSet(exh(others))
  BY <1>4 DEF Worse, Fewer
<1>11. /\ Fewer(mis(rows), mis(others)) /\ Fewer(dis(rows), dis(others)) /\ Fewer(sat(rows), sat(others))
       /\ Fewer(fai(rows), fai(others)) /\ Fewer(exh(rows), exh(others))
  BY <1>5, <1>6, <1>7, <1>10, SubsetFewer
<1>12. g \in {"misalignment", "stagnation", "disengagement", "satisfaction", "failure", "loops", "exhaustion"}
  BY <1>3
<1>13. Fewer(All(rows)[g], All(others)[g])
  BY <1>8, <1>9, <1>11, <1>12
<1> HIDE DEF All
<1>14. QED BY <1>3, <1>13 DEF Fewer

\* However the detectors shadow each other, skip what they have reported and
\* drop what overlaps: as long as no row leaves the window, the next message
\* never makes fewer signals of a category (signals/analyzer.rs).
THEOREM SignalsAddUp == SignalsSpec => EvidenceAccumulates
<1> DEFINE Grows == messages' # messages /\ Len(AllRows(messages')) <= MaxMessages =>
                       LET before == Groups(AllRows(messages))
                           after == Groups(AllRows(messages'))
                       IN  \A g \in DOMAIN before : Cardinality(before[g]) <= Cardinality(after[g])
<1>1. SignalsInv /\ [SignalsNext]_signalsVars => [Grows]_signalsVars
  <2> SUFFICES ASSUME SignalsInv, [SignalsNext]_signalsVars, messages' # messages,
                      NEW g \in DOMAIN Groups(AllRows(messages))
               PROVE  Cardinality(Groups(AllRows(messages))[g]) <= Cardinality(Groups(AllRows(messages'))[g])
    OBVIOUS
  <2>1. Continue
    BY DEF SignalsNext, Analyze, signalsVars
  <2>2. PICK m \in dialogue.made_of : messages' = Append(messages, m)
    BY <2>1 DEF Continue
  <2>3. messages \in Seq(dialogue.made_of) /\ \A x \in dialogue.made_of : IsMessage(x)
    BY SignalsAssumption DEF SignalsInv
  <2>4. /\ MoreRows(AllRows(messages), AllRows(messages'))
        /\ SameRows(AllRows(messages'), AllRows(messages'), "correction")
    BY <2>2, <2>3, RowsGrow
  <2>5. QED BY <2>4, GroupsGrow
<1>2. QED BY <1>1, SignalsInvariant, PTL DEF SignalsSpec, EvidenceAccumulates

=============================================================================
