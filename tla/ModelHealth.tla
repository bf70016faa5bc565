---------------------------- MODULE ModelHealth ----------------------------
(***************************************************************************)
(* The health tracker of brightstaff (handlers/llm/health.rs): which       *)
(* backend models recently answered with a retryable status and must be    *)
(* steered away from until a cooldown elapses.                             *)
(*                                                                         *)
(* The code keeps, per model, the instant the cooldown expires, in a map   *)
(* behind an RwLock.  Here the same fact is kept as the ticks that remain  *)
(* until that instant, so that a behaviour may go on for ever in finitely  *)
(* many states: an absent entry and an elapsed one, which no operation of  *)
(* the code tells apart, are both 0.                                       *)
(***************************************************************************)
EXTENDS Naturals, FiniteSets, Functions

CONSTANTS
    Model,            \* every model name an attempt can be made with
    DefaultCooldown,  \* DEFAULT_COOLDOWN, in ticks
    MaxCooldown,      \* MAX_COOLDOWN, in ticks
    NoRetryAfter      \* the upstream sent no integer Retry-After

ASSUME CooldownAssumption ==
    /\ DefaultCooldown \in Nat
    /\ MaxCooldown \in Nat
    /\ NoRetryAfter \notin Nat

VARIABLE cooldowns    \* cooldowns[m]: ticks until m leaves its cooldown

Lesser(a, b) == IF a <= b THEN a ELSE b

HealthInit == cooldowns = [m \in Model |-> 0]

IsAvailable(m) == cooldowns[m] = 0

\* A Retry-After of the upstream overrides the default; both are capped.
\* The new expiry replaces the recorded one, even where it comes earlier.
MarkUnhealthy(m, retryAfter) ==
    LET asked == IF retryAfter = NoRetryAfter THEN DefaultCooldown ELSE retryAfter
    IN  cooldowns' = [cooldowns EXCEPT ![m] = Lesser(asked, MaxCooldown)]

MarkHealthy(m) == cooldowns' = [cooldowns EXCEPT ![m] = 0]

\* One unit of time goes by for every cooldown at once.
Elapse ==
    /\ \E m \in Model : ~IsAvailable(m)
    /\ cooldowns' = [m \in Model |-> IF IsAvailable(m) THEN 0 ELSE cooldowns[m] - 1]

\* Fault: with a healthy candidate at hand, those in cooldown are left out.
OrderCandidatesHealthyOnly(candidates) ==
    LET available == {m \in candidates : IsAvailable(m)}
        kept == IF available = {} THEN candidates ELSE available
    IN  Bijection(1..Cardinality(kept), kept)

\* Fault: one shuffle over all candidates.
OrderCandidatesShuffled(candidates) == Bijection(1..Cardinality(candidates), candidates)

\* Every order order_candidates can return: a shuffle of the candidates with
\* the available ones before those in cooldown; none is dropped.
OrderCandidates(candidates) ==
    {s \in Bijection(1..Cardinality(candidates), candidates) :
        \A i, j \in DOMAIN s :
            IsAvailable(s[j]) /\ ~IsAvailable(s[i]) => j < i}

CooldownType == cooldowns \in [Model -> 0..MaxCooldown]

=============================================================================
