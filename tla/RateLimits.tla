------------------------------ MODULE RateLimits ------------------------------
(***************************************************************************)
(* The rate limits of the llm_gateway filter (common, ratelimit.rs): which *)
(* limit, and which count within it, a request falls under.  The counting  *)
(* itself is the governor crate's: a limit of n tokens lets n through at   *)
(* once and takes one back with every tick.                                *)
(***************************************************************************)
EXTENDS Naturals, Sequences

CONSTANT Ratelimits   \* the configuration's ratelimits, in order

\* `value` is "" in a limit that counts each value of its header on its own.
Limits == [model : STRING, key : STRING, value : STRING,
           tokens : Nat \ {0}, unit : {"second", "minute", "hour", "day"}]

ASSUME RatelimitsAssumption == Ratelimits \in Seq(Limits)

NoSelector == <<"", "">>

\* get_quota: the tokens of a limit that pass at once.
Burst(i) ==
    LET limit == Ratelimits[i]
        perHour == limit.tokens \div 24
    IN  IF limit.unit # "day" THEN limit.tokens ELSE IF perHour = 0 THEN 1 ELSE perHour

\* The limits configured for a model and a header, with a value or without.
Named(model, key, value) ==
    {i \in DOMAIN Ratelimits : /\ Ratelimits[i].model = model
                               /\ Ratelimits[i].key = key
                               /\ Ratelimits[i].value = value}

\* RatelimitMap::new: the selectors of each model, a repeated one skipped.
LimitAt(model, key, value) ==
    LET same == Named(model, key, value)
    IN  IF same = {} THEN 0 ELSE CHOOSE i \in same : \A j \in same : i <= j

\* Fault: the limit of every value comes before the value's own.
CountOfEachFirst(model, selector) ==
    LET exact == LimitAt(model, selector[1], selector[2])
        each  == LimitAt(model, selector[1], "")
    IN  CASE each # 0               -> <<each, selector[2]>>
          [] exact # 0 /\ each = 0  -> <<exact, "">>
          [] OTHER                  -> <<0, "">>

\* check_limit: the limit a request of a model falls under, and the count.
CountOf(model, selector) ==
    LET exact == LimitAt(model, selector[1], selector[2])
        each  == LimitAt(model, selector[1], "")
    IN  CASE exact # 0              -> <<exact, "">>
          [] exact = 0 /\ each # 0  -> <<each, selector[2]>>
          [] OTHER                  -> <<0, "">>

\* DefaultKeyedRateLimiter::check_key_n, `used` tokens being taken.
Admits(i, used, tokens) == tokens <= Burst(i) /\ used + tokens <= Burst(i)
===============================================================================
