\* Two requests of a session, an alias with two backends, failures and
\* cooldowns, lost pins and a restart of brightstaff.
SPECIFICATION Spec
CONSTANTS
    Model = {m1, m2, m3, none, absent}
    pool = pool
    unknown = unknown
    PoolModels = {m1, m2}
    Unconfigured = absent
    Configured = {m1, m2}
    RouterModels = {m3}
    Sentinel = none
    Alias = {pool, unknown}
    Targets <- MCTargets
    Request = {r1, r2}
    Session = {s1}
    NoSession = NoSession
    NoModel = NoModel
    NoAlias = NoAlias
    Statuses = {200, 503}
    RetryAfters = {0}
    NoRetryAfter = NoRetryAfter
    DefaultCooldown = 1
    MaxCooldown = 1
    RedisCache = TRUE
SYMMETRY Symmetry
INVARIANTS
    NoEarlyGiveUp
    HealthyFirst
    InternalNotPinned
PROPERTIES
    OnlyOwnAnswersCount
    PinnedTurnsDoNotRepin
