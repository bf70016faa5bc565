\* Three sessions and two routes for two entries, the maximum, to which
\* what is configured is cut.
SPECIFICATION Spec
CONSTANTS
    Session = {s1, s2, s3}
    Route = {a, b}
    NoRoute = NoRoute
    TTL = 2
    SessionMaxEntries = 3
    MaxSessionMaxEntries = 2
INVARIANTS
    RecentlyUsedServed
PROPERTIES
    KeepsPromise
