\* PostgreSQL: reads and puts may fail, the state survives a restart.
SPECIFICATION FairSpec
CONSTANTS
    MaxTurns = 3
    MaxRestarts = 1
    Postgres = TRUE
    Upstreams = {"other"}
    ItemCounts = {1}
    Nothing = Nothing
INVARIANTS
    OwnHistory
PROPERTIES
    EventuallyPut
