\* Every pairing of client and upstream, with streams that keep to the provider's
\* protocol and streams that do not.
SPECIFICATION Spec
CONSTANTS
    MaxEvents = 7
    MaxOdd = 4
    Ahead = 2
    Cuts = {"payload", "prefix", "character"}
INVARIANTS
    PiecesOnceInOrder
    AllPiecesArrive
    CompletedMatchesStream
PROPERTIES
    EnvelopeKept
    LifecycleKept
CHECK_DEADLOCK FALSE
