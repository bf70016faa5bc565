\* A body twice as long as the channel, and a processor
\* that may withhold chunks or fail, as the one for agents does.
SPECIFICATION FairTaskSpec
CONSTANTS
    BufferSize = 2
    MaxChunks = 5
    Verdicts = {"pass", "skip", "fail"}
INVARIANTS
    EveryChunkOnceInOrder
    BoundedReadAhead
PROPERTIES
    AlwaysCompleted
