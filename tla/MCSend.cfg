\* Four workers, up to four chunks, queues of two places.
CONSTANTS
    MaxChunk = 2
    CounterRange = 8
    Capacity = 2
    Workers <- MCWorkers
    Layouts <- MCLayouts
    FaultSets <- MCFaultSets
SPECIFICATION FairSpec
INVARIANTS
    TypeOK
    StreamInOrder
    WireMatchesRequest
    CompleteMeansAllSent
    NoSpuriousFailure
    SendInv
PROPERTIES
    KeepsPromise
    FaultFreeCompletes
    AbortEndsUnlessWedged
\* send_files returns, or stays wedged after a failure.
CHECK_DEADLOCK FALSE
