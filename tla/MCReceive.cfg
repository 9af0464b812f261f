\* Four workers, up to four chunks, queues of two places.
CONSTANTS
    MaxChunk = 2
    CounterRange = 8
    Capacity = 2
    Workers <- MCWorkers
    Layouts <- MCLayouts
    FaultSets <- MCFaultSets
SPECIFICATION FairSpec
INVARIANTS
    TypeOK
    FilesArePrefixes
    CompleteMeansAllFiles
    ProgressBounded
    NoSpuriousFailure
    ReceiveInv
PROPERTIES
    KeepsPromise
    FaultFreeDelivers
    AbortEndsUnlessStuck
\* receive_files returns, or stays stuck.
CHECK_DEADLOCK FALSE
