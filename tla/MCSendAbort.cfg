\* A worker throws while another waits on a full queue.
CONSTANTS
    MaxChunk = 2
    CounterRange = 8
    Capacity = 1
    Workers <- MCWorkers
    Layouts <- MCLayouts
    FaultSets <- MCFaultSets
SPECIFICATION FairSpec
PROPERTIES
    AbortEnds
CHECK_DEADLOCK FALSE
