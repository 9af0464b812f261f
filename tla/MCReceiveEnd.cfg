\* Transfers in which nothing fails.
CONSTANTS
    MaxChunk = 2
    CounterRange = 8
    Capacity = 1
    Workers <- MCWorkers
    Layouts <- MCLayouts
    FaultSets <- MCNoFaults
SPECIFICATION FairSpec
PROPERTIES
    FaultFreeCompletes
CHECK_DEADLOCK FALSE
