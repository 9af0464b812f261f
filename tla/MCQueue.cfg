\* More threads than the program has on one queue (one and one).
CONSTANTS
    p1 = p1  p2 = p2  c1 = c1  c2 = c2
    Producers <- MCProducers
    Consumers <- MCConsumers
    Capacity = 2
    MaxPushes = 3
SPECIFICATION FairSpec
INVARIANTS
    TypeOK
    NoLostWakeup
PROPERTIES
    ImplementsFifo
