\* The rows of the table in the README but the one with stars before a slash; two edits.
CONSTANTS
    MaxChunk = 2
    CounterRange = 64
    Radix = 8
    Short = 1
    Wide = 2
    Long = 3
    Thrown = Thrown
    None = None
    Files <- MCFiles
    Sizings <- MCSizings
    Arguments <- MCArguments
    MaxListed = 3
    MaxEdits = 2
SPECIFICATION Spec
INVARIANTS
    AsDocumented
    ArrivesAsStaged
    CutIsNoticed
    PlanCoversTransfer
\* The offer is made once.
CHECK_DEADLOCK FALSE
