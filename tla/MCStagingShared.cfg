\* Two processes: four commands one after the other, or three that may overlap,
\* with a process killed and files deleted.
CONSTANTS
    p1 = p1  p2 = p2  a = a  b = b
    Processes <- MCTwo
    Paths <- MCPaths
    Kinds <- MCKinds
    Vanishing = TRUE
    MaxCommands = 3
    MaxAlone = 4
    MaxKills = 1
SPECIFICATION Spec
SYMMETRY MCSymmetry
INVARIANTS
    TypeOK
    ExclusiveUntilDeleted
    WholeListUntilDeleted
    ListIsWhatWasReported
    StagingKillsNobody
\* The user stops.
CHECK_DEADLOCK FALSE
