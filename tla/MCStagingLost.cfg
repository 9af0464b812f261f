\* Two processes that add and send.
CONSTANTS
    p1 = p1  p2 = p2  a = a  b = b
    Processes <- MCTwo
    Paths <- MCPaths
    Kinds <- MCSending
    Vanishing = FALSE
    MaxCommands = 2
    MaxAlone = 2
    MaxKills = 0
SPECIFICATION Spec
INVARIANTS
    StagedUntilSent
CHECK_DEADLOCK FALSE
