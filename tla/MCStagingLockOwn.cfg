\* One process; a staged file is deleted before the next command.
CONSTANTS
    p1 = p1  p2 = p2  a = a  b = b
    Processes <- MCOne
    Paths <- MCPaths
    Kinds <- MCStarting
    Vanishing = TRUE
    MaxCommands = 2
    MaxAlone = 2
    MaxKills = 0
SPECIFICATION Spec
INVARIANTS
    LockedBySomeoneElse
CHECK_DEADLOCK FALSE
