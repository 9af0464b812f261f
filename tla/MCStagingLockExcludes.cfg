\* Two processes, one of which finds that nothing is staged and deletes the area.
CONSTANTS
    p1 = p1  p2 = p2  a = a  b = b
    Processes <- MCTwo
    Paths <- MCPaths
    Kinds <- MCStarting
    Vanishing = FALSE
    MaxCommands = 3
    MaxAlone = 3
    MaxKills = 0
SPECIFICATION Spec
INVARIANTS
    LockExcludes
CHECK_DEADLOCK FALSE
