\* Directories as arguments, the working directory among them.
CONSTANTS
    MaxChunk = 2
    CounterRange = 64
    Radix = 8
    Short = 1
    Wide = 2
    Long = 3
    Thrown = Thrown
    None = None
    Files <- MCFiles
    Sizings <- MCSizings
    Arguments <- MCDirectories
    MaxListed = 3
    MaxEdits = 1
SPECIFICATION Spec
INVARIANTS
    DirectoryIsItsTree
\* The offer is made once.
CHECK_DEADLOCK FALSE
