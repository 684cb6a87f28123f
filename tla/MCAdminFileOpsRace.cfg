\* Two backends, one call each, no system call faults: a target check
\* races with the other backend creating the target file.
CONSTANTS
    p1 = p1
    p2 = p2
    p3 = p3
    b1 = b1
    b2 = b2
    Paths <- MCPaths
    Sessions <- MCTwoSessions
    NoFile = NoFile
    NULL = NULL
    MaxCalls = 1
    Faults = FALSE
    LogNames <- MCLogNames
    Spelling <- MCSpelling
    LogDirAbsolute = TRUE
    Callers <- MCSuperuser
SPECIFICATION Spec
INVARIANT NoOverwrite
