\* One backend making two adminpack calls over three paths, with system
\* calls that may fail.
CONSTANTS
    p1 = p1
    p2 = p2
    p3 = p3
    b1 = b1
    b2 = b2
    Paths <- MCPaths
    Sessions <- MCOneSession
    NoFile = NoFile
    NULL = NULL
    MaxCalls = 2
    Faults = TRUE
    LogNames <- MCLogNames
    Spelling <- MCSpelling
    LogDirAbsolute = TRUE
    Callers <- MCCallers
SPECIFICATION Spec
INVARIANT TypeOK
INVARIANT RenameNoOverwrite
INVARIANT RenameOutcome
INVARIANT ListingExact
INVARIANT PrivilegeRespected
 
