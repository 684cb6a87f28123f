\* One backend, one call, system calls that may fail: pg_file_write's
\* stat() fails on an existing file and fopen("wb") truncates it.
CONSTANTS
    p1 = p1
    p2 = p2
    p3 = p3
    b1 = b1
    b2 = b2
    Paths <- MCPaths
    Sessions <- MCOneSession
    NoFile = NoFile
    NULL = NULL
    MaxCalls = 1
    Faults = TRUE
    LogNames <- MCLogNames
    Spelling <- MCSpelling
    LogDirAbsolute = TRUE
    Callers <- MCSuperuser
SPECIFICATION Spec
INVARIANT NoOverwrite
