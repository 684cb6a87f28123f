CONSTANTS
    a1 = a1
    a2 = a2
    c1 = c1
    c2 = c2
    NoThread = NoThread
    Adders <- MCAdders
    Closers <- MCClosers
    Close <- MCClose

SPECIFICATION Spec

INVARIANT TypeOK
PROPERTY AllCallsReturn
INVARIANT WaitReachesMax
