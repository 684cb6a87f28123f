CONSTANTS
    t1 = t1
    t2 = t2
    t3 = t3
    t4 = t4
    t5 = t5
    Tablets <- MCTablets
    Root = t1
    NoMeta = NoMeta
    NumKeys = 4
    MaxDepth = 2

SYMMETRY MCSymmetry

SPECIFICATION Spec

INVARIANT TypeOK
INVARIANT RoutingSound
INVARIANT SplitDeepest
