\* Two ALTERs race heartbeats that are lost, duplicated and reordered, and a split.
CONSTANTS
    t1 = t1
    t2 = t2
    t3 = t3
    NoVersion = NoVersion
    Root = t1
    MaxVersion = 2
    Tablets <- MCTablets
    Kids <- MCKids

SPECIFICATION Spec

INVARIANT TypeOK
INVARIANT ReportedIsNewest
PROPERTY AlterCompletes
