\* Acks in any order and repeated, against DeletedTableInfo; one replica added during the drop.
CONSTANTS
    s1 = s1
    s2 = s2
    t1 = t1
    t2 = t2
    t3 = t3
    MaxMoves = 1
    Servers <- MCServers
    Tablets <- MCTablets
    Active <- MCActive

SPECIFICATION Spec

INVARIANT TypeOK
INVARIANT DiscardedOnlyWhenAcked
PROPERTY DropCompletes
