\* Reordered and lost heartbeats against UpdateReplicaLocations and GetLeader.
CONSTANTS
    s1 = s1
    s2 = s2
    s3 = s3
    Absent = Absent
    MaxTerm = 2
    MaxQueue = 2
    Servers <- MCServers

SPECIFICATION Spec

INVARIANT TypeOK
PROPERTY LeaderConverges
