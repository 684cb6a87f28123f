--------------------------- MODULE MCDeletedTables ---------------------------
(* A dropped table with split parent t1, still in tablets_ but no longer  *)
(* in partitions_, and its active children t2 and t3, on two servers.     *)
EXTENDS DeletedTables

CONSTANTS s1, s2, t1, t2, t3

MCServers == {s1, s2}
MCTablets == {t1, t2, t3}
MCActive == {t2, t3}
=============================================================================
