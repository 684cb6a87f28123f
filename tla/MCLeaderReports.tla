-------------------------- MODULE MCLeaderReports --------------------------
(* Three replicas, so that a stale leader, the new leader and a follower  *)
(* can all have entries; two elections; two heartbeats in flight per      *)
(* server, so that a newer report can overtake an older one.             *)
EXTENDS LeaderReports

CONSTANTS s1, s2, s3

MCServers == {s1, s2, s3}
=============================================================================
