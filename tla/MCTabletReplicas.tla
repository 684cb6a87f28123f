-------------------------- MODULE MCTabletReplicas --------------------------
(* Two replica servers, two readers, two drive-info values and four heap  *)
(* slots: the current map, one held by each reader, and one to allocate. *)
EXTENDS TabletReplicas

CONSTANTS s1, s2, r1, r2, d1, d2, p1, p2, p3, p4

MCServers == {s1, s2}
MCReaders == {r1, r2}
MCDrives == {d1, d2}
MCSlots == {p1, p2, p3, p4}
MCRoles == {"LEADER", "FOLLOWER"}

(* Heap addresses carry no meaning, nor do reader identities.             *)
MCSymmetry == Permutations(MCSlots) \cup Permutations(MCReaders)
=============================================================================
