--------------------------- MODULE MCAdminFileOps ---------------------------
(* Three paths and up to two sessions; contents are Paths themselves    *)
(* (the initial files) and <<session, call>> pairs (written files).      *)
EXTENDS AdminFileOps

CONSTANTS p1, p2, p3, b1, b2

MCPaths == {p1, p2, p3}
MCLogNames == {p1, p2}
(* p1 is relative, p2 is /DataDir/../x, p3 is absolute outside DataDir. *)
MCSpelling == [p \in MCPaths |-> CASE p = p1 -> "rel" [] p = p2 -> "abs_data_up" [] OTHER -> "abs_other"]
MCCallers == {"superuser", "writer", "user"}
MCSuperuser == {"superuser"}
MCOneSession == {b1}
MCTwoSessions == {b1, b2}
=============================================================================
