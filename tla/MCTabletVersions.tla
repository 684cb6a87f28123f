--------------------------- MODULE MCTabletVersions --------------------------
(* A table created with tablet t1, which may split into t2 and t3, and     *)
(* two ALTERs.                                                             *)
EXTENDS TabletVersions, TLC

CONSTANTS t1, t2, t3

MCTablets == {t1, t2, t3}
MCKids == (t1 :> {t2, t3}) @@ [t \in {t2, t3} |-> {}]
=============================================================================
