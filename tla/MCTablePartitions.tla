------------------------- MODULE MCTablePartitions -------------------------
(* Model-checking instance of TablePartitions: five tablet ids, the root  *)
(* tablet and four spare ids (two splits, or a split and replacements).   *)
EXTENDS TablePartitions

CONSTANTS t1, t2, t3, t4, t5

MCTablets == {t1, t2, t3, t4, t5}

(* The spare ids are interchangeable; the root tablet is not.            *)
MCSymmetry == Permutations({t2, t3, t4, t5})
=============================================================================
