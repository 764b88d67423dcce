------------------------- MODULE MCPartPublication -------------------------
(* Small instance of PartPublication for TLC. *)
EXTENDS PartPublication

CONSTANTS k1, k2, k3

MCThreeKeys == {k1, k2, k3}
=============================================================================
