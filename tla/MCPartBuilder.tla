--------------------------- MODULE MCPartBuilder ---------------------------
(* Small instance of PartBuilder for TLC. *)
EXTENDS PartBuilder

MCSizes == {1, 3, 9}
=============================================================================
