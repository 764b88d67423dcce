--------------------------- MODULE MCDirectSplit ---------------------------
(* Small instance of DirectSplit for TLC. *)
EXTENDS DirectSplit

MCSizes == {3, 4, 17}
=============================================================================
