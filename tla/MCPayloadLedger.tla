-------------------------- MODULE MCPayloadLedger --------------------------
(* Small instance of PayloadLedger for TLC. *)
EXTENDS PayloadLedger, TLC

CONSTANTS k1, k2, k3, x, y

MCKeys == {k1, k2, k3}
MCBytes == {x, y}
Symmetry == Permutations(Keys) \cup Permutations(Bytes)
=============================================================================
