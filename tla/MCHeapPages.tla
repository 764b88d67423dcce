---------------------------- MODULE MCHeapPages ----------------------------
(* Small instance of HeapPages for TLC. *)
EXTENDS HeapPages

MCKinds == {"properties", "table"}
MCSizes == {0, 1, 11, 13}
=============================================================================
