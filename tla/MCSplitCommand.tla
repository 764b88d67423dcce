--------------------------- MODULE MCSplitCommand ---------------------------
(* Small instance of SplitCommand for TLC. *)
EXTENDS SplitCommand

BothModes == {"restartable", "direct"}
=============================================================================
