------------------------ MODULE MCWorkerSupervision ------------------------
(* Small sources for WorkerSupervision. *)
EXTENDS WorkerSupervision

\* A folder with a message that embeds another and a message that is linked
\* to it, and a recovered item.
TreeAbove == <<{}, {1}, {1}, {}>>
TreeSize == <<0, 2, 1, 1>>
LinkedIdent == <<0, 7, 7, 9>>
=============================================================================
