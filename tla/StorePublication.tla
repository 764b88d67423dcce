-------------------------- MODULE StorePublication --------------------------
(***************************************************************************)
(* The end of finalize_with_policy in pstforge-pst: the sealed file is     *)
(* synced, validated, and renamed to its destination without replacing     *)
(* anything.  The independent readers pffinfo and readpst run in a process *)
(* group of their own, under a deadline.                                   *)
(***************************************************************************)
EXTENDS Integers, Sequences

CONSTANTS
  ValidateOutput   \* validate_output: finalize, not finalize_constructed

VARIABLES
  output   \* the temporary file, its destination and the work on both

Private ==
  [phase |-> "private", result |-> "none", dest |-> "absent", temp |-> "held",
   renamed |-> FALSE, interrupted |-> FALSE, associated |-> FALSE, passed |-> {},
   child |-> "none", pipes |-> FALSE, expired |-> FALSE]

Validators == {"pffinfo", "readpst"}

(* Mutant of After: nothing runs pffinfo. *)
AfterQuick(phase, associated) ==
  CASE phase = "sync" -> "indexes"
    [] phase = "indexes" -> IF ~ValidateOutput THEN "rename"
                            ELSE IF associated THEN "folders" ELSE "store"
    [] phase = "store" -> "folders"
    [] phase = "folders" -> "readpst"
    [] phase = "readpst" -> "rename"
    [] phase = "rename" -> "directory"
    [] phase = "directory" -> "verify"
    [] phase = "verify" -> "done"

(* What comes after each step; a store whose first message is associated *)
(* has no message to compare.                                             *)
After(phase, associated) ==
  CASE phase = "sync" -> "indexes"
    [] phase = "indexes" -> IF ~ValidateOutput THEN "rename"
                            ELSE IF associated THEN "folders" ELSE "store"
    [] phase = "store" -> "folders"
    [] phase = "folders" -> "pffinfo"
    [] phase = "pffinfo" -> "readpst"
    [] phase = "readpst" -> "rename"
    [] phase = "rename" -> "directory"
    [] phase = "directory" -> "verify"
    [] phase = "verify" -> "done"

(* The temporary file is dropped with its directory, unless it is evidence. *)
Ended(o, result) ==
  [o EXCEPT !.phase = "done", !.result = result, !.child = "none", !.pipes = FALSE,
            !.temp = IF @ = "held" THEN "removed" ELSE @]

Advanced(o) ==
  [o EXCEPT !.passed = @ \cup {o.phase}, !.phase = After(o.phase, o.associated),
            !.child = "none", !.pipes = FALSE, !.expired = FALSE]

check_interrupted(o) == IF o.interrupted THEN Ended(o, "interrupted") ELSE o

(* The sync and the validators that read the file back in this process. *)
ReadBack ==
  /\ output.phase \in {"sync", "indexes", "store", "folders"}
  /\ \/ output' = Ended(output, "failed")
     \/ output' = check_interrupted(Advanced(output))

(* Its own process group, two threads that capture what it writes. *)
SpawnValidator ==
  /\ output.phase \in Validators /\ output.child = "none"
  /\ \/ output' = Ended(output, "failed")
     \/ output' = [output EXCEPT !.child = "running", !.pipes = TRUE]

ValidatorExits(status) ==
  /\ output.child = "running"
  /\ output' = [output EXCEPT !.child = status]

(* A process it left behind may keep the pipes open. *)
PipesClose ==
  /\ output.pipes /\ output.child # "running"
  /\ output' = [output EXCEPT !.pipes = FALSE]

DeadlinePasses ==
  /\ output.phase \in Validators /\ output.child # "none" /\ ~output.expired
  /\ output' = [output EXCEPT !.expired = TRUE]

(* The evidence is kept, unless writing the diagnostic fails. *)
retain_validation_failure ==
  \/ output' = Ended([output EXCEPT !.temp = "retained"], "invalid")
  \/ output' = Ended(output, "failed")

(* The loop of run_validator sees the exit and the end of both pipes. *)
ValidatorFinished ==
  /\ output.phase \in Validators
  /\ output.child \in {"ok", "bad"} /\ ~output.pipes
  /\ IF output.child = "bad" THEN retain_validation_failure
     ELSE output' = IF output.phase = "readpst" THEN check_interrupted(Advanced(output))
                                                ELSE Advanced(output)

(* Mutant of ValidatorKilled: a reader that is gone is not timed. *)
RunningKilled ==
  /\ output.phase \in Validators /\ output.child = "running"
  /\ output.interrupted \/ output.expired
  /\ IF output.interrupted THEN output' = Ended(output, "interrupted")
     ELSE retain_validation_failure

(* The group is killed and the child collected, then the pipes drain. *)
ValidatorKilled ==
  /\ output.phase \in Validators /\ output.child # "none"
  /\ output.child = "running" \/ output.pipes
  /\ output.interrupted \/ output.expired
  /\ IF output.interrupted THEN output' = Ended(output, "interrupted")
     ELSE retain_validation_failure

publish_noclobber ==
  /\ output.phase = "rename"
  /\ \/ output.dest # "absent" /\ output' = Ended(output, "exists")
     \/ output' = Ended(output, "failed")
     \/ /\ output.dest = "absent"
        /\ output' = Advanced([output EXCEPT !.dest = "ours", !.renamed = TRUE,
                                             !.temp = "published"])

(* The part is public whether or not its directory could be synced. *)
sync_published_directory ==
  /\ output.phase = "directory"
  /\ \/ output' = Ended(output, "durability")
     \/ output' = Advanced(output)

verify_published_destination ==
  /\ output.phase = "verify"
  /\ output' = Ended(output, IF output.dest = "ours" THEN "ok" ELSE "changed")

(* Someone else creates, or replaces, the file at the destination. *)
Meddle ==
  /\ output.phase # "done" /\ output.dest # "foreign"
  /\ output' = [output EXCEPT !.dest = "foreign"]

Interrupt ==
  /\ output.phase \notin {"private", "done"} /\ ~output.interrupted
  /\ output' = [output EXCEPT !.interrupted = TRUE]

Publishing ==
  \/ ReadBack \/ SpawnValidator \/ ValidatorFinished \/ ValidatorKilled
  \/ publish_noclobber \/ sync_published_directory \/ verify_published_destination

Around ==
  \/ \E status \in {"ok", "bad"} : ValidatorExits(status)
  \/ PipesClose \/ DeadlinePasses \/ Meddle \/ Interrupt
-----------------------------------------------------------------------------
Required ==
  {"sync", "indexes"}
    \cup (IF ValidateOutput THEN {"folders", "pffinfo", "readpst"} ELSE {})
    \cup (IF ValidateOutput /\ ~output.associated THEN {"store"} ELSE {})

(* A file becomes public only after everything that finalize_with_policy    *)
(* promises of it; a refusal other than the two that come after the rename  *)
(* leaves nothing public; the temporary file outlives the call only as the  *)
(* evidence of an independent reader's verdict; and no reader outlives it.  *)
PublishedWhole ==
  /\ output.renamed => Required \subseteq output.passed
  /\ output.phase = "done" =>
       /\ output.renamed <=> output.result \in {"ok", "durability", "changed"}
       /\ output.temp = "retained" <=> output.result = "invalid"
       /\ output.temp # "held"
  /\ output.child = "running" => output.phase \in Validators
=============================================================================
