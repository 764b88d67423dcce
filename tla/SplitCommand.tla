---------------------------- MODULE SplitCommand ----------------------------
(***************************************************************************)
(* One `pstforge split` job over all its invocations: what every stage     *)
(* does when SIGINT or SIGTERM has set the interrupt flag, which exit      *)
(* status the operator sees, what the ledger records, and whether          *)
(* `pstforge report` can read the stored report back.  A restartable job   *)
(* is run again with --resume until it succeeds; a direct job is run once. *)
(*                                                                         *)
(* The items are abstracted to the number of parts they still make up;     *)
(* PartBuilder, PartPublication and PayloadLedger look inside the stages.  *)
(***************************************************************************)
EXTENDS Integers

CONSTANTS
    Modes,          \* execution modes: "restartable", "direct"
    Parts,          \* parts the items of the source make up, at least one
    MaxSignals,     \* bound: SIGINT and SIGTERM
    MaxFailures     \* bound: killed processes, I/O errors, changed sources

ASSUME ModeAssumption == Modes \subseteq {"restartable", "direct"}
ASSUME BoundAssumption == Parts \in Nat \ {0} /\ MaxSignals \in Nat /\ MaxFailures \in Nat

VARIABLES
    mode, keep,     \* --restartable and --keep-work of this invocation
    job,            \* the ledger, see Init
    snap,           \* split_report_snapshot with split_report_state_sha256, or NoReport
    flag,           \* the interrupt flag
    observed,       \* recovery.interrupted of the report being built
    stage,          \* where the invocation is, "ended" between invocations
    exit,           \* exit status of the last invocation, Running or Killed
    cause,          \* why it ended: "none", "done", "flag", "failure"
    signals, failures

vars == <<mode, keep, job, snap, flag, observed, stage, exit, cause, signals, failures>>
command == <<mode, keep, signals, failures>>

Running == -1
Killed == -2
NoReport == [interrupted |-> FALSE, attempts |-> -1, left |-> -1, terminal |-> FALSE,
             digest |-> <<>>]

Init ==
    /\ mode \in Modes /\ keep \in BOOLEAN /\ (mode = "direct" => ~keep)
    /\ job = [made |-> FALSE,       \* the job directory exists and is not empty
              bound |-> FALSE,      \* source, mode and configuration are recorded
              left |-> Parts,       \* parts not yet in the parts table
              intent |-> FALSE,     \* a row of publication_intents
              row |-> FALSE,        \* job_metadata 'interrupted'
              attempts |-> 0,       \* job_metadata 'worker_attempts'
              exhausted |-> FALSE,  \* job_metadata 'worker_retries_exhausted'
              completion |-> FALSE, \* job_metadata 'recovery_completion'
              terminal |-> FALSE,   \* job_metadata 'direct_terminal_failure'
              work |-> "kept"]      \* payload: kept, cleaning (compaction pending), removed
    /\ snap = NoReport /\ flag = FALSE /\ observed = FALSE
    /\ stage = "start" /\ exit = Running /\ cause = "none"
    /\ signals = 0 /\ failures = 0

-----------------------------------------------------------------------------
(* Ending an invocation, and the stored report.                            *)

At(s) == stage = s
Goto(s) == stage' = s /\ UNCHANGED <<exit, cause>>
End(code, why) == stage' = "ended" /\ exit' = code /\ cause' = why

\* failure_kind and exit_code of the errors an interruption can surface as.
Interrupted == 130      \* RecoveryError::Interrupted, WriterError::Interrupted
SourceFailure == 3      \* RecoveryError::Source(SourceError::Interrupted)
OutputFailure == 4      \* SplitError::Job(JobError::Interrupted)
InternalFailure == 6    \* CanonicalError and CanonicalWriteError around it

\* report_ledger_evidence, and validate_split_snapshot with the digest check
\* of read_validated_report_snapshot.
Evidence(j) == <<j.row, j.attempts, j.exhausted, j.completion, j.terminal>>
ReportAccepted ==
    /\ snap # NoReport
    /\ snap.digest = Evidence(job)
    /\ snap.left = job.left /\ snap.interrupted = job.row
    /\ snap.attempts = job.attempts /\ snap.terminal = job.terminal

\* The report of this invocation.  worker_attempts is counted in memory: a
\* direct run always has one attempt, a restartable one the recorded total.
publish_report_artifacts(interrupted) ==
    snap' = [interrupted |-> interrupted,
             attempts |-> IF mode = "direct" THEN 1 ELSE job.attempts,
             left |-> job.left, terminal |-> job.terminal, digest |-> Evidence(job)]

report ==
    /\ At("report")
    /\ LET interrupted == observed \/ (mode = "restartable" /\ flag)
       IN  /\ publish_report_artifacts(interrupted)
           /\ IF interrupted THEN End(Interrupted, "flag")
              ELSE \E code \in IF job.terminal THEN {1} ELSE {0, 1} : End(code, "done")
    /\ UNCHANGED <<command, job, flag, observed>>

-----------------------------------------------------------------------------
(* Opening the source and the job.                                         *)

\* The operator resumes a job that is bound.  One that is not may be resumed
\* or, having recorded nothing, be started afresh.
EntryStages == IF job.bound THEN {"open"} ELSE IF job.made THEN {"open", "recover"} ELSE {"recover"}

\* Only the hash of a restartable source looks at the flag.  A direct job is
\* created (create_direct_metadata, bind_*) here; it is never run again, so
\* what a stop between the two leaves makes no difference.
open_source ==
    /\ At("start")
    /\ IF mode = "direct"
       THEN Goto("setup") /\ job' = [job EXCEPT !.made = TRUE, !.bound = TRUE]
       ELSE /\ IF flag THEN End(Interrupted, "flag") ELSE \E s \in EntryStages : Goto(s)
            /\ UNCHANGED job
    /\ UNCHANGED <<command, snap, flag, observed>>

\* reconcile_publications: PartPublication shows which of the two it is.
Reconciled(j) ==
    IF j.intent THEN {[j EXCEPT !.intent = FALSE],
                      [j EXCEPT !.intent = FALSE, !.left = @ - 1]}
    ELSE {j}

\* open_restartable_resume: the stored report is invalidated before anything
\* else is changed; the flag is seen before or after that.  A job without its
\* bindings is refused: JobError::ResumeMismatch("required immutable metadata").
open_restartable_resume ==
    /\ At("open") /\ job.bound
    /\ \/ /\ flag
          /\ End(Interrupted, "flag")
          /\ \/ UNCHANGED <<snap, job>>
             \/ snap' = NoReport /\ job' \in {job} \cup Reconciled(job)
       \/ /\ ~flag
          /\ snap' = NoReport /\ job' \in Reconciled(job)
          /\ Goto("recover")
    /\ UNCHANGED <<command, flag, observed>>

refuse_unbound ==
    /\ At("open") /\ ~job.bound
    /\ \/ flag /\ End(Interrupted, "flag")
       \/ End(OutputFailure, "failure")
    /\ UNCHANGED <<command, job, snap, flag, observed>>

-----------------------------------------------------------------------------
(* Restartable recovery: recover_source.                                   *)

\* Mutant: a recorded completion is not looked for.
Traversed_exhausted_only == job.exhausted
\* A traversal that is complete, or whose retries an earlier run exhausted, is
\* not repeated: its completion is recorded and verify_recovery_source follows.
Traversed == job.completion \/ job.exhausted
reuse_completion ==
    /\ At("recover") /\ Traversed
    /\ job' = [job EXCEPT !.completion = TRUE, !.row = @ \/ flag]
    /\ IF flag THEN End(Interrupted, "flag") ELSE Goto("parts")
    /\ UNCHANGED <<command, snap, flag, observed>>

\* The first worker is spawned before the job directory is made; its hello may
\* arrive before the watchdog has seen the flag.  create_with_capture refuses a
\* directory that is not empty: JobError::ExistingJob.
spawn_worker ==
    /\ At("recover") /\ ~Traversed
    /\ \/ flag /\ End(Interrupted, "flag") /\ UNCHANGED job
       \/ job.bound /\ job' = [job EXCEPT !.row = FALSE] /\ Goto("traverse")
       \/ ~job.made /\ job' = [job EXCEPT !.made = TRUE] /\ Goto("bind")
       \/ job.made /\ ~job.bound /\ End(OutputFailure, "failure") /\ UNCHANGED job
    /\ UNCHANGED <<command, snap, flag, observed>>

\* bind_source, bind_recovery_mode, bind_configuration and clear_interrupted of
\* a new job: transactions of their own, after the directory is there.
bind_job ==
    /\ At("bind")
    /\ job' = [job EXCEPT !.bound = TRUE, !.row = FALSE] /\ Goto("traverse")
    /\ UNCHANGED <<command, snap, flag, observed>>

\* The traversal with its worker attempts; abort_worker_attempt keeps what is
\* durable.  The ledger is reopened after a failed attempt, and an interruption
\* seen there is returned before anything is recorded.
traverse ==
    /\ At("traverse")
    /\ \/ /\ job' \in {[job EXCEPT !.attempts = @ + 1, !.row = flag, !.exhausted = e] :
                        e \in IF flag THEN {FALSE} ELSE BOOLEAN}
          /\ observed' = flag
          /\ Goto(IF flag THEN "report" ELSE "recover_verify")
       \/ flag /\ End(Interrupted, "flag") /\ UNCHANGED <<job, observed>>
    /\ UNCHANGED <<command, snap, flag>>

verify_recovery_source ==
    /\ At("recover_verify")
    /\ \/ /\ flag
          /\ job' = [job EXCEPT !.row = TRUE]
          /\ \/ End(Interrupted, "flag") /\ UNCHANGED observed
             \/ observed' = TRUE /\ Goto("report")
       \/ /\ ~flag
          /\ job' = [job EXCEPT !.completion = TRUE]
          /\ Goto("parts") /\ UNCHANGED observed
    /\ UNCHANGED <<command, snap, flag>>

-----------------------------------------------------------------------------
(* Building parts.                                                         *)

finish_incremental_interruption ==
    /\ job' = [job EXCEPT !.row = TRUE]
    /\ observed' = TRUE /\ Goto("report")

\* split_recovered_job_with_interrupt: most checks end in
\* finish_incremental_interruption, the projection and the finalization of a
\* part return WriterError::Interrupted.
build_part ==
    /\ At("parts") /\ job.left > 0
    /\ \/ /\ flag /\ finish_incremental_interruption
       \/ /\ flag /\ End(Interrupted, "flag") /\ UNCHANGED <<job, observed>>
       \/ /\ ~flag /\ Goto("publish") /\ UNCHANGED <<job, observed>>
    /\ UNCHANGED <<command, snap, flag>>

\* publish_part_with_interrupt: check_interrupted before or after the intent
\* is recorded.
publish_part ==
    /\ At("publish")
    /\ \/ /\ ~flag
          /\ job' = [job EXCEPT !.left = @ - 1]
          /\ Goto(IF mode = "direct" THEN "attempt" ELSE "parts") /\ UNCHANGED observed
       \/ /\ flag /\ mode = "restartable"
          /\ \E recorded \in BOOLEAN : job' = [job EXCEPT !.intent = recorded]
          /\ End(OutputFailure, "flag") /\ UNCHANGED observed
       \/ /\ flag /\ mode = "direct"        \* reconcile_pending_publications
          /\ \E recorded \in BOOLEAN : \E j \in Reconciled([job EXCEPT !.intent = recorded]) :
                job' = [j EXCEPT !.row = TRUE]
          /\ observed' = TRUE /\ Goto("report")
       \/ /\ flag /\ job.completion /\ mode = "direct"   \* the folders of the last part
          /\ End(InternalFailure, "flag") /\ UNCHANGED <<job, observed>>
    /\ UNCHANGED <<command, snap, flag>>

finish_incremental_completion ==
    /\ At("parts") /\ job.left = 0
    /\ \/ /\ flag /\ finish_incremental_interruption    \* seen in the header pass
       \/ /\ job' = [job EXCEPT !.row = FALSE]
          /\ Goto("verify") /\ UNCHANGED observed
    /\ UNCHANGED <<command, snap, flag>>

-----------------------------------------------------------------------------
(* Direct splitting: split_direct_recovered_job.                           *)

direct_setup ==
    /\ At("setup")
    /\ \/ ~flag /\ Goto("attempt")
       \/ flag /\ \E code \in {InternalFailure, OutputFailure} : End(code, "flag")
    /\ UNCHANGED <<command, job, snap, flag, observed>>

\* One attempt; MAX_DIRECT_WORKER_ATTEMPTS is 1.  Every part but the last is
\* closed by the first message that does not fit; the last one is built when
\* the worker has finished and the completion is recorded.
terminal_failure == job' = [job EXCEPT !.terminal = TRUE, !.attempts = 1, !.exhausted = TRUE]
record_direct_interruption ==
    /\ job' = [job EXCEPT !.row = TRUE]
    /\ observed' = TRUE /\ Goto("report")

direct_part ==
    /\ At("attempt") /\ ~job.completion
    /\ \/ /\ ~flag
          /\ job' = [job EXCEPT !.completion = job.left = 1]
          /\ Goto("publish") /\ UNCHANGED observed
       \/ flag /\ record_direct_interruption     \* Recovery or Writer Interrupted
       \/ /\ flag                                \* Canonical or Translation around it
          /\ End(InternalFailure, "flag") /\ UNCHANGED <<job, observed>>
       \/ /\ flag                  \* the worker is gone before the watchdog polls
          /\ terminal_failure /\ Goto("verify") /\ UNCHANGED observed
    /\ UNCHANGED <<command, snap, flag>>

\* A worker crash, stall or protocol failure.
direct_worker_failure ==
    /\ At("attempt") /\ ~job.completion
    /\ failures < MaxFailures /\ failures' = failures + 1
    /\ terminal_failure /\ Goto("verify")
    /\ UNCHANGED <<mode, keep, snap, flag, observed, signals>>

direct_finish ==
    /\ At("attempt") /\ job.completion
    /\ job' = [job EXCEPT !.attempts = 1]
    /\ Goto("verify")
    /\ UNCHANGED <<command, snap, flag, observed>>

-----------------------------------------------------------------------------
(* The end of a split.                                                     *)

verify_unchanged ==
    /\ At("verify")
    /\ IF flag /\ mode = "direct" THEN End(SourceFailure, "flag") /\ UNCHANGED observed
       ELSE /\ observed' = flag
            /\ Goto(IF flag \/ job.terminal THEN "report" ELSE "finalize")
    /\ UNCHANGED <<command, job, snap, flag>>

\* Mutant: a pending compaction is taken for an inconsistency.
Cleaned_refuses_pending == IF keep THEN {job.work}
                           ELSE IF job.work = "cleaning" THEN {} ELSE {"removed"}
\* Mutant: the payload is never removed.
Cleaned_never == {job.work}
\* finalize_private_work_expected: with --keep-work it returns before it looks
\* at a compaction an earlier run left pending.
Unfinished == job.left > 0 \/ job.intent
Cleaned == IF keep THEN {job.work} ELSE {"removed"}
\* Stopped half way, the rows are gone and the compaction is pending.
HalfCleaned == IF keep \/ job.work = "removed" THEN {job.work} ELSE {job.work, "cleaning"}

finalize_private_work ==
    /\ At("finalize")
    /\ \/ /\ ~flag
          /\ IF Unfinished \/ Cleaned = {}
             THEN End(OutputFailure, "failure") /\ UNCHANGED job
             ELSE /\ \E work \in Cleaned : job' = [job EXCEPT !.work = work]
                  /\ Goto("report")
          /\ UNCHANGED observed
       \/ /\ flag
          /\ \E work \in HalfCleaned : job' = [job EXCEPT !.work = work]
          /\ IF mode = "direct" THEN End(OutputFailure, "flag") /\ UNCHANGED observed
             ELSE observed' = TRUE /\ Goto("report")
    /\ UNCHANGED <<command, snap, flag>>

-----------------------------------------------------------------------------
(* The environment.                                                        *)

Signal ==
    /\ stage # "ended" /\ ~flag /\ signals < MaxSignals
    /\ flag' = TRUE /\ signals' = signals + 1
    /\ UNCHANGED <<mode, keep, job, snap, observed, stage, exit, cause, failures>>

\* A killed process, an I/O error or a changed source ends the invocation; a
\* publication or the clean-up may be half done.
Failure ==
    /\ stage # "ended" /\ failures < MaxFailures /\ failures' = failures + 1
    /\ \E code \in {Killed, SourceFailure, OutputFailure} : End(code, "failure")
    /\ \/ UNCHANGED job
       \/ At("publish") /\ job' = [job EXCEPT !.intent = TRUE]
       \/ At("finalize") /\ \E work \in HalfCleaned : job' = [job EXCEPT !.work = work]
    /\ UNCHANGED <<mode, keep, snap, flag, observed, signals>>

\* The operator resumes a restartable job that has not succeeded.
Rerun ==
    /\ At("ended") /\ exit \notin {0, 1} /\ mode = "restartable"
    /\ stage' = "start" /\ exit' = Running /\ cause' = "none"
    /\ keep' \in BOOLEAN /\ flag' = FALSE /\ observed' = FALSE
    /\ UNCHANGED <<mode, job, snap, signals, failures>>

Over == At("ended") /\ (exit \in {0, 1} \/ mode = "direct") /\ UNCHANGED vars

Work ==
    \/ open_source \/ open_restartable_resume \/ refuse_unbound \/ reuse_completion
    \/ spawn_worker \/ bind_job \/ traverse \/ verify_recovery_source \/ build_part
    \/ publish_part
    \/ finish_incremental_completion \/ direct_setup \/ direct_part \/ direct_finish
    \/ verify_unchanged \/ finalize_private_work \/ report

Next == Work \/ Rerun \/ direct_worker_failure \/ Signal \/ Failure \/ Over
Spec == Init /\ [][Next]_vars
\* The command goes on by itself, and the operator runs it again.
FairSpec == Spec /\ WF_vars(Work) /\ WF_vars(Rerun)

-----------------------------------------------------------------------------
(* Properties.                                                             *)

\* Exit status 0 or 1 is earned: every item is in a published part, nothing is
\* half published, the traversal was recorded as complete, no interruption is
\* left in the ledger, the payload is gone unless it was asked for, and the
\* stored report can be read back.  The only other way to status 1 is a direct
\* run whose worker failed.
SuccessIsEarned ==
    exit \in {0, 1} =>
        /\ ReportAccepted
        /\ \/ job.terminal /\ exit = 1 /\ mode = "direct"
           \/ /\ job.left = 0 /\ ~job.intent /\ job.completion /\ ~job.row
              /\ keep \/ job.work = "removed"

\* A restartable job never parses the source again once its traversal has been
\* recorded as complete, whatever stopped the runs since.
ParsedOnce ==
    [][mode = "restartable" /\ job.completion => job'.attempts = job.attempts]_vars

\* The job directory of an invocation that ended between create_with_capture
\* and the last of the bind_* calls: neither --resume nor a new run accepts it.
Unresumable == At("ended") /\ job.made /\ ~job.bound

\* A restartable job that is run again after every interruption and failure
\* succeeds in the end, unless a run was stopped while the job was being made:
\* once its bindings are recorded nothing makes it unresumable.
SplitFinishes == <>(mode = "restartable" => exit \in {0, 1} \/ Unresumable)

=============================================================================
