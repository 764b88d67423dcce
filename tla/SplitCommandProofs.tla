------------------------- MODULE SplitCommandProofs -------------------------
(***************************************************************************)
(* An exit status of 0 or 1 is earned, and a complete traversal is never   *)
(* repeated, for every number of parts, signals and failures.              *)
(*                                                                         *)
(* What a stage may rely on was established by the stages before it, some  *)
(* of them in an earlier invocation; Established says what that is.        *)
(***************************************************************************)
EXTENDS SplitCommand, TLAPS

RestartableStages == {"open", "recover", "bind", "traverse", "recover_verify", "parts"}
DirectStages == {"setup", "attempt"}
Stages == {"start", "publish", "verify", "finalize", "report", "ended"}
            \cup RestartableStages \cup DirectStages

Jobs ==
    [made : BOOLEAN, bound : BOOLEAN, left : Nat, intent : BOOLEAN, row : BOOLEAN,
     attempts : Nat, exhausted : BOOLEAN, completion : BOOLEAN, terminal : BOOLEAN,
     work : {"kept", "cleaning", "removed"}]

JobType == job \in Jobs
OptionType == /\ mode \in {"restartable", "direct"} /\ keep \in BOOLEAN
              /\ flag \in BOOLEAN /\ observed \in BOOLEAN
StageType == stage \in Stages /\ exit \in Int /\ (stage # "ended" => exit = Running)
TypeOK == JobType /\ OptionType /\ StageType

\* Each mode has its stages, and only a direct job fails for good.
ModeStages ==
    /\ stage \in RestartableStages => mode = "restartable"
    /\ stage \in DirectStages => mode = "direct"
    /\ job.terminal => mode = "direct" /\ stage \in {"verify", "report", "ended"}

\* An intent is there for a part that is not published, and only until the
\* next invocation has opened the job.
Intents ==
    job.intent => /\ job.left > 0 /\ job.bound
                  /\ stage \in {"start", "open", "ended"}
                  /\ stage = "start" => mode = "restartable"

\* A direct job counts its parts down to the completion.
DirectCount ==
    mode = "direct" =>
        /\ stage \in {"start", "setup"} =>
              ~job.completion /\ ~job.row /\ ~job.terminal /\ job.left > 0
        /\ stage = "attempt" => (job.completion <=> job.left = 0)
        /\ stage = "publish" => (job.completion <=> job.left = 1)
        /\ stage \in {"attempt", "publish", "verify", "finalize"} => ~job.row
        /\ stage \in {"verify", "finalize"} => job.attempts = 1
        /\ stage = "report" /\ ~observed => job.attempts = 1

\* What the stages of both modes rely on.
Established ==
    /\ stage \notin {"start", "open", "recover", "bind", "ended"} => job.bound
    /\ job.completion \/ job.exhausted => job.bound
    /\ job.bound => job.made
    /\ stage = "bind" => job.made /\ ~job.bound
    /\ stage = "publish" => job.left > 0
    /\ stage = "publish" /\ mode = "restartable" => job.completion
    /\ stage = "traverse" => ~job.completion
    /\ stage = "parts" => job.completion
    /\ stage = "verify" => ~job.row /\ (job.completion \/ job.terminal)
    /\ stage = "finalize" => ~job.row /\ job.completion /\ ~job.terminal

Earned ==
    /\ job.left = 0 /\ ~job.intent /\ job.completion /\ ~job.row
    /\ keep \/ job.work = "removed"

\* A report that is about to say that the split was not interrupted.
Reportable ==
    stage = "report" /\ ~observed => ~job.row /\ (job.terminal \/ Earned)

Inv == /\ TypeOK /\ ModeStages /\ Intents /\ DirectCount /\ Established /\ Reportable
       /\ SuccessIsEarned

USE DEF Stages, RestartableStages, DirectStages, At, Goto, End, command, Running, Killed,
        Interrupted, SourceFailure, OutputFailure, InternalFailure

LEMMA InitInv == Init => Inv
<1> SUFFICES ASSUME Init PROVE Inv
  OBVIOUS
<1>1. JobType
  BY BoundAssumption DEF Init, JobType, Jobs
<1>2. OptionType
  BY ModeAssumption DEF Init, OptionType
<1>3. StageType
  BY DEF Init, StageType
<1>4. ModeStages /\ Intents
  BY DEF Init, ModeStages, Intents
<1>5. DirectCount
  BY BoundAssumption DEF Init, DirectCount
<1>6. Established /\ Reportable
  BY DEF Init, Established, Reportable
<1>7. SuccessIsEarned
  BY DEF Init, SuccessIsEarned
<1> QED
  BY <1>1, <1>2, <1>3, <1>4, <1>5, <1>6, <1>7 DEF Inv, TypeOK

\* Reconciliation removes the intent and publishes at most the part it names.
LEMMA ReconciledJob ==
  ASSUME NEW j \in Jobs, j.intent => j.left > 0, NEW k \in Reconciled(j)
  PROVE  /\ k \in Jobs /\ ~k.intent /\ k.exhausted = j.exhausted
         /\ k.made = j.made /\ k.bound = j.bound /\ k.row = j.row /\ k.attempts = j.attempts
         /\ k.completion = j.completion /\ k.terminal = j.terminal
<1>1. CASE j.intent /\ k = [j EXCEPT !.intent = FALSE]
  BY <1>1 DEF Jobs
<1>2. CASE j.intent /\ k = [j EXCEPT !.intent = FALSE, !.left = @ - 1]
  <2>1. j.left - 1 \in Nat
    BY <1>2 DEF Jobs
  <2> QED
    BY <1>2, <2>1 DEF Jobs
<1>3. CASE ~j.intent /\ k = j
  BY <1>3
<1> QED
  BY <1>1, <1>2, <1>3 DEF Reconciled

-----------------------------------------------------------------------------
(* One lemma for every step.                                               *)

LEMMA OpenSourceInv == ASSUME Inv, open_source PROVE Inv'
<1> USE DEF Inv, TypeOK, open_source, EntryStages
<1>1. JobType'
  BY DEF JobType, Jobs
<1>2. OptionType'
  BY DEF OptionType
<1>3. StageType'
  BY DEF OptionType, StageType
<1> USE DEF JobType, Jobs, StageType, ModeStages
<1>4. ModeStages' /\ Intents'
  BY DEF OptionType, Intents, DirectCount, Established
<1>5. DirectCount' /\ Established'
  BY DEF OptionType, DirectCount, Intents, Established
<1>6. Reportable'
  BY DEF OptionType, Intents, DirectCount, Established, Reportable, Earned
<1>7. SuccessIsEarned'
  BY DEF OptionType, DirectCount, Reportable, Earned, SuccessIsEarned
<1> QED
  BY ONLY <1>1, <1>2, <1>3, <1>4, <1>5, <1>6, <1>7 DEF Inv, TypeOK

LEMMA ReuseCompletionInv == ASSUME Inv, reuse_completion PROVE Inv'
<1> USE DEF Inv, TypeOK, reuse_completion, Traversed
<1>1. JobType'
  BY DEF JobType, Jobs
<1>2. OptionType'
  BY DEF OptionType
<1>3. StageType'
  BY DEF OptionType, StageType
<1> USE DEF JobType, Jobs, StageType, ModeStages
<1>4. ModeStages' /\ Intents'
  BY DEF OptionType, Intents, DirectCount, Established
<1>5. DirectCount' /\ Established'
  BY DEF OptionType, DirectCount, Intents, Established
<1>6. Reportable'
  BY DEF OptionType, Intents, DirectCount, Established, Reportable, Earned
<1>7. SuccessIsEarned'
  BY DEF OptionType, DirectCount, Reportable, Earned, SuccessIsEarned
<1> QED
  BY ONLY <1>1, <1>2, <1>3, <1>4, <1>5, <1>6, <1>7 DEF Inv, TypeOK

LEMMA SpawnWorkerInv == ASSUME Inv, spawn_worker PROVE Inv'
<1> USE DEF Inv, TypeOK, spawn_worker, Traversed
<1>1. JobType'
  BY DEF JobType, Jobs
<1>2. OptionType'
  BY DEF OptionType
<1>3. StageType'
  BY DEF OptionType, StageType
<1> USE DEF JobType, Jobs, StageType, ModeStages
<1>4. ModeStages' /\ Intents'
  BY DEF OptionType, Intents, DirectCount, Established
<1>5. DirectCount' /\ Established'
  BY DEF OptionType, DirectCount, Intents, Established
<1>6. Reportable'
  BY DEF OptionType, Intents, DirectCount, Established, Reportable, Earned
<1>7. SuccessIsEarned'
  BY DEF OptionType, DirectCount, Reportable, Earned, SuccessIsEarned
<1> QED
  BY ONLY <1>1, <1>2, <1>3, <1>4, <1>5, <1>6, <1>7 DEF Inv, TypeOK

LEMMA BindJobInv == ASSUME Inv, bind_job PROVE Inv'
<1> USE DEF Inv, TypeOK, bind_job
<1>1. JobType'
  BY DEF JobType, Jobs
<1>2. OptionType'
  BY DEF OptionType
<1>3. StageType'
  BY DEF OptionType, StageType
<1> USE DEF JobType, Jobs, StageType, ModeStages
<1>4. ModeStages' /\ Intents'
  BY DEF OptionType, Intents, DirectCount, Established
<1>5. DirectCount' /\ Established'
  BY DEF OptionType, DirectCount, Intents, Established
<1>6. Reportable'
  BY DEF OptionType, Intents, DirectCount, Established, Reportable, Earned
<1>7. SuccessIsEarned'
  BY DEF OptionType, DirectCount, Reportable, Earned, SuccessIsEarned
<1> QED
  BY ONLY <1>1, <1>2, <1>3, <1>4, <1>5, <1>6, <1>7 DEF Inv, TypeOK

LEMMA RefuseUnboundInv == ASSUME Inv, refuse_unbound PROVE Inv'
<1> USE DEF Inv, TypeOK, refuse_unbound
<1>1. JobType'
  BY DEF JobType, Jobs
<1>2. OptionType'
  BY DEF OptionType
<1>3. StageType'
  BY DEF OptionType, StageType
<1> USE DEF JobType, Jobs, StageType, ModeStages
<1>4. ModeStages' /\ Intents'
  BY DEF OptionType, Intents, DirectCount, Established
<1>5. DirectCount' /\ Established'
  BY DEF OptionType, DirectCount, Intents, Established
<1>6. Reportable'
  BY DEF OptionType, Intents, DirectCount, Established, Reportable, Earned
<1>7. SuccessIsEarned'
  BY DEF OptionType, DirectCount, Reportable, Earned, SuccessIsEarned
<1> QED
  BY ONLY <1>1, <1>2, <1>3, <1>4, <1>5, <1>6, <1>7 DEF Inv, TypeOK

LEMMA VerifyRecoveryInv == ASSUME Inv, verify_recovery_source PROVE Inv'
<1> USE DEF Inv, TypeOK, verify_recovery_source
<1>1. JobType'
  BY DEF JobType, Jobs
<1>2. OptionType'
  BY DEF OptionType
<1>3. StageType'
  BY DEF OptionType, StageType
<1> USE DEF JobType, Jobs, StageType, ModeStages
<1>4. ModeStages' /\ Intents'
  BY DEF OptionType, Intents, DirectCount, Established
<1>5. DirectCount' /\ Established'
  BY DEF OptionType, DirectCount, Intents, Established
<1>6. Reportable'
  BY DEF OptionType, Intents, DirectCount, Established, Reportable, Earned
<1>7. SuccessIsEarned'
  BY DEF OptionType, DirectCount, Reportable, Earned, SuccessIsEarned
<1> QED
  BY ONLY <1>1, <1>2, <1>3, <1>4, <1>5, <1>6, <1>7 DEF Inv, TypeOK

LEMMA BuildPartInv == ASSUME Inv, build_part PROVE Inv'
<1> USE DEF Inv, TypeOK, build_part, finish_incremental_interruption
<1>1. JobType'
  BY DEF JobType, Jobs
<1>2. OptionType'
  BY DEF OptionType
<1>3. StageType'
  BY DEF OptionType, StageType
<1> USE DEF JobType, Jobs, StageType, ModeStages
<1>4. ModeStages' /\ Intents'
  BY DEF OptionType, Intents, DirectCount, Established
<1>5. DirectCount' /\ Established'
  BY DEF OptionType, DirectCount, Intents, Established
<1>6. Reportable'
  BY DEF OptionType, Intents, DirectCount, Established, Reportable, Earned
<1>7. SuccessIsEarned'
  BY DEF OptionType, DirectCount, Reportable, Earned, SuccessIsEarned
<1> QED
  BY ONLY <1>1, <1>2, <1>3, <1>4, <1>5, <1>6, <1>7 DEF Inv, TypeOK

LEMMA FinishIncrementalInv == ASSUME Inv, finish_incremental_completion PROVE Inv'
<1> USE DEF Inv, TypeOK, finish_incremental_completion, finish_incremental_interruption
<1>1. JobType'
  BY DEF JobType, Jobs
<1>2. OptionType'
  BY DEF OptionType
<1>3. StageType'
  BY DEF OptionType, StageType
<1> USE DEF JobType, Jobs, StageType, ModeStages
<1>4. ModeStages' /\ Intents'
  BY DEF OptionType, Intents, DirectCount, Established
<1>5. DirectCount' /\ Established'
  BY DEF OptionType, DirectCount, Intents, Established
<1>6. Reportable'
  BY DEF OptionType, Intents, DirectCount, Established, Reportable, Earned
<1>7. SuccessIsEarned'
  BY DEF OptionType, DirectCount, Reportable, Earned, SuccessIsEarned
<1> QED
  BY ONLY <1>1, <1>2, <1>3, <1>4, <1>5, <1>6, <1>7 DEF Inv, TypeOK

LEMMA DirectSetupInv == ASSUME Inv, direct_setup PROVE Inv'
<1> USE DEF Inv, TypeOK, direct_setup
<1>1. JobType'
  BY DEF JobType, Jobs
<1>2. OptionType'
  BY DEF OptionType
<1>3. StageType'
  BY DEF OptionType, StageType
<1> USE DEF JobType, Jobs, StageType, ModeStages
<1>4. ModeStages' /\ Intents'
  BY DEF OptionType, Intents, DirectCount, Established
<1>5. DirectCount' /\ Established'
  BY DEF OptionType, DirectCount, Intents, Established
<1>6. Reportable'
  BY DEF OptionType, Intents, DirectCount, Established, Reportable, Earned
<1>7. SuccessIsEarned'
  BY DEF OptionType, DirectCount, Reportable, Earned, SuccessIsEarned
<1> QED
  BY ONLY <1>1, <1>2, <1>3, <1>4, <1>5, <1>6, <1>7 DEF Inv, TypeOK

LEMMA DirectFailureInv == ASSUME Inv, direct_worker_failure PROVE Inv'
<1> USE DEF Inv, TypeOK, direct_worker_failure, terminal_failure
<1>1. JobType'
  BY DEF JobType, Jobs
<1>2. OptionType'
  BY DEF OptionType
<1>3. StageType'
  BY DEF OptionType, StageType
<1> USE DEF JobType, Jobs, StageType, ModeStages
<1>4. ModeStages' /\ Intents'
  BY DEF OptionType, Intents, DirectCount, Established
<1>5. DirectCount' /\ Established'
  BY DEF OptionType, DirectCount, Intents, Established
<1>6. Reportable'
  BY DEF OptionType, Intents, DirectCount, Established, Reportable, Earned
<1>7. SuccessIsEarned'
  BY DEF OptionType, DirectCount, Reportable, Earned, SuccessIsEarned
<1> QED
  BY ONLY <1>1, <1>2, <1>3, <1>4, <1>5, <1>6, <1>7 DEF Inv, TypeOK

LEMMA DirectFinishInv == ASSUME Inv, direct_finish PROVE Inv'
<1> USE DEF Inv, TypeOK, direct_finish
<1>1. JobType'
  BY DEF JobType, Jobs
<1>2. OptionType'
  BY DEF OptionType
<1>3. StageType'
  BY DEF OptionType, StageType
<1> USE DEF JobType, Jobs, StageType, ModeStages
<1>4. ModeStages' /\ Intents'
  BY DEF OptionType, Intents, DirectCount, Established
<1>5. DirectCount' /\ Established'
  BY DEF OptionType, DirectCount, Intents, Established
<1>6. Reportable'
  BY DEF OptionType, Intents, DirectCount, Established, Reportable, Earned
<1>7. SuccessIsEarned'
  BY DEF OptionType, DirectCount, Reportable, Earned, SuccessIsEarned
<1> QED
  BY ONLY <1>1, <1>2, <1>3, <1>4, <1>5, <1>6, <1>7 DEF Inv, TypeOK

LEMMA VerifyUnchangedInv == ASSUME Inv, verify_unchanged PROVE Inv'
<1> USE DEF Inv, TypeOK, verify_unchanged
<1>1. JobType'
  BY DEF JobType, Jobs
<1>2. OptionType'
  BY DEF OptionType
<1>3. StageType'
  BY DEF OptionType, StageType
<1> USE DEF JobType, Jobs, StageType, ModeStages
<1>4. ModeStages' /\ Intents'
  BY DEF OptionType, Intents, DirectCount, Established
<1>5. DirectCount' /\ Established'
  BY DEF OptionType, DirectCount, Intents, Established
<1>6. Reportable'
  BY DEF OptionType, Intents, DirectCount, Established, Reportable, Earned
<1>7. SuccessIsEarned'
  BY DEF OptionType, DirectCount, Reportable, Earned, SuccessIsEarned
<1> QED
  BY ONLY <1>1, <1>2, <1>3, <1>4, <1>5, <1>6, <1>7 DEF Inv, TypeOK

LEMMA FinalizeWorkInv == ASSUME Inv, finalize_private_work PROVE Inv'
<1> USE DEF Inv, TypeOK, finalize_private_work, Unfinished, Cleaned, HalfCleaned
<1>1. JobType'
  BY DEF JobType, Jobs
<1>2. OptionType'
  BY DEF OptionType
<1>3. StageType'
  BY DEF OptionType, StageType
<1> USE DEF JobType, Jobs, StageType, ModeStages
<1>4. ModeStages' /\ Intents'
  BY DEF OptionType, Intents, DirectCount, Established
<1>5. DirectCount' /\ Established'
  BY DEF OptionType, DirectCount, Intents, Established
<1>6. Reportable'
  BY DEF OptionType, Intents, DirectCount, Established, Reportable, Earned
<1>7. SuccessIsEarned'
  BY DEF OptionType, DirectCount, Reportable, Earned, SuccessIsEarned
<1> QED
  BY ONLY <1>1, <1>2, <1>3, <1>4, <1>5, <1>6, <1>7 DEF Inv, TypeOK

LEMMA ReportInv == ASSUME Inv, report PROVE Inv'
<1> USE DEF Inv, TypeOK, report, publish_report_artifacts, ReportAccepted, Evidence, NoReport
<1>1. JobType'
  BY DEF JobType, Jobs
<1>2. OptionType'
  BY DEF OptionType
<1>3. StageType'
  BY DEF OptionType, StageType
<1> USE DEF JobType, Jobs, StageType, ModeStages
<1>4. ModeStages' /\ Intents'
  BY DEF OptionType, Intents, DirectCount, Established
<1>5. DirectCount' /\ Established'
  BY DEF OptionType, DirectCount, Intents, Established
<1>6. Reportable'
  BY DEF OptionType, Intents, DirectCount, Established, Reportable, Earned
<1>7. SuccessIsEarned'
  BY DEF OptionType, DirectCount, Reportable, Earned, SuccessIsEarned
<1> QED
  BY ONLY <1>1, <1>2, <1>3, <1>4, <1>5, <1>6, <1>7 DEF Inv, TypeOK

LEMMA SignalInv == ASSUME Inv, Signal PROVE Inv'
<1> USE DEF Inv, TypeOK, Signal, ReportAccepted, Evidence
<1>1. JobType'
  BY DEF JobType, Jobs
<1>2. OptionType'
  BY DEF OptionType
<1>3. StageType'
  BY DEF OptionType, StageType
<1> USE DEF JobType, Jobs, StageType, ModeStages
<1>4. ModeStages' /\ Intents'
  BY DEF OptionType, Intents, DirectCount, Established
<1>5. DirectCount' /\ Established'
  BY DEF OptionType, DirectCount, Intents, Established
<1>6. Reportable'
  BY DEF OptionType, Intents, DirectCount, Established, Reportable, Earned
<1>7. SuccessIsEarned'
  BY DEF OptionType, DirectCount, Reportable, Earned, SuccessIsEarned
<1> QED
  BY ONLY <1>1, <1>2, <1>3, <1>4, <1>5, <1>6, <1>7 DEF Inv, TypeOK

LEMMA FailureInv == ASSUME Inv, Failure PROVE Inv'
<1> USE DEF Inv, TypeOK, Failure, HalfCleaned
<1>1. JobType'
  BY DEF JobType, Jobs
<1>2. OptionType'
  BY DEF OptionType
<1>3. StageType'
  BY DEF OptionType, StageType
<1> USE DEF JobType, Jobs, StageType, ModeStages
<1>4. ModeStages' /\ Intents'
  <2>1. CASE UNCHANGED job
    BY <2>1 DEF Intents
  <2>2. CASE stage = "publish" /\ job' = [job EXCEPT !.intent = TRUE]
    BY <2>2 DEF Intents, Established
  <2>3. CASE stage = "finalize" /\ \E work \in HalfCleaned : job' = [job EXCEPT !.work = work]
    BY <2>3 DEF Intents
  <2> QED
    BY <2>1, <2>2, <2>3
<1>5. DirectCount' /\ Established'
  BY DEF OptionType, DirectCount, Intents, Established
<1>6. Reportable'
  BY DEF OptionType, Intents, DirectCount, Established, Reportable, Earned
<1>7. SuccessIsEarned'
  BY DEF OptionType, DirectCount, Reportable, Earned, SuccessIsEarned
<1> QED
  BY ONLY <1>1, <1>2, <1>3, <1>4, <1>5, <1>6, <1>7 DEF Inv, TypeOK

LEMMA RerunInv == ASSUME Inv, Rerun PROVE Inv'
<1> USE DEF Inv, TypeOK, Rerun, ReportAccepted
<1>1. JobType'
  BY DEF JobType, Jobs
<1>2. OptionType'
  BY DEF OptionType
<1>3. StageType'
  BY DEF OptionType, StageType
<1> USE DEF JobType, Jobs, StageType, ModeStages
<1>4. ModeStages' /\ Intents'
  BY DEF OptionType, Intents, DirectCount, Established
<1>5. DirectCount' /\ Established'
  BY DEF OptionType, DirectCount, Intents, Established
<1>6. Reportable'
  BY DEF OptionType, Intents, DirectCount, Established, Reportable, Earned
<1>7. SuccessIsEarned'
  BY DEF OptionType, DirectCount, Reportable, Earned, SuccessIsEarned
<1> QED
  BY ONLY <1>1, <1>2, <1>3, <1>4, <1>5, <1>6, <1>7 DEF Inv, TypeOK

LEMMA OpenResumeInv == ASSUME Inv, open_restartable_resume PROVE Inv'
<1> USE DEF Inv, TypeOK, open_restartable_resume
<1>1. job' = job \/ job' \in Reconciled(job)
  OBVIOUS
<1>2. /\ JobType' /\ job'.made = job.made /\ job'.bound = job.bound /\ job'.row = job.row
      /\ job'.attempts = job.attempts /\ job'.completion = job.completion
      /\ job'.terminal = job.terminal /\ job'.exhausted = job.exhausted
  BY <1>1, ReconciledJob DEF JobType, Intents
<1>3. stage' = "recover" => job'.intent = FALSE
  BY ReconciledJob DEF JobType, Jobs, Intents
<1>4. ~job'.intent \/ job' = job
  BY <1>1, ReconciledJob DEF JobType, Intents
<1>5. OptionType'
  BY DEF OptionType
<1>6. StageType'
  BY DEF OptionType, StageType
<1>7. ModeStages' /\ Intents'
  BY <1>2, <1>3, <1>4 DEF ModeStages, Intents, Established
<1>8. DirectCount' /\ Established'
  BY <1>2 DEF ModeStages, DirectCount, Established
<1>9. Reportable' /\ SuccessIsEarned'
  BY DEF Reportable, SuccessIsEarned, StageType
<1> QED
  BY ONLY <1>2, <1>5, <1>6, <1>7, <1>8, <1>9 DEF Inv, TypeOK

LEMMA TraverseInv == ASSUME Inv, traverse PROVE Inv'
<1> USE DEF Inv, TypeOK
<1>1. CASE flag /\ End(Interrupted, "flag") /\ UNCHANGED <<job, observed>>
  BY <1>1 DEF traverse, JobType, Jobs, OptionType, StageType, ModeStages, Intents, DirectCount,
              Established, Reportable, SuccessIsEarned
<1>2. ASSUME NEW e \in BOOLEAN,
             job' = [job EXCEPT !.attempts = @ + 1, !.row = flag, !.exhausted = e],
             observed' = flag, Goto(IF flag THEN "report" ELSE "recover_verify")
      PROVE  Inv'
  <2>1. /\ stage = "traverse" /\ mode = "restartable" /\ exit = Running /\ ~job.terminal
        /\ UNCHANGED <<command, snap, flag>>
    BY DEF traverse, ModeStages, StageType
  <2>2. job.attempts + 1 \in Nat
    BY DEF JobType, Jobs
  <2>3. /\ JobType' /\ job'.made = job.made /\ job'.bound = job.bound
        /\ job'.left = job.left /\ job'.intent = job.intent
        /\ job'.completion = job.completion /\ job'.terminal = job.terminal
    BY <1>2, <2>2 DEF JobType, Jobs, OptionType
  <2>4. OptionType' /\ StageType'
    BY <1>2, <2>1 DEF OptionType, StageType
  <2>5. ModeStages' /\ Intents'
    BY <1>2, <2>1, <2>3 DEF ModeStages, Intents
  <2>6. DirectCount' /\ Established' /\ Reportable'
    BY <1>2, <2>1, <2>3 DEF DirectCount, Established, Reportable
  <2>7. SuccessIsEarned'
    BY <1>2, <2>1 DEF SuccessIsEarned
  <2> QED
    BY ONLY <2>3, <2>4, <2>5, <2>6, <2>7 DEF Inv, TypeOK
<1> QED
  BY <1>1, <1>2 DEF traverse

LEMMA PublishPartInv == ASSUME Inv, publish_part PROVE Inv'
<1> USE DEF Inv, TypeOK, JobType, OptionType, StageType
<1>1. /\ stage = "publish" /\ exit = Running /\ job \in Jobs /\ job.left > 0
      /\ job.made /\ job.bound /\ ~job.intent /\ ~job.terminal /\ UNCHANGED <<command, snap, flag>>
  BY DEF publish_part, ModeStages, Intents, Established
<1>2. CASE /\ ~flag /\ job' = [job EXCEPT !.left = @ - 1]
           /\ Goto(IF mode = "direct" THEN "attempt" ELSE "parts") /\ UNCHANGED observed
  <2>1. job.left - 1 \in Nat
    BY <1>1 DEF Jobs
  <2>2. JobType' /\ job'.left = job.left - 1 /\ job'.intent = job.intent
        /\ job'.made = job.made /\ job'.bound = job.bound
        /\ job'.row = job.row /\ job'.completion = job.completion
        /\ job'.terminal = job.terminal
    BY <1>1, <1>2, <2>1 DEF Jobs
  <2>3. OptionType' /\ StageType'
    BY <1>1, <1>2
  <2>4. ModeStages' /\ Intents'
    BY <1>1, <1>2, <2>2 DEF ModeStages, Intents
  <2>5. DirectCount'
    BY <1>1, <1>2, <2>1, <2>2 DEF DirectCount, Jobs
  <2>6. Established'
    BY <1>1, <1>2, <2>2 DEF Established
  <2>7. Reportable' /\ SuccessIsEarned'
    BY <1>1, <1>2 DEF Reportable, SuccessIsEarned
  <2> QED
    BY ONLY <2>2, <2>3, <2>4, <2>5, <2>6, <2>7 DEF Inv, TypeOK
<1>3. ASSUME flag, mode = "restartable", NEW recorded \in BOOLEAN,
             job' = [job EXCEPT !.intent = recorded], End(OutputFailure, "flag"),
             UNCHANGED observed
      PROVE  Inv'
  <2>1. JobType' /\ job'.left = job.left /\ job'.made = job.made /\ job'.bound = job.bound
        /\ job'.completion = job.completion /\ job'.terminal = job.terminal
    BY <1>1, <1>3 DEF Jobs
  <2>2. OptionType' /\ StageType'
    BY <1>1, <1>3
  <2>3. ModeStages' /\ Intents' /\ DirectCount' /\ Established' /\ Reportable'
    BY <1>1, <1>3, <2>1 DEF ModeStages, Intents, DirectCount, Established, Reportable
  <2>4. SuccessIsEarned'
    BY <1>3 DEF SuccessIsEarned
  <2> QED
    BY ONLY <2>1, <2>2, <2>3, <2>4 DEF Inv, TypeOK
<1>4. ASSUME flag, mode = "direct", NEW recorded \in BOOLEAN,
             NEW j \in Reconciled([job EXCEPT !.intent = recorded]),
             job' = [j EXCEPT !.row = TRUE], observed' = TRUE, Goto("report")
      PROVE  Inv'
  <2>1. [job EXCEPT !.intent = recorded] \in Jobs
        /\ [job EXCEPT !.intent = recorded].left > 0
    BY <1>1, <1>4 DEF Jobs
  <2>2. j \in Jobs /\ ~j.intent /\ j.made /\ j.bound /\ ~j.terminal
    BY <1>1, <2>1, <1>4, ReconciledJob DEF Jobs
  <2>3. JobType' /\ ~job'.intent /\ job'.made /\ job'.bound /\ ~job'.terminal
    BY <1>4, <2>2 DEF Jobs
  <2>4. OptionType' /\ StageType'
    BY <1>1, <1>4
  <2>5. ModeStages' /\ Intents' /\ DirectCount' /\ Established' /\ Reportable'
    BY <1>1, <1>4, <2>3 DEF ModeStages, Intents, DirectCount, Established, Reportable
  <2>6. SuccessIsEarned'
    BY <1>1, <1>4 DEF SuccessIsEarned
  <2> QED
    BY ONLY <2>3, <2>4, <2>5, <2>6 DEF Inv, TypeOK
<1>5. CASE flag /\ mode = "direct" /\ End(InternalFailure, "flag") /\ UNCHANGED <<job, observed>>
  <2>1. TypeOK'
    BY <1>1, <1>5
  <2>2. ModeStages' /\ Intents' /\ DirectCount' /\ Established' /\ Reportable'
    BY <1>1, <1>5 DEF ModeStages, Intents, DirectCount, Established, Reportable
  <2>3. SuccessIsEarned'
    BY <1>5 DEF SuccessIsEarned
  <2> QED
    BY ONLY <2>1, <2>2, <2>3 DEF Inv
<1> QED
  BY ONLY publish_part, <1>2, <1>3, <1>4, <1>5 DEF publish_part

LEMMA DirectPartInv == ASSUME Inv, direct_part PROVE Inv'
<1> USE DEF Inv, TypeOK, JobType, OptionType, StageType
<1>1. /\ stage = "attempt" /\ exit = Running /\ job \in Jobs /\ ~job.completion /\ job.left > 0
      /\ ~job.intent /\ ~job.terminal /\ ~job.row /\ job.made /\ job.bound /\ mode = "direct"
      /\ UNCHANGED <<command, snap, flag>>
  BY DEF direct_part, ModeStages, Intents, DirectCount, Established, Jobs
<1>2. CASE /\ ~flag /\ job' = [job EXCEPT !.completion = job.left = 1]
           /\ Goto("publish") /\ UNCHANGED observed
  <2>1. JobType' /\ job'.left = job.left /\ job'.intent = job.intent /\ job'.row = job.row
        /\ job'.made = job.made /\ job'.bound = job.bound /\ job'.terminal = job.terminal
        /\ (job'.completion <=> job.left = 1)
    BY <1>1, <1>2 DEF Jobs
  <2>2. OptionType' /\ StageType'
    BY <1>1, <1>2
  <2>3. ModeStages' /\ Intents' /\ DirectCount' /\ Established' /\ Reportable'
    BY <1>1, <1>2, <2>1 DEF ModeStages, Intents, DirectCount, Established, Reportable
  <2>4. SuccessIsEarned'
    BY <1>1, <1>2 DEF SuccessIsEarned
  <2> QED
    BY ONLY <2>1, <2>2, <2>3, <2>4 DEF Inv, TypeOK
<1>3. CASE record_direct_interruption
  <2>1. JobType' /\ job'.intent = job.intent /\ job'.made /\ job'.bound /\ ~job'.terminal
    BY <1>1, <1>3 DEF Jobs, record_direct_interruption
  <2>2. OptionType' /\ StageType'
    BY <1>1, <1>3 DEF record_direct_interruption
  <2>3. ModeStages' /\ Intents' /\ DirectCount' /\ Established' /\ Reportable'
    BY <1>1, <1>3, <2>1
    DEF record_direct_interruption, ModeStages, Intents, DirectCount, Established, Reportable
  <2>4. SuccessIsEarned'
    BY <1>1, <1>3 DEF record_direct_interruption, SuccessIsEarned
  <2> QED
    BY ONLY <2>1, <2>2, <2>3, <2>4 DEF Inv, TypeOK
<1>4. CASE End(InternalFailure, "flag") /\ UNCHANGED <<job, observed>>
  <2>1. TypeOK'
    BY <1>1, <1>4
  <2>2. ModeStages' /\ Intents' /\ DirectCount' /\ Established' /\ Reportable'
    BY <1>1, <1>4 DEF ModeStages, Intents, DirectCount, Established, Reportable
  <2>3. SuccessIsEarned'
    BY <1>4 DEF SuccessIsEarned
  <2> QED
    BY ONLY <2>1, <2>2, <2>3 DEF Inv
<1>5. CASE terminal_failure /\ Goto("verify") /\ UNCHANGED observed
  <2>1. JobType' /\ job'.intent = job.intent /\ job'.made /\ job'.bound /\ job'.terminal
        /\ ~job'.row /\ job'.attempts = 1
    BY <1>1, <1>5 DEF Jobs, terminal_failure
  <2>2. OptionType' /\ StageType'
    BY <1>1, <1>5
  <2>3. ModeStages' /\ Intents' /\ DirectCount' /\ Established' /\ Reportable'
    BY <1>1, <1>5, <2>1 DEF ModeStages, Intents, DirectCount, Established, Reportable
  <2>4. SuccessIsEarned'
    BY <1>1, <1>5 DEF SuccessIsEarned
  <2> QED
    BY ONLY <2>1, <2>2, <2>3, <2>4 DEF Inv, TypeOK
<1> QED
  BY ONLY direct_part, <1>2, <1>3, <1>4, <1>5 DEF direct_part

LEMMA StutterInv == ASSUME Inv, UNCHANGED vars PROVE Inv'
  BY DEF vars, Inv, TypeOK, JobType, OptionType, StageType, ModeStages, Intents, DirectCount,
         Established, Reportable, Earned, SuccessIsEarned, ReportAccepted, Evidence

LEMMA NextInv == Inv /\ [Next]_vars => Inv'
  BY OpenSourceInv, OpenResumeInv, RefuseUnboundInv, ReuseCompletionInv, SpawnWorkerInv,
     BindJobInv, TraverseInv, VerifyRecoveryInv, BuildPartInv, PublishPartInv,
     FinishIncrementalInv, DirectSetupInv,
     DirectPartInv, DirectFailureInv, DirectFinishInv, VerifyUnchangedInv, FinalizeWorkInv,
     ReportInv, SignalInv, FailureInv, RerunInv, StutterInv
  DEF Next, Work, Over

\* Every stage of split finds what the stages before it established, in this
\* invocation or in an earlier one that a signal or a failure stopped.
THEOREM SplitInvariant == Spec => []Inv
  BY InitInv, NextInv, PTL DEF Spec

(***************************************************************************)
(* Exit status 0 or 1 means that the stored report can be read back and    *)
(* that every item is in a published part of a complete traversal, with    *)
(* the payload gone unless it was to be kept; or, with status 1, that the  *)
(* worker of a direct run failed.                                          *)
(***************************************************************************)
THEOREM SuccessEarned == Spec => []SuccessIsEarned
<1>1. Inv => SuccessIsEarned
  BY DEF Inv
<1> QED
  BY SplitInvariant, <1>1, PTL

(***************************************************************************)
(* A worker attempt is only ever added by the traversal of a restartable   *)
(* job that has not recorded its completion.                               *)
(***************************************************************************)
THEOREM TraversalOnce == Spec => ParsedOnce
<1>1. ASSUME Inv, [Next]_vars, mode = "restartable", job.completion
      PROVE  job'.attempts = job.attempts
  <2> USE <1>1 DEF Inv, TypeOK, JobType, Jobs, ModeStages, Established
  <2>1. CASE open_restartable_resume
    BY <2>1, ReconciledJob DEF open_restartable_resume, Intents
  <2>2. CASE traverse
    BY <2>2 DEF traverse
  <2>3. CASE direct_part \/ direct_worker_failure \/ direct_finish \/ direct_setup
    BY <2>3 DEF direct_part, direct_worker_failure, direct_finish, direct_setup
  <2>4. CASE publish_part
    BY <2>4 DEF publish_part
  <2>5. CASE open_source \/ refuse_unbound \/ reuse_completion \/ spawn_worker \/ bind_job
             \/ verify_recovery_source \/ build_part \/ finish_incremental_completion
    BY <2>5 DEF open_source, refuse_unbound, reuse_completion, spawn_worker, bind_job,
                verify_recovery_source, build_part, finish_incremental_completion,
                finish_incremental_interruption
  <2>6. CASE verify_unchanged \/ finalize_private_work \/ report \/ Rerun \/ Signal \/ Failure
             \/ Over \/ UNCHANGED vars
    BY <2>6 DEF verify_unchanged, finalize_private_work, report, Rerun, Signal, Failure, Over, vars
  <2> QED
    BY <2>1, <2>2, <2>3, <2>4, <2>5, <2>6 DEF Next, Work
<1>2. Inv /\ [Next]_vars => [mode = "restartable" /\ job.completion
                               => job'.attempts = job.attempts]_vars
  BY <1>1
<1> QED
  BY SplitInvariant, <1>2, PTL DEF Spec, ParsedOnce
=============================================================================
