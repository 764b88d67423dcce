------------------------------ MODULE Watchdog ------------------------------
(***************************************************************************)
(* One attempt of the supervisor to run a parser worker: the child         *)
(* process and its stdout pipe, the supervisor thread that reads frames,   *)
(* and the watchdog thread that kills a child that shows no sign of life   *)
(* or whose operator has interrupted the job.  The two threads share a     *)
(* channel of capacity one: progress() drops its signal when the channel   *)
(* is full, stop() blocks until there is room and then joins the thread.   *)
(*                                                                         *)
(* "restartable" is finish_worker_attempt, also used by the metadata pass; *)
(* "direct" is DirectWorkerProcess, used by the one-pass direct split.     *)
(* A tick is one resource_sample_interval.                                 *)
(***************************************************************************)
EXTENDS Integers, Sequences

CONSTANTS
    Paths,          \* the supervising code: "restartable", "direct"
    IdleLimit,      \* worker_stall_timeout, in ticks
    PipeCapacity    \* frames the stdout pipe holds before the child blocks

ASSUME PathAssumption == Paths \subseteq {"restartable", "direct"}
ASSUME LimitAssumption == IdleLimit \in Nat /\ IdleLimit > 1 /\ PipeCapacity \in Nat \ {0}

VARIABLES
    path, raised,   \* the supervising code; the interrupt flag
    child,          \* [life, status]: working, leaving (files closed), dead (waitable)
    reaped,         \* wait() or try_wait() has collected the child
    pipe, closing,  \* frames not yet read; the child has sent its last frame
    sup, body,      \* where the supervisor is; what reading the stream returned
    returns,        \* what the attempt returned, "none" before
    chan,           \* the sync_channel(1)
    dog, outcome,   \* where the watchdog thread is; what it returned
    idle, due,      \* last_observed_progress.elapsed(); a resource sample is due
    busy,           \* the child used CPU or did I/O since the last sample
    quiet, lull,    \* ghosts: ticks since a sign of life; longest since idle was reset
    stray           \* ghost: SIGKILL was sent to a process ID already reaped

reading == <<pipe, closing>>
timing == <<idle, due, busy, quiet, lull>>
watching == <<chan, dog, outcome>>
supervising == <<sup, body, returns>>
attempt_vars == <<path, raised, child, reaped, reading, supervising, watching, timing, stray>>

Alive == child.life = "working"
Ended == returns # "none"
Verdicts == {"Stalled", "Interrupted"}

AttemptInit ==
    /\ path \in Paths /\ raised = FALSE
    /\ child = [life |-> "working", status |-> "none"] /\ reaped = FALSE
    /\ pipe = <<>> /\ closing = FALSE
    /\ sup = "hello" /\ body = "none" /\ returns = "none"
    /\ chan = <<>> /\ dog = "top" /\ outcome = "none"
    /\ idle = 0 /\ due = TRUE /\ busy = FALSE /\ quiet = 0 /\ lull = 0
    /\ stray = FALSE

-----------------------------------------------------------------------------
(* The environment: the operator, the clock and the child.                 *)

Interrupt ==
    /\ ~raised /\ ~Ended /\ raised' = TRUE
    /\ UNCHANGED <<path, child, reaped, reading, supervising, watching, timing, stray>>

Older(n) == IF n < IdleLimit THEN n + 1 ELSE n
Longer(m, n) == IF m < n THEN n ELSE m

\* The watchdog polls at least ten times per sample interval, so it has
\* taken the sample of one tick before the next tick.
Tick ==
    /\ ~Ended /\ (due => dog = "returned")
    /\ idle' = Older(idle) /\ quiet' = Older(quiet) /\ lull' = Longer(lull, Older(quiet))
    /\ due' = TRUE
    /\ UNCHANGED <<path, raised, child, reaped, reading, supervising, watching, busy, stray>>

\* The child computes, reads its source or writes without sending a frame.
ChildWorks ==
    /\ Alive /\ ~Ended /\ busy' = TRUE /\ quiet' = 0
    /\ UNCHANGED <<path, raised, child, reaped, reading, supervising, watching, idle, due, lull, stray>>

\* A write of the child blocks while the pipe is full.  "candidate" ends a
\* top-level message; "complete" and "error" are the last frame.
Send ==
    /\ Alive /\ ~closing /\ Len(pipe) < PipeCapacity
    /\ \E f \in {"frame", "candidate", "complete", "error"} :
        /\ pipe' = Append(pipe, f)
        /\ closing' = (f \in {"complete", "error"})
    /\ UNCHANGED <<path, raised, child, reaped, supervising, watching, timing, stray>>

\* Only a child that sent its completion frame exits with success.
Exit ==
    /\ Alive
    /\ \E s \in {"success", "failed"} :
        /\ s = "success" => closing
        /\ child' = [life |-> "leaving", status |-> s]
    /\ UNCHANGED <<path, raised, reaped, reading, supervising, watching, timing, stray>>

\* The kernel closes a process's files before it lets the parent collect it.
Gone ==
    /\ child.life = "leaving" /\ child' = [child EXCEPT !.life = "dead"]
    /\ UNCHANGED <<path, raised, reaped, reading, supervising, watching, timing, stray>>

-----------------------------------------------------------------------------
(* The watchdog thread.                                                    *)

Refresh == idle' = 0 /\ lull' = 0

\* Mutant of Sample: CPU time and I/O do not count as progress.
SampleIgnored ==
    /\ dog = "top" /\ dog' = "recv" /\ due' = FALSE /\ busy' = FALSE
    /\ UNCHANGED <<path, raised, child, reaped, reading, supervising, chan, outcome, idle, lull,
                   quiet, stray>>

\* The top of the loop: once a resource sample is due, CPU time or I/O since
\* the last sample counts as progress.
Sample ==
    /\ dog = "top" /\ dog' = "recv"
    /\ IF due
       THEN /\ due' = FALSE /\ busy' = FALSE
            /\ IF busy THEN Refresh ELSE UNCHANGED <<idle, lull>>
       ELSE UNCHANGED <<due, busy, idle, lull>>
    /\ UNCHANGED <<path, raised, child, reaped, reading, supervising, chan, outcome, quiet, stray>>

Receive ==
    /\ dog = "recv" /\ chan # <<>> /\ chan' = Tail(chan)
    /\ \/ /\ Head(chan) = "Progress" /\ dog' = "top" /\ Refresh
          /\ UNCHANGED outcome
       \/ /\ Head(chan) = "Stop" /\ dog' = "returned" /\ outcome' = "Stopped"
          /\ UNCHANGED <<idle, lull>>
    /\ UNCHANGED <<path, raised, child, reaped, reading, supervising, due, busy, quiet, stray>>

\* recv_timeout gives up after poll_interval only when no signal waits.
Timeout ==
    /\ dog = "recv" /\ chan = <<>> /\ dog' = "expired"
    /\ UNCHANGED <<path, raised, child, reaped, reading, supervising, chan, outcome, timing, stray>>

\* SIGKILL ends a working child; one that is already leaving keeps its status.
Struck == [child EXCEPT !.life = IF @ = "working" THEN "leaving" ELSE @,
                        !.status = IF @ = "none" THEN "killed" ELSE @]

\* kill_process(pid, SIGKILL): the process ID is not checked against the child.
Kill ==
    IF reaped
    THEN stray' = TRUE /\ UNCHANGED child
    ELSE child' = Struck /\ UNCHANGED stray

Judge ==
    /\ dog = "expired"
    /\ \/ raised /\ Kill /\ dog' = "returned" /\ outcome' = "Interrupted"
       \/ ~raised /\ idle >= IdleLimit /\ Kill /\ dog' = "returned" /\ outcome' = "Stalled"
       \/ ~raised /\ idle < IdleLimit /\ dog' = "top" /\ UNCHANGED <<child, stray, outcome>>
    /\ UNCHANGED <<path, raised, reaped, reading, supervising, chan, timing>>

-----------------------------------------------------------------------------
(* The supervisor.                                                         *)

\* AttemptWatchdog::progress and WorkerProgress::notify: try_send.
progress ==
    /\ chan' = IF chan = <<>> /\ dog # "returned" THEN <<"Progress">> ELSE chan
    /\ quiet' = 0

\* Mutant of Leave: every path collects the child before it stops the watchdog.
LeaveWaitFirst(b) ==
    /\ body' = b
    /\ sup' = IF sup # "hello" /\ b = "ok" THEN "wait" ELSE "stop"

\* What follows the stream: "restartable" stops the watchdog first, "direct"
\* waits for a child that completed and polls one that broke the protocol.
Leave(b) ==
    /\ body' = b
    /\ sup' = IF path = "direct" /\ sup # "hello"
              THEN CASE b = "ok" -> "wait" [] b = "failed" -> "try" [] b = "abandoned" -> "stop"
              ELSE "stop"

\* A frame was read.  The direct loop looks at the flag after every
\* top-level message and drops the worker; the restartable one does not.
\* Any frame may be an error report, break the protocol, or carry what the
\* ledger or the writer refuses: reading the stream then fails.
ReadFrame ==
    /\ sup \in {"hello", "reading"} /\ pipe # <<>> /\ pipe' = Tail(pipe)
    /\ \/ /\ Head(pipe) \in {"frame", "candidate"}
          /\ IF path = "direct" /\ sup = "reading" /\ Head(pipe) = "candidate" /\ raised
             THEN Leave("abandoned")
             ELSE sup' = "reading" /\ UNCHANGED body
          /\ progress
       \/ /\ Head(pipe) = "complete" /\ sup = "reading" /\ sup' = "eof"
          /\ progress /\ UNCHANGED body
       \/ /\ Leave("failed")
          /\ IF sup = "reading" THEN progress ELSE UNCHANGED <<chan, quiet>>
    /\ UNCHANGED <<path, raised, child, reaped, closing, returns, dog, outcome,
                   idle, due, busy, lull, stray>>

\* read() returns zero bytes only once the child has closed its stdout:
\* require_end_of_stream succeeds, every other read fails.
ReadEnd ==
    /\ sup \in {"hello", "reading", "eof"} /\ pipe = <<>> /\ ~Alive
    /\ Leave(IF sup = "eof" THEN "ok" ELSE "failed")
    /\ IF path = "direct" /\ sup = "eof" THEN progress ELSE UNCHANGED <<chan, quiet>>
    /\ UNCHANGED <<path, raised, child, reaped, reading, returns, dog, outcome,
                   idle, due, busy, lull, stray>>

\* DirectWorkerProcess::finish and the end of finish_worker_attempt: wait().
Wait ==
    /\ sup = "wait" /\ child.life = "dead" /\ reaped' = TRUE
    /\ IF path = "direct"
       THEN sup' = "stop" /\ UNCHANGED returns
       ELSE sup' = "ended" /\ returns' = IF child.status = "success" THEN "ok" ELSE "WorkerExit"
    /\ UNCHANGED <<path, raised, child, reading, body, watching, timing, stray>>

\* Mutant of TryWait: a blocking wait for a child that may still be alive.
TryWaitBlocking ==
    /\ sup = "try" /\ child.life = "dead" /\ sup' = "stop" /\ reaped' = TRUE
    /\ UNCHANGED <<path, raised, child, reading, body, returns, watching, timing, stray>>

\* finish_after_protocol_failure: try_wait().
TryWait ==
    /\ sup = "try" /\ sup' = "stop" /\ reaped' = (child.life = "dead")
    /\ UNCHANGED <<path, raised, child, reading, body, returns, watching, timing, stray>>

\* AttemptWatchdog::stop: a blocking send, which fails once the thread has
\* returned, and the join.
Stop ==
    /\ sup = "stop" /\ sup' = "join"
    /\ \/ dog = "returned" /\ UNCHANGED chan
       \/ dog # "returned" /\ chan = <<>> /\ chan' = <<"Stop">>
    /\ UNCHANGED <<path, raised, child, reaped, reading, body, returns, dog, outcome, timing, stray>>

\* Mutant of Reap: the child is killed and never waited for.
ReapKillOnly == child' = Struck /\ UNCHANGED reaped

\* WorkerProcess::stop, a no-op after the child was collected.
Reap ==
    IF reaped
    THEN UNCHANGED <<child, reaped>>
    ELSE child' = [Struck EXCEPT !.life = "dead"] /\ reaped' = TRUE

\* The error of an attempt whose watchdog was stopped in time.
Returned ==
    CASE body = "ok" /\ child.status = "success" -> "ok"
      [] body = "ok" /\ child.status # "success" -> "WorkerExit"
      [] body = "failed" /\ reaped /\ child.status # "success" -> "WorkerExit"
      [] OTHER -> "WorkerProtocol"

\* Mutant of Join: the child's status goes before the watchdog's verdict.
JoinStatusFirst ==
    /\ sup = "join" /\ dog = "returned" /\ Reap /\ sup' = "ended"
    /\ returns' = IF reaped /\ child.status # "success" THEN "WorkerExit" ELSE Returned
    /\ UNCHANGED <<path, raised, reading, body, watching, timing, stray>>

\* The watchdog's verdict goes before the child's status.
Join ==
    /\ sup = "join" /\ dog = "returned"
    /\ \/ /\ outcome = "Stopped" /\ body = "ok" /\ path = "restartable"
          /\ sup' = "wait" /\ UNCHANGED <<child, reaped, returns>>
       \/ /\ outcome \in Verdicts \/ body # "ok" \/ path = "direct"
          /\ Reap /\ sup' = "ended"
          /\ returns' = CASE body = "abandoned" -> "Interrupted"
                         [] outcome = "Stalled" /\ body # "abandoned" -> "WorkerStalled"
                         [] outcome = "Interrupted" /\ body # "abandoned" -> "Interrupted"
                         [] OTHER -> Returned
    /\ UNCHANGED <<path, raised, reading, body, watching, timing, stray>>

Supervisor == ReadFrame \/ ReadEnd \/ Wait \/ TryWait \/ Stop \/ Join
Dog == Sample \/ Receive \/ Timeout \/ Judge
Finished == Ended /\ UNCHANGED attempt_vars

AttemptNext == Interrupt \/ Tick \/ ChildWorks \/ Send \/ Exit \/ Gone \/ Dog \/ Supervisor \/ Finished

AttemptSpec == AttemptInit /\ [][AttemptNext]_attempt_vars

\* The threads, the clock and the kernel go on; the child owes nothing.
FairAttempt ==
    /\ AttemptSpec
    /\ WF_attempt_vars(Dog) /\ WF_attempt_vars(Supervisor)
    /\ WF_attempt_vars(Tick) /\ WF_attempt_vars(Gone)

-----------------------------------------------------------------------------
(* Properties.                                                             *)

\* A child the watchdog killed is reported as stalled or interrupted, never
\* as a crash or a protocol failure, although the supervisor first sees the
\* truncated stream and a failure status (finish, finish_worker_attempt and
\* finish_after_protocol_failure consult stop() before the status).
KillAttributed ==
    (Ended /\ outcome \in Verdicts /\ child.status = "killed") =>
        \/ returns = "WorkerStalled" /\ outcome = "Stalled"
        \/ returns = "Interrupted" /\ raised

\* An attempt that returns a catalog collected a child that exited with
\* success after its whole stream was read, and no other exit is reported
\* as WorkerExit than one the child chose: no kill of ours is blamed on it.
ExitAttributed ==
    /\ returns = "ok" => child.status = "success" /\ body = "ok" /\ outcome = "Stopped"
    /\ returns = "WorkerExit" => child.status = "failed"

\* When an attempt is over, its child has been collected and its watchdog
\* thread has returned: no process or thread outlives the attempt.
NothingLeftBehind == Ended => reaped /\ child.life = "dead" /\ dog = "returned"

\* A stall is declared only after IdleLimit - 1 ticks with neither a frame
\* nor activity since the watchdog last saw one: a dropped progress signal
\* (the channel was full) and a sample taken late never cost a live child
\* more than the last, not yet sampled, tick.
StallIsQuiet ==
    [][outcome = "none" /\ outcome' = "Stalled" => lull >= IdleLimit - 1]_attempt_vars

\* The restartable path never signals a process ID it has already given
\* back to the kernel: it joins the watchdog before it collects the child.
RestartableKillsOwnChild == path = "restartable" => ~stray

\* An attempt ends, whatever the child does: one that never ends has a child
\* that shows signs of life forever (a hung child, a child blocked on a full
\* pipe nobody reads, and a child that hangs after its last frame are ended by
\* the watchdog or by the supervisor); after an interrupt CPU time without
\* frames does not keep it alive; and once its stream failed or was given up it
\* is killed, not waited for (finish_after_protocol_failure, WorkerProcess::stop).
AttemptEnds ==
    /\ <>Ended \/ []<><<ChildWorks \/ Send>>_attempt_vars
    /\ []~raised \/ <>Ended \/ []<><<Send>>_attempt_vars
    /\ body \in {"failed", "abandoned"} ~> Ended
=============================================================================
