-------------------------- MODULE WorkerSupervision --------------------------
(***************************************************************************)
(* The supervisor of a restartable recovery over all attempts and all      *)
(* invocations of one job.  A worker walks the recovery units of the       *)
(* source in a fixed order, leaves out the isolated ones and what lies     *)
(* below them, and announces every unit before it touches it.  When it     *)
(* fails, the candidates the supervisor has of it stay in the ledger, the  *)
(* announced unit is isolated, and a new worker starts from the beginning; *)
(* what is already durable is recognised by its signature and discarded.   *)
(*                                                                         *)
(* The worker's output is buffered and flushed when a unit is announced,   *)
(* so that it can be done with a unit whose last candidates and whose end  *)
(* the supervisor has not seen, and never will if the worker fails then.   *)
(*                                                                         *)
(* A candidate is <<unit, position>>: its signature holds the unit and the *)
(* embedded path, so no two candidates share one.  Watchdog looks inside   *)
(* an attempt, PayloadLedger inside a candidate.                           *)
(***************************************************************************)
EXTENDS Integers, FiniteSets

CONSTANTS
    UnitCount,          \* the recovery units, numbered in traversal order
    Above,              \* unit -> the folder units whose isolation leaves it out
    Size,               \* unit -> candidates in it: a top-level message and its embedded ones
    Ident,              \* unit -> identifier of its top-level message, 0 if unstable
    MaxUnitRetries,     \* MAX_UNIT_RETRIES
    MaxWorkerRetries,   \* MAX_WORKER_RETRIES
    BatchSize,          \* CANDIDATE_CHECKPOINT_BATCH
    MaxRestarts         \* bound: invocations after the first

Units == 1..UnitCount
Candidates == UNION {{u} \X (1..Size[u]) : u \in Units}

ASSUME SourceAssumption ==
    /\ UnitCount \in Nat
    /\ Above \in [Units -> SUBSET Units] /\ \A u \in Units : \A v \in Above[u] : v < u
    /\ Size \in [Units -> Nat] /\ Ident \in [Units -> Nat]
ASSUME BoundAssumption ==
    /\ MaxUnitRetries \in Nat /\ MaxWorkerRetries \in Nat
    /\ BatchSize \in Nat \ {0} /\ MaxRestarts \in Nat
VARIABLES
    phase,      \* "spawn", "run", "finish", "record", "ended"
    rows,       \* durable: candidate -> rows of it in the candidates table
    isolated,   \* durable: isolated_units
    exhausted,  \* durable: worker_retries_exhausted
    completion, \* durable: recovery_completion
    batch,      \* candidates finished in the open transaction
    skipped,    \* skipped_units of this invocation
    at, inside, \* the worker: its place in the traversal and the unit it is in, or 0
    todo,       \* candidates of the announced unit the supervisor has not taken yet: the
                \* worker has still to find them, or they are in its buffered output
    visited,    \* identifiers of the top-level messages that were sent
    messages,   \* catalog.messages: of the worker, then of the supervisor
    active,     \* active_unit: the unit announced to the supervisor, or 0
    replay,     \* durable candidates the worker has to show again
    global, unitFailures,       \* failures outside a unit, and in each unit
    attempts, started,          \* worker_attempts; a worker of this invocation has started
    flag, interrupted, gaveUp,  \* interrupt flag; interrupted and retries_exhausted
    result, restarts,
    faulted, unheard            \* ghosts: the units a worker failed in, and those it had left
                                \* when it failed with their end in its output

traversal == <<at, inside, todo, visited>>
attempt == <<traversal, messages, active, replay>>
durable == <<rows, isolated, exhausted, completion>>
counters == <<global, unitFailures, attempts, started>>
ending == <<interrupted, gaveUp, result>>
vars == <<phase, durable, batch, skipped, attempt, counters, flag, ending, restarts,
          faulted, unheard>>

Init ==
    /\ phase = "spawn"
    /\ rows = [c \in Candidates |-> 0] /\ isolated = {} /\ exhausted = FALSE
    /\ completion = FALSE /\ batch = {} /\ skipped = {}
    /\ at = 0 /\ inside = 0 /\ todo = 0 /\ visited = {} /\ messages = 0
    /\ active = 0 /\ replay = {}
    /\ global = 0 /\ unitFailures = [u \in Units |-> 0] /\ attempts = 0 /\ started = FALSE
    /\ flag = FALSE /\ interrupted = FALSE /\ gaveUp = FALSE
    /\ result = "none" /\ restarts = 0 /\ faulted = {} /\ unheard = {}

-----------------------------------------------------------------------------
(* The ledger.                                                             *)

\* A third row of a candidate is not told apart from a second.
Plus(n) == IF n < 2 THEN n + 1 ELSE n
Committed(b) == [c \in Candidates |-> IF c \in b THEN Plus(rows[c]) ELSE rows[c]]
Present(r) == {c \in Candidates : r[c] > 0}

\* summary().committed_candidates
Summary(r) == Cardinality(Present(r)) + Cardinality({c \in Candidates : r[c] > 1})

\* abort_worker_attempt: the active candidate is rolled back, the finished
\* ones are committed.
abort_worker_attempt == rows' = Committed(batch) /\ batch' = {}

\* worker_attempts saturates; here it does so above the bound it must respect.
AttemptBound == 1 + MaxWorkerRetries + UnitCount * (MaxUnitRetries + 1)
Another == IF attempts <= AttemptBound THEN attempts + 1 ELSE attempts

-----------------------------------------------------------------------------
(* The worker and the frames the supervisor takes from it.                 *)

Skipped(u) == u \in skipped \/ Above[u] \cap skipped # {}

\* Mutant of spawn_worker: a new worker starts with nothing to replay.
spawn_worker_afresh ==
    /\ phase = "spawn" /\ phase' = "run" /\ attempts' = Another /\ started' = TRUE
    /\ at' = 0 /\ inside' = 0 /\ todo' = 0 /\ visited' = {} /\ messages' = 0
    /\ active' = 0 /\ replay' = {}
    /\ UNCHANGED <<durable, batch, skipped, global, unitFailures, flag, ending, restarts,
                   faulted, unheard>>

\* replay_candidates, partitioned by the units of the candidates themselves.
spawn_worker ==
    /\ phase = "spawn" /\ phase' = "run" /\ attempts' = Another /\ started' = TRUE
    /\ at' = 0 /\ inside' = 0 /\ todo' = 0 /\ visited' = {} /\ messages' = 0
    /\ active' = 0
    /\ replay' = {c \in Present(rows) : c[1] \notin skipped}
    /\ UNCHANGED <<durable, batch, skipped, global, unitFailures, flag, ending, restarts,
                   faulted, unheard>>

\* The announcement is flushed, and everything written before it with it.  A
\* top-level message whose identifier was sent before is not sent again.
UnitStart ==
    /\ phase = "run" /\ inside = 0 /\ active = 0
    /\ \E u \in Units :
        /\ u > at /\ ~Skipped(u) /\ \A v \in Units : at < v /\ v < u => Skipped(v)
        /\ at' = u /\ inside' = u /\ active' = u
        /\ todo' = IF Ident[u] \in visited \ {0} THEN 0 ELSE Size[u]
    /\ UNCHANGED <<phase, durable, batch, skipped, visited, messages, replay, counters, flag,
                   ending, restarts, faulted, unheard>>

\* The supervisor takes a candidate that the worker, ahead of it or not, has
\* written.  One that is replayed is discarded; another one joins the open
\* transaction, which is committed when it is full.
Message ==
    /\ phase = "run" /\ active # 0 /\ todo > 0 /\ todo' = todo - 1
    /\ messages' = messages + 1 /\ visited' = visited \cup {Ident[active]}
    /\ LET c == <<active, Size[active] - todo + 1>>
       IN  IF c \in replay
           THEN replay' = replay \ {c} /\ UNCHANGED <<rows, batch>>
           ELSE /\ UNCHANGED replay
                /\ IF Cardinality(batch) + 1 >= BatchSize
                   THEN rows' = Committed(batch \cup {c}) /\ batch' = {}
                   ELSE batch' = batch \cup {c} /\ UNCHANGED rows
    /\ UNCHANGED <<phase, isolated, exhausted, completion, skipped, at, inside, active, counters,
                   flag, ending, restarts, faulted, unheard>>

\* The worker is done with the unit: the rest of its candidates and its end
\* are in the buffered output.
UnitLeft ==
    /\ phase = "run" /\ inside # 0 /\ inside' = 0
    /\ UNCHANGED <<phase, durable, batch, skipped, at, todo, visited, messages, active, replay,
                   counters, flag, ending, restarts, faulted, unheard>>

\* The supervisor takes the end of the unit.
UnitEnd ==
    /\ phase = "run" /\ active # 0 /\ inside = 0 /\ todo = 0 /\ active' = 0
    /\ UNCHANGED <<phase, durable, batch, skipped, at, inside, todo, visited, messages, replay,
                   counters, flag, ending, restarts, faulted, unheard>>

-----------------------------------------------------------------------------
(* How an attempt ends.                                                    *)

\* The catalog of a run that stops early is the ledger's summary.
Break(r) == phase' = "finish" /\ messages' = Summary(r)

\* Mutant of Failure: a failure inside a unit is retried without isolation.
FailureRetried ==
    /\ abort_worker_attempt /\ phase' = "spawn"
    /\ unitFailures' = IF active = 0 THEN unitFailures
                       ELSE [unitFailures EXCEPT ![active] = MaxUnitRetries]
    /\ UNCHANGED <<isolated, skipped, global, messages, interrupted, gaveUp, exhausted, completion,
                   traversal, active, replay, attempts, started, flag, result, restarts>>

\* A retryable failure: an interrupt goes first, then the announced unit is
\* isolated or the failure counts against the worker as a whole.
Failure ==
    /\ abort_worker_attempt
    /\ IF flag
       THEN Break(rows') /\ interrupted' = TRUE
            /\ UNCHANGED <<isolated, skipped, global, unitFailures, gaveUp>>
       ELSE /\ UNCHANGED interrupted
            /\ IF active # 0
               THEN /\ unitFailures' = [unitFailures EXCEPT ![active] = @ + 1]
                    /\ IF unitFailures'[active] > MaxUnitRetries
                       THEN skipped' = skipped \cup {active} /\ isolated' = isolated \cup {active}
                       ELSE UNCHANGED <<skipped, isolated>>
                    /\ phase' = "spawn" /\ UNCHANGED <<global, messages, gaveUp>>
               ELSE /\ global' = global + 1 /\ UNCHANGED <<skipped, isolated, unitFailures>>
                    /\ IF global' > MaxWorkerRetries
                       THEN Break(rows') /\ gaveUp' = TRUE
                       ELSE phase' = "spawn" /\ UNCHANGED <<messages, gaveUp>>
    /\ UNCHANGED <<exhausted, completion, traversal, active, replay, attempts, started, flag,
                   result, restarts>>

\* The worker crashes, stalls or breaks the protocol, or it reports a parser
\* error inside a unit.  What was in its output is lost.
WorkerFails ==
    /\ phase = "run" /\ Failure
    /\ faulted' = faulted \cup ({inside} \ {0})
    /\ unheard' = unheard \cup ({active} \ {inside})

\* Mutant of Complete: the completion frame is believed wherever it comes.
CompleteEarly ==
    /\ phase = "run" /\ inside = 0 /\ active = 0 /\ replay = {} /\ phase' = "finish"
    /\ messages' = messages + Cardinality({c \in Present(rows) : c[1] \in skipped})
    /\ UNCHANGED <<durable, batch, skipped, traversal, active, replay, counters, flag,
                   ending, restarts, faulted, unheard>>

\* The whole traversal was seen.  With durable candidates the worker never
\* showed this is a protocol failure outside every unit.
Complete ==
    /\ phase = "run" /\ inside = 0 /\ active = 0 /\ \A u \in Units : u > at => Skipped(u)
    /\ IF replay # {}
       THEN Failure
       ELSE /\ phase' = "finish"
            /\ messages' = messages + Cardinality({c \in Present(rows) : c[1] \in skipped})
            /\ UNCHANGED <<durable, batch, skipped, traversal, active, replay, counters, flag,
                           ending, restarts>>
    /\ UNCHANGED <<faulted, unheard>>

\* A parser error outside every unit is final.
ParserFails ==
    /\ phase = "run" /\ active = 0
    /\ abort_worker_attempt /\ Break(rows')
    /\ IF flag THEN interrupted' = TRUE /\ UNCHANGED gaveUp
               ELSE gaveUp' = TRUE /\ UNCHANGED interrupted
    /\ UNCHANGED <<isolated, exhausted, completion, skipped, traversal, active, replay, counters,
                   flag, result, restarts, faulted, unheard>>

\* The watchdog killed the worker because the flag was set.
Interrupted ==
    /\ phase = "run" /\ flag /\ abort_worker_attempt /\ Break(rows') /\ interrupted' = TRUE
    /\ UNCHANGED <<isolated, exhausted, completion, skipped, traversal, active, replay, counters,
                   flag, gaveUp, result, restarts, faulted, unheard>>

\* The ledger is reopened after a failure; a flag set meanwhile ends the
\* command before the failed unit is isolated.
ReopenInterrupted ==
    /\ phase = "run" /\ ~flag /\ flag' = TRUE /\ abort_worker_attempt
    /\ phase' = "ended" /\ result' = "interrupted"
    /\ UNCHANGED <<isolated, exhausted, completion, skipped, attempt, counters, interrupted,
                   gaveUp, restarts, faulted, unheard>>

\* The worker does not start.  Before the first one has, the command fails;
\* later the failure counts against the worker as a whole.
SpawnFails ==
    /\ phase = "spawn" /\ attempts' = Another /\ global' = global + 1
    /\ \/ /\ global' <= MaxWorkerRetries
          /\ UNCHANGED <<phase, messages, interrupted, gaveUp, result>>
       \/ /\ global' > MaxWorkerRetries /\ started
          /\ Break(rows) /\ gaveUp' = TRUE /\ UNCHANGED <<interrupted, result>>
       \/ /\ global' > MaxWorkerRetries /\ ~started
          /\ phase' = "ended" /\ result' = "error" /\ UNCHANGED <<messages, interrupted, gaveUp>>
    /\ UNCHANGED <<durable, batch, skipped, traversal, active, replay, unitFailures, started, flag,
                   restarts, faulted, unheard>>

SpawnInterrupted ==
    /\ phase = "spawn" /\ flag /\ attempts' = Another
    /\ \/ started /\ Break(rows) /\ interrupted' = TRUE /\ UNCHANGED result
       \/ ~started /\ phase' = "ended" /\ result' = "interrupted"
          /\ UNCHANGED <<messages, interrupted>>
    /\ UNCHANGED <<durable, batch, skipped, traversal, active, replay, global, unitFailures,
                   started, flag, gaveUp, restarts, faulted, unheard>>

\* A failure that is not retried: the source changed, or the ledger refused
\* an event and rolled its whole transaction back.
Fatal ==
    /\ phase = "run" /\ phase' = "ended" /\ result' = "error" /\ batch' = {}
    /\ UNCHANGED <<durable, skipped, attempt, counters, flag, interrupted, gaveUp, restarts,
                   faulted, unheard>>

-----------------------------------------------------------------------------
(* The end of the recovery.                                                *)

\* record_worker_supervision and checkpoint.
Finish ==
    /\ phase = "finish" /\ phase' = "record"
    /\ rows' = Committed(batch) /\ batch' = {}
    /\ exhausted' = gaveUp /\ interrupted' = (interrupted \/ flag)
    /\ UNCHANGED <<isolated, completion, skipped, attempt, counters, flag, gaveUp, result,
                   restarts, faulted, unheard>>

\* verify_recovery_source, validate_catalog and record_recovery_completion.
Record ==
    /\ phase = "record" /\ phase' = "ended"
    /\ interrupted' = (interrupted \/ flag)
    /\ completion' = (messages = Summary(rows) /\ ~interrupted')
    /\ result' = CASE messages # Summary(rows) -> "inconsistent"
                   [] messages = Summary(rows) /\ interrupted' -> "interrupted"
                   [] OTHER -> IF gaveUp THEN "exhausted" ELSE "complete"
    /\ UNCHANGED <<rows, isolated, exhausted, batch, skipped, attempt, counters, flag, gaveUp,
                   restarts, faulted, unheard>>

-----------------------------------------------------------------------------
(* Signals, kills and resumption.                                          *)

Signal ==
    /\ phase # "ended" /\ ~flag /\ flag' = TRUE
    /\ UNCHANGED <<phase, durable, batch, skipped, attempt, counters, ending, restarts, faulted, unheard>>

\* The supervisor is killed; the worker dies with it (PR_SET_PDEATHSIG).
Killed ==
    /\ phase # "ended" /\ restarts < MaxRestarts /\ phase' = "ended" /\ result' = "killed"
    /\ batch' = {}
    /\ UNCHANGED <<durable, skipped, attempt, counters, flag, interrupted, gaveUp, restarts,
                   faulted, unheard>>

\* --resume: an exhausted recovery is completed without a parser.
Resume ==
    /\ phase = "ended" /\ result \in {"interrupted", "error", "killed"}
    /\ restarts < MaxRestarts /\ restarts' = restarts + 1
    /\ skipped' = isolated /\ flag' = FALSE /\ interrupted' = FALSE /\ gaveUp' = FALSE
    /\ global' = 0 /\ unitFailures' = [u \in Units |-> 0] /\ attempts' = 0 /\ started' = FALSE
    /\ \/ exhausted /\ completion' = TRUE /\ result' = "exhausted" /\ UNCHANGED phase
       \/ ~exhausted /\ phase' = "spawn" /\ result' = "none" /\ UNCHANGED completion
    /\ UNCHANGED <<rows, isolated, exhausted, batch, attempt, faulted, unheard>>

Done == phase = "ended" /\ UNCHANGED vars

Work == spawn_worker \/ UnitStart \/ Message \/ UnitLeft \/ UnitEnd \/ Complete \/ Finish \/ Record
Trouble == \/ WorkerFails \/ ParserFails \/ Interrupted \/ ReopenInterrupted
           \/ SpawnFails \/ SpawnInterrupted \/ Fatal

Next == Work \/ Trouble \/ Signal \/ Killed \/ Resume \/ Done

Spec == Init /\ [][Next]_vars

\* A worker that is not in trouble goes on, and so does its supervisor; how
\* often the worker gets into trouble is not bounded.
FairSpec == Spec /\ WF_vars(Work \/ Trouble)

-----------------------------------------------------------------------------
(* Properties.                                                             *)

\* However often the worker fails and the supervisor is killed, no candidate
\* is recorded twice: what is durable or in the open transaction is
\* recognised when a later worker shows it again.  validate_catalog never
\* fails either: the worker's count, with the candidates of isolated units
\* added, is the number of rows in the ledger.
CandidateOnce ==
    /\ \A c \in Candidates : rows[c] <= 1
    /\ batch \cap Present(rows) = {}
    /\ result # "inconsistent"

\* A recovery that ends complete has recorded every top-level message (under
\* the unit that showed its identifier first) and every embedded message
\* below it, except those of isolated units and of the folders below them.
\* Only the last unit a worker announced is isolated for its failure: it
\* failed in it, or it had left it and the end was still in its output.
\* What was taken of that unit stays recorded, the rest is lost.
NothingLost ==
    /\ isolated \subseteq faulted \cup unheard
    /\ result = "complete" =>
        \A u \in Units \ isolated :
            Above[u] \cap isolated = {} =>
                \/ \A i \in 1..Size[u] : rows[<<u, i>>] = 1
                \/ \E v \in Units : v < u /\ Ident[v] = Ident[u] /\ Ident[u] # 0
                                     /\ rows[<<v, 1>>] = 1

\* Every invocation ends, although nothing bounds how often workers fail.
SupervisionEnds == <>[](phase = "ended")

==============================================================================
