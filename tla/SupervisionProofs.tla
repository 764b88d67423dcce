-------------------------- MODULE SupervisionProofs -------------------------
(***************************************************************************)
(* Proofs about the supervision of parser workers: about one attempt, with *)
(* its child, its pipe and its watchdog (Watchdog), and about the attempts *)
(* that a job makes one after another (WorkerSupervision).                 *)
(***************************************************************************)
EXTENDS Watchdog, WorkerSupervision, FiniteSetTheorems, TLAPS

-----------------------------------------------------------------------------
(***************************************************************************)
(* Proofs about Watchdog, for every IdleLimit and PipeCapacity and for     *)
(* both supervising paths.  Order is what matters: which of the watchdog's *)
(* return, the collection of the child and the end of the attempt comes    *)
(* first.  Order (below) states it, and the theorems follow from it.       *)
(***************************************************************************)

Lives == {"working", "leaving", "dead"}
Statuses == {"none", "success", "failed", "killed"}
Places == {"hello", "reading", "eof", "wait", "try", "stop", "join", "ended"}

\* The part of the type invariant the argument needs.
Typed ==
    /\ path \in {"restartable", "direct"} /\ raised \in BOOLEAN /\ reaped \in BOOLEAN
    /\ stray \in BOOLEAN
    /\ child \in [life : Lives, status : Statuses]
    /\ sup \in Places /\ body \in {"none", "ok", "failed", "abandoned"}
    /\ returns \in {"none", "ok", "WorkerProtocol", "WorkerExit", "WorkerStalled", "Interrupted"}
    /\ dog \in {"top", "recv", "expired", "returned"}
    /\ outcome \in {"none", "Stopped"} \cup Verdicts

\* The child: it has a status once it is no longer working, it is dead when
\* it is collected, and only a verdict or the end of the attempt kills it.
ChildOrder ==
    /\ child.life = "working" <=> child.status = "none"
    /\ reaped => child.life = "dead"
    /\ child.status = "killed" => outcome \in Verdicts \/ Ended

\* The watchdog: it has an outcome exactly when it has returned, and it
\* returns Interrupted only for the flag.
DogOrder ==
    /\ dog = "returned" <=> outcome # "none"
    /\ outcome = "Interrupted" => raised

\* The supervisor: the attempt ends with the watchdog joined and the child
\* collected; the restartable path collects the child only after the join.
SupOrder ==
    /\ Ended <=> sup = "ended"
    /\ Ended => reaped /\ dog = "returned"
    /\ body = "abandoned" => raised
    /\ sup \in {"hello", "reading", "eof"} => body = "none" /\ ~reaped
    /\ sup \in {"stop", "join", "wait", "try"} => body # "none"
    /\ sup = "wait" => body = "ok" /\ ~reaped
    /\ sup = "try" => body = "failed" /\ path = "direct"
    /\ path = "direct" /\ body = "ok" /\ sup \in {"stop", "join"} => reaped
    /\ path = "restartable" =>
        /\ reaped => Ended
        /\ sup = "wait" => outcome = "Stopped"

Order == Typed /\ ChildOrder /\ DogOrder /\ SupOrder

Safe == KillAttributed /\ ExitAttributed /\ NothingLeftBehind /\ RestartableKillsOwnChild
OrderInv == Order /\ Safe

-----------------------------------------------------------------------------
(* Every step keeps OrderInv.                                              *)

\* AttemptInit (start_with_limits, spawn_worker) satisfies OrderInv.
LEMMA AttemptInitInv == AttemptInit => OrderInv
<1> SUFFICES ASSUME AttemptInit PROVE OrderInv
  OBVIOUS
<1> USE DEF AttemptInit
<1>1. Typed
  BY PathAssumption DEF Typed, Lives, Statuses, Places, Verdicts
<1>2. ChildOrder
  BY DEF ChildOrder, Ended, Verdicts
<1>3. DogOrder
  BY DEF DogOrder
<1>4. SupOrder
  BY DEF SupOrder, Ended
<1>5. Safe
  BY DEF Safe, KillAttributed, ExitAttributed, NothingLeftBehind, RestartableKillsOwnChild, Ended
<1> QED BY <1>1, <1>2, <1>3, <1>4, <1>5 DEF OrderInv, Order

\* The operator's interrupt only raises the flag.
LEMMA InterruptInv == OrderInv /\ (Interrupt) => OrderInv'
<1> SUFFICES ASSUME OrderInv, Interrupt PROVE OrderInv'
  OBVIOUS
<1> USE DEF OrderInv, Order, Interrupt, reading, supervising, watching, timing
<1>1. Typed'
  BY DEF Typed, Lives, Statuses, Places, Verdicts
<1>2. ChildOrder'
  BY DEF ChildOrder, Ended, SupOrder, DogOrder, Typed, Lives, Statuses, Places, Verdicts
<1>3. DogOrder'
  BY DEF DogOrder, Typed, Lives, Statuses, Places, Verdicts
<1>4. SupOrder'
  BY DEF SupOrder, Ended, DogOrder, ChildOrder, Typed, Lives, Statuses, Places, Verdicts
<1>5. Safe'
  BY DEF Safe, KillAttributed, ExitAttributed, NothingLeftBehind,
            RestartableKillsOwnChild, Ended, SupOrder, DogOrder,
         ChildOrder, Typed, Lives, Statuses, Places, Verdicts
<1> QED BY <1>1, <1>2, <1>3, <1>4, <1>5

\* Time, the child's work and its frames touch neither thread nor the status.
LEMMA UnseenInv == OrderInv /\ (Tick \/ ChildWorks \/ Send \/ UNCHANGED attempt_vars) => OrderInv'
<1> SUFFICES ASSUME OrderInv, Tick \/ ChildWorks \/ Send \/ UNCHANGED attempt_vars PROVE OrderInv'
  OBVIOUS
<1> USE DEF OrderInv, Order, Tick, ChildWorks, Send, attempt_vars, reading, supervising, watching, timing
<1>1. Typed'
  BY DEF Typed, Lives, Statuses, Places, Verdicts
<1>2. ChildOrder'
  BY DEF ChildOrder, Ended, SupOrder, DogOrder, Typed, Lives, Statuses, Places, Verdicts
<1>3. DogOrder'
  BY DEF DogOrder, Typed, Lives, Statuses, Places, Verdicts
<1>4. SupOrder'
  BY DEF SupOrder, Ended, DogOrder, ChildOrder, Typed, Lives, Statuses, Places, Verdicts
<1>5. Safe'
  BY DEF Safe, KillAttributed, ExitAttributed, NothingLeftBehind,
            RestartableKillsOwnChild, Ended, SupOrder, DogOrder,
         ChildOrder, Typed, Lives, Statuses, Places, Verdicts
<1> QED BY <1>1, <1>2, <1>3, <1>4, <1>5

\* The child's own end, and the kernel's closing of its files.
LEMMA ExitInv == OrderInv /\ (Exit \/ Gone) => OrderInv'
<1> SUFFICES ASSUME OrderInv, Exit \/ Gone PROVE OrderInv'
  OBVIOUS
<1> USE DEF OrderInv, Order, Exit, Gone, Alive, reading, supervising, watching, timing
<1>1. Typed'
  BY DEF Typed, Lives, Statuses, Places, Verdicts
<1>2. ChildOrder'
  BY DEF ChildOrder, Ended, SupOrder, DogOrder, Typed, Lives, Statuses, Places, Verdicts
<1>3. DogOrder'
  BY DEF DogOrder, Typed, Lives, Statuses, Places, Verdicts
<1>4. SupOrder'
  BY DEF SupOrder, Ended, DogOrder, ChildOrder, Typed, Lives, Statuses, Places, Verdicts
<1>5. Safe'
  BY DEF Safe, KillAttributed, ExitAttributed, NothingLeftBehind,
            RestartableKillsOwnChild, Ended, SupOrder, DogOrder,
         ChildOrder, Typed, Lives, Statuses, Places, Verdicts
<1> QED BY <1>1, <1>2, <1>3, <1>4, <1>5

\* The watchdog's steps that kill nothing.
LEMMA WaitingDogInv == OrderInv /\ (Sample \/ Receive \/ Timeout) => OrderInv'
<1> SUFFICES ASSUME OrderInv, Sample \/ Receive \/ Timeout PROVE OrderInv'
  OBVIOUS
<1> USE DEF OrderInv, Order, Sample, Receive, Timeout, Refresh, reading, supervising, watching, timing
<1>1. Typed'
  BY DEF Typed, Lives, Statuses, Places, Verdicts
<1>2. ChildOrder'
  BY DEF ChildOrder, Ended, SupOrder, DogOrder, Typed, Lives, Statuses, Places, Verdicts
<1>3. DogOrder'
  BY DEF DogOrder, Typed, Lives, Statuses, Places, Verdicts
<1>4. SupOrder'
  BY DEF SupOrder, Ended, DogOrder, ChildOrder, Typed, Lives, Statuses, Places, Verdicts
<1>5. Safe'
  BY DEF Safe, KillAttributed, ExitAttributed, NothingLeftBehind,
            RestartableKillsOwnChild, Ended, SupOrder, DogOrder,
         ChildOrder, Typed, Lives, Statuses, Places, Verdicts
<1> QED BY <1>1, <1>2, <1>3, <1>4, <1>5

\* A verdict kills the child, or a process ID that was given back.
LEMMA JudgeInv == OrderInv /\ (Judge) => OrderInv'
<1> SUFFICES ASSUME OrderInv, Judge PROVE OrderInv'
  OBVIOUS
<1>0. Struck \in [life : Lives, status : Statuses]
  BY DEF OrderInv, Order, Typed, Struck, Lives, Statuses
<1> USE DEF OrderInv, Order, Judge, Kill, reading, supervising, watching, timing
<1>1. Typed'
  <2>1. child' \in [life : Lives, status : Statuses] /\ stray' \in BOOLEAN
    BY <1>0 DEF Typed
  <2>2. dog' \in {"top", "returned"} /\ outcome' \in {"none", "Stopped"} \cup Verdicts
    BY DEF Typed, Verdicts
  <2> QED BY <2>1, <2>2 DEF Typed
<1> USE DEF Struck
<1>2. ChildOrder'
  BY DEF ChildOrder, Ended, SupOrder, DogOrder, Typed, Lives, Statuses, Places, Verdicts
<1>3. DogOrder'
  BY DEF DogOrder, Typed, Lives, Statuses, Places, Verdicts
<1>4. SupOrder'
  BY DEF SupOrder, Ended, DogOrder, ChildOrder, Typed, Lives, Statuses, Places, Verdicts
<1>5. Safe'
  BY DEF Safe, KillAttributed, ExitAttributed, NothingLeftBehind,
            RestartableKillsOwnChild, Ended, SupOrder, DogOrder,
         ChildOrder, Typed, Lives, Statuses, Places, Verdicts
<1> QED BY <1>1, <1>2, <1>3, <1>4, <1>5

\* Reading a frame or the end of the stream.
LEMMA ReadInv == OrderInv /\ (ReadFrame \/ ReadEnd) => OrderInv'
<1> SUFFICES ASSUME OrderInv, ReadFrame \/ ReadEnd PROVE OrderInv'
  OBVIOUS
<1> USE DEF OrderInv, Order, ReadFrame, ReadEnd, Leave, progress, Alive, reading, supervising, watching, timing
<1>1. Typed'
  BY DEF Typed, Lives, Statuses, Places, Verdicts
<1>2. ChildOrder'
  BY DEF ChildOrder, Ended, SupOrder, DogOrder, Typed, Lives, Statuses, Places, Verdicts
<1>3. DogOrder'
  BY DEF DogOrder, Typed, Lives, Statuses, Places, Verdicts
<1>4. SupOrder'
  BY DEF SupOrder, Ended, DogOrder, ChildOrder, Typed, Lives, Statuses, Places, Verdicts
<1>5. Safe'
  BY DEF Safe, KillAttributed, ExitAttributed, NothingLeftBehind,
            RestartableKillsOwnChild, Ended, SupOrder, DogOrder,
         ChildOrder, Typed, Lives, Statuses, Places, Verdicts
<1> QED BY <1>1, <1>2, <1>3, <1>4, <1>5

\* wait() collects a dead child; the restartable attempt then ends.
LEMMA WaitInv == OrderInv /\ (Wait) => OrderInv'
<1> SUFFICES ASSUME OrderInv, Wait PROVE OrderInv'
  OBVIOUS
<1> USE DEF OrderInv, Order, Wait, reading, supervising, watching, timing
<1>1. Typed'
  BY DEF Typed, Lives, Statuses, Places, Verdicts
<1>2. ChildOrder'
  BY DEF ChildOrder, Ended, SupOrder, DogOrder, Typed, Lives, Statuses, Places, Verdicts
<1>3. DogOrder'
  BY DEF DogOrder, Typed, Lives, Statuses, Places, Verdicts
<1>4. SupOrder'
  BY DEF SupOrder, Ended, DogOrder, ChildOrder, Typed, Lives, Statuses, Places, Verdicts
<1>5. Safe'
  BY DEF Safe, KillAttributed, ExitAttributed, NothingLeftBehind,
            RestartableKillsOwnChild, Ended, SupOrder, DogOrder,
         ChildOrder, Typed, Lives, Statuses, Places, Verdicts
<1> QED BY <1>1, <1>2, <1>3, <1>4, <1>5

\* try_wait() collects the child only if it is dead.
LEMMA TryWaitInv == OrderInv /\ (TryWait) => OrderInv'
<1> SUFFICES ASSUME OrderInv, TryWait PROVE OrderInv'
  OBVIOUS
<1> USE DEF OrderInv, Order, TryWait, reading, supervising, watching, timing
<1>1. Typed'
  BY DEF Typed, Lives, Statuses, Places, Verdicts
<1>2. ChildOrder'
  BY DEF ChildOrder, Ended, SupOrder, DogOrder, Typed, Lives, Statuses, Places, Verdicts
<1>3. DogOrder'
  BY DEF DogOrder, Typed, Lives, Statuses, Places, Verdicts
<1>4. SupOrder'
  BY DEF SupOrder, Ended, DogOrder, ChildOrder, Typed, Lives, Statuses, Places, Verdicts
<1>5. Safe'
  BY DEF Safe, KillAttributed, ExitAttributed, NothingLeftBehind,
            RestartableKillsOwnChild, Ended, SupOrder, DogOrder,
         ChildOrder, Typed, Lives, Statuses, Places, Verdicts
<1> QED BY <1>1, <1>2, <1>3, <1>4, <1>5

\* AttemptWatchdog::stop sends its signal.
LEMMA StopInv == OrderInv /\ (Stop) => OrderInv'
<1> SUFFICES ASSUME OrderInv, Stop PROVE OrderInv'
  OBVIOUS
<1> USE DEF OrderInv, Order, Stop, reading, supervising, watching, timing
<1>1. Typed'
  BY DEF Typed, Lives, Statuses, Places, Verdicts
<1>2. ChildOrder'
  BY DEF ChildOrder, Ended, SupOrder, DogOrder, Typed, Lives, Statuses, Places, Verdicts
<1>3. DogOrder'
  BY DEF DogOrder, Typed, Lives, Statuses, Places, Verdicts
<1>4. SupOrder'
  BY DEF SupOrder, Ended, DogOrder, ChildOrder, Typed, Lives, Statuses, Places, Verdicts
<1>5. Safe'
  BY DEF Safe, KillAttributed, ExitAttributed, NothingLeftBehind,
            RestartableKillsOwnChild, Ended, SupOrder, DogOrder,
         ChildOrder, Typed, Lives, Statuses, Places, Verdicts
<1> QED BY <1>1, <1>2, <1>3, <1>4, <1>5

\* The join, after which the attempt ends or the restartable path waits.
LEMMA JoinInv == OrderInv /\ (Join) => OrderInv'
<1> SUFFICES ASSUME OrderInv, Join PROVE OrderInv'
  OBVIOUS
<1> USE DEF OrderInv, Order, Join, Reap, Struck, Returned, reading, supervising, watching, timing
<1>1. Typed'
  BY DEF Typed, Lives, Statuses, Places, Verdicts
<1>4. SupOrder'
  BY DEF SupOrder, Ended, DogOrder, ChildOrder, Typed, Lives, Statuses, Places, Verdicts
<1>2. ChildOrder'
  <2>1. CASE sup' = "wait"
    BY <2>1 DEF ChildOrder, Ended, SupOrder, Typed, Places
  <2>2. CASE reaped /\ sup' = "ended"
    BY <2>2, <1>4 DEF ChildOrder, SupOrder
  <2>3. CASE ~reaped /\ sup' = "ended"
    <3>1. child'.life = "dead" /\ child'.status # "none"
      BY <2>3 DEF ChildOrder, Typed, Lives, Statuses
    <3> QED BY <2>3, <3>1, <1>4 DEF ChildOrder, SupOrder
  <2> QED BY <2>1, <2>2, <2>3
<1>3. DogOrder'
  BY DEF DogOrder, Typed, Lives, Statuses, Places, Verdicts
<1>5. Safe'
  BY DEF Safe, KillAttributed, ExitAttributed, NothingLeftBehind,
            RestartableKillsOwnChild, Ended, SupOrder, DogOrder,
         ChildOrder, Typed, Lives, Statuses, Places, Verdicts
<1> QED BY <1>1, <1>2, <1>3, <1>4, <1>5

\* One step of an attempt keeps OrderInv.
LEMMA AttemptNextInv == OrderInv /\ [AttemptNext]_attempt_vars => OrderInv'
<1> SUFFICES ASSUME OrderInv, [AttemptNext]_attempt_vars PROVE OrderInv'
  OBVIOUS
<1>1. CASE Interrupt
  BY <1>1, InterruptInv
<1>2. CASE Tick \/ ChildWorks \/ Send \/ UNCHANGED attempt_vars
  BY <1>2, UnseenInv
<1>3. CASE Exit \/ Gone
  BY <1>3, ExitInv
<1>4. CASE Dog
  BY <1>4, WaitingDogInv, JudgeInv DEF Dog
<1>5. CASE Supervisor
  BY <1>5, ReadInv, WaitInv, TryWaitInv, StopInv, JoinInv DEF Supervisor
<1>6. CASE Finished
  BY <1>6, UnseenInv DEF Finished
<1> QED BY <1>1, <1>2, <1>3, <1>4, <1>5, <1>6 DEF AttemptNext

\* The order of the two threads and the child holds in every reachable state.
THEOREM OrderInvariant == AttemptSpec => []OrderInv
BY AttemptInitInv, AttemptNextInv, PTL DEF AttemptSpec

\* A child the watchdog killed is reported as stalled or interrupted.
THEOREM KillsAreAttributed == AttemptSpec => []KillAttributed
<1>1. OrderInv => KillAttributed
  BY DEF OrderInv, Safe
<1> QED BY <1>1, OrderInvariant, PTL

\* Success is reported only for a whole stream and a successful exit, and a
\* failed exit only for one the child chose.
THEOREM ExitsAreAttributed == AttemptSpec => []ExitAttributed
<1>1. OrderInv => ExitAttributed
  BY DEF OrderInv, Safe
<1> QED BY <1>1, OrderInvariant, PTL

\* No child and no watchdog thread outlives the attempt.
THEOREM AttemptCleansUp == AttemptSpec => []NothingLeftBehind
<1>1. OrderInv => NothingLeftBehind
  BY DEF OrderInv, Safe
<1> QED BY <1>1, OrderInvariant, PTL

\* The restartable path never signals a process ID it has given back.
THEOREM RestartableIsTargeted == AttemptSpec => []RestartableKillsOwnChild
<1>1. OrderInv => RestartableKillsOwnChild
  BY DEF OrderInv, Safe
<1> QED BY <1>1, OrderInvariant, PTL

-----------------------------------------------------------------------------
(* The idle timer.  A sign of life resets quiet at once and idle only when *)
(* the watchdog sees it; until then it is in busy or in the channel.       *)

Measured == idle \in Nat /\ quiet \in Nat /\ lull \in Nat

\* A waiting signal is received before the next verdict, whatever the timer.
Awaited == dog = "recv" /\ chan # <<>>

\* Without an unseen sign of life the timer does not run ahead of the quiet
\* spell; with one it runs ahead by the one tick that is not sampled yet.
Timing ==
    /\ Measured
    /\ dog # "returned" =>
        /\ ~busy /\ chan = <<>> => idle <= quiet /\ idle <= lull
        /\ Awaited \/ idle <= lull + 1
        /\ ~due => Awaited \/ idle <= lull

\* Every step keeps the timer's bound.
LEMMA TimingStep == Timing /\ [AttemptNext]_attempt_vars => Timing'
<1> SUFFICES ASSUME Timing, [AttemptNext]_attempt_vars PROVE Timing'
  OBVIOUS
<1> USE LimitAssumption DEF Timing, Measured, Awaited, reading, supervising, watching, timing
<1>1. CASE Interrupt \/ Send \/ Exit \/ Gone \/ Finished \/ UNCHANGED attempt_vars
  BY <1>1 DEF Interrupt, Send, Exit, Gone, Finished, attempt_vars
<1>2. CASE Tick
  BY <1>2 DEF Tick, Older, Longer
<1>3. CASE ChildWorks
  BY <1>3 DEF ChildWorks
<1>4. CASE Sample
  BY <1>4 DEF Sample, Refresh
<1>5. CASE Receive
  BY <1>5 DEF Receive, Refresh
<1>6. CASE Timeout
  BY <1>6 DEF Timeout
<1>7. CASE Judge
  BY <1>7 DEF Judge
<1>8. CASE ReadFrame \/ ReadEnd
  <2>1. UNCHANGED <<dog, idle, due, busy, lull>>
    BY <1>8 DEF ReadFrame, ReadEnd
  <2>2. \/ UNCHANGED <<chan, quiet>>
        \/ progress
    BY <1>8 DEF ReadFrame, ReadEnd
  <2>3. CASE UNCHANGED <<chan, quiet>>
    BY <2>1, <2>3
  <2>4. CASE progress
    <3>1. quiet' = 0 /\ (dog # "returned" => chan' # <<>>)
      BY <2>4 DEF progress
    <3>2. dog # "returned" /\ chan # <<>> => chan' = chan
      BY <2>4 DEF progress
    <3> QED BY <2>1, <3>1, <3>2
  <2> QED BY <2>2, <2>3, <2>4
<1>9. CASE Wait \/ TryWait \/ Join
  BY <1>9 DEF Wait, TryWait, Join
<1>10. CASE Stop
  BY <1>10 DEF Stop
<1> QED BY <1>1, <1>2, <1>3, <1>4, <1>5, <1>6, <1>7, <1>8, <1>9, <1>10
        DEF AttemptNext, Dog, Supervisor

\* A child is declared stalled only after IdleLimit - 1 quiet ticks, for every
\* IdleLimit: neither a dropped signal nor a late sample shortens the wait.
THEOREM StallsAreQuiet == AttemptSpec => StallIsQuiet
<1> DEFINE Quiet == outcome = "none" /\ outcome' = "Stalled" => lull >= IdleLimit - 1
<1>1. AttemptInit => Timing
  BY DEF AttemptInit, Timing, Measured
<1>2. Timing /\ [AttemptNext]_attempt_vars => [Quiet]_attempt_vars
  <2> SUFFICES ASSUME Timing, AttemptNext, outcome = "none", outcome' = "Stalled"
               PROVE  lull >= IdleLimit - 1
    BY DEF Quiet
  <2>1. Judge
    BY DEF AttemptNext, Dog, Supervisor, Interrupt, Tick, ChildWorks, Send, Exit, Gone, Sample, Receive,
           Timeout, ReadFrame, ReadEnd, Wait, TryWait, Stop, Join, Finished, attempt_vars, watching
  <2>2. dog = "expired" /\ idle >= IdleLimit
    BY <2>1 DEF Judge
  <2> QED BY <2>2, LimitAssumption DEF Timing, Measured, Awaited
<1>3. AttemptSpec => []Timing
  BY <1>1, TimingStep, PTL DEF AttemptSpec
<1>4. AttemptSpec => [][Quiet]_attempt_vars
  BY <1>2, <1>3, PTL DEF AttemptSpec
<1> QED BY <1>4 DEF StallIsQuiet, Quiet

-----------------------------------------------------------------------------
(***************************************************************************)
(* CandidateOnce and NothingLost for every source, every retry limit and   *)
(* any number of failures, signals, kills and resumptions.                 *)
(*                                                                         *)
(* Both compare the ledger with what a worker has shown since it started,  *)
(* although the ledger also holds what earlier workers showed.  Shown is   *)
(* that part of the ledger: it lies before the worker's place (Place), and *)
(* the worker's count is its size.  Coverage says that the units behind    *)
(* the worker are in the ledger, and where the identifiers it remembers    *)
(* came from.                                                              *)
(***************************************************************************)

Phases == {"spawn", "run", "finish", "record", "ended"}

\* What the ledger holds once the open transaction is committed.
Have == Present(rows) \cup batch

\* What this worker has shown of it, isolated units apart.
Shown == {c \in Have \ replay : c[1] \notin skipped}

TypeOK ==
    /\ phase \in Phases
    /\ rows \in [Candidates -> Nat] /\ batch \in SUBSET Candidates
    /\ replay \in SUBSET Candidates /\ isolated \in SUBSET Units
    /\ at \in Nat /\ inside \in Nat /\ todo \in Nat /\ messages \in Nat

LedgerOnce ==
    /\ \A c \in Candidates : rows[c] <= 1
    /\ batch \cap Present(rows) = {}
    /\ phase \in {"spawn", "record", "ended"} => batch = {}

Isolation ==
    /\ skipped = isolated /\ isolated \subseteq faulted \cup unheard
    /\ \A c \in batch : c[1] \notin skipped
    /\ phase # "ended" => result = "none"

Place ==
    phase = "run" =>
        /\ inside \in {0, active}
        /\ active # 0 => active = at /\ at \in Units /\ ~Skipped(at) /\ todo <= Size[at]
        /\ replay \subseteq Present(rows) /\ \A c \in replay : c[1] \notin skipped
        /\ \A c \in Shown : c[1] <= at /\ (c[1] = active => c[2] <= Size[at] - todo)
        /\ messages = Cardinality(Shown)

\* The unit is in the ledger, or its message is, under another unit.
Linked(u) ==
    \E v \in Units : v < u /\ Ident[v] = Ident[u] /\ Ident[u] # 0 /\ <<v, 1>> \in Have
UnitCovered(u) == (\A i \in 1..Size[u] : <<u, i>> \in Have) \/ Linked(u)

Coverage ==
    phase = "run" =>
        /\ \A u \in Units : u <= at /\ u # active /\ ~Skipped(u) => UnitCovered(u)
        /\ active # 0 => \/ todo = 0 /\ Linked(active)
                         \/ \A i \in 1..(Size[active] - todo) : <<active, i>> \in Have
        /\ \A x \in visited \ {0} :
              \E v \in Units : v <= at /\ Ident[v] = x /\ <<v, 1>> \in Have

AllCovered == \A u \in Units : ~Skipped(u) => UnitCovered(u)

Ending ==
    /\ phase \in {"finish", "record"} =>
          /\ messages = Cardinality(Have)
          /\ ~gaveUp /\ ~interrupted => AllCovered
    /\ phase = "ended" => result # "inconsistent" /\ (result = "complete" => AllCovered)

Inv == TypeOK /\ LedgerOnce /\ Isolation /\ Place /\ Coverage /\ Ending

USE DEF traversal, durable, counters, ending, Phases

-----------------------------------------------------------------------------
(* Candidates and the ledger.                                              *)

LEMMA CandidateFacts ==
  /\ \A u \in Units : \A i \in 1..Size[u] : <<u, i>> \in Candidates
  /\ \A c \in Candidates : c[1] \in Units /\ c[2] \in 1..Size[c[1]] /\ c = <<c[1], c[2]>>
  BY DEF Candidates

LEMMA CandidatesFinite == IsFiniteSet(Candidates)
<1> DEFINE Of(u) == {u} \X (1..Size[u])
           All == {Of(u) : u \in Units}
<1>1. IsFiniteSet(Units)
  BY FS_Interval, SourceAssumption DEF Units
<1>2. IsFiniteSet(All)
  <2> DEFINE f == [u \in Units |-> Of(u)]
  <2>1. f \in Surjection(Units, All)
    BY DEF Surjection
  <2> HIDE DEF f, All
  <2> QED
    BY <1>1, <2>1, FS_Surjection
<1>3. ASSUME NEW S \in All PROVE IsFiniteSet(S)
  <2>1. PICK u \in Units : S = {u} \X (1..Size[u])
    OBVIOUS
  <2>2. Size[u] \in Nat
    BY SourceAssumption
  <2>3. IsFiniteSet({u})
    BY FS_Singleton
  <2>4. IsFiniteSet(1..Size[u])
    BY <2>2, FS_Interval
  <2> QED
    BY <2>1, <2>3, <2>4, FS_Product
<1> QED
  BY <1>2, <1>3, FS_UNION DEF Candidates

\* What a commit leaves in the ledger.
LEMMA CommittedRows ==
  ASSUME rows \in [Candidates -> Nat], \A c \in Candidates : rows[c] <= 1,
         NEW b \in SUBSET Candidates, b \cap Present(rows) = {}
  PROVE  /\ Committed(b) \in [Candidates -> Nat]
         /\ \A c \in Candidates : Committed(b)[c] <= 1
         /\ Present(Committed(b)) = Present(rows) \cup b
<1>1. ASSUME NEW c \in Candidates
      PROVE  /\ Committed(b)[c] \in Nat /\ Committed(b)[c] <= 1
             /\ Committed(b)[c] > 0 <=> c \in Present(rows) \cup b
  BY DEF Committed, Plus, Present
<1>2. Committed(b) \in [Candidates -> Nat]
  BY <1>1 DEF Committed
<1>3. Present(Committed(b)) = Present(rows) \cup b
  BY <1>1 DEF Present
<1> QED
  BY <1>1, <1>2, <1>3

\* With one row each the summary counts the candidates.
LEMMA SummaryCounts ==
  ASSUME NEW r \in [Candidates -> Nat], \A c \in Candidates : r[c] <= 1
  PROVE  Summary(r) = Cardinality(Present(r)) /\ Summary(r) \in Nat
<1>1. {c \in Candidates : r[c] > 1} = {}
  OBVIOUS
<1>2. Present(r) \subseteq Candidates
  BY DEF Present
<1>3. IsFiniteSet(Present(r))
  BY <1>2, CandidatesFinite, FS_Subset
<1>4. Cardinality(Present(r)) \in Nat /\ Cardinality({}) = 0
  BY <1>3, FS_CardinalityType, FS_EmptySet
<1> QED
  BY <1>1, <1>4 DEF Summary

\* The parts of the ledger are finite, and counted by numbers.
LEMMA LedgerFinite ==
  ASSUME TypeOK
  PROVE  /\ Have \subseteq Candidates /\ IsFiniteSet(Have) /\ Cardinality(Have) \in Nat
         /\ IsFiniteSet(Shown) /\ Cardinality(Shown) \in Nat
<1>1. Have \subseteq Candidates /\ Shown \subseteq Have
  BY DEF TypeOK, Have, Shown, Present
<1> QED
  BY <1>1, CandidatesFinite, FS_Subset, FS_CardinalityType

LEMMA InitInv == Init => Inv
<1> SUFFICES ASSUME Init PROVE Inv
  OBVIOUS
<1>1. Present(rows) = {}
  BY DEF Init, Present
<1>2. TypeOK /\ LedgerOnce /\ Isolation
  BY <1>1 DEF Init, TypeOK, LedgerOnce, Isolation
<1>3. Place /\ Coverage /\ Ending
  BY DEF Init, Place, Coverage, Ending
<1> QED
  BY <1>2, <1>3 DEF Inv

-----------------------------------------------------------------------------
(* The worker.                                                             *)

\* A new worker has shown nothing.
LEMMA SpawnInv == ASSUME Inv, spawn_worker PROVE Inv'
<1> USE DEF Inv, spawn_worker
<1>1. TypeOK'
  BY DEF TypeOK, Present
<1>2. LedgerOnce' /\ Isolation' /\ Ending'
  BY DEF LedgerOnce, Isolation, Ending, Present
<1>3. Shown' = {}
  BY DEF LedgerOnce, Shown, Have, Present
<1>4. Place'
  BY <1>3, FS_EmptySet DEF Place, Present
<1>5. Coverage'
  BY DEF Coverage, Units
<1> QED
  BY ONLY <1>1, <1>2, <1>4, <1>5 DEF Inv

LEMMA UnitStartInv == ASSUME Inv, UnitStart PROVE Inv'
<1> USE DEF Inv
<1>1. PICK u \in Units :
        /\ u > at /\ ~Skipped(u) /\ \A v \in Units : at < v /\ v < u => Skipped(v)
        /\ at' = u /\ inside' = u /\ active' = u
        /\ todo' = IF Ident[u] \in visited \ {0} THEN 0 ELSE Size[u]
  BY DEF UnitStart
<1>2. /\ phase = "run" /\ inside = 0 /\ active = 0
      /\ UNCHANGED <<phase, durable, batch, skipped, visited, messages, replay, counters, flag,
                      ending, restarts, faulted, unheard>>
  BY DEF UnitStart
<1>3. u \in Nat /\ Size[u] \in Nat /\ Ident[u] \in Nat /\ Units \subseteq Nat
  BY SourceAssumption DEF Units
<1>4. Have' = Have /\ Shown' = Shown
  BY <1>2 DEF Have, Shown, Present
<1>5. TypeOK'
  BY <1>1, <1>2, <1>3 DEF TypeOK
<1>6. LedgerOnce' /\ Isolation' /\ Ending'
  BY <1>2 DEF LedgerOnce, Isolation, Ending, Present
<1>7. Place'
  <2>1. ASSUME NEW c \in Shown PROVE c[1] <= u /\ c[1] # u
    <3>1. c[1] <= at /\ c[1] \in Nat
      BY <1>2, <1>3, LedgerFinite, CandidateFacts DEF Place, Shown
    <3> QED
      BY <1>1, <1>3, <3>1 DEF TypeOK
  <2>2. ~Skipped(u)'
    BY <1>1, <1>2 DEF Skipped
  <2> QED
    BY <1>1, <1>2, <1>3, <1>4, <2>1, <2>2 DEF Place, Present
<1>8. Coverage'
  <2>1. ASSUME NEW v \in Units, v <= u, v # u, ~Skipped(v)' PROVE UnitCovered(v)'
    <3>1. ~Skipped(v)
      BY <1>2, <2>1 DEF Skipped
    <3>2. v <= at /\ v # 0
      BY <1>1, <1>3, <2>1, <3>1 DEF TypeOK, Units
    <3>3. UnitCovered(v)
      BY <1>2, <3>1, <3>2 DEF Coverage
    <3> QED
      BY <1>4, <3>3 DEF UnitCovered, Linked
  <2>2. (todo' = 0 /\ Linked(u)') \/ \A i \in 1..(Size[u] - todo') : <<u, i>> \in Have'
    <3>1. CASE Ident[u] \in visited \ {0}
      <4>1. PICK v \in Units : v <= at /\ Ident[v] = Ident[u] /\ <<v, 1>> \in Have
        BY <1>2, <3>1 DEF Coverage
      <4>2. v < u /\ Ident[u] # 0
        BY <1>1, <1>3, <3>1, <4>1 DEF TypeOK
      <4> QED
        BY <1>1, <1>4, <3>1, <4>1, <4>2 DEF Linked
    <3>2. CASE Ident[u] \notin visited \ {0}
      BY <1>1, <1>3, <3>2
    <3> QED
      BY <3>1, <3>2
  <2>3. ASSUME NEW x \in visited \ {0}
        PROVE  \E v \in Units : v <= u /\ Ident[v] = x /\ <<v, 1>> \in Have'
    <3>1. PICK v \in Units : v <= at /\ Ident[v] = x /\ <<v, 1>> \in Have
      BY <1>2 DEF Coverage
    <3> QED
      BY <1>1, <1>3, <1>4, <3>1 DEF TypeOK
  <2> QED
    BY <1>1, <1>2, <2>1, <2>2, <2>3 DEF Coverage
<1> QED
  BY ONLY <1>5, <1>6, <1>7, <1>8 DEF Inv

\* The worker runs ahead of what the supervisor has taken.
LEMMA UnitLeftInv == ASSUME Inv, UnitLeft PROVE Inv'
<1> USE DEF Inv, UnitLeft
<1>1. Have' = Have /\ Shown' = Shown
  BY DEF Have, Shown, Present
<1>2. TypeOK' /\ LedgerOnce' /\ Isolation' /\ Ending'
  BY DEF TypeOK, LedgerOnce, Isolation, Ending, Present
<1>3. \A u \in Units \cup {active} :
        (Skipped(u)' <=> Skipped(u)) /\ (UnitCovered(u)' <=> UnitCovered(u))
        /\ (Linked(u)' <=> Linked(u))
  BY <1>1 DEF UnitCovered, Linked, Skipped
<1>4. Place'
  BY <1>1, <1>3 DEF Place, Present, Skipped
<1>5. Coverage'
  BY <1>1, <1>3 DEF Coverage
<1> QED
  BY ONLY <1>2, <1>4, <1>5 DEF Inv

LEMMA UnitEndInv == ASSUME Inv, UnitEnd PROVE Inv'
<1> USE DEF Inv, UnitEnd
<1>1. Have' = Have /\ Shown' = Shown
  BY DEF Have, Shown, Present
<1>2. TypeOK' /\ LedgerOnce' /\ Isolation' /\ Ending'
  BY DEF TypeOK, LedgerOnce, Isolation, Ending, Present
<1>3. Place'
  <2>1. ASSUME NEW c \in Shown PROVE c[1] # 0
    BY LedgerFinite, CandidateFacts DEF Shown, Units
  <2> QED
    BY <1>1, <2>1 DEF Place, Present
<1>4. Coverage'
  <2>1. UnitCovered(active)
    BY SourceAssumption DEF Coverage, Place, UnitCovered
  <2>2. \A u \in Units : UnitCovered(u)' <=> UnitCovered(u)
    BY <1>1 DEF UnitCovered, Linked
  <2>3. \A u \in Units : Skipped(u)' <=> Skipped(u)
    BY DEF Skipped
  <2> QED
    BY <1>1, <2>1, <2>2, <2>3 DEF Coverage
<1> QED
  BY ONLY <1>2, <1>3, <1>4 DEF Inv

\* What is in the ledger stays covered while the ledger grows.
LEMMA CoveredGrows ==
  ASSUME Have \subseteq Have', NEW u \in Units, UnitCovered(u)
  PROVE  UnitCovered(u)'
  BY DEF UnitCovered, Linked

\* A message is new in the ledger exactly when it is not replayed.
LEMMA MessageInv == ASSUME Inv, Message PROVE Inv'
<1> DEFINE n == Size[at] - todo + 1
           c == <<at, n>>
<1> USE DEF Inv
<1>1. /\ phase = "run" /\ phase' = "run" /\ active = at /\ at \in Units /\ todo > 0
      /\ todo <= Size[at] /\ ~Skipped(at) /\ todo' = todo - 1 /\ messages' = messages + 1
      /\ visited' = visited \cup {Ident[at]}
      /\ UNCHANGED <<isolated, exhausted, completion, skipped, at, inside, active, counters,
                      flag, ending, restarts, faulted, unheard>>
  BY DEF Message, Place
<1>2. Size[at] \in Nat /\ todo \in Nat /\ n \in 1..Size[at] /\ todo' \in Nat
      /\ Size[at] - todo' = n /\ Size[at] - todo = n - 1
  BY <1>1, SourceAssumption DEF TypeOK
<1>3. c \in Candidates /\ c[1] = at /\ c[2] = n /\ at \notin skipped
  BY <1>1, <1>2, CandidateFacts DEF Skipped
<1>4. c \notin Shown
  BY <1>1, <1>2, <1>3 DEF Place
<1>5. /\ Have' = Have \cup {c} /\ Shown' = Shown \cup {c} /\ replay' \subseteq Present(rows')
      /\ TypeOK' /\ LedgerOnce' /\ \A d \in batch' : d[1] \notin skipped
      /\ \A d \in replay' : d[1] \notin skipped
  <2> HIDE DEF n
  <2>1. messages' \in Nat
    BY <1>1 DEF TypeOK
  <2>2. CASE c \in replay
    <3>1. replay' = replay \ {c} /\ rows' = rows /\ batch' = batch
      BY <1>1, <2>2 DEF Message, n
    <3>2. c \in Have
      BY <1>1, <2>2 DEF Place, Have
    <3>3. TypeOK' /\ LedgerOnce'
      BY <1>1, <1>2, <2>1, <3>1 DEF TypeOK, LedgerOnce, Present
    <3>4. Have' = Have /\ Shown' = Shown \cup {c}
      BY <1>1, <1>3, <3>1, <3>2 DEF Have, Shown, Present
    <3>5. replay' \subseteq Present(rows')
      BY <1>1, <3>1 DEF Place
    <3> QED
      BY <1>1, <3>1, <3>2, <3>3, <3>4, <3>5 DEF Place, Isolation
  <2>3. CASE c \notin replay
    <3>1. c \notin Have
      BY <1>3, <1>4, <2>3 DEF Shown
    <3>2. /\ replay' = replay
          /\ \/ rows' = Committed(batch \cup {c}) /\ batch' = {}
             \/ batch' = batch \cup {c} /\ rows' = rows
      BY <1>1, <2>3 DEF Message, n
    <3>3. /\ rows' \in [Candidates -> Nat] /\ \A d \in Candidates : rows'[d] <= 1
          /\ batch' \in SUBSET Candidates /\ batch' \cap Present(rows') = {}
          /\ Have' = Have \cup {c} /\ Present(rows) \subseteq Present(rows')
      <4>1. CASE rows' = Committed(batch \cup {c}) /\ batch' = {}
        <5>1. batch \cup {c} \in SUBSET Candidates /\ (batch \cup {c}) \cap Present(rows) = {}
          BY <1>3, <3>1 DEF TypeOK, LedgerOnce, Have
        <5>2. /\ rows' \in [Candidates -> Nat] /\ \A d \in Candidates : rows'[d] <= 1
              /\ Present(rows') = Present(rows) \cup (batch \cup {c})
          BY <4>1, <5>1, CommittedRows DEF TypeOK, LedgerOnce
        <5> QED
          BY <4>1, <5>2 DEF Have
      <4>2. CASE batch' = batch \cup {c} /\ rows' = rows
        BY <1>3, <3>1, <4>2 DEF TypeOK, LedgerOnce, Have, Present
      <4> QED
        BY <3>2, <4>1, <4>2
    <3>4. TypeOK'
      BY <1>1, <1>2, <2>1, <3>2, <3>3 DEF TypeOK
    <3>5. LedgerOnce'
      BY <1>1, <3>3 DEF LedgerOnce
    <3>6. Shown' = Shown \cup {c}
      BY <1>1, <1>3, <2>3, <3>2, <3>3 DEF Shown
    <3> QED
      BY <1>1, <1>3, <3>2, <3>3, <3>4, <3>5, <3>6 DEF Place, Isolation
  <2> QED
    BY <2>2, <2>3
<1>6. Isolation' /\ Ending'
  BY <1>1, <1>5 DEF Isolation, Ending
<1>7. Place'
  <2>1. Cardinality(Shown') = Cardinality(Shown) + 1
    BY <1>4, <1>5, LedgerFinite, FS_AddElement
  <2>2. ASSUME NEW d \in Shown' PROVE d[1] <= at /\ (d[1] = active => d[2] <= Size[at] - todo')
    <3>1. CASE d = c
      BY <1>1, <1>2, <1>3, <3>1 DEF TypeOK
    <3>2. CASE d \in Shown
      <4>1. d[2] \in Nat
        BY <3>2, LedgerFinite, CandidateFacts DEF Shown
      <4> QED
        BY <1>1, <1>2, <3>2, <4>1 DEF Place
    <3> QED
      BY <1>5, <3>1, <3>2
  <2>3. Skipped(at)' <=> Skipped(at)
    BY <1>1 DEF Skipped
  <2>4. todo' <= Size[at]
    BY <1>1, <1>2
  <2> HIDE DEF c, n
  <2> QED
    BY <1>1, <1>5, <2>1, <2>2, <2>3, <2>4 DEF Place
<1>8. Coverage'
  <2>1. ASSUME NEW u \in Units, u <= at, u # active, ~Skipped(u)' PROVE UnitCovered(u)'
    <3>1. ~Skipped(u)
      BY <1>1, <2>1 DEF Skipped
    <3> QED
      BY <1>1, <1>5, <2>1, <3>1, CoveredGrows DEF Coverage
  <2>2. ASSUME NEW i \in 1..n PROVE <<at, i>> \in Have'
    <3>1. \A j \in 1..(Size[at] - todo) : <<at, j>> \in Have
      <4>1. at # 0 /\ todo # 0
        BY <1>1, <1>2 DEF Units
      <4> QED
        BY <1>1, <4>1 DEF Coverage
    <3>2. i = n \/ i \in 1..(Size[at] - todo)
      BY <1>2
    <3> HIDE DEF n
    <3> QED
      BY <1>5, <3>1, <3>2
  <2>3. ASSUME NEW x \in visited' \ {0}
        PROVE  \E v \in Units : v <= at /\ Ident[v] = x /\ <<v, 1>> \in Have'
    <3>1. CASE x = Ident[at]
      <4>1. <<at, 1>> \in Have' /\ at <= at
        BY <1>2, <2>2 DEF TypeOK
      <4> QED
        BY <1>1, <3>1, <4>1
    <3>2. CASE x \in visited \ {0}
      BY <1>1, <1>5, <3>2 DEF Coverage
    <3> QED
      BY <1>1, <3>1, <3>2
  <2> QED
    BY <1>1, <1>2, <2>1, <2>2, <2>3 DEF Coverage
<1> QED
  BY ONLY <1>5, <1>6, <1>7, <1>8 DEF Inv

-----------------------------------------------------------------------------
(* How an attempt ends.                                                    *)

\* The finished candidates are committed, nothing is lost.
LEMMA AbortKeeps ==
  ASSUME Inv, abort_worker_attempt
  PROVE  /\ rows' \in [Candidates -> Nat] /\ \A c \in Candidates : rows'[c] <= 1
         /\ batch' = {} /\ Present(rows') = Have /\ Have' = Have
         /\ Summary(rows') = Cardinality(Have) /\ Cardinality(Have) \in Nat
<1>1. /\ rows' \in [Candidates -> Nat] /\ \A c \in Candidates : rows'[c] <= 1
      /\ batch' = {} /\ Present(rows') = Have
  BY CommittedRows DEF abort_worker_attempt, Inv, TypeOK, LedgerOnce, Have
<1>2. Summary(rows') = Cardinality(Have)
  BY <1>1, SummaryCounts
<1> QED
  BY <1>1, <1>2, LedgerFinite DEF Have, Inv

\* A step that ends the attempt keeps the invariant if it isolates at most the
\* unit it was in, and says so when the traversal was cut short.
LEMMA AttemptOver ==
  ASSUME Inv, phase = "run", abort_worker_attempt,
         phase' \in {"spawn", "finish", "ended"},
         messages' = Summary(rows') \/ (phase' # "finish" /\ messages' = messages),
         phase' = "finish" => gaveUp' \/ interrupted',
         phase' # "ended" => result' = result,
         result' \notin {"inconsistent", "complete"},
         UNCHANGED <<traversal, replay>>,
         skipped' = isolated', isolated' \in SUBSET Units, isolated' \subseteq faulted' \cup unheard'
  PROVE  Inv'
<1> USE AbortKeeps DEF Inv
<1>1. messages' \in Nat
  BY DEF TypeOK
<1>2. TypeOK'
  BY <1>1 DEF TypeOK
<1>3. LedgerOnce' /\ Isolation'
  BY DEF LedgerOnce, Isolation
<1>4. Place' /\ Coverage'
  BY DEF Place, Coverage
<1>5. Ending'
  BY DEF Ending
<1> QED
  BY ONLY <1>2, <1>3, <1>4, <1>5 DEF Inv

LEMMA FailureEnds ==
  ASSUME Inv, phase = "run", Failure, active = 0 \/ active \in faulted' \cup unheard',
         faulted \subseteq faulted', unheard \subseteq unheard'
  PROVE  Inv'
<1>1. /\ abort_worker_attempt /\ UNCHANGED <<traversal, replay, result>>
      /\ phase' \in {"spawn", "finish", "ended"}
      /\ messages' = Summary(rows') \/ (phase' # "finish" /\ messages' = messages)
      /\ phase' = "finish" => gaveUp' \/ interrupted'
  BY DEF Failure, Break
<1>2. \/ skipped' = skipped /\ isolated' = isolated
      \/ active # 0 /\ skipped' = skipped \cup {active} /\ isolated' = isolated \cup {active}
  BY DEF Failure
<1>3. active # 0 => active \in Units
  BY DEF Inv, Place
<1>4. skipped' = isolated' /\ isolated' \in SUBSET Units
      /\ isolated' \subseteq faulted' \cup unheard'
  BY <1>2, <1>3 DEF Inv, Isolation, TypeOK
<1>5. result = "none"
  BY DEF Inv, Isolation
<1> QED
  BY <1>1, <1>4, <1>5, AttemptOver

LEMMA WorkerFailsInv == ASSUME Inv, WorkerFails PROVE Inv'
<1>1. active = 0 \/ active \in faulted' \cup unheard'
  BY DEF WorkerFails, Inv, Place
<1> QED
  BY <1>1, FailureEnds DEF WorkerFails

LEMMA AttemptCutShortInv ==
  ASSUME Inv, ParserFails \/ Interrupted \/ ReopenInterrupted
  PROVE  Inv'
<1> USE DEF Inv, Isolation, TypeOK
<1>1. CASE ParserFails \/ Interrupted
  <2>1. /\ phase = "run" /\ abort_worker_attempt /\ phase' = "finish" /\ messages' = Summary(rows')
        /\ gaveUp' \/ interrupted'
        /\ UNCHANGED <<result, traversal, replay, skipped, isolated, faulted, unheard>>
    BY <1>1 DEF ParserFails, Interrupted, Break
  <2> QED
    BY <2>1, AttemptOver
<1>2. CASE ReopenInterrupted
  <2>1. /\ phase = "run" /\ abort_worker_attempt /\ phase' = "ended" /\ messages' = messages
        /\ result' = "interrupted"
        /\ UNCHANGED <<traversal, replay, skipped, isolated, faulted, unheard>>
    BY <1>2 DEF ReopenInterrupted, attempt
  <2> QED
    BY <2>1, AttemptOver
<1> QED
  BY <1>1, <1>2

\* The traversal is complete: what the worker has shown and what the ledger
\* holds of isolated units is all there is.
LEMMA CompleteInv == ASSUME Inv, Complete PROVE Inv'
<1> USE DEF Inv
<1>1. phase = "run" /\ inside = 0 /\ active = 0 /\ \A u \in Units : u > at => Skipped(u)
  BY DEF Complete, Place
<1>2. CASE replay # {}
  BY <1>1, <1>2, FailureEnds DEF Complete
<1>3. CASE replay = {}
  <2> DEFINE Left == {c \in Present(rows) : c[1] \in skipped}
  <2>1. /\ phase' = "finish" /\ messages' = messages + Cardinality(Left)
        /\ UNCHANGED <<durable, batch, skipped, traversal, active, replay, counters, flag,
                        ending, restarts, faulted, unheard>>
    BY <1>3 DEF Complete
  <2>2. Have = Shown \cup Left /\ Shown \cap Left = {}
    BY <1>3 DEF Have, Shown, Isolation
  <2>3. IsFiniteSet(Shown) /\ IsFiniteSet(Left)
    BY <2>2, LedgerFinite, FS_Subset
  <2>4. Cardinality(Have) = Cardinality(Shown) + Cardinality(Left)
    <3>1. Cardinality(Shown \cap Left) = 0
      BY <2>2, FS_EmptySet
    <3>2. Cardinality(Shown) \in Nat /\ Cardinality(Left) \in Nat
      BY <2>3, FS_CardinalityType
    <3>3. Cardinality(Shown \cup Left)
            = Cardinality(Shown) + Cardinality(Left) - Cardinality(Shown \cap Left)
      BY <2>3, FS_Union
    <3> QED
      BY <2>2, <3>1, <3>2, <3>3
  <2>5. messages' = Cardinality(Have) /\ messages' \in Nat
    BY <1>1, <2>1, <2>4, LedgerFinite DEF Place
  <2>6. Have' = Have /\ \A u \in Units : Skipped(u)' <=> Skipped(u)
    BY <2>1 DEF Have, Present, Skipped
  <2>7. AllCovered'
    <3>1. ASSUME NEW u \in Units, ~Skipped(u) PROVE UnitCovered(u)
      <4>1. u <= at /\ u # 0
        BY <1>1, <3>1 DEF TypeOK, Units
      <4> QED
        BY <1>1, <3>1, <4>1 DEF Coverage
    <3> QED
      BY <2>6, <3>1, CoveredGrows DEF AllCovered
  <2> HIDE DEF Left
  <2>8. TypeOK' /\ LedgerOnce' /\ Isolation'
    BY <1>1, <2>1, <2>5 DEF TypeOK, LedgerOnce, Isolation, Present
  <2>9. Place' /\ Coverage' /\ Ending'
    BY <2>1, <2>5, <2>6, <2>7 DEF Place, Coverage, Ending
  <2> QED
    BY ONLY <2>8, <2>9 DEF Inv
<1> QED
  BY <1>2, <1>3

-----------------------------------------------------------------------------
(* The end of the recovery, and its next invocation.                       *)

LEMMA FinishInv == ASSUME Inv, Finish PROVE Inv'
<1> USE DEF Inv, Finish, attempt
<1>1. abort_worker_attempt
  BY DEF abort_worker_attempt
<1>2. /\ rows' \in [Candidates -> Nat] /\ \A c \in Candidates : rows'[c] <= 1
      /\ batch' = {} /\ Have' = Have
  BY <1>1, AbortKeeps
<1>3. TypeOK' /\ LedgerOnce' /\ Isolation'
  BY <1>2 DEF TypeOK, LedgerOnce, Isolation
<1>4. AllCovered => AllCovered'
  BY <1>2, CoveredGrows DEF AllCovered, Skipped
<1>5. Place' /\ Coverage' /\ Ending'
  BY <1>2, <1>4 DEF Place, Coverage, Ending
<1> QED
  BY ONLY <1>3, <1>5 DEF Inv

LEMMA RecordInv == ASSUME Inv, Record PROVE Inv'
<1> USE DEF Inv, Record, attempt
<1>1. Have' = Have /\ Have = Present(rows)
  BY DEF Have, Present, LedgerOnce
<1>2. messages = Summary(rows)
  BY <1>1, SummaryCounts DEF TypeOK, LedgerOnce, Ending
<1>3. result' # "inconsistent" /\ (result' = "complete" => ~gaveUp /\ ~interrupted)
  BY <1>2
<1>4. AllCovered => AllCovered'
  BY <1>1, CoveredGrows DEF AllCovered, Skipped
<1>5. TypeOK' /\ LedgerOnce' /\ Isolation'
  BY DEF TypeOK, LedgerOnce, Isolation, Present
<1>6. Place' /\ Coverage' /\ Ending'
  BY <1>3, <1>4 DEF Place, Coverage, Ending
<1> QED
  BY ONLY <1>5, <1>6 DEF Inv

LEMMA SpawnTroubleInv == ASSUME Inv, SpawnFails \/ SpawnInterrupted PROVE Inv'
<1> USE DEF Inv, SpawnFails, SpawnInterrupted, Break
<1>1. phase = "spawn" /\ result = "none" /\ batch = {} /\ Have' = Have /\ Have = Present(rows)
  BY DEF LedgerOnce, Isolation, Have, Present
<1>2. Summary(rows) = Cardinality(Have) /\ Summary(rows) \in Nat
  BY <1>1, SummaryCounts DEF TypeOK, LedgerOnce
<1>3. /\ phase' \in {"spawn", "finish", "ended"} /\ messages' \in {messages, Summary(rows)}
      /\ phase' = "finish" => messages' = Summary(rows) /\ (gaveUp' \/ interrupted')
      /\ phase' # "ended" => result' = result
      /\ result' \in {"none", "error", "interrupted"}
      /\ UNCHANGED <<durable, batch, skipped, traversal, active, replay, faulted, unheard>>
  <2>1. CASE SpawnFails
    BY <1>1, <2>1
  <2>2. CASE SpawnInterrupted
    BY <1>1, <2>2
  <2> QED
    BY <2>1, <2>2
<1> HIDE DEF SpawnFails, SpawnInterrupted
<1>4. TypeOK' /\ LedgerOnce' /\ Isolation'
  BY <1>1, <1>2, <1>3 DEF TypeOK, LedgerOnce, Isolation, Present
<1>5. Place' /\ Coverage' /\ Ending'
  BY <1>1, <1>2, <1>3 DEF Place, Coverage, Ending
<1> QED
  BY ONLY <1>4, <1>5 DEF Inv

\* What was in the open transaction is lost, and shown again by the next worker.
LEMMA StoppedInv == ASSUME Inv, Fatal \/ Killed PROVE Inv'
<1> USE DEF Inv, Fatal, Killed, attempt
<1>1. TypeOK' /\ LedgerOnce' /\ Isolation'
  BY DEF TypeOK, LedgerOnce, Isolation, Present
<1>2. Place' /\ Coverage' /\ Ending'
  BY DEF Place, Coverage, Ending
<1> QED
  BY ONLY <1>1, <1>2 DEF Inv

LEMMA ResumeInv == ASSUME Inv, Resume PROVE Inv'
<1> USE DEF Inv, Resume, attempt
<1>1. TypeOK' /\ LedgerOnce' /\ Isolation'
  BY DEF TypeOK, LedgerOnce, Isolation, Present
<1>2. Place' /\ Coverage' /\ Ending'
  BY DEF Place, Coverage, Ending
<1> QED
  BY ONLY <1>1, <1>2 DEF Inv

\* A signal only sets the flag.
LEMMA QuietInv == ASSUME Inv, Signal \/ UNCHANGED vars PROVE Inv'
<1>1. UNCHANGED <<phase, rows, isolated, batch, skipped, at, inside, todo, visited, messages,
                  active, replay, interrupted, gaveUp, result, faulted, unheard>>
  BY DEF Signal, vars, attempt
<1>2. Have' = Have /\ Shown' = Shown /\ Present(rows)' = Present(rows)
  BY <1>1 DEF Have, Shown, Present
<1>3. ASSUME NEW u
      PROVE  (Skipped(u)' <=> Skipped(u)) /\ (Linked(u)' <=> Linked(u))
             /\ (UnitCovered(u)' <=> UnitCovered(u))
  BY <1>1, <1>2 DEF Skipped, UnitCovered, Linked
<1>4. TypeOK' /\ LedgerOnce' /\ Isolation'
  BY <1>1, <1>2 DEF Inv, TypeOK, LedgerOnce, Isolation
<1>5. Place'
  <2>1. Skipped(at)' <=> Skipped(at)
    BY <1>1 DEF Skipped
  <2> QED
    BY <1>1, <1>2, <2>1 DEF Inv, Place
<1>6. Coverage'
  <2>1. Linked(active)' <=> Linked(active)
    BY <1>1, <1>2 DEF Linked
  <2> QED
    BY <1>1, <1>2, <1>3, <2>1 DEF Inv, Coverage
<1>7. Ending'
  BY <1>1, <1>2, <1>3 DEF Inv, Ending, AllCovered
<1> QED
  BY ONLY <1>4, <1>5, <1>6, <1>7 DEF Inv

LEMMA NextInv == Inv /\ [Next]_vars => Inv'
  BY SpawnInv, UnitStartInv, MessageInv, UnitLeftInv, UnitEndInv, CompleteInv, FinishInv, RecordInv,
     WorkerFailsInv, AttemptCutShortInv, SpawnTroubleInv, StoppedInv, ResumeInv, QuietInv
  DEF Next, Work, Trouble, Done

\* What a worker has shown and what the ledger holds stay in step over all
\* attempts, failures and resumptions of recover_source.
THEOREM SupervisionInvariant == Spec => []Inv
  BY InitInv, NextInv, PTL DEF Spec

(***************************************************************************)
(* No candidate is recorded twice, and the catalog agrees with the ledger. *)
(***************************************************************************)
THEOREM RecordedOnce == Spec => []CandidateOnce
<1>1. Inv => CandidateOnce
  BY DEF Inv, LedgerOnce, Isolation, Ending, CandidateOnce
<1> QED
  BY SupervisionInvariant, <1>1, PTL

(***************************************************************************)
(* A complete recovery has every message of every unit that is not         *)
(* isolated, and only the unit a failing worker announced last is isolated.*)
(***************************************************************************)
THEOREM NothingIsLost == Spec => []NothingLost
<1>1. Inv => NothingLost
  <2> SUFFICES ASSUME Inv PROVE NothingLost
    OBVIOUS
  <2> USE DEF Inv
  <2>1. ASSUME result = "complete", NEW u \in Units \ isolated, Above[u] \cap isolated = {}
        PROVE  \/ \A i \in 1..Size[u] : rows[<<u, i>>] = 1
               \/ \E v \in Units : v < u /\ Ident[v] = Ident[u] /\ Ident[u] # 0
                                    /\ rows[<<v, 1>>] = 1
    <3>1. phase = "ended" /\ Have = Present(rows)
      BY <2>1 DEF Isolation, LedgerOnce, Have
    <3>2. UnitCovered(u)
      BY <2>1, <3>1 DEF Ending, AllCovered, Skipped, Isolation
    <3>3. \A c \in Have : rows[c] = 1
      BY <3>1 DEF Present, TypeOK, LedgerOnce
    <3> QED
      BY <3>2, <3>3 DEF UnitCovered, Linked
  <2> QED
    BY <2>1 DEF Isolation, NothingLost
<1> QED
  BY SupervisionInvariant, <1>1, PTL
=============================================================================
