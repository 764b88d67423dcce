---------------------------- MODULE PartBuilder ----------------------------
(***************************************************************************)
(* split_recovered_job_with_interrupt: how a restartable split fills PST   *)
(* parts.  Messages are appended without computing the final file size;    *)
(* the size is projected once per batch, and a batch that turns out to     *)
(* cross the maximum is rolled back and replayed message by message.       *)
(* An interruption discards the open part; the next run starts again from  *)
(* the messages that no published part holds.                              *)
(*                                                                         *)
(* A message is its position in the canonical order; all that is kept of   *)
(* its content is how many bytes it adds and whether the writer can        *)
(* represent it.                                                           *)
(***************************************************************************)
EXTENDS Integers, Sequences, SequencesExt

CONSTANTS
    Messages,           \* number of top-level messages
    Sizes,              \* bytes a message adds to a part
    Overhead,           \* bytes of a part without messages
    FirstOverhead,      \* the same for part 1, which keeps the empty folders
    maximum_pst_bytes,
    FarDivisor,         \* 16 in projection_batch_byte_target: the batch target
    NearDivisor,        \* 256: the batch target near the maximum
    MAX_BATCH_MESSAGES, \* 2048 in the code
    MaxStops            \* bound: interruptions

ASSUME SizeAssumption ==
    /\ Messages \in Nat /\ Sizes \subseteq Nat \ {0}
    /\ Overhead \in Nat /\ FirstOverhead \in Nat /\ maximum_pst_bytes \in Nat \ {0}
    /\ FarDivisor \in Nat \ {0} /\ NearDivisor \in Nat \ {0}
    /\ MAX_BATCH_MESSAGES \in Nat \ {0} /\ MaxStops \in Nat

VARIABLES
    size,       \* bytes of every message
    bad,        \* messages that translation or the writer rejects
    parts,      \* published parts, each the sequence of its messages
    rejected,   \* messages the ledger marks unsupported
    candidates, \* the messages this run found spooled, in canonical order
    index,      \* candidate_index
    part,       \* messages of the open part
    batch,      \* [index, part, attempts, eof] at the last checkpoint
    exact,      \* exact_replay
    phase,      \* "begin", "loop", "finalize", "done", "failed", "down"
    stops

vars == <<size, bad, parts, rejected, candidates, index, part, batch, exact, phase, stops>>
input == <<size, bad>>

All == 1..Messages
Largest(m, n) == IF m > n THEN m ELSE n
Bytes(p) ==
    LET Sum[n \in 0..Len(p)] == IF n = 0 THEN 0 ELSE Sum[n - 1] + size[p[n]]
    IN  Sum[Len(p)]
Written == UNION {Range(parts[i]) : i \in DOMAIN parts}

\* projected_file_eof and private_file_eof: the file that finalization would
\* publish, and the bytes allocated so far.
projected_file_eof(p, n) == Bytes(p) + (IF n = 1 THEN FirstOverhead ELSE Overhead)
private_file_eof == Bytes(part)

projection_batch_byte_target ==
    LET reserve == Largest(maximum_pst_bytes \div FarDivisor, 1)
    IN  IF private_file_eof >= Largest(maximum_pst_bytes - reserve, 0)
        THEN Largest(maximum_pst_bytes \div NearDivisor, 1)
        ELSE reserve

Init ==
    /\ size \in [All -> Sizes] /\ bad \in SUBSET All
    /\ parts = <<>> /\ rejected = {}
    /\ candidates = <<>> /\ index = 1 /\ part = <<>>
    /\ batch = [index |-> 1, part |-> <<>>, attempts |-> 0, eof |-> 0]
    /\ exact = FALSE /\ phase = "down" /\ stops = 0

\* The header pass: what the ledger still holds as spooled, sorted.
Spooled ==
    LET UpTo[n \in 0..Messages] ==
            IF n = 0 THEN <<>>
            ELSE IF n \in Written \cup rejected THEN UpTo[n - 1]
            ELSE Append(UpTo[n - 1], n)
    IN  UpTo[Messages]

BeginRun ==
    /\ phase = "down"
    /\ candidates' = Spooled
    /\ index' = 1 /\ part' = <<>> /\ phase' = "begin"
    /\ UNCHANGED <<input, parts, rejected, batch, exact, stops>>

Checkpoint(i, p) == [index |-> i, part |-> p, attempts |-> 0, eof |-> Bytes(p)]

BeginPart ==
    /\ phase = "begin"
    /\ IF index <= Len(candidates)
       THEN /\ part' = <<>> /\ batch' = Checkpoint(index, <<>>) /\ exact' = FALSE
            /\ phase' = "loop"
       ELSE phase' = "done" /\ UNCHANGED <<part, batch, exact>>
    /\ UNCHANGED <<input, parts, rejected, candidates, index, stops>>

-----------------------------------------------------------------------------
(* The loop over candidates.                                               *)

BatchDue ==
    /\ ~exact /\ batch.attempts # 0 /\ part # <<>>
    /\ \/ private_file_eof - batch.eof >= projection_batch_byte_target
       \/ batch.attempts >= MAX_BATCH_MESSAGES
       \/ index > Len(candidates)
TooLarge(p) == projected_file_eof(p, Len(parts) + 1) > maximum_pst_bytes /\ Len(p) > 1

AcceptBatch ==
    /\ phase = "loop" /\ BatchDue /\ ~TooLarge(part)
    /\ batch' = Checkpoint(index, part)
    /\ UNCHANGED <<input, parts, rejected, candidates, index, part, exact, phase, stops>>

\* Mutant: candidate_index is not taken back to the checkpoint.
rollback_batch_keeps_index ==
    /\ phase = "loop" /\ BatchDue /\ TooLarge(part)
    /\ part' = batch.part
    /\ batch' = [batch EXCEPT !.attempts = 0] /\ exact' = TRUE
    /\ UNCHANGED <<input, parts, rejected, candidates, index, phase, stops>>
\* Mutant: the replay is not exact.
rollback_batch_deferred_again ==
    /\ phase = "loop" /\ BatchDue /\ TooLarge(part)
    /\ part' = batch.part /\ index' = batch.index
    /\ batch' = [batch EXCEPT !.attempts = 0]
    /\ UNCHANGED <<input, parts, rejected, candidates, exact, phase, stops>>

rollback_batch ==
    /\ phase = "loop" /\ BatchDue /\ TooLarge(part)
    /\ part' = batch.part /\ index' = batch.index
    /\ batch' = [batch EXCEPT !.attempts = 0] /\ exact' = TRUE
    /\ UNCHANGED <<input, parts, rejected, candidates, phase, stops>>

ClosePart ==
    /\ phase = "loop" /\ ~BatchDue /\ index > Len(candidates)
    /\ phase' = "finalize"
    /\ UNCHANGED <<input, parts, rejected, candidates, index, part, batch, exact, stops>>

AtCandidate == phase = "loop" /\ ~BatchDue /\ index <= Len(candidates)
Candidate == candidates[index]
Attempted == [batch EXCEPT !.attempts = @ + 1]

\* terminal_candidate_keys: rejected before the batch was rolled back.
SkipTerminal ==
    /\ AtCandidate /\ Candidate \in rejected
    /\ index' = index + 1
    /\ UNCHANGED <<input, parts, rejected, candidates, part, batch, exact, phase, stops>>

RejectCandidate ==
    /\ AtCandidate /\ Candidate \notin rejected /\ Candidate \in bad
    /\ rejected' = rejected \cup {Candidate}
    /\ index' = index + 1 /\ batch' = Attempted
    /\ UNCHANGED <<input, parts, candidates, part, exact, phase, stops>>

\* append_message_deferred, or append_message in exact replay, which gives the
\* message back when the part would become too large.
PartFull == exact /\ TooLarge(Append(part, Candidate))
append_message ==
    /\ AtCandidate /\ Candidate \notin rejected \cup bad
    /\ IF PartFull
       THEN phase' = "finalize" /\ UNCHANGED <<part, index, batch>>
       ELSE /\ part' = Append(part, Candidate)
            /\ index' = index + 1 /\ batch' = Attempted
            /\ UNCHANGED phase
    /\ UNCHANGED <<input, parts, rejected, candidates, exact, stops>>

\* Finalizing and publishing; a part of several messages must not exceed the
\* maximum, and a part without any is dropped.
finalize ==
    /\ phase = "finalize"
    /\ CASE part = <<>> -> phase' = "begin" /\ UNCHANGED parts
         [] TooLarge(part) -> phase' = "failed" /\ UNCHANGED parts
         [] OTHER -> phase' = "begin" /\ parts' = Append(parts, part)
    /\ UNCHANGED <<input, rejected, candidates, index, part, batch, exact, stops>>

\* An interruption or a killed process: the open part is discarded.
Stop ==
    /\ phase \in {"begin", "loop", "finalize"}
    /\ stops < MaxStops /\ stops' = stops + 1
    /\ phase' = "down" /\ part' = <<>>
    /\ UNCHANGED <<input, parts, rejected, candidates, index, batch, exact>>

Ended == phase \in {"done", "failed"} /\ UNCHANGED vars

Step == \/ BeginRun \/ BeginPart \/ AcceptBatch \/ rollback_batch \/ ClosePart
        \/ SkipTerminal \/ RejectCandidate \/ append_message \/ finalize
Next == Step \/ Stop \/ Ended
Spec == Init /\ [][Next]_vars
\* The loop goes on by itself; an unfinished split is run again.
FairSpec == Spec /\ WF_vars(Step)

-----------------------------------------------------------------------------
(* Properties.                                                             *)

\* The reference: messages in order, a new part whenever the next one would
\* make the part exceed the maximum.
Place(acc, m) ==
    IF acc = <<>> THEN <<<<m>>>>
    ELSE LET grown == Append(Last(acc), m)
         IN  IF projected_file_eof(grown, Len(acc)) > maximum_pst_bytes
             THEN Append(acc, <<m>>)
             ELSE Append(Front(acc), grown)
GreedyTo ==
    LET Cut[n \in 0..Messages] ==
            IF n = 0 THEN <<>>
            ELSE IF n \in bad THEN Cut[n - 1] ELSE Place(Cut[n - 1], n)
    IN  Cut
Greedy == GreedyTo[Messages]

\* Deferred batches, rollback, exact replay, rejections found in a batch that
\* is rolled back, and interrupted runs all give the parts of the plain
\* one-message-at-a-time rule: the same messages, in the same order, cut at the
\* same places; and whatever reaches finalization fits or is a single message,
\* so SplitError::PartExceedsMaximum never happens.
PartsAsReference ==
    /\ IsPrefix(parts, Greedy)
    /\ phase = "done" => parts = Greedy /\ rejected = bad
    /\ phase = "finalize" => ~TooLarge(part)

\* The split ends: no batch is rolled back for ever.
SplitEnds == <>(phase = "done")
=============================================================================
