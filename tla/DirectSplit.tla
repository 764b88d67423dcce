---------------------------- MODULE DirectSplit ----------------------------
(***************************************************************************)
(* split_direct_recovered_job: the split that writes messages as the one   *)
(* worker delivers them.  There is no spool to go back to, so a part is    *)
(* closed before the message that does not fit is read; the exact size is  *)
(* computed only near the maximum.  Folders become known while the worker  *)
(* walks the store, and a part has a layout before all of them are known.  *)
(*                                                                         *)
(* A message is its position in the worker's order.  Of its content there  *)
(* remain the bytes it adds and what becomes of it; a folder is its        *)
(* position in the worker's order, and folder 0 stands for the generated   *)
(* destination of messages found outside every folder.                     *)
(***************************************************************************)
EXTENDS Integers, Sequences, FiniteSets, SequencesExt

CONSTANTS
    Messages,           \* number of top-level messages
    Folders,            \* number of source folders
    Sizes,              \* bytes a message adds to a part
    Overhead,           \* bytes of a part without folders and messages
    FolderBytes,        \* bytes of a folder in a finished part
    maximum_pst_bytes,
    BoundaryDivisor,    \* 16 in direct_exact_projection_required
    MaxOdd              \* bound: messages not written, and folders refused

ASSUME DirectAssumption ==
    /\ Messages \in Nat /\ Folders \in Nat /\ Sizes \subseteq Nat \ {0}
    /\ Overhead \in Nat /\ FolderBytes \in Nat /\ maximum_pst_bytes \in Nat \ {0}
    /\ BoundaryDivisor \in Nat \ {0} /\ MaxOdd \in Nat

VARIABLES
    size,       \* bytes of every message
    bad,        \* messages that translation or the writer rejects
    terminal,   \* messages whose ledger row is final when they arrive
    seen,       \* messages delivered before the row of each folder
    odd,        \* folders that validate_mail_store_layout refuses
    index,      \* messages dealt with
    active,     \* the open part [number, folders, messages, eof], or NoPart
    intent,     \* the part whose publication is recorded but not committed
    parts,      \* published parts of the ledger
    reports,    \* the part reports of this run
    rejected,   \* messages the ledger marks unsupported
    flag,       \* the interrupt flag
    phase,
    cause       \* why the split failed

input == <<size, bad, terminal, seen, odd>>
output == <<intent, parts, reports>>
vars == <<input, index, active, output, rejected, flag, phase, cause>>

NoPart == [number |-> 0, folders |-> {}, messages |-> <<>>, eof |-> 0]
All == 1..Messages

\* load_canonical_folders once n messages have been delivered.
Known(n) == {f \in 1..Folders : seen[f] < n}
\* A folder's messages follow its row.
Home(m) == IF Known(m) = {} THEN 0 ELSE CHOOSE f \in Known(m) : \A g \in Known(m) : g <= f
Homes(p) == {Home(p[i]) : i \in DOMAIN p}

-----------------------------------------------------------------------------
(* Projections.                                                            *)

\* Only part 1 keeps folders without messages.
KeptFolders(p) == IF p.number = 1 THEN p.folders ELSE Homes(p.messages)
finalized_file_eof(p) ==
    Overhead + FolderBytes * Cardinality(KeptFolders(p)) + p.eof
private_file_eof(p) == p.eof

Larger(m, n) == IF m > n THEN m ELSE n
finalization_boundary == Larger(maximum_pst_bytes \div BoundaryDivisor, 1)

\* Mutant: the reserve for the final tables is forgotten.
exact_without_reserve(projected_private_eof) == projected_private_eof >= maximum_pst_bytes
direct_exact_projection_required(projected_private_eof) ==
    projected_private_eof >= Larger(maximum_pst_bytes - finalization_boundary, 0)

direct_required_capacity(source_bytes) == source_bytes + source_bytes \div 4
source_bytes ==
    LET Sum[n \in 0..Messages] == IF n = 0 THEN Overhead ELSE Sum[n - 1] + size[n]
    IN  Sum[Messages]
single_part_without_incremental_projection ==
    maximum_pst_bytes >= direct_required_capacity(source_bytes)

\* observe_folder for the destination, then the message.
With(p, m) == [number |-> p.number, folders |-> p.folders \cup {Home(m)},
               messages |-> Append(p.messages, m), eof |-> p.eof + size[m]]

\* Mutant: a part that is exactly full is closed.
RollsOver_at_maximum(m) ==
    /\ ~single_part_without_incremental_projection /\ active.messages # <<>>
    /\ direct_exact_projection_required(private_file_eof(With(active, m)))
    /\ finalized_file_eof(With(active, m)) >= maximum_pst_bytes
RollsOver(m) ==
    /\ ~single_part_without_incremental_projection /\ active.messages # <<>>
    /\ direct_exact_projection_required(private_file_eof(With(active, m)))
    /\ finalized_file_eof(With(active, m)) > maximum_pst_bytes

-----------------------------------------------------------------------------
Init ==
    /\ size \in [All -> Sizes]
    /\ bad \in SUBSET All /\ terminal \in SUBSET (All \ bad)
    /\ Cardinality(bad \cup terminal) <= MaxOdd
    /\ seen \in [1..Folders -> 0..Messages]
    /\ \A f \in 1..(Folders - 1) : seen[f] <= seen[f + 1]
    /\ odd \in SUBSET (1..Folders) /\ Cardinality(odd) <= MaxOdd
    /\ index = 0 /\ active = NoPart /\ intent = NoPart
    /\ parts = <<>> /\ reports = <<>> /\ rejected = {}
    /\ flag = FALSE /\ phase = "loop" /\ cause = "none"

\* The outcome leaves the loop: the open part is dropped with its file.
Outcome(p) == phase' = p /\ active' = NoPart /\ UNCHANGED cause
Fail(why) == phase' = "failed" /\ cause' = why /\ active' = NoPart

AtMessage == phase = "loop" /\ index < Messages
Candidate == index + 1
Unwritable(m) == m \in bad \/ Home(m) \in odd

\* The flag read after next_one_pass_candidate, or inside an append.
LoopInterrupted ==
    /\ AtMessage /\ flag /\ Outcome("interrupted")
    /\ UNCHANGED <<input, index, output, rejected, flag>>
\* Read while a folder list or a message tree is loaded it is no outcome.
LoadInterrupted ==
    /\ AtMessage /\ flag /\ Fail("flag")
    /\ UNCHANGED <<input, index, output, rejected, flag>>

candidate_is_terminal ==
    /\ AtMessage /\ Candidate \in terminal
    /\ index' = index + 1
    /\ UNCHANGED <<input, active, output, rejected, flag, phase, cause>>
RejectCandidate ==
    /\ AtMessage /\ Candidate \notin terminal /\ Unwritable(Candidate)
    /\ rejected' = rejected \cup {Candidate} /\ index' = index + 1
    /\ UNCHANGED <<input, active, output, flag, phase, cause>>

Writable(m) == m \notin terminal /\ ~Unwritable(m)
AtWritable == AtMessage /\ Writable(Candidate)

\* Every folder known by now is in the layout, and one that the writer
\* refuses ends the split: nothing filters the reloaded list.
begin_direct_part ==
    /\ AtWritable /\ active = NoPart
    /\ IF Known(Candidate) \cap odd # {}
       THEN Fail("layout")
       ELSE /\ active' = [number |-> Len(reports) + 1, folders |-> Known(Candidate),
                          messages |-> <<>>, eof |-> 0]
            /\ UNCHANGED <<phase, cause>>
    /\ UNCHANGED <<input, index, output, rejected, flag>>

append_message_direct ==
    /\ AtWritable /\ active # NoPart /\ ~RollsOver(Candidate)
    /\ active' = With(active, Candidate) /\ index' = index + 1
    /\ UNCHANGED <<input, output, rejected, flag, phase, cause>>

\* The disk cannot hold the rest of the part.
direct_part_space_preflight ==
    /\ AtWritable /\ active # NoPart /\ ~RollsOver(Candidate)
    /\ ~single_part_without_incremental_projection
    /\ Fail("disk")
    /\ UNCHANGED <<input, index, output, rejected, flag>>

\* The folder of the message that does not fit was observed before its size
\* was projected, and stays in the layout of the part that is closed.
ClosePart ==
    /\ AtWritable /\ active # NoPart /\ RollsOver(Candidate)
    /\ active' = [active EXCEPT !.folders = @ \cup {Home(Candidate)}]
    /\ phase' = "rollover"
    /\ UNCHANGED <<input, index, output, rejected, flag, cause>>

-----------------------------------------------------------------------------
(* finalize_direct_part, in the loop and at its end.                       *)

Closing == phase \in {"rollover", "last"}
Exceeds(p) == finalized_file_eof(p) > maximum_pst_bytes /\ Len(p.messages) # 1

PartExceedsMaximum ==
    /\ Closing /\ intent = NoPart /\ Exceeds(active)
    /\ Fail("exceeds")
    /\ UNCHANGED <<input, index, output, rejected, flag>>
record_publication_intent ==
    /\ Closing /\ intent = NoPart /\ ~Exceeds(active)
    /\ intent' = active
    /\ UNCHANGED <<input, index, active, parts, reports, rejected, flag, phase, cause>>
commit_published_part ==
    /\ Closing /\ intent # NoPart
    /\ parts' = Append(parts, intent) /\ reports' = Append(reports, intent)
    /\ intent' = NoPart /\ active' = NoPart
    /\ phase' = IF phase = "rollover" THEN "loop" ELSE "done"
    /\ UNCHANGED <<input, index, rejected, flag, cause>>

\* While the writer finalizes, or before the intent.
FinalizeInterrupted ==
    /\ Closing /\ intent = NoPart /\ flag /\ Outcome("interrupted")
    /\ UNCHANGED <<input, index, output, rejected, flag>>
\* Mutant: the part whose publication was under way is left to nobody.
PublishInterrupted_unreconciled ==
    /\ Closing /\ intent # NoPart /\ flag /\ Outcome("interrupted")
    /\ UNCHANGED <<input, index, output, rejected, flag>>
\* After the intent, with the file in place: reconcile_pending_publications
\* commits it and durable_output_snapshot replaces the reports.
PublishInterrupted ==
    /\ Closing /\ intent # NoPart /\ flag /\ Outcome("interrupted")
    /\ parts' = Append(parts, intent) /\ intent' = NoPart /\ reports' = parts'
    /\ UNCHANGED <<input, index, rejected, flag>>

-----------------------------------------------------------------------------
(* The end of the worker.                                                  *)

\* The completion frame, the end of the stream and a clean exit.
WorkerFinishes ==
    /\ phase = "loop" /\ index = Messages
    /\ phase' = "drained"
    /\ UNCHANGED <<input, index, active, output, rejected, flag, cause>>

\* A crash, a stall or a protocol error: one attempt is all there is.
WorkerFails ==
    /\ phase = "loop" /\ Outcome("terminal")
    /\ UNCHANGED <<input, index, output, rejected, flag>>

\* Every folder of the store, the refused ones apart, joins the open part.
ObserveLastFolders ==
    /\ phase = "drained"
    /\ IF active = NoPart
       THEN phase' = "done" /\ UNCHANGED active
       ELSE /\ active' = [active EXCEPT !.folders = @ \cup (Known(Messages + 1) \ odd)]
            /\ phase' = "last"
    /\ UNCHANGED <<input, index, output, rejected, flag, cause>>

Running == phase \in {"loop", "rollover", "drained", "last"}
Signal == Running /\ ~flag /\ flag' = TRUE
          /\ UNCHANGED <<input, index, active, output, rejected, phase, cause>>
Over == ~Running /\ UNCHANGED vars

Next == \/ LoopInterrupted \/ LoadInterrupted \/ candidate_is_terminal \/ RejectCandidate
        \/ begin_direct_part \/ append_message_direct \/ direct_part_space_preflight \/ ClosePart
        \/ PartExceedsMaximum \/ record_publication_intent \/ commit_published_part
        \/ FinalizeInterrupted \/ PublishInterrupted
        \/ WorkerFinishes \/ WorkerFails \/ ObserveLastFolders \/ Signal \/ Over
Spec == Init /\ [][Next]_vars

-----------------------------------------------------------------------------
(* Properties.                                                             *)

Published == UNION {Range(parts[i].messages) : i \in DOMAIN parts}

\* The parts are those of the plain rule although most sizes are never
\* computed: every writable message up to some point, once and in order, each
\* part as large as the maximum allows (the message after it did not fit), none
\* above the maximum unless it is a single message; and all of them once the
\* split is done.
DirectCutsAsReference ==
    /\ \E n \in 0..Messages : /\ Published = {m \in 1..n : Writable(m)}
                              /\ phase = "done" => n = Messages
    /\ \A i, j \in DOMAIN parts :
         \A k \in DOMAIN parts[i].messages, l \in DOMAIN parts[j].messages :
            i < j \/ (i = j /\ k < l) => parts[i].messages[k] < parts[j].messages[l]
    /\ \A i \in DOMAIN parts :
        /\ parts[i].number = i /\ ~Exceeds(parts[i])
        /\ i > 1 => finalized_file_eof(With(parts[i - 1], Head(parts[i].messages)))
                        > maximum_pst_bytes

\* A folder that was not known when the open part was begun and holds none of
\* its messages.
LateAndEmpty(f) == f \notin Known(Head(active.messages)) \cup Homes(active.messages)

\* A split is lost to a part above the maximum only in the four cases that the
\* cheap test cannot see: the capacity estimate ruled projections out, the
\* final tables took more than the reserve, or part 1, the one that keeps empty
\* folders, was given one after the last projection that counted: at the end
\* of the store, or the folder of the very message that closed the part.
DirectFailureExplained ==
    Closing /\ Exceeds(active) =>
        \/ single_part_without_incremental_projection
        \/ finalized_file_eof(active) - private_file_eof(active) > finalization_boundary
        \/ phase = "last" /\ active.number = 1 /\ \E f \in active.folders : LateAndEmpty(f)
        \/ phase = "rollover" /\ active.number = 1 /\ LateAndEmpty(Home(Candidate))

\* Whatever ends the split, it reports exactly the parts that the ledger
\* publishes, and no publication is left for later.
DirectReportExact ==
    phase \in {"done", "interrupted", "terminal"} => reports = parts /\ intent = NoPart
=============================================================================
