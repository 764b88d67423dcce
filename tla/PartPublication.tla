-------------------------- MODULE PartPublication --------------------------
(***************************************************************************)
(* How pstforge-job turns a staged PST into an output part: a sidecar is   *)
(* staged, the publication intent is recorded in the ledger, the PST and   *)
(* then the sidecar are renamed into place, each rename followed by a sync *)
(* of the destination directory, and one transaction records the part and  *)
(* marks its items written.  An interruption, a killed process or a        *)
(* stopped host may come between any two steps; opening the job again      *)
(* finishes or withdraws the publication from what it finds.               *)
(*                                                                         *)
(* fs is the file system as running processes see it, disk what a host     *)
(* stop is certain to leave: a rename is atomic, but it is only certain    *)
(* once the destination directory has been synced.                         *)
(***************************************************************************)
EXTENDS Integers, FiniteSets

CONSTANTS
    Keys,           \* items waiting in the ledger
    MaxRejections,  \* bound: items rejected by the writer
    MaxStops,       \* bound: interruptions and process stops
    MaxHostStops,   \* bound: host stops
    NoFile          \* no file

ASSUME BoundAssumption ==
    MaxRejections \in Nat /\ MaxStops \in Nat /\ MaxHostStops \in Nat
ASSUME FiniteAssumption == IsFiniteSet(Keys)
ASSUME NoFileAssumption == NoFile \notin [index : Nat, keys : SUBSET Keys, attempt : Nat]

VARIABLES
    status,     \* candidates.status of every item
    parts,      \* rows of parts with their part_items: the published files
    intents,    \* rows of publication_intents: the files to publish
    fs,         \* [pst, sidecar]: per part index, where its file is now
    disk,       \* the same, as a host stop is certain to leave it
    cur,        \* the part being published, or NoFile
    pc,         \* the next step of the process
    opening,    \* the reconciliation is part of open_expected
    attempt,    \* parts staged so far: tells two builds of one part apart
    rejections, stops, hostStops

vars == <<status, parts, intents, fs, disk, cur, pc, opening, attempt,
          rejections, stops, hostStops>>
counters == <<rejections, stops, hostStops>>
ledger == <<status, parts, intents>>
files == <<fs, disk>>

\* A file is identified by its part index, its items and the build it came
\* from: the intent and the sidecar carry its length, SHA-256, device and inode.
Indices == 1 .. Cardinality(Keys)
Files == [index : Indices, keys : SUBSET Keys, attempt : Nat]
Nowhere == [at |-> "none", file |-> NoFile]
Kinds == {"pst", "sidecar"}
Places == {Nowhere} \cup [at : {"torn", "partial", "final"}, file : Files]
\* A file that was created and is not written out yet.
Torn(f) == [at |-> "torn", file |-> f]
Partial(f) == [at |-> "partial", file |-> f]
Final(f) == [at |-> "final", file |-> f]

Init ==
    /\ status = [k \in Keys |-> "spooled"]
    /\ parts = {} /\ intents = {}
    /\ fs = [pst |-> [i \in Indices |-> Nowhere], sidecar |-> [i \in Indices |-> Nowhere]]
    /\ disk = fs
    /\ cur = NoFile /\ pc = "idle" /\ opening = FALSE /\ attempt = 0
    /\ rejections = 0 /\ stops = 0 /\ hostStops = 0

-----------------------------------------------------------------------------
(* File operations.                                                        *)

Put(kind, i, place) == fs' = [fs EXCEPT ![kind][i] = place]
\* sync_file of the directory that holds the final files of this kind: what
\* is visible there becomes certain.
SyncFinal(kind) ==
    disk' = [disk EXCEPT ![kind] =
                [i \in Indices |-> IF fs[kind][i].at = "final" THEN fs[kind][i]
                                   ELSE disk[kind][i]]]

At(step) == pc = step
Goto(step) == pc' = step

-----------------------------------------------------------------------------
(* Building and publishing a part.                                         *)

Spooled == {k \in Keys : status[k] = "spooled"}
NextIndex == Cardinality(parts) + 1

\* mark_candidate_rejections: items the writer cannot represent, committed
\* before the part they were left out of is published.
mark_candidate_rejections(k) ==
    /\ pc \in {"idle", "staged"} /\ rejections < MaxRejections
    /\ status[k] = "spooled" /\ (cur # NoFile => k \notin cur.keys)
    /\ status' = [status EXCEPT ![k] = "unsupported"]
    /\ rejections' = rejections + 1
    /\ UNCHANGED <<parts, intents, files, cur, pc, opening, attempt, stops, hostStops>>

\* The writer has finalized and synced a part in the partial directory, after
\* remove_staged_if_present and available_part_filename.
StagePart(keys) ==
    /\ At("idle") /\ keys # {} /\ keys \subseteq Spooled
    /\ LET file == [index |-> NextIndex, keys |-> keys, attempt |-> attempt]
       IN  IF fs.pst[NextIndex].at = "final" \/ fs.sidecar[NextIndex].at = "final"
           THEN /\ Goto("refused")              \* JobError::OutputNameConflict
                /\ UNCHANGED <<fs, cur, attempt>>
           ELSE /\ Put("pst", NextIndex, Partial(file))
                /\ cur' = file /\ attempt' = attempt + 1
                /\ Goto("staged")
    /\ UNCHANGED <<ledger, disk, opening, counters>>

\* publish_part_with_interrupt up to the creation of the sidecar.
create_sidecar_partial ==
    /\ At("staged")
    /\ fs.pst[cur.index] = Partial(cur)
    /\ IF fs.sidecar[cur.index] # Nowhere
       THEN Goto("refused") /\ UNCHANGED fs     \* refuse_existing
       ELSE Put("sidecar", cur.index, Torn(cur)) /\ Goto("describing")
    /\ UNCHANGED <<ledger, disk, cur, opening, attempt, counters>>

\* The rest of write_sidecar_partial: the content is written and synced.
write_sidecar_partial ==
    /\ At("describing")
    /\ Put("sidecar", cur.index, Partial(cur)) /\ Goto("described")
    /\ UNCHANGED <<ledger, disk, cur, opening, attempt, counters>>

\* Mutant: the intent is not written before the renames.
record_publication_intent_skipped ==
    /\ At("described")
    /\ Goto("intended")
    /\ UNCHANGED <<ledger, files, cur, opening, attempt, counters>>

\* record_publication_intent: every item must still be spooled; part_index is
\* the table's primary key.
record_publication_intent ==
    /\ At("described")
    /\ IF cur.keys \subseteq Spooled /\ \A f \in intents : f.index # cur.index
       THEN intents' = intents \cup {cur} /\ Goto("intended")
       ELSE Goto("down") /\ UNCHANGED intents
    /\ UNCHANGED <<status, parts, files, cur, opening, attempt, counters>>

rename_part ==
    /\ At("intended")
    /\ Put("pst", cur.index, Final(cur)) /\ Goto("renamed")
    /\ UNCHANGED <<ledger, disk, cur, opening, attempt, counters>>

\* Mutant: the parts directory is not synced after the rename.
sync_parts_skipped ==
    /\ At("renamed")
    /\ Goto("synced")
    /\ UNCHANGED <<ledger, files, cur, opening, attempt, counters>>

sync_parts ==
    /\ At("renamed")
    /\ SyncFinal("pst") /\ Goto("synced")
    /\ UNCHANGED <<ledger, fs, cur, opening, attempt, counters>>

rename_sidecar ==
    /\ At("synced")
    /\ fs.pst[cur.index] = Final(cur)           \* verify_part_artifact
    /\ Put("sidecar", cur.index, Final(cur)) /\ Goto("sidecar_renamed")
    /\ UNCHANGED <<ledger, disk, cur, opening, attempt, counters>>

sync_manifests ==
    /\ At("sidecar_renamed")
    /\ SyncFinal("sidecar") /\ Goto("sidecar_synced")
    /\ UNCHANGED <<ledger, fs, cur, opening, attempt, counters>>

\* commit_published_part_transaction, which the reconciliation shares: all of
\* it or, when an item or the intent is not as expected, none of it.
Committable(f) == f \in intents /\ f.keys \subseteq Spooled
\* Mutant: the items keep their status.
CommitPart_keeps_status(f) ==
    /\ parts' = parts \cup {f}
    /\ intents' = intents \ {f}
    /\ UNCHANGED status
CommitPart(f) ==
    /\ parts' = parts \cup {f}
    /\ status' = [k \in Keys |-> IF k \in f.keys THEN "written" ELSE status[k]]
    /\ intents' = intents \ {f}

commit_published_part_transaction ==
    /\ At("sidecar_synced")
    /\ fs.sidecar[cur.index] = Final(cur)       \* verify_sidecar_artifact
    /\ IF Committable(cur)
       THEN CommitPart(cur) /\ Goto("idle")
       ELSE UNCHANGED ledger /\ Goto("down")
    /\ cur' = NoFile
    /\ UNCHANGED <<files, opening, attempt, counters>>

-----------------------------------------------------------------------------
(* Stopping.                                                               *)

\* check_interrupted between the steps: the error leaves everything as it is.
\* A direct split then reconciles before it ends, a restartable one is left
\* for the next open_expected.
Interrupt ==
    /\ pc \in {"idle", "staged", "described", "synced", "sidecar_synced"}
    /\ stops < MaxStops /\ stops' = stops + 1
    /\ cur' = NoFile /\ opening' = FALSE
    /\ pc' \in {"down", "reconcile"}
    /\ UNCHANGED <<ledger, files, attempt, rejections, hostStops>>

\* The process is killed, or a system call fails.
ProcessStop ==
    /\ pc \notin {"down", "refused"}
    /\ stops < MaxStops /\ stops' = stops + 1
    /\ cur' = NoFile /\ Goto("down")
    /\ UNCHANGED <<ledger, files, opening, attempt, rejections, hostStops>>

\* The host stops: each file is where the last sync left it or where it was
\* seen last.  The ledger is durable (synchronous = FULL).
HostStop ==
    /\ pc # "refused" /\ hostStops < MaxHostStops /\ hostStops' = hostStops + 1
    /\ \E kept \in SUBSET (Kinds \X Indices) :
          fs' = [kind \in Kinds |-> [i \in Indices |->
                    IF <<kind, i>> \in kept THEN fs[kind][i] ELSE disk[kind][i]]]
    /\ disk' = fs'
    /\ cur' = NoFile /\ Goto("down")
    /\ UNCHANGED <<ledger, opening, attempt, rejections, stops>>

-----------------------------------------------------------------------------
(* Opening the job again.                                                  *)

\* open_expected up to reconcile_publications.
open_expected ==
    /\ At("down")
    /\ opening' = TRUE /\ Goto("reconcile")
    /\ UNCHANGED <<ledger, files, cur, attempt, counters>>

AfterReconcile == IF opening THEN "clean" ELSE "down"

\* Mutant: an intent whose PST is not in place is left in the ledger.
WithdrawnIntents_kept(f) == intents
WithdrawnIntents(f) == intents \ {f}

\* reconcile_publications, for the first intent left.  A sidecar without its
\* PST, a file that is not the intended one, or a staged sidecar that is not
\* whole, is an integrity error.
Contradictory(f) ==
    LET pst == fs.pst[f.index]
        sidecar == fs.sidecar[f.index]
    IN  IF pst.at = "final" THEN pst.file # f \/ sidecar.file \notin {f, NoFile} \/ sidecar.at = "torn"
        ELSE sidecar.at = "final"
\* The PST was never renamed: the publication did not happen.
withdraw_intent(f) ==
    /\ fs.pst[f.index].at # "final"
    /\ intents' = WithdrawnIntents(f)
    /\ Goto("reconcile") /\ UNCHANGED <<fs, cur>>
\* The PST is in place: its sidecar is, or is staged, or is created now.
resume_intent(f) ==
    /\ fs.pst[f.index].at = "final"
    /\ cur' = f
    /\ \/ fs.sidecar[f.index] = Final(f) /\ Goto("sidecar_durable") /\ UNCHANGED fs
       \/ fs.sidecar[f.index] = Partial(f) /\ Goto("sidecar_ready") /\ UNCHANGED fs
       \/ /\ fs.sidecar[f.index] = Nowhere
          /\ Put("sidecar", f.index, Torn(f)) /\ Goto("sidecar_writing")
    /\ UNCHANGED intents
reconcile_publications ==
    /\ At("reconcile")
    /\ \/ /\ intents = {}
          /\ Goto(AfterReconcile) /\ UNCHANGED <<intents, fs, cur>>
       \/ \E f \in intents :
             /\ \A g \in intents : f.index <= g.index
             /\ IF Contradictory(f) THEN Goto("refused") /\ UNCHANGED <<intents, fs, cur>>
                ELSE withdraw_intent(f) \/ resume_intent(f)
    /\ UNCHANGED <<status, parts, disk, opening, attempt, counters>>

reconcile_write_sidecar ==
    /\ At("sidecar_writing")
    /\ Put("sidecar", cur.index, Partial(cur)) /\ Goto("sidecar_ready")
    /\ UNCHANGED <<ledger, disk, cur, opening, attempt, counters>>

reconcile_rename_sidecar ==
    /\ At("sidecar_ready")
    /\ Put("sidecar", cur.index, Final(cur)) /\ Goto("sidecar_moved")
    /\ UNCHANGED <<ledger, disk, cur, opening, attempt, counters>>

reconcile_sync_manifests ==
    /\ At("sidecar_moved")
    /\ SyncFinal("sidecar") /\ Goto("sidecar_durable")
    /\ UNCHANGED <<ledger, fs, cur, opening, attempt, counters>>

reconcile_commit ==
    /\ At("sidecar_durable")
    /\ IF Committable(cur)
       THEN CommitPart(cur) /\ Goto("reconcile")
       ELSE UNCHANGED ledger /\ Goto("refused")
    /\ cur' = NoFile
    /\ UNCHANGED <<files, opening, attempt, counters>>

\* remove_stale_partials: everything left in the partial directory goes, and
\* the directory is synced.
WithoutPartial(places) ==
    [i \in Indices |-> IF places[i].at \in {"torn", "partial"} THEN Nowhere ELSE places[i]]
remove_stale_partials ==
    /\ At("clean")
    /\ fs' = [kind \in Kinds |-> WithoutPartial(fs[kind])]
    /\ disk' = [kind \in Kinds |-> [i \in Indices |->
                  IF fs[kind][i].at \in {"torn", "partial"} THEN Nowhere ELSE disk[kind][i]]]
    /\ Goto("validate")
    /\ UNCHANGED <<ledger, cur, opening, attempt, counters>>

\* validate_foreign_keys and validate_part_store.
ItemsAgree ==
    /\ \A k \in Keys : status[k] = "written" <=> \E f \in parts : k \in f.keys
    /\ \A f \in parts : f.keys # {}
FilesAgree ==
    /\ \A f \in parts : fs.pst[f.index] = Final(f) /\ fs.sidecar[f.index] = Final(f)
    /\ \A i \in Indices : fs.sidecar[i].at = "final" => \E f \in parts : f.index = i
validate_part_store ==
    /\ At("validate")
    /\ Goto(IF ItemsAgree /\ FilesAgree THEN "idle" ELSE "refused")
    /\ UNCHANGED <<ledger, files, cur, opening, attempt, counters>>

Publishing ==
    \/ \E keys \in SUBSET Keys : StagePart(keys)
    \/ create_sidecar_partial \/ write_sidecar_partial \/ record_publication_intent
    \/ rename_part \/ sync_parts \/ rename_sidecar \/ sync_manifests
    \/ commit_published_part_transaction
Opening ==
    \/ open_expected \/ reconcile_publications \/ reconcile_write_sidecar
    \/ reconcile_rename_sidecar \/ reconcile_sync_manifests \/ reconcile_commit
    \/ remove_stale_partials \/ validate_part_store

Finished == /\ pc \in {"idle", "refused"} /\ (pc = "idle" => Spooled = {})
            /\ UNCHANGED vars

Next ==
    \/ Publishing \/ Opening
    \/ \E k \in Keys : mark_candidate_rejections(k)
    \/ Interrupt \/ ProcessStop \/ HostStop
    \/ Finished

Spec == Init /\ [][Next]_vars

\* The process goes on with its next step, and the operator runs an unfinished
\* job again.
FairSpec == Spec /\ WF_vars(Publishing) /\ WF_vars(Opening)

-----------------------------------------------------------------------------
(* Properties.                                                             *)

\* A PST in the output directory, or one a host stop could bring back there,
\* is always accounted for: it is the published part of its index or the one
\* the ledger intends to publish, so the next run never refuses to overwrite
\* it; and no item is in two of them, or in one of them while the ledger still
\* offers it to a later part.
OutputAccountedFor ==
    /\ \A places \in {fs.pst, disk.pst} : \A i \in Indices :
          places[i].at = "final" => places[i].file \in parts \cup intents
    /\ \A i, j \in Indices :
          i # j /\ fs.pst[i].at = "final" /\ fs.pst[j].at = "final" =>
              fs.pst[i].file.keys \cap fs.pst[j].file.keys = {}
    /\ pc = "idle" => \A i \in Indices : fs.pst[i].at = "final" =>
                         \A k \in fs.pst[i].file.keys : status[k] = "written"

\* A part recorded as published is in place with its sidecar, and a host stop
\* cannot take it away.
PublishedDurable ==
    \A f \in parts : /\ fs.pst[f.index] = Final(f) /\ disk.pst[f.index] = Final(f)
                     /\ fs.sidecar[f.index] = Final(f) /\ disk.sidecar[f.index] = Final(f)

\* An uninterrupted publication synchronises what it renames before it commits
\* (README.md:177: payload work may be deleted): without a process stop no host
\* stop takes a published part away.
PublishedDurableInOneRun == stops = 0 => PublishedDurable

\* Publication in the ledger does what PublishedParts promises.
Ledger == INSTANCE PublishedParts WITH published <- {f.keys : f \in parts}
LedgerPublishesOnce == Ledger!Spec

\* The host stopped before an entry was synced that the reconciliation took
\* for granted: it commits a part, or puts its sidecar in place, although the
\* process that renamed the file was stopped before the directory was synced.
FileLost ==
    \/ \E f \in parts : fs.pst[f.index] # Final(f) \/ fs.sidecar[f.index] # Final(f)
    \/ \E f \in intents : fs.sidecar[f.index] = Final(f) /\ fs.pst[f.index].at # "final"

\* A PST is in place, its staged sidecar was lost with the host, and a second
\* stop cut the one that the reconciliation wrote instead.
SidecarTorn ==
    \E f \in intents : fs.pst[f.index] = Final(f) /\ fs.sidecar[f.index].at = "torn"

\* However often publication is cut short, a job that is run again in the end
\* disposes of every item, and is never refused for what an earlier run left
\* behind, with two exceptions that need a stop of the host and another stop:
\* a lost file and a torn sidecar are refused by every later open.
EveryItemDisposed == <>[](Spooled = {} \/ FileLost \/ SidecarTorn)
=============================================================================
