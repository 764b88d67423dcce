--------------------------- MODULE PayloadLedger ---------------------------
(***************************************************************************)
(* The restartable half of pstforge-job: worker events are turned into     *)
(* candidate rows of an SQLite ledger and into bytes of one append-only    *)
(* payload pack.  Candidates are committed in batches; a savepoint inside  *)
(* the batch protects the batch from a failing candidate, and the pack is  *)
(* synced before every COMMIT.  A process or a host may stop at any point; *)
(* open_expected then reconciles the pack with the committed ledger.       *)
(*                                                                         *)
(* A blob is identified by its content: the ledger keys it by SHA-256.     *)
(***************************************************************************)
EXTENDS Integers, Sequences, FiniteSets

CONSTANTS
    Keys,           \* item keys the traversal can produce
    Bytes,          \* values of one payload byte
    BatchLimit,     \* CANDIDATE_CHECKPOINT_BATCH (128 in the code)
    MaxBlob,        \* bound: bytes of one blob
    MaxEvents,      \* bound: events of one candidate
    MaxStops,       \* bound: process and host stops
    None            \* no active candidate

ASSUME NoneAssumption == None \notin Keys
ASSUME BatchAssumption == BatchLimit \in Nat \ {0}
ASSUME BoundAssumption == MaxBlob \in Nat /\ MaxEvents \in Nat /\ MaxStops \in Nat

VARIABLES
    db,             \* the committed ledger (SQLite, WAL, synchronous = FULL)
    work,           \* the ledger as the open transaction sees it
    save,           \* the ledger at SAVEPOINT active_candidate
    batch,          \* [open, count, start]: batch_open, batch_candidates, batch_pack_start
    pack,           \* bytes of the payload pack as the process sees them
    synced,         \* length of the prefix of pack that a host stop cannot lose
    active,         \* key of the active candidate, or None
    packStart,      \* active.pack_start
    blob,           \* the one open BlobWriter: [owner, start, data]
    attachmentOpen, \* self.attachment is Some
    phase,          \* "run", "commit" (between pack sync and COMMIT), "down", "refused"
    stops           \* process and host stops so far

vars == <<db, work, save, batch, pack, synced, active, packStart, blob,
          attachmentOpen, phase, stops>>
candidateVars == <<active, packStart, blob, attachmentOpen>>

Done == {"spooled", "unsupported"}
Statuses == {"absent", "pending"} \cup Done
BlobKinds == {"property", "attachment_data", "attachment_partial"}
PlainKinds == {"attachment", "attachment_missing", "attachment_reference",
               "property_incomplete", "output_unrepresentable"}
Events == [kind : BlobKinds \cup PlainKinds, data : Seq(Bytes)]
Blobs == [data : Seq(Bytes), off : Nat]
Ledgers == [status : [Keys -> Statuses], events : [Keys -> Seq(Events)],
            blobs : SUBSET Blobs]
NoBlob == [owner |-> "none", start |-> 0, data |-> <<>>]

End(b) == b.off + Len(b.data)
Truncated(p, n) == SubSeq(p, 1, n)
Shorter(m, n) == IF m < n THEN m ELSE n
IsCommittedEnd(l, e) == /\ \A b \in l.blobs : End(b) <= e
                        /\ e = 0 \/ \E b \in l.blobs : End(b) = e

-----------------------------------------------------------------------------
(* Effects shared by several handlers.                                     *)

\* record_event: one more row of candidate_events for the active candidate.
record_event(l, kind, data) ==
    [l EXCEPT !.events[active] = Append(@, [kind |-> kind, data |-> data])]

\* finish_blob: a content already stored is not stored again; the bytes just
\* appended are cut off.  Otherwise the range becomes a row of blobs.
Stored(l, data) == \E b \in l.blobs : b.data = data

finish_blob(l, start, data) ==
    IF Stored(l, data) THEN l
    ELSE [l EXCEPT !.blobs = @ \cup {[data |-> data, off |-> start]}]
PackAfterFinish(l, start, data) ==
    IF Stored(l, data) THEN Truncated(pack, start) ELSE pack

\* truncate_payload_pack: also forgets that the cut bytes were synced.
truncate_payload_pack(p) == pack' = p /\ synced' = Shorter(synced, Len(p))

Quiet == /\ active' = None /\ packStart' = 0
         /\ blob' = NoBlob /\ attachmentOpen' = FALSE

Room(n) == Len(work.events[active]) + n <= MaxEvents

-----------------------------------------------------------------------------
(* Events of the worker, in the order the catalog traversal emits them:    *)
(* properties of an attachment precede its data, so at most one blob is    *)
(* being written at any time.                                              *)

Init ==
    /\ db = [status |-> [k \in Keys |-> "absent"],
             events |-> [k \in Keys |-> <<>>], blobs |-> {}]
    /\ work = db /\ save = db
    /\ batch = [open |-> FALSE, count |-> 0, start |-> 0]
    /\ pack = <<>> /\ synced = 0
    /\ active = None /\ packStart = 0
    /\ blob = NoBlob /\ attachmentOpen = FALSE
    /\ phase = "run" /\ stops = 0

\* start_candidate with begin_candidate.  A candidate that is already durable
\* is discarded by the replay filter before it reaches the sink.
start_candidate(k) ==
    /\ phase = "run" /\ active = None
    /\ work.status[k] = "absent"
    /\ batch' = IF batch.open THEN batch
                ELSE [open |-> TRUE, count |-> 0, start |-> Len(pack)]
    /\ save' = work
    /\ work' = [work EXCEPT !.status[k] = "pending"]
    /\ active' = k /\ packStart' = Len(pack)
    /\ UNCHANGED <<db, pack, synced, blob, attachmentOpen, phase, stops>>

InCandidate == phase = "run" /\ active # None

PropertyStart ==
    /\ InCandidate /\ blob.owner = "none" /\ Room(1)
    /\ blob' = [owner |-> "property", start |-> Len(pack), data |-> <<>>]
    /\ UNCHANGED <<db, work, save, batch, pack, synced, active, packStart,
                   attachmentOpen, phase, stops>>

PropertyData(x) ==
    /\ InCandidate /\ blob.owner = "property" /\ Len(blob.data) < MaxBlob
    /\ blob' = [blob EXCEPT !.data = Append(@, x)]
    /\ pack' = Append(pack, x)
    /\ UNCHANGED <<db, work, save, batch, synced, active, packStart,
                   attachmentOpen, phase, stops>>

\* PropertyEnd, finish_property: store the blob, then record the event.
finish_property ==
    /\ InCandidate /\ blob.owner = "property" /\ Room(1)
    /\ truncate_payload_pack(PackAfterFinish(work, blob.start, blob.data))
    /\ work' = record_event(finish_blob(work, blob.start, blob.data),
                            "property", blob.data)
    /\ blob' = NoBlob
    /\ UNCHANGED <<db, save, batch, active, packStart, attachmentOpen, phase, stops>>

PropertyAbort ==
    /\ InCandidate /\ blob.owner = "property" /\ Room(1)
    /\ truncate_payload_pack(Truncated(pack, blob.start))
    /\ work' = record_event(work, "property_incomplete", <<>>)
    /\ blob' = NoBlob
    /\ UNCHANGED <<db, save, batch, active, packStart, attachmentOpen, phase, stops>>

AttachmentStart ==
    /\ InCandidate /\ blob.owner = "none" /\ ~attachmentOpen /\ Room(2)
    /\ work' = record_event(work, "attachment", <<>>)
    /\ attachmentOpen' = TRUE
    /\ UNCHANGED <<db, save, batch, pack, synced, active, packStart, blob, phase, stops>>

\* AttachmentData opens the blob lazily, with the first bytes.
AttachmentData(x) ==
    /\ InCandidate /\ attachmentOpen /\ blob.owner # "property"
    /\ Len(blob.data) < MaxBlob
    /\ blob' = IF blob.owner = "none"
               THEN [owner |-> "attachment", start |-> Len(pack), data |-> <<x>>]
               ELSE [blob EXCEPT !.data = Append(@, x)]
    /\ pack' = Append(pack, x)
    /\ UNCHANGED <<db, work, save, batch, synced, active, packStart,
                   attachmentOpen, phase, stops>>

\* finish_attachment: what is recorded when no byte arrived depends on the
\* attachment's type and declared size.
EmptyAttachment(complete) ==
    IF complete THEN {"attachment_data", "attachment_reference", "none"}
    ELSE {"attachment_missing"}
AttachmentLedger(l, complete, empty) ==
    CASE blob.owner = "attachment" ->
            record_event(finish_blob(l, blob.start, blob.data),
                         IF complete THEN "attachment_data" ELSE "attachment_partial",
                         blob.data)
      [] blob.owner # "attachment" /\ empty = "attachment_data" ->
            record_event(finish_blob(l, Len(pack), <<>>), "attachment_data", <<>>)
      [] blob.owner # "attachment" /\ empty = "none" -> l
      [] OTHER -> record_event(l, empty, <<>>)
AttachmentPack(l) ==
    IF blob.owner = "attachment" THEN PackAfterFinish(l, blob.start, blob.data)
    ELSE pack

finish_attachment(complete) ==
    /\ InCandidate /\ attachmentOpen /\ blob.owner # "property" /\ Room(1)
    /\ \E empty \in EmptyAttachment(complete) :
          work' = AttachmentLedger(work, complete, empty)
    /\ truncate_payload_pack(AttachmentPack(work))
    /\ blob' = NoBlob /\ attachmentOpen' = FALSE
    /\ UNCHANGED <<db, save, batch, active, packStart, phase, stops>>

\* finish_candidate: a full batch goes straight into commit_candidate_batch,
\* whose first half is the pack's sync_all.
BatchAfter(count) == [batch EXCEPT !.count = count]

Status(supported) == IF supported THEN "spooled" ELSE "unsupported"
EndLedger(l, supported) ==
    LET marked == IF supported THEN l
                  ELSE record_event(l, "output_unrepresentable", <<>>)
    IN  [marked EXCEPT !.status[active] = Status(supported)]
\* Mutant: off by one in the batch limit.
AfterCandidate_off_by_one ==
    /\ batch' = BatchAfter(batch.count + 1)
    /\ phase' = IF batch.count + 1 > BatchLimit THEN "commit" ELSE "run"

AfterCandidate ==
    /\ batch' = BatchAfter(batch.count + 1)
    /\ phase' = IF batch.count + 1 >= BatchLimit THEN "commit" ELSE "run"

\* MessageEnd of a message whose property and attachment are both closed.
MessageEnd(supported) ==
    /\ InCandidate /\ blob.owner = "none" /\ ~attachmentOpen
    /\ work' = EndLedger(work, supported)
    /\ AfterCandidate
    /\ synced' = IF phase' = "commit" THEN Len(pack) ELSE synced
    /\ Quiet
    /\ UNCHANGED <<db, save, pack, stops>>

\* MessageEnd { complete: false } closes what is still open: a property is cut
\* off, an attachment keeps the bytes it has.
MessageEndIncomplete(supported) ==
    /\ InCandidate /\ (blob.owner # "none" \/ attachmentOpen)
    /\ Room(2)
    /\ LET cut == blob.owner = "property"
           l1  == IF cut THEN record_event(work, "property_incomplete", <<>>) ELSE work
           l2  == IF attachmentOpen
                  THEN AttachmentLedger(l1, FALSE, "attachment_missing") ELSE l1
           p   == IF cut THEN Truncated(pack, blob.start) ELSE AttachmentPack(work)
       IN  /\ work' = EndLedger(l2, supported)
           /\ pack' = p
           /\ AfterCandidate
           /\ synced' = IF phase' = "commit" THEN Len(p) ELSE Shorter(synced, Len(p))
    /\ Quiet
    /\ UNCHANGED <<db, save, stops>>

-----------------------------------------------------------------------------
(* Committing, aborting, stopping and reopening.                           *)

\* Mutant: COMMIT without sync_all of the pack.
sync_payload_pack_skipped ==
    /\ phase = "run" /\ active = None /\ batch.open
    /\ phase' = "commit"
    /\ UNCHANGED <<db, work, save, batch, pack, synced, candidateVars, stops>>

\* commit_candidate_batch, first half, when a checkpoint, a publication or a
\* rejection asks for it: the pack is synced.
sync_payload_pack ==
    /\ phase = "run" /\ active = None /\ batch.open
    /\ phase' = "commit" /\ synced' = Len(pack)
    /\ UNCHANGED <<db, work, save, batch, pack, candidateVars, stops>>

\* commit_candidate_batch, second half: COMMIT.
commit_candidate_batch ==
    /\ phase = "commit"
    /\ db' = work
    /\ batch' = [open |-> FALSE, count |-> 0, start |-> Len(pack)]
    /\ phase' = "run"
    /\ UNCHANGED <<work, save, pack, synced, candidateVars, stops>>

\* Mutant: the pack is cut back to the start of the batch.
abort_worker_attempt_cuts_batch ==
    /\ InCandidate
    /\ work' = save
    /\ pack' = Truncated(pack, batch.start)
    /\ synced' = batch.start
    /\ phase' = "commit"
    /\ Quiet
    /\ UNCHANGED <<db, save, batch, stops>>

\* abort_worker_attempt: the active candidate is undone, its bytes are cut off
\* and the rest of the batch is committed.
abort_worker_attempt ==
    /\ InCandidate
    /\ work' = save
    /\ pack' = Truncated(pack, packStart)
    /\ synced' = packStart
    /\ phase' = "commit"
    /\ Quiet
    /\ UNCHANGED <<db, save, batch, stops>>

\* ROLLBACK of the whole batch: a failed COMMIT or Drop of the sink ends this
\* process's use of it, a savepoint that cannot be rolled back (in
\* abort_worker_attempt) does not.
rollback ==
    /\ phase \in {"run", "commit"}
    /\ work' = db
    /\ truncate_payload_pack(IF batch.open THEN Truncated(pack, batch.start) ELSE pack)
    /\ batch' = [batch EXCEPT !.open = FALSE, !.count = 0]
    /\ \/ phase' = "down"
       \/ InCandidate /\ phase' = "run"
    /\ Quiet
    /\ UNCHANGED <<db, save, stops>>

\* The process is killed: SQLite rolls the transaction back on the next open,
\* the pack keeps whatever the kernel has.
ProcessStop ==
    /\ phase \in {"run", "commit"} /\ stops < MaxStops
    /\ work' = db
    /\ phase' = "down" /\ stops' = stops + 1
    /\ Quiet
    /\ UNCHANGED <<db, save, batch, pack, synced>>

\* The host stops: what follows the synced prefix may be shorter, and may be
\* other bytes, than what was written.
HostStop ==
    /\ stops < MaxStops /\ phase # "refused"
    /\ \E n \in synced..Len(pack) : \E tail \in [synced + 1 .. n -> Bytes] :
          pack' = [i \in 1..n |-> IF i <= synced THEN pack[i] ELSE tail[i]]
    /\ work' = db
    /\ phase' = "down" /\ stops' = stops + 1
    /\ Quiet
    /\ UNCHANGED <<db, save, batch, synced>>

\* open_expected: validate_foreign_keys, reconcile_payload_pack and
\* validate_blob_store, each of which refuses the job.
Overlapping(l) ==
    \E b, c \in l.blobs :
        /\ b # c /\ Len(b.data) > 0 /\ Len(c.data) > 0
        /\ b.off <= c.off /\ c.off < End(b)
LogicallyInvalid(l) ==
    \/ \E k \in Keys : l.status[k] = "pending"
    \/ \E b \in l.blobs : \A k \in Keys : \A i \in DOMAIN l.events[k] :
          ~(l.events[k][i].kind \in BlobKinds /\ l.events[k][i].data = b.data)
Holds(p, b) == End(b) <= Len(p) /\ \A i \in 1..Len(b.data) : p[b.off + i] = b.data[i]
reconcile_payload_pack(l, p) ==
    \E e \in 0..Len(p) :
        IsCommittedEnd(l, e) /\ pack' = Truncated(p, e) /\ synced' = e
Refused ==
    \/ LogicallyInvalid(db)
    \/ Overlapping(db)
    \/ \E b \in db.blobs : Len(pack) < End(b)
    \/ \E k \in Keys : /\ db.status[k] = "spooled"
                       /\ \E i \in DOMAIN db.events[k] :
                             LET e == db.events[k][i]
                             IN  /\ e.kind \in BlobKinds
                                 /\ ~\E b \in db.blobs : b.data = e.data /\ Holds(pack, b)

open_expected ==
    /\ phase = "down"
    /\ IF Refused
       THEN /\ phase' = "refused"
            /\ UNCHANGED <<work, save, batch, pack, synced>>
       ELSE /\ reconcile_payload_pack(db, pack)
            /\ work' = db /\ save' = db
            /\ batch' = [open |-> FALSE, count |-> 0, start |-> 0]
            /\ phase' = "run"
    /\ UNCHANGED <<db, candidateVars, stops>>

Next ==
    \/ \E k \in Keys : start_candidate(k)
    \/ PropertyStart
    \/ \E x \in Bytes : PropertyData(x)
    \/ finish_property
    \/ PropertyAbort
    \/ AttachmentStart
    \/ \E x \in Bytes : AttachmentData(x)
    \/ \E complete \in BOOLEAN : finish_attachment(complete)
    \/ \E supported \in BOOLEAN : MessageEnd(supported)
    \/ \E supported \in BOOLEAN : MessageEndIncomplete(supported)
    \/ sync_payload_pack
    \/ commit_candidate_batch
    \/ abort_worker_attempt
    \/ rollback
    \/ ProcessStop
    \/ HostStop
    \/ open_expected

Spec == Init /\ [][Next]_vars

-----------------------------------------------------------------------------
(* Properties.                                                             *)

\* Every variable has its type.
TypeOK ==
    /\ db \in Ledgers /\ work \in Ledgers /\ save \in Ledgers
    /\ batch \in [open : BOOLEAN, count : Nat, start : Nat]
    /\ pack \in Seq(Bytes) /\ synced \in Nat
    /\ active \in Keys \cup {None} /\ packStart \in Nat
    /\ blob \in [owner : {"none", "property", "attachment"}, start : Nat,
                 data : Seq(Bytes)]
    /\ attachmentOpen \in BOOLEAN
    /\ phase \in {"run", "commit", "down", "refused"}
    /\ stops \in Nat

\* Every payload the committed ledger records lies, byte for byte, in the part
\* of the pack that was synced before the COMMIT: neither a later truncation
\* (dedup, abort, rollback) nor a host stop can lose it.
CommittedPayloadIntact ==
    \A b \in db.blobs : End(b) <= synced /\ Holds(pack, b)

\* The open transaction's payloads are intact in the pack too, so a duplicate
\* content can be dropped in favour of the range stored first.
WorkingPayloadIntact == \A b \in work.blobs : Holds(pack, b)

\* The finished candidates that a stop loses.
Replayed == {k \in Keys : work.status[k] \in Done /\ db.status[k] \notin Done}

\* A step that keeps the rows, the events and the payload of durable candidates.
DurableKept ==
    \A k \in Keys : db.status[k] \in Done =>
        /\ db'.status[k] = db.status[k]
        /\ db'.events[k] = db.events[k]
        /\ db.blobs \subseteq db'.blobs

\* A stop costs at most the open batch (docs/PRODUCT_SPEC.md:452): whatever was
\* interrupted, open_expected accepts the ledger and the pack again, at most
\* BatchLimit candidates are replayed, and neither the replay nor an abort
\* changes the row, the events or the payload of a durable candidate.
StopCostsOneBatch ==
    /\ [](phase = "down" => ~Refused)
    /\ [](Cardinality(Replayed) <= BatchLimit)
    /\ [][DurableKept]_vars
=============================================================================
