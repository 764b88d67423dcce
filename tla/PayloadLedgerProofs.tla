------------------------ MODULE PayloadLedgerProofs ------------------------
(***************************************************************************)
(* Proofs about PayloadLedger: for any set of items, any payload bytes and *)
(* any batch size, a payload that the committed ledger records stays in    *)
(* the pack, byte for byte, across aborts, rollbacks, process stops, host  *)
(* stops and reopenings; and a stop costs at most the open batch.          *)
(***************************************************************************)
EXTENDS PayloadLedger, FiniteSetTheorems, TLAPS

-----------------------------------------------------------------------------
(* The inductive invariant.  Each part is one reason why no truncation of  *)
(* the pack can reach a byte that a ledger row refers to.                  *)

Alive == phase \in {"run", "commit"}

\* Where the rows of the committed ledger lie.
CommittedSafe ==
    /\ synced <= Len(pack)
    /\ \A b \in db.blobs : End(b) <= synced
    /\ \A b \in db.blobs : Holds(pack, b)

\* Where the rows of the open transaction lie.
WorkingSafe == \A b \in work.blobs : Holds(pack, b)

\* A rollback of the batch cuts at batch.start.
BatchSafe ==
    Alive /\ batch.open =>
        /\ batch.start <= Len(pack)
        /\ \A b \in db.blobs : End(b) <= batch.start

\* An abort of the candidate cuts at packStart and restores the savepoint.
CandidateSafe ==
    active # None =>
        /\ batch.open /\ phase = "run"
        /\ batch.start <= packStart /\ packStart <= Len(pack)
        /\ save.blobs \subseteq work.blobs
        /\ \A b \in save.blobs : End(b) <= packStart

\* Finishing or dropping the open blob cuts at blob.start.
BlobSafe ==
    blob.owner # "none" =>
        /\ active # None
        /\ packStart <= blob.start
        /\ Len(pack) = blob.start + Len(blob.data)
        /\ \A i \in 1..Len(blob.data) : pack[blob.start + i] = blob.data[i]
        /\ \A b \in work.blobs : End(b) <= blob.start

\* What holds between the two halves of commit_candidate_batch, and outside a
\* transaction.
PhaseSafe ==
    /\ phase = "commit" => synced = Len(pack) /\ batch.open
    /\ ~Alive \/ ~batch.open => work = db
    /\ ~Alive => active = None
    /\ ~attachmentOpen \/ active # None

IInv == /\ TypeOK /\ CommittedSafe /\ WorkingSafe /\ BatchSafe
        /\ CandidateSafe /\ BlobSafe /\ PhaseSafe

-----------------------------------------------------------------------------
(* Facts about the pack and the ledger operators.                          *)

\* Cutting a pack keeps the bytes before the cut.
LEMMA TruncatedFacts ==
    ASSUME NEW p \in Seq(Bytes), NEW n \in 0..Len(p)
    PROVE  /\ Truncated(p, n) \in Seq(Bytes)
           /\ Len(Truncated(p, n)) = n
           /\ \A i \in 1..n : Truncated(p, n)[i] = p[i]
BY DEF Truncated

\* A payload that ends before a length is held by any pack that agrees up to
\* that length.
LEMMA HoldsPrefix ==
    ASSUME NEW p \in Seq(Bytes), NEW q \in Seq(Bytes), NEW n \in Nat,
           n <= Len(q), \A i \in 1..n : q[i] = p[i],
           NEW b \in Blobs, Holds(p, b), End(b) <= n
    PROVE  Holds(q, b)
<1>1. /\ b.off \in Nat /\ Len(b.data) \in Nat
      /\ End(b) = b.off + Len(b.data)
  BY DEF Blobs, End
<1>2. \A i \in 1..Len(b.data) : b.off + i \in 1..n
  BY <1>1
<1>3. \A i \in 1..Len(b.data) : q[b.off + i] = b.data[i]
  BY <1>2 DEF Holds
<1> QED BY <1>1, <1>3 DEF Holds

\* A blob row ends at a natural number.
LEMMA EndType == \A b \in Blobs : End(b) \in Nat
BY DEF Blobs, End

\* Appending a byte keeps what was there.
LEMMA AppendFacts ==
    ASSUME NEW p \in Seq(Bytes), NEW x \in Bytes
    PROVE  /\ Append(p, x) \in Seq(Bytes)
           /\ Len(Append(p, x)) = Len(p) + 1
           /\ \A i \in 1..Len(p) : Append(p, x)[i] = p[i]
           /\ Append(p, x)[Len(p) + 1] = x
OBVIOUS

\* record_event adds an event of the active candidate and no payload row.
LEMMA RecordEventFacts ==
    ASSUME NEW l \in Ledgers, active \in Keys,
           NEW kind \in BlobKinds \cup PlainKinds, NEW data \in Seq(Bytes)
    PROVE  /\ record_event(l, kind, data) \in Ledgers
           /\ record_event(l, kind, data).blobs = l.blobs
<1>1. [kind |-> kind, data |-> data] \in Events
  BY DEF Events
<1>2. Append(l.events[active], [kind |-> kind, data |-> data]) \in Seq(Events)
  BY <1>1 DEF Ledgers
<1> QED BY <1>2 DEF Ledgers, record_event

\* finish_blob adds at most the row of the blob just written.
LEMMA FinishBlobFacts ==
    ASSUME NEW l \in Ledgers, NEW start \in Nat, NEW data \in Seq(Bytes)
    PROVE  /\ finish_blob(l, start, data) \in Ledgers
           /\ Stored(l, data) => finish_blob(l, start, data).blobs = l.blobs
           /\ ~Stored(l, data) => finish_blob(l, start, data).blobs
                                    = l.blobs \cup {[data |-> data, off |-> start]}
<1>1. [data |-> data, off |-> start] \in Blobs
  BY DEF Blobs
<1> QED BY <1>1 DEF Ledgers, finish_blob

\* Ending a candidate changes its row and its events, never a payload row.
LEMMA EndLedgerFacts ==
    ASSUME NEW l \in Ledgers, active \in Keys, NEW supported \in BOOLEAN
    PROVE  /\ EndLedger(l, supported) \in Ledgers
           /\ EndLedger(l, supported).blobs = l.blobs
<1> DEFINE marked == IF supported THEN l
                     ELSE record_event(l, "output_unrepresentable", <<>>)
<1>1. marked \in Ledgers /\ marked.blobs = l.blobs
  <2>1. "output_unrepresentable" \in BlobKinds \cup PlainKinds /\ <<>> \in Seq(Bytes)
    BY DEF PlainKinds
  <2> QED BY <2>1, RecordEventFacts
<1>2. Status(supported) \in Statuses
  BY DEF Status, Statuses, Done
<1>3. EndLedger(l, supported) = [marked EXCEPT !.status[active] = Status(supported)]
  BY DEF EndLedger
<1> HIDE DEF marked
<1> QED BY <1>1, <1>2, <1>3 DEF Ledgers

\* What a closed blob looks like.
OpenBlobs == [owner : {"none", "property", "attachment"}, start : Nat,
              data : Seq(Bytes)]
\* The absence of an open blob is one of the values of blob.
LEMMA NoBlobType == NoBlob \in OpenBlobs /\ NoBlob.owner = "none"
BY DEF NoBlob, OpenBlobs

\* finish_attachment adds at most one payload row: that of the open blob, or
\* an empty payload at the end of the pack.
LEMMA AttachmentLedgerFacts ==
    ASSUME NEW l \in Ledgers, active \in Keys, blob \in OpenBlobs, pack \in Seq(Bytes),
           NEW complete \in BOOLEAN,
           NEW empty \in {"attachment_data", "attachment_reference", "none",
                          "attachment_missing"}
    PROVE  LET m == AttachmentLedger(l, complete, empty)
           IN  /\ m \in Ledgers
               /\ blob.owner = "attachment" =>
                     m.blobs = finish_blob(l, blob.start, blob.data).blobs
               /\ blob.owner # "attachment" =>
                     m.blobs \in {l.blobs, l.blobs \cup {[data |-> <<>>, off |-> Len(pack)]}}
<1> DEFINE m == AttachmentLedger(l, complete, empty)
<1>0. /\ blob.start \in Nat /\ blob.data \in Seq(Bytes) /\ <<>> \in Seq(Bytes)
      /\ Len(pack) \in Nat
  BY DEF OpenBlobs
<1>1. CASE blob.owner = "attachment"
  <2> DEFINE kind == IF complete THEN "attachment_data" ELSE "attachment_partial"
             f == finish_blob(l, blob.start, blob.data)
  <2>1. m = record_event(f, kind, blob.data)
    BY <1>1 DEF AttachmentLedger
  <2>2. f \in Ledgers /\ kind \in BlobKinds \cup PlainKinds
    BY <1>0, FinishBlobFacts DEF BlobKinds
  <2> HIDE DEF f, kind
  <2>3. m \in Ledgers /\ m.blobs = f.blobs
    BY <1>0, <2>1, <2>2, RecordEventFacts
  <2> QED BY <1>1, <2>3 DEF f
<1>2. CASE blob.owner # "attachment" /\ empty = "attachment_data"
  <2> DEFINE f == finish_blob(l, Len(pack), <<>>)
  <2>1. m = record_event(f, "attachment_data", <<>>)
    BY <1>2 DEF AttachmentLedger
  <2>2. f \in Ledgers /\ "attachment_data" \in BlobKinds \cup PlainKinds
    BY <1>0, FinishBlobFacts DEF BlobKinds
  <2>3. f.blobs \in {l.blobs, l.blobs \cup {[data |-> <<>>, off |-> Len(pack)]}}
    BY <1>0, FinishBlobFacts
  <2> HIDE DEF f
  <2>4. m \in Ledgers /\ m.blobs = f.blobs
    BY <1>0, <2>1, <2>2, RecordEventFacts
  <2> QED BY <1>2, <2>3, <2>4
<1>3. CASE blob.owner # "attachment" /\ empty = "none"
  BY <1>3 DEF AttachmentLedger
<1>4. CASE blob.owner # "attachment" /\ empty \notin {"attachment_data", "none"}
  <2>1. m = record_event(l, empty, <<>>) /\ empty \in BlobKinds \cup PlainKinds
    BY <1>4 DEF AttachmentLedger, PlainKinds
  <2> QED BY <1>0, <1>4, <2>1, RecordEventFacts
<1> QED BY <1>1, <1>2, <1>3, <1>4

-----------------------------------------------------------------------------
(* What the steps of one candidate have in common.                         *)

\* A pack that agrees with the present one up to the candidate's start still
\* holds every committed payload.
LEMMA CommittedSurvives ==
    ASSUME IInv, active # None, NEW q \in Seq(Bytes), packStart <= Len(q),
           \A i \in 1..packStart : q[i] = pack[i], NEW n \in Nat,
           n = Shorter(synced, Len(q)) \/ n = Len(q)
    PROVE  /\ n <= Len(q)
           /\ \A b \in db.blobs : End(b) <= n /\ Holds(q, b)
           /\ \A b \in save.blobs : Holds(q, b)
<1> USE DEF IInv
<1>1. packStart \in Nat /\ Len(q) \in Nat /\ synced \in Nat
      /\ batch.start \in Nat /\ pack \in Seq(Bytes)
  BY DEF TypeOK
<1>2. \A b \in db.blobs \cup save.blobs : b \in Blobs /\ End(b) \in Nat
  BY EndType DEF TypeOK, Ledgers
<1>3. \A b \in db.blobs : End(b) <= packStart /\ End(b) <= synced /\ Holds(pack, b)
  BY <1>1, <1>2 DEF CommittedSafe, BatchSafe, CandidateSafe, Alive
<1>4. \A b \in save.blobs : End(b) <= packStart /\ Holds(pack, b)
  BY DEF CandidateSafe, WorkingSafe
<1>5. \A b \in db.blobs \cup save.blobs : Holds(q, b)
  BY <1>1, <1>2, <1>3, <1>4, HoldsPrefix
<1>6. n <= Len(q) /\ \A b \in db.blobs : End(b) <= n
  BY <1>1, <1>2, <1>3 DEF Shorter
<1> QED BY <1>5, <1>6

\* A step inside a candidate that closes the open blob, wherever it cuts the
\* pack above the candidate's start.
LEMMA CloseBlobIInv ==
    ASSUME IInv, InCandidate, work' \in Ledgers, work.blobs \subseteq work'.blobs,
           \A b \in work'.blobs : Holds(pack', b),
           pack' \in Seq(Bytes), packStart <= Len(pack'),
           \A i \in 1..packStart : pack'[i] = pack[i],
           synced' = Shorter(synced, Len(pack')),
           blob' \in OpenBlobs, blob'.owner = "none", attachmentOpen' \in BOOLEAN,
           UNCHANGED <<db, save, batch, active, packStart, phase, stops>>
    PROVE  IInv'
<1> USE DEF IInv
<1>1. synced' \in Nat /\ Len(pack') \in Nat
  BY DEF TypeOK, Shorter
<1>2. TypeOK'
  BY <1>1 DEF TypeOK, OpenBlobs
<1>3. CommittedSafe'
  BY <1>1, CommittedSurvives DEF InCandidate, CommittedSafe, TypeOK
<1>4. WorkingSafe'
  BY DEF WorkingSafe
<1>5. CandidateSafe /\ active # None /\ phase = "run"
  BY DEF InCandidate
<1>6. BatchSafe'
  BY <1>1, <1>5 DEF BatchSafe, CandidateSafe, TypeOK, Alive
<1>7. CandidateSafe'
  BY <1>5 DEF CandidateSafe
<1>8. BlobSafe' /\ PhaseSafe'
  BY <1>5 DEF BlobSafe, PhaseSafe, Alive, CandidateSafe
<1> QED BY <1>2, <1>3, <1>4, <1>6, <1>7, <1>8

\* The same for a step that also ends the candidate.
LEMMA EndCandidateIInv ==
    ASSUME IInv, InCandidate, work' \in Ledgers,
           \A b \in work'.blobs : Holds(pack', b),
           pack' \in Seq(Bytes), packStart <= Len(pack'),
           \A i \in 1..packStart : pack'[i] = pack[i],
           AfterCandidate,
           synced' = IF phase' = "commit" THEN Len(pack') ELSE Shorter(synced, Len(pack')),
           Quiet, UNCHANGED <<db, save, stops>>
    PROVE  IInv'
<1> USE DEF IInv
<1>1. synced' \in Nat /\ Len(pack') \in Nat
  BY DEF TypeOK, Shorter
<1>2. CandidateSafe /\ active # None /\ phase = "run" /\ batch.open
  BY DEF InCandidate, CandidateSafe
<1>3. /\ batch'.open = batch.open /\ batch'.start = batch.start
      /\ batch' \in [open : BOOLEAN, count : Nat, start : Nat]
      /\ phase' \in {"run", "commit"}
  BY DEF AfterCandidate, BatchAfter, TypeOK
<1>4. blob' \in OpenBlobs /\ blob'.owner = "none"
  BY NoBlobType DEF Quiet
<1>5. TypeOK'
  BY <1>1, <1>3, <1>4 DEF TypeOK, Quiet, OpenBlobs
<1>6. CommittedSafe'
  <2>1. \/ synced' = Len(pack') \/ synced' = Shorter(synced, Len(pack'))
    OBVIOUS
  <2> QED BY <1>1, <1>2, <2>1, CommittedSurvives DEF CommittedSafe
<1>7. WorkingSafe'
  BY DEF WorkingSafe
<1>8. BatchSafe'
  BY <1>1, <1>2, <1>3 DEF BatchSafe, CandidateSafe, TypeOK, Alive
<1>9. CandidateSafe' /\ BlobSafe'
  BY <1>4 DEF CandidateSafe, BlobSafe, Quiet
<1>10. PhaseSafe'
  BY <1>2, <1>3 DEF PhaseSafe, Quiet, Alive
<1> QED BY <1>5, <1>6, <1>7, <1>8, <1>9, <1>10

\* finish_blob and the cut that goes with it: a duplicate is dropped in favour
\* of a range that lies before it, a new range holds the bytes just written.
LEMMA FinishOpenBlob ==
    ASSUME IInv, blob.owner # "none", NEW l \in Ledgers, l.blobs = work.blobs
    PROVE  LET q == PackAfterFinish(l, blob.start, blob.data)
               m == finish_blob(l, blob.start, blob.data)
           IN  /\ q \in Seq(Bytes) /\ packStart <= Len(q)
               /\ \A i \in 1..packStart : q[i] = pack[i]
               /\ work.blobs \subseteq m.blobs
               /\ \A b \in m.blobs : Holds(q, b)
<1> USE DEF IInv
<1> DEFINE q == PackAfterFinish(l, blob.start, blob.data)
           m == finish_blob(l, blob.start, blob.data)
           new == [data |-> blob.data, off |-> blob.start]
<1>1. /\ blob.start \in Nat /\ blob.data \in Seq(Bytes) /\ pack \in Seq(Bytes)
      /\ packStart \in Nat /\ Len(pack) \in Nat /\ Len(blob.data) \in Nat
  BY DEF TypeOK
<1>2. /\ packStart <= blob.start /\ blob.start <= Len(pack)
      /\ Len(pack) = blob.start + Len(blob.data)
      /\ \A b \in work.blobs : End(b) <= blob.start
  BY <1>1 DEF BlobSafe
<1>3. \A b \in work.blobs : b \in Blobs /\ Holds(pack, b)
  BY DEF TypeOK, Ledgers, WorkingSafe
<1>4. CASE Stored(l, blob.data)
  <2>1. q = Truncated(pack, blob.start) /\ m.blobs = work.blobs
    BY <1>1, <1>4, FinishBlobFacts DEF PackAfterFinish
  <2> HIDE DEF q, m
  <2>2. /\ q \in Seq(Bytes) /\ Len(q) = blob.start
        /\ \A i \in 1..blob.start : q[i] = pack[i]
    <3>1. blob.start \in 0..Len(pack)
      BY <1>1, <1>2
    <3>2. /\ Truncated(pack, blob.start) \in Seq(Bytes)
          /\ Len(Truncated(pack, blob.start)) = blob.start
          /\ \A i \in 1..blob.start : Truncated(pack, blob.start)[i] = pack[i]
      BY <1>1, <3>1, TruncatedFacts
    <3> QED BY <2>1, <3>2
  <2>3. \A b \in m.blobs : Holds(q, b)
    <3>1. \A b \in work.blobs : Holds(q, b)
      <4> SUFFICES ASSUME NEW b \in work.blobs PROVE Holds(q, b)
        OBVIOUS
      <4>1. b \in Blobs /\ Holds(pack, b) /\ End(b) <= blob.start
        BY <1>2, <1>3
      <4>2. blob.start <= Len(q)
        BY <1>1, <2>2
      <4> QED BY <1>1, <2>2, <4>1, <4>2, HoldsPrefix
    <3> QED BY <2>1, <3>1
  <2> QED BY <1>1, <1>2, <2>1, <2>2, <2>3 DEF q, m
<1>5. CASE ~Stored(l, blob.data)
  <2>1. q = pack /\ m.blobs = work.blobs \cup {new}
    BY <1>1, <1>5, FinishBlobFacts DEF PackAfterFinish
  <2>2. Holds(pack, new)
    BY <1>1, <1>2 DEF BlobSafe, Holds, End
  <2> QED BY <1>1, <1>2, <1>3, <2>1, <2>2
<1> QED BY <1>4, <1>5

\* Dropping the open blob cuts the pack where the blob began.
LEMMA DropOpenBlob ==
    ASSUME IInv, blob.owner # "none"
    PROVE  LET q == Truncated(pack, blob.start)
           IN  /\ q \in Seq(Bytes) /\ packStart <= Len(q)
               /\ \A i \in 1..packStart : q[i] = pack[i]
               /\ \A b \in work.blobs : Holds(q, b)
<1> USE DEF IInv
<1> DEFINE q == Truncated(pack, blob.start)
<1>1. /\ blob.start \in Nat /\ blob.data \in Seq(Bytes) /\ pack \in Seq(Bytes)
      /\ packStart \in Nat /\ Len(pack) \in Nat /\ Len(blob.data) \in Nat
  BY DEF TypeOK
<1>2. /\ packStart <= blob.start /\ blob.start <= Len(pack)
      /\ \A b \in work.blobs : End(b) <= blob.start
  BY <1>1 DEF BlobSafe
<1>3. /\ q \in Seq(Bytes) /\ Len(q) = blob.start
      /\ \A i \in 1..blob.start : q[i] = pack[i]
  <2>1. blob.start \in 0..Len(pack)
    BY <1>1, <1>2
  <2> QED BY <1>1, <2>1, TruncatedFacts
<1>4. \A b \in work.blobs : b \in Blobs /\ Holds(pack, b)
  BY DEF TypeOK, Ledgers, WorkingSafe
<1>5. \A b \in work.blobs : Holds(q, b)
  BY <1>1, <1>2, <1>3, <1>4, HoldsPrefix
<1> QED BY <1>1, <1>2, <1>3, <1>5

-----------------------------------------------------------------------------
(* One lemma per group of actions.                                         *)

\* The empty ledger and pack satisfy the invariant.
LEMMA InitIInv == Init => IInv
<1> SUFFICES ASSUME Init PROVE IInv
  OBVIOUS
<1>1. db \in Ledgers
  BY DEF Init, Ledgers, Statuses
<1>2. TypeOK
  <2>1. batch \in [open : BOOLEAN, count : Nat, start : Nat]
    BY DEF Init
  <2>2. blob \in OpenBlobs /\ pack \in Seq(Bytes)
    BY NoBlobType DEF Init
  <2> QED BY <1>1, <2>1, <2>2 DEF Init, TypeOK, OpenBlobs
<1>3. CommittedSafe /\ WorkingSafe /\ BatchSafe /\ CandidateSafe /\ BlobSafe /\ PhaseSafe
  BY DEF Init, CommittedSafe, WorkingSafe, BatchSafe, CandidateSafe, BlobSafe,
         PhaseSafe, NoBlob, Alive
<1> QED BY <1>2, <1>3 DEF IInv

\* start_candidate: the savepoint, and the pack position it protects.
LEMMA StartCandidateIInv ==
    ASSUME IInv, NEW k \in Keys, start_candidate(k)
    PROVE  IInv'
<1> USE DEF IInv
<1>1. work' \in Ledgers /\ work'.blobs = work.blobs
  BY DEF start_candidate, TypeOK, Ledgers, Statuses
<1>2. TypeOK'
  BY <1>1 DEF start_candidate, TypeOK
<1>3. CommittedSafe' /\ WorkingSafe'
  BY <1>1 DEF start_candidate, CommittedSafe, WorkingSafe, Holds, End
<1>4. \A b \in work.blobs : End(b) <= Len(pack)
  BY DEF WorkingSafe, Holds
<1>5. ~batch.open => work = db
  BY DEF PhaseSafe
<1>6. BatchSafe'
  BY <1>4, <1>5 DEF start_candidate, BatchSafe, TypeOK, Alive, End
<1>7. CandidateSafe'
  BY <1>1, <1>4 DEF start_candidate, CandidateSafe, BatchSafe, TypeOK, Alive, End
<1>8. BlobSafe'
  BY DEF start_candidate, BlobSafe
<1>9. PhaseSafe'
  BY NoneAssumption DEF start_candidate, PhaseSafe, Alive
<1> QED BY <1>2, <1>3, <1>6, <1>7, <1>8, <1>9

\* PropertyStart: the blob begins at the end of the pack.
LEMMA PropertyStartIInv == ASSUME IInv, PropertyStart PROVE IInv'
<1> USE DEF IInv
<1>1. /\ blob'.owner = "property" /\ blob'.start = Len(pack) /\ blob'.data = <<>>
      /\ blob' \in OpenBlobs /\ active # None
  BY DEF PropertyStart, OpenBlobs, TypeOK, InCandidate
<1>2. TypeOK'
  BY <1>1 DEF PropertyStart, TypeOK, OpenBlobs
<1>3. CommittedSafe' /\ WorkingSafe' /\ BatchSafe' /\ CandidateSafe' /\ PhaseSafe'
  BY DEF PropertyStart, CommittedSafe, WorkingSafe, BatchSafe, CandidateSafe,
         PhaseSafe, Alive, Holds, End
<1>4. BlobSafe'
  BY <1>1 DEF PropertyStart, BlobSafe, CandidateSafe, WorkingSafe, Holds, TypeOK, End
<1> QED BY <1>2, <1>3, <1>4

\* One more byte of the open blob, which PropertyData and AttachmentData share:
\* the byte goes to the end of the pack and to the end of the blob.
LEMMA AppendByteIInv ==
    ASSUME IInv, InCandidate, NEW x \in Bytes,
           pack' = Append(pack, x),
           blob' \in OpenBlobs, blob'.owner # "none",
           \/ /\ blob.owner # "none" /\ blob'.start = blob.start
              /\ blob'.data = Append(blob.data, x)
           \/ blob'.start = Len(pack) /\ blob'.data = <<x>>,
           UNCHANGED <<db, work, save, batch, synced, active, packStart,
                       attachmentOpen, phase, stops>>
    PROVE  IInv'
<1> USE DEF IInv
<1>1. /\ pack \in Seq(Bytes) /\ Len(pack) \in Nat /\ pack' \in Seq(Bytes)
      /\ Len(pack') = Len(pack) + 1 /\ pack'[Len(pack) + 1] = x
      /\ \A i \in 1..Len(pack) : pack'[i] = pack[i]
  BY AppendFacts DEF TypeOK
<1>2. /\ synced \in Nat /\ packStart \in Nat /\ batch.start \in Nat
      /\ blob.start \in Nat /\ blob.data \in Seq(Bytes) /\ Len(blob.data) \in Nat
  BY DEF TypeOK
<1>3. TypeOK'
  BY <1>1 DEF TypeOK, OpenBlobs
<1>4. \A b \in db.blobs \cup work.blobs :
          b \in Blobs /\ End(b) \in Nat /\ Holds(pack, b) /\ End(b) <= Len(pack)
  BY EndType DEF TypeOK, Ledgers, CommittedSafe, WorkingSafe, Holds
<1>5. \A b \in db.blobs \cup work.blobs : Holds(pack', b)
  <2> SUFFICES ASSUME NEW b \in db.blobs \cup work.blobs PROVE Holds(pack', b)
    OBVIOUS
  <2>1. b \in Blobs /\ Holds(pack, b) /\ End(b) <= Len(pack)
    BY <1>4
  <2>2. Len(pack) <= Len(pack')
    BY <1>1
  <2> QED BY <1>1, <2>1, <2>2, HoldsPrefix
<1>6. CommittedSafe' /\ WorkingSafe'
  BY <1>1, <1>2, <1>5 DEF CommittedSafe, WorkingSafe, End
<1>7. active # None /\ phase = "run"
  BY DEF InCandidate
<1>8. BatchSafe' /\ CandidateSafe' /\ PhaseSafe'
  BY <1>1, <1>2, <1>7 DEF BatchSafe, CandidateSafe, PhaseSafe, Alive, End
<1>9. BlobSafe'
  <2>1. CASE blob.owner # "none" /\ blob'.start = blob.start
             /\ blob'.data = Append(blob.data, x)
    <3>1. /\ Len(blob'.data) = Len(blob.data) + 1
          /\ blob'.data[Len(blob.data) + 1] = x
          /\ \A i \in 1..Len(blob.data) : blob'.data[i] = blob.data[i]
      BY <1>2, <2>1, AppendFacts
    <3>2. /\ Len(pack) = blob.start + Len(blob.data)
          /\ \A i \in 1..Len(blob.data) : pack[blob.start + i] = blob.data[i]
          /\ packStart <= blob.start /\ \A b \in work.blobs : End(b) <= blob.start
      BY <2>1 DEF BlobSafe
    <3>3. Len(pack') = blob'.start + Len(blob'.data)
      BY <1>1, <1>2, <2>1, <3>1, <3>2
    <3>4. \A i \in 1..Len(blob'.data) : pack'[blob'.start + i] = blob'.data[i]
      <4> SUFFICES ASSUME NEW i \in 1..Len(blob'.data)
                   PROVE  pack'[blob'.start + i] = blob'.data[i]
        OBVIOUS
      <4>1. CASE i \in 1..Len(blob.data)
        <5>1. blob.start + i \in 1..Len(pack)
          BY <1>2, <3>2, <4>1
        <5> QED BY <1>1, <2>1, <3>1, <3>2, <4>1, <5>1
      <4>2. CASE i = Len(blob.data) + 1
        <5>1. blob.start + i = Len(pack) + 1
          BY <1>2, <3>2, <4>2
        <5> QED BY <1>1, <2>1, <3>1, <4>2, <5>1
      <4>3. i \in 1..Len(blob.data) \/ i = Len(blob.data) + 1
        BY <1>2, <3>1
      <4> QED BY <4>1, <4>2, <4>3
    <3> QED BY <1>7, <2>1, <3>2, <3>3, <3>4 DEF BlobSafe, End
  <2>2. CASE blob'.start = Len(pack) /\ blob'.data = <<x>>
    <3>1. packStart <= Len(pack)
      BY <1>7 DEF CandidateSafe
    <3> QED BY <1>1, <1>2, <1>4, <1>7, <2>2, <3>1 DEF BlobSafe, End
  <2> QED BY <2>1, <2>2
<1> QED BY <1>3, <1>6, <1>8, <1>9

\* PropertyData: the byte goes to the open property.
LEMMA PropertyDataIInv == ASSUME IInv, NEW x \in Bytes, PropertyData(x) PROVE IInv'
<1>1. /\ blob' \in OpenBlobs /\ blob'.owner = "property" /\ blob'.start = blob.start
      /\ blob'.data = Append(blob.data, x)
  <2>1. blob \in OpenBlobs /\ Append(blob.data, x) \in Seq(Bytes)
    BY DEF IInv, TypeOK, OpenBlobs
  <2> QED BY <2>1 DEF PropertyData, OpenBlobs
<1>2. blob.owner # "none"
  BY DEF PropertyData
<1> QED BY <1>1, <1>2, AppendByteIInv DEF PropertyData

\* AttachmentData: the blob begins with the first byte.
LEMMA AttachmentDataIInv == ASSUME IInv, NEW x \in Bytes, AttachmentData(x) PROVE IInv'
<1>1. CASE blob.owner = "none"
  <2>1. /\ blob' \in OpenBlobs /\ blob'.owner = "attachment" /\ blob'.start = Len(pack)
        /\ blob'.data = <<x>>
    BY <1>1 DEF AttachmentData, IInv, TypeOK, OpenBlobs
  <2> QED BY <2>1, AppendByteIInv DEF AttachmentData
<1>2. CASE blob.owner # "none"
  <2>1. /\ blob' \in OpenBlobs /\ blob'.owner = blob.owner /\ blob'.start = blob.start
        /\ blob'.data = Append(blob.data, x)
    <3>1. blob \in OpenBlobs /\ Append(blob.data, x) \in Seq(Bytes)
      BY DEF IInv, TypeOK, OpenBlobs
    <3> QED BY <1>2, <3>1 DEF AttachmentData, OpenBlobs
  <2> QED BY <1>2, <2>1, AppendByteIInv DEF AttachmentData
<1> QED BY <1>1, <1>2

\* finish_property: a new row, or the range stored first.
LEMMA FinishPropertyIInv == ASSUME IInv, finish_property PROVE IInv'
<1> DEFINE m == finish_blob(work, blob.start, blob.data)
<1>1. /\ work \in Ledgers /\ blob.start \in Nat /\ blob.data \in Seq(Bytes)
      /\ blob.owner # "none" /\ active \in Keys /\ InCandidate
      /\ attachmentOpen \in BOOLEAN
  BY DEF IInv, TypeOK, finish_property, InCandidate
<1>2. /\ pack' = PackAfterFinish(work, blob.start, blob.data)
      /\ synced' = Shorter(synced, Len(pack'))
      /\ work' = record_event(m, "property", blob.data)
  BY DEF finish_property, truncate_payload_pack
<1>3. /\ pack' \in Seq(Bytes) /\ packStart <= Len(pack')
      /\ \A i \in 1..packStart : pack'[i] = pack[i]
      /\ work.blobs \subseteq m.blobs
      /\ \A b \in m.blobs : Holds(pack', b)
  BY <1>1, <1>2, FinishOpenBlob
<1>4. m \in Ledgers /\ "property" \in BlobKinds \cup PlainKinds
  BY <1>1, FinishBlobFacts DEF BlobKinds
<1> HIDE DEF m
<1>5. work' \in Ledgers /\ work'.blobs = m.blobs
  BY <1>1, <1>2, <1>4, RecordEventFacts
<1>6. /\ blob' \in OpenBlobs /\ blob'.owner = "none" /\ attachmentOpen' \in BOOLEAN
      /\ UNCHANGED <<db, save, batch, active, packStart, phase, stops>>
  BY <1>1, NoBlobType DEF finish_property
<1> QED BY <1>1, <1>2, <1>3, <1>5, <1>6, CloseBlobIInv

\* PropertyAbort: the bytes of the property are cut off.
LEMMA PropertyAbortIInv == ASSUME IInv, PropertyAbort PROVE IInv'
<1>1. /\ work \in Ledgers /\ blob.owner # "none" /\ active \in Keys /\ InCandidate
      /\ attachmentOpen \in BOOLEAN /\ <<>> \in Seq(Bytes)
  BY DEF IInv, TypeOK, PropertyAbort, InCandidate
<1>2. /\ pack' = Truncated(pack, blob.start)
      /\ synced' = Shorter(synced, Len(pack'))
      /\ work' = record_event(work, "property_incomplete", <<>>)
  BY DEF PropertyAbort, truncate_payload_pack
<1>3. /\ pack' \in Seq(Bytes) /\ packStart <= Len(pack')
      /\ \A i \in 1..packStart : pack'[i] = pack[i]
      /\ \A b \in work.blobs : Holds(pack', b)
  BY <1>1, <1>2, DropOpenBlob
<1>4. "property_incomplete" \in BlobKinds \cup PlainKinds
  BY DEF PlainKinds
<1>5. work' \in Ledgers /\ work'.blobs = work.blobs
  BY <1>1, <1>2, <1>4, RecordEventFacts
<1>6. /\ blob' \in OpenBlobs /\ blob'.owner = "none" /\ attachmentOpen' \in BOOLEAN
      /\ UNCHANGED <<db, save, batch, active, packStart, phase, stops>>
  BY <1>1, NoBlobType DEF PropertyAbort
<1> QED BY <1>1, <1>2, <1>3, <1>5, <1>6, CloseBlobIInv

\* A candidate's steps that leave the pack alone.
LEMMA PackUntouched ==
    ASSUME IInv, InCandidate
    PROVE  /\ pack \in Seq(Bytes) /\ packStart <= Len(pack)
           /\ synced = Shorter(synced, Len(pack))
           /\ \A b \in work.blobs : Holds(pack, b)
BY DEF IInv, TypeOK, InCandidate, CandidateSafe, CommittedSafe, WorkingSafe, Shorter

\* AttachmentStart touches neither the pack nor the rows.
LEMMA AttachmentStartIInv == ASSUME IInv, AttachmentStart PROVE IInv'
<1>1. /\ work \in Ledgers /\ active \in Keys /\ InCandidate /\ <<>> \in Seq(Bytes)
      /\ "attachment" \in BlobKinds \cup PlainKinds
      /\ work' = record_event(work, "attachment", <<>>)
  BY DEF IInv, TypeOK, AttachmentStart, InCandidate, PlainKinds
<1>2. work' \in Ledgers /\ work'.blobs = work.blobs
  BY <1>1, RecordEventFacts
<1>3. /\ blob' \in OpenBlobs /\ blob'.owner = "none" /\ attachmentOpen' \in BOOLEAN
      /\ UNCHANGED <<db, save, batch, active, packStart, phase, stops>>
      /\ pack' = pack /\ synced' = synced
  BY DEF AttachmentStart, IInv, TypeOK, OpenBlobs
<1> QED BY <1>1, <1>2, <1>3, PackUntouched, CloseBlobIInv

\* The pack and the ledger after finish_attachment agree.
LEMMA AttachmentSafe ==
    ASSUME IInv, InCandidate, blob.owner # "property",
           NEW complete \in BOOLEAN,
           NEW empty \in {"attachment_data", "attachment_reference", "none",
                          "attachment_missing"}
    PROVE  LET q == AttachmentPack(work)
               m == AttachmentLedger(work, complete, empty)
           IN  /\ m \in Ledgers
               /\ q \in Seq(Bytes) /\ packStart <= Len(q)
               /\ \A i \in 1..packStart : q[i] = pack[i]
               /\ work.blobs \subseteq m.blobs
               /\ \A b \in m.blobs : Holds(q, b)
<1> DEFINE q == AttachmentPack(work)
           m == AttachmentLedger(work, complete, empty)
           hole == [data |-> <<>>, off |-> Len(pack)]
<1>1. /\ work \in Ledgers /\ active \in Keys /\ blob \in OpenBlobs /\ pack \in Seq(Bytes)
  BY DEF IInv, TypeOK, InCandidate, OpenBlobs
<1>2. /\ m \in Ledgers
      /\ blob.owner = "attachment" =>
            m.blobs = finish_blob(work, blob.start, blob.data).blobs
      /\ blob.owner # "attachment" => m.blobs \in {work.blobs, work.blobs \cup {hole}}
  BY <1>1, AttachmentLedgerFacts
<1> HIDE DEF m
<1>3. CASE blob.owner = "attachment"
  <2>1. q = PackAfterFinish(work, blob.start, blob.data)
    BY <1>3 DEF AttachmentPack
  <2> HIDE DEF q
  <2> QED BY <1>1, <1>2, <1>3, <2>1, FinishOpenBlob DEF q, m
<1>4. CASE blob.owner # "attachment"
  <2>1. q = pack
    BY <1>4 DEF AttachmentPack
  <2>2. Holds(pack, hole)
    BY <1>1 DEF Holds, End
  <2>3. \A b \in m.blobs : Holds(pack, b)
    BY <1>2, <1>4, <2>2, PackUntouched
  <2>4. work.blobs \subseteq m.blobs
    BY <1>2, <1>4
  <2> QED BY <1>1, <1>2, <2>1, <2>3, <2>4, PackUntouched DEF m
<1> QED BY <1>3, <1>4

\* finish_attachment: the row of the open blob, or of an empty payload.
LEMMA FinishAttachmentIInv ==
    ASSUME IInv, NEW complete \in BOOLEAN, finish_attachment(complete) PROVE IInv'
<1>1. InCandidate /\ blob.owner # "property"
  BY DEF finish_attachment
<1>2. PICK empty \in EmptyAttachment(complete) :
          work' = AttachmentLedger(work, complete, empty)
  BY DEF finish_attachment
<1>3. empty \in {"attachment_data", "attachment_reference", "none", "attachment_missing"}
  BY DEF EmptyAttachment
<1>4. pack' = AttachmentPack(work) /\ synced' = Shorter(synced, Len(pack'))
  BY DEF finish_attachment, truncate_payload_pack
<1>5. /\ work' \in Ledgers /\ work.blobs \subseteq work'.blobs
      /\ \A b \in work'.blobs : Holds(pack', b)
      /\ pack' \in Seq(Bytes) /\ packStart <= Len(pack')
      /\ \A i \in 1..packStart : pack'[i] = pack[i]
  BY <1>1, <1>2, <1>3, <1>4, AttachmentSafe
<1>6. /\ blob' \in OpenBlobs /\ blob'.owner = "none" /\ attachmentOpen' \in BOOLEAN
      /\ UNCHANGED <<db, save, batch, active, packStart, phase, stops>>
  BY NoBlobType DEF finish_attachment
<1> QED BY <1>1, <1>4, <1>5, <1>6, CloseBlobIInv

\* MessageEnd and MessageEnd { complete: false }.
LEMMA MessageEndIInv ==
    ASSUME IInv, NEW supported \in BOOLEAN, MessageEnd(supported) PROVE IInv'
<1>1. /\ InCandidate /\ work \in Ledgers /\ active \in Keys
      /\ work' = EndLedger(work, supported) /\ pack' = pack
      /\ AfterCandidate /\ Quiet /\ UNCHANGED <<db, save, stops>>
      /\ synced' = IF phase' = "commit" THEN Len(pack) ELSE synced
  BY DEF MessageEnd, IInv, TypeOK, InCandidate
<1>2. work' \in Ledgers /\ work'.blobs = work.blobs
  BY <1>1, EndLedgerFacts
<1>3. synced' = IF phase' = "commit" THEN Len(pack') ELSE Shorter(synced, Len(pack'))
  BY <1>1, PackUntouched
<1>4. /\ pack' \in Seq(Bytes) /\ packStart <= Len(pack')
      /\ \A i \in 1..packStart : pack'[i] = pack[i]
      /\ \A b \in work'.blobs : Holds(pack', b)
  BY <1>1, <1>2, PackUntouched
<1> QED BY <1>1, <1>2, <1>3, <1>4, EndCandidateIInv

\* MessageEnd { complete: false } with a property or an attachment still open.
LEMMA MessageEndIncompleteIInv ==
    ASSUME IInv, NEW supported \in BOOLEAN, MessageEndIncomplete(supported) PROVE IInv'
<1> DEFINE cut == blob.owner = "property"
           l1  == IF cut THEN record_event(work, "property_incomplete", <<>>) ELSE work
           l2  == IF attachmentOpen
                  THEN AttachmentLedger(l1, FALSE, "attachment_missing") ELSE l1
           p   == IF cut THEN Truncated(pack, blob.start) ELSE AttachmentPack(work)
<1>1. /\ InCandidate /\ work' = EndLedger(l2, supported) /\ pack' = p
      /\ AfterCandidate /\ Quiet /\ UNCHANGED <<db, save, stops>>
      /\ synced' = IF phase' = "commit" THEN Len(pack') ELSE Shorter(synced, Len(pack'))
  BY DEF MessageEndIncomplete
<1>2. /\ work \in Ledgers /\ active \in Keys /\ blob \in OpenBlobs /\ pack \in Seq(Bytes)
      /\ <<>> \in Seq(Bytes)
      /\ "property_incomplete" \in BlobKinds \cup PlainKinds
      /\ "attachment_missing" \in BlobKinds \cup PlainKinds
  BY <1>1 DEF IInv, TypeOK, InCandidate, OpenBlobs, PlainKinds
<1>3. /\ l2 \in Ledgers /\ p \in Seq(Bytes) /\ packStart <= Len(p)
      /\ \A i \in 1..packStart : p[i] = pack[i]
      /\ \A b \in l2.blobs : Holds(p, b)
  <2>1. CASE cut
    <3>1. l1 \in Ledgers /\ l1.blobs = work.blobs
      BY <1>2, <2>1, RecordEventFacts
    <3>2. blob.owner # "attachment" /\ blob.owner # "none"
      BY <2>1
    <3>3. AttachmentLedger(l1, FALSE, "attachment_missing")
            = record_event(l1, "attachment_missing", <<>>)
      BY <3>2 DEF AttachmentLedger
    <3> HIDE DEF l1
    <3>4. l2 \in Ledgers /\ l2.blobs = work.blobs
      BY <1>2, <3>1, <3>3, RecordEventFacts
    <3>5. p = Truncated(pack, blob.start)
      BY <2>1
    <3> HIDE DEF l2, p
    <3> QED BY <3>2, <3>4, <3>5, DropOpenBlob
  <2>2. CASE ~cut
    <3>1. l1 = work /\ p = AttachmentPack(work)
      BY <2>2
    <3>2. LET m == AttachmentLedger(work, FALSE, "attachment_missing")
          IN  /\ m \in Ledgers
              /\ p \in Seq(Bytes) /\ packStart <= Len(p)
              /\ \A i \in 1..packStart : p[i] = pack[i]
              /\ work.blobs \subseteq m.blobs
              /\ \A b \in m.blobs : Holds(p, b)
      BY <1>1, <2>2, <3>1, AttachmentSafe
    <3> HIDE DEF l1, p
    <3> QED BY <1>2, <3>1, <3>2
  <2> HIDE DEF l1, l2, p
  <2> QED BY <2>1, <2>2
<1> HIDE DEF l1, l2, p
<1>4. work' \in Ledgers /\ work'.blobs = l2.blobs
  BY <1>1, <1>2, <1>3, EndLedgerFacts
<1> QED BY <1>1, <1>3, <1>4, EndCandidateIInv

\* The two halves of commit_candidate_batch.
LEMMA CommitIInv ==
    ASSUME IInv, sync_payload_pack \/ commit_candidate_batch PROVE IInv'
<1> USE DEF IInv
<1>1. CASE sync_payload_pack
  <2>1. TypeOK'
    BY <1>1 DEF sync_payload_pack, candidateVars, TypeOK
  <2>2. \A b \in db.blobs : End(b) <= Len(pack)
    BY DEF CommittedSafe, Holds
  <2>3. CommittedSafe' /\ WorkingSafe'
    BY <1>1, <2>2 DEF sync_payload_pack, CommittedSafe, WorkingSafe, TypeOK, Holds, End
  <2>4. BatchSafe' /\ CandidateSafe' /\ BlobSafe' /\ PhaseSafe'
    BY <1>1 DEF sync_payload_pack, candidateVars, BatchSafe, CandidateSafe, BlobSafe,
                PhaseSafe, Alive, End
  <2> QED BY <2>1, <2>3, <2>4
<1>2. CASE commit_candidate_batch
  <2>1. /\ active = None /\ synced = Len(pack) /\ phase' = "run" /\ ~batch'.open
        /\ batch' \in [open : BOOLEAN, count : Nat, start : Nat]
    BY <1>2 DEF commit_candidate_batch, PhaseSafe, CandidateSafe, TypeOK
  <2>2. TypeOK'
    BY <1>2, <2>1 DEF commit_candidate_batch, candidateVars, TypeOK
  <2>3. CommittedSafe' /\ WorkingSafe'
    BY <1>2, <2>1 DEF commit_candidate_batch, CommittedSafe, WorkingSafe, TypeOK, Holds, End
  <2>4. BatchSafe' /\ CandidateSafe' /\ BlobSafe' /\ PhaseSafe'
    BY <1>2, <2>1 DEF commit_candidate_batch, candidateVars, BatchSafe, CandidateSafe,
                      BlobSafe, PhaseSafe, Alive
  <2> QED BY <2>2, <2>3, <2>4
<1> QED BY <1>1, <1>2

\* abort_worker_attempt: the cut at packStart spares the rest of the batch.
LEMMA AbortIInv == ASSUME IInv, abort_worker_attempt PROVE IInv'
<1> USE DEF IInv
<1>1. /\ active # None /\ phase = "run" /\ batch.open /\ packStart \in Nat
      /\ packStart <= Len(pack) /\ pack \in Seq(Bytes) /\ batch.start <= packStart
      /\ batch.start \in Nat
  BY DEF abort_worker_attempt, InCandidate, CandidateSafe, TypeOK
<1>2. /\ pack' = Truncated(pack, packStart) /\ synced' = packStart /\ work' = save
      /\ phase' = "commit" /\ Quiet /\ UNCHANGED <<db, save, batch, stops>>
  BY DEF abort_worker_attempt
<1>3. /\ pack' \in Seq(Bytes) /\ Len(pack') = packStart
      /\ \A i \in 1..packStart : pack'[i] = pack[i]
  <2>1. packStart \in 0..Len(pack)
    BY <1>1
  <2> QED BY <1>1, <1>2, <2>1, TruncatedFacts
<1>4. blob' \in OpenBlobs /\ blob'.owner = "none" /\ active' = None
  BY <1>2, NoBlobType DEF Quiet
<1>5. TypeOK'
  BY <1>1, <1>2, <1>3, <1>4 DEF TypeOK, Quiet, OpenBlobs
<1>6. /\ \A b \in db.blobs : End(b) <= packStart /\ Holds(pack', b)
      /\ \A b \in save.blobs : Holds(pack', b)
  BY <1>1, <1>3, CommittedSurvives
<1>7. CommittedSafe' /\ WorkingSafe'
  BY <1>1, <1>2, <1>3, <1>6 DEF CommittedSafe, WorkingSafe, End
<1>8. BatchSafe'
  BY <1>1, <1>2, <1>3 DEF BatchSafe, Alive, End
<1>9. CandidateSafe' /\ BlobSafe' /\ PhaseSafe'
  BY <1>1, <1>2, <1>3, <1>4 DEF CandidateSafe, BlobSafe, PhaseSafe, Alive, Quiet
<1> QED BY <1>5, <1>7, <1>8, <1>9

\* A pack that agrees with the present one up to a length that covers the
\* committed ledger is all a stop or a rollback needs.
LEMMA BackToCommittedIInv ==
    ASSUME IInv, NEW n \in Nat, pack' \in Seq(Bytes), n <= Len(pack'),
           \A i \in 1..n : pack'[i] = pack[i],
           \A b \in db.blobs : End(b) <= n,
           synced' \in Nat, synced' <= Len(pack'), \A b \in db.blobs : End(b) <= synced',
           work' = db, save' \in Ledgers,
           batch' \in [open : BOOLEAN, count : Nat, start : Nat],
           phase' \in {"run", "down"}, phase' = "run" => ~batch'.open,
           active' = None, packStart' \in Nat,
           blob' \in OpenBlobs, blob'.owner = "none", attachmentOpen' = FALSE,
           db' = db, stops' \in Nat
    PROVE  IInv'
<1> USE DEF IInv
<1>1. TypeOK'
  BY DEF TypeOK, OpenBlobs
<1>2. \A b \in db.blobs : Holds(pack', b)
  <2> SUFFICES ASSUME NEW b \in db.blobs PROVE Holds(pack', b)
    OBVIOUS
  <2>1. b \in Blobs /\ Holds(pack, b) /\ End(b) <= n /\ pack \in Seq(Bytes)
    BY DEF TypeOK, Ledgers, CommittedSafe
  <2> QED BY <2>1, HoldsPrefix
<1>3. CommittedSafe' /\ WorkingSafe'
  BY <1>2 DEF CommittedSafe, WorkingSafe, End
<1>4. BatchSafe' /\ CandidateSafe' /\ BlobSafe' /\ PhaseSafe'
  BY DEF BatchSafe, CandidateSafe, BlobSafe, PhaseSafe, Alive
<1> QED BY <1>1, <1>3, <1>4

\* rollback cuts at batch.start; a process stop cuts nothing.
LEMMA RollbackIInv == ASSUME IInv, rollback PROVE IInv'
<1> USE DEF IInv
<1> DEFINE n == IF batch.open THEN batch.start ELSE Len(pack)
<1>1. /\ phase \in {"run", "commit"} /\ work' = db /\ Quiet
      /\ UNCHANGED <<db, save, stops>>
      /\ phase' \in {"down", "run"} /\ ~batch'.open
      /\ batch' \in [open : BOOLEAN, count : Nat, start : Nat]
      /\ pack' = (IF batch.open THEN Truncated(pack, batch.start) ELSE pack)
      /\ synced' = Shorter(synced, Len(pack'))
  BY DEF rollback, TypeOK, truncate_payload_pack
<1>2. /\ n \in 0..Len(pack) /\ pack \in Seq(Bytes) /\ synced \in Nat /\ Len(pack) \in Nat
      /\ batch.open => batch.start \in 0..Len(pack)
  BY <1>1 DEF TypeOK, BatchSafe, Alive
<1>3. pack' \in Seq(Bytes) /\ Len(pack') = n /\ \A i \in 1..n : pack'[i] = pack[i]
  BY <1>1, <1>2, TruncatedFacts
<1>4. \A b \in db.blobs : End(b) <= n /\ End(b) <= synced
  BY <1>1 DEF CommittedSafe, BatchSafe, Alive, Holds
<1> HIDE DEF n
<1>5. synced' \in Nat /\ synced' <= Len(pack') /\ n \in Nat
  BY <1>1, <1>2, <1>3 DEF Shorter
<1>6. \A b \in db.blobs : End(b) <= synced'
  BY <1>1, <1>2, <1>3, <1>4 DEF Shorter
<1>7. /\ blob' \in OpenBlobs /\ blob'.owner = "none" /\ active' = None
      /\ packStart' \in Nat /\ attachmentOpen' = FALSE
      /\ db' = db /\ stops' \in Nat /\ save' \in Ledgers
  BY <1>1, NoBlobType DEF Quiet, TypeOK
<1>8. n <= Len(pack')
  BY <1>3, <1>5
<1> QED BY <1>1, <1>3, <1>4, <1>5, <1>6, <1>7, <1>8, BackToCommittedIInv

\* A process stop drops the open transaction and leaves the pack.
LEMMA ProcessStopIInv == ASSUME IInv, ProcessStop PROVE IInv'
<1> USE DEF IInv
<1>1. /\ work' = db /\ phase' = "down" /\ Quiet /\ UNCHANGED <<db, save, batch, pack, synced>>
      /\ stops' \in Nat
  BY DEF ProcessStop, TypeOK
<1>2. /\ blob' \in OpenBlobs /\ blob'.owner = "none" /\ active' = None
      /\ packStart' \in Nat /\ attachmentOpen' = FALSE
      /\ db' = db /\ save' \in Ledgers /\ pack' \in Seq(Bytes)
      /\ batch' \in [open : BOOLEAN, count : Nat, start : Nat]
  BY <1>1, NoBlobType DEF Quiet, TypeOK
<1>3. /\ synced' \in Nat /\ synced' <= Len(pack')
      /\ \A b \in db.blobs : End(b) <= synced'
      /\ \A i \in 1..synced' : pack'[i] = pack[i]
  BY <1>1 DEF TypeOK, CommittedSafe
<1> QED BY <1>1, <1>2, <1>3, BackToCommittedIInv

\* A host stop keeps the synced prefix, which covers the committed ledger.
LEMMA HostStopIInv == ASSUME IInv, HostStop PROVE IInv'
<1> USE DEF IInv
<1>1. /\ work' = db /\ phase' = "down" /\ Quiet /\ UNCHANGED <<db, save, batch, synced>>
      /\ stops' \in Nat
  BY DEF HostStop, TypeOK
<1>2. PICK n \in synced..Len(pack) : \E tail \in [synced + 1 .. n -> Bytes] :
          pack' = [i \in 1..n |-> IF i <= synced THEN pack[i] ELSE tail[i]]
  BY DEF HostStop
<1>3. PICK tail \in [synced + 1 .. n -> Bytes] :
          pack' = [i \in 1..n |-> IF i <= synced THEN pack[i] ELSE tail[i]]
  BY <1>2
<1>4. /\ synced \in Nat /\ synced <= Len(pack) /\ pack \in Seq(Bytes) /\ Len(pack) \in Nat
      /\ n \in Nat /\ synced <= n /\ n <= Len(pack)
      /\ \A b \in db.blobs : End(b) <= synced
  BY <1>2 DEF TypeOK, CommittedSafe
<1>5. pack' \in [1..n -> Bytes] /\ \A i \in 1..synced : pack'[i] = pack[i]
  BY <1>3, <1>4
<1>6. pack' \in Seq(Bytes) /\ Len(pack') = n
  BY <1>4, <1>5
<1>7. /\ blob' \in OpenBlobs /\ blob'.owner = "none" /\ active' = None
      /\ packStart' \in Nat /\ attachmentOpen' = FALSE
      /\ db' = db /\ save' \in Ledgers
      /\ batch' \in [open : BOOLEAN, count : Nat, start : Nat]
  BY <1>1, NoBlobType DEF Quiet, TypeOK
<1>8. /\ synced' \in Nat /\ synced' <= Len(pack')
      /\ \A b \in db.blobs : End(b) <= synced'
      /\ \A i \in 1..synced' : pack'[i] = pack[i]
  BY <1>1, <1>4, <1>5, <1>6
<1> QED BY <1>1, <1>6, <1>7, <1>8, BackToCommittedIInv

\* open_expected cuts at the end of the last committed range.
LEMMA OpenIInv == ASSUME IInv, open_expected PROVE IInv'
<1> USE DEF IInv
<1>1. /\ phase = "down" /\ active = None /\ blob.owner = "none" /\ attachmentOpen = FALSE
      /\ work = db
  BY DEF open_expected, PhaseSafe, BlobSafe, Alive, TypeOK
<1>2. CASE Refused
  <2>1. /\ phase' = "refused"
        /\ UNCHANGED <<db, work, save, batch, pack, synced, candidateVars, stops>>
    BY <1>2 DEF open_expected
  <2>2. TypeOK'
    BY <2>1 DEF TypeOK, candidateVars
  <2>3. CommittedSafe' /\ WorkingSafe' /\ BatchSafe' /\ CandidateSafe' /\ BlobSafe' /\ PhaseSafe'
    BY <1>1, <2>1 DEF CommittedSafe, WorkingSafe, BatchSafe, CandidateSafe, BlobSafe,
                      PhaseSafe, Alive, candidateVars, Holds, End
  <2> QED BY <2>2, <2>3
<1>3. CASE ~Refused
  <2>1. /\ reconcile_payload_pack(db, pack) /\ work' = db /\ save' = db /\ phase' = "run"
        /\ batch' = [open |-> FALSE, count |-> 0, start |-> 0]
        /\ UNCHANGED <<db, candidateVars, stops>>
    BY <1>3 DEF open_expected
  <2>2. PICK e \in 0..Len(pack) :
            IsCommittedEnd(db, e) /\ pack' = Truncated(pack, e) /\ synced' = e
    BY <2>1 DEF reconcile_payload_pack
  <2>3. /\ pack \in Seq(Bytes) /\ db \in Ledgers /\ e \in Nat
        /\ batch' \in [open : BOOLEAN, count : Nat, start : Nat] /\ ~batch'.open
        /\ active' = None /\ packStart' \in Nat /\ blob' \in OpenBlobs
        /\ blob'.owner = "none" /\ attachmentOpen' = FALSE /\ db' = db
        /\ stops' \in Nat /\ save' \in Ledgers
    BY <1>1, <2>1, <2>2 DEF TypeOK, candidateVars, OpenBlobs
  <2>4. /\ pack' \in Seq(Bytes) /\ Len(pack') = e /\ \A i \in 1..e : pack'[i] = pack[i]
    BY <2>2, <2>3, TruncatedFacts
  <2>5. \A b \in db.blobs : End(b) <= e
    BY <2>2 DEF IsCommittedEnd
  <2>6. e <= Len(pack') /\ synced' \in Nat /\ synced' <= Len(pack')
        /\ \A b \in db.blobs : End(b) <= synced'
    BY <2>2, <2>3, <2>4, <2>5
  <2> QED BY <2>1, <2>3, <2>4, <2>5, <2>6, BackToCommittedIInv
<1> QED BY <1>2, <1>3

\* Every step preserves the invariant.
LEMMA NextIInv == IInv /\ [Next]_vars => IInv'
<1> SUFFICES ASSUME IInv, [Next]_vars PROVE IInv'
  OBVIOUS
<1>1. CASE UNCHANGED vars
  BY <1>1 DEF vars, IInv, TypeOK, CommittedSafe, WorkingSafe, BatchSafe, CandidateSafe,
              BlobSafe, PhaseSafe, Alive, Holds, End
<1>2. CASE \E k \in Keys : start_candidate(k)
  BY <1>2, StartCandidateIInv
<1>3. CASE PropertyStart
  BY <1>3, PropertyStartIInv
<1>4. CASE \E x \in Bytes : PropertyData(x)
  BY <1>4, PropertyDataIInv
<1>5. CASE finish_property
  BY <1>5, FinishPropertyIInv
<1>6. CASE PropertyAbort
  BY <1>6, PropertyAbortIInv
<1>7. CASE AttachmentStart
  BY <1>7, AttachmentStartIInv
<1>8. CASE \E x \in Bytes : AttachmentData(x)
  BY <1>8, AttachmentDataIInv
<1>9. CASE \E complete \in BOOLEAN : finish_attachment(complete)
  BY <1>9, FinishAttachmentIInv
<1>10. CASE \E supported \in BOOLEAN : MessageEnd(supported)
  BY <1>10, MessageEndIInv
<1>11. CASE \E supported \in BOOLEAN : MessageEndIncomplete(supported)
  BY <1>11, MessageEndIncompleteIInv
<1>12. CASE sync_payload_pack \/ commit_candidate_batch
  BY <1>12, CommitIInv
<1>13. CASE abort_worker_attempt
  BY <1>13, AbortIInv
<1>14. CASE rollback
  BY <1>14, RollbackIInv
<1>15. CASE ProcessStop
  BY <1>15, ProcessStopIInv
<1>16. CASE HostStop
  BY <1>16, HostStopIInv
<1>17. CASE open_expected
  BY <1>17, OpenIInv
<1> QED BY <1>1, <1>2, <1>3, <1>4, <1>5, <1>6, <1>7, <1>8, <1>9, <1>10, <1>11, <1>12,
           <1>13, <1>14, <1>15, <1>16, <1>17 DEF Next

\* The inductive invariant holds in every reachable state.
THEOREM LedgerInvariant == Spec => []IInv
BY InitIInv, NextIInv, PTL DEF Spec

\* Every variable keeps its type.
THEOREM TypeCorrect == Spec => []TypeOK
<1>1. IInv => TypeOK
  BY DEF IInv
<1> QED BY <1>1, LedgerInvariant, PTL

\* A payload recorded by the committed ledger is never lost, however the
\* process or the host stops and whatever is aborted or dropped.
THEOREM CommittedPayloadSafe == Spec => []CommittedPayloadIntact
<1>1. IInv => CommittedPayloadIntact
  BY DEF IInv, CommittedSafe, CommittedPayloadIntact
<1> QED BY <1>1, LedgerInvariant, PTL

\* Nor is a payload of the open transaction, so that dropping a duplicate in
\* favour of the range stored first is sound.
THEOREM WorkingPayloadSafe == Spec => []WorkingPayloadIntact
<1>1. IInv => WorkingPayloadIntact
  BY DEF IInv, WorkingSafe, WorkingPayloadIntact
<1> QED BY <1>1, LedgerInvariant, PTL
-----------------------------------------------------------------------------
(***************************************************************************)
(* What a stop costs.  The rows agree with each other in every ledger that *)
(* can become the committed one (Consistent), each of them keeps what was  *)
(* committed before (Keeps), and the open batch is counted.                *)
(***************************************************************************)

\* A blob is there for an event, an event's blob is there, and two blobs have
\* no byte in common.
Referenced(l) ==
    \A b \in l.blobs : \E k \in Keys : \E i \in DOMAIN l.events[k] :
        l.events[k][i].kind \in BlobKinds /\ l.events[k][i].data = b.data
Backed(l) ==
    \A k \in Keys : \A i \in DOMAIN l.events[k] :
        l.events[k][i].kind \in BlobKinds => Stored(l, l.events[k][i].data)
Consistent(l) == Referenced(l) /\ Backed(l) /\ ~Overlapping(l)

\* l has what the committed ledger has of its finished candidates.
Keeps(l) ==
    /\ db.blobs \subseteq l.blobs
    /\ \A k \in Keys : db.status[k] \in Done =>
          l.status[k] = db.status[k] /\ l.events[k] = db.events[k]

RowsInv ==
    /\ Consistent(db) /\ Consistent(work) /\ Keeps(work)
    /\ \A k \in Keys : db.status[k] # "pending"
    /\ \A k \in Keys : work.status[k] = "pending" => k = active

SavepointInv ==
    active # None =>
        /\ Consistent(save) /\ Keeps(save)
        /\ save.status[active] = "absent" /\ work.status[active] = "pending"
        /\ \A k \in Keys \ {active} : save.status[k] = work.status[k]

CountInv ==
    /\ IsFiniteSet(Replayed) /\ Cardinality(Replayed) <= batch.count
    /\ batch.count <= BatchLimit /\ (phase = "run" => batch.count < BatchLimit)
    /\ ~batch.open => batch.count = 0

CostInv == RowsInv /\ SavepointInv /\ CountInv

\* What recording for the active candidate does to a ledger.
Grown(l, m) ==
    /\ m \in Ledgers /\ m.status = l.status /\ l.blobs \subseteq m.blobs
    /\ \A k \in Keys \ {active} : m.events[k] = l.events[k]
    /\ Consistent(l) => Consistent(m)

\* One more event: a plain one, one whose payload is stored, or one with the
\* row of its payload, which is empty or lies behind all others.
LEMMA RecordedGrown ==
    ASSUME NEW l \in Ledgers, active \in Keys, NEW m \in Ledgers, NEW e \in Events,
           NEW n \in Nat,
           m.status = l.status, \A k \in Keys \ {active} : m.events[k] = l.events[k],
           m.events[active] = Append(l.events[active], e),
           \/ e.kind \notin BlobKinds /\ m.blobs = l.blobs
           \/ e.kind \in BlobKinds /\ Stored(l, e.data) /\ m.blobs = l.blobs
           \/ /\ e.kind \in BlobKinds
              /\ m.blobs = l.blobs \cup {[data |-> e.data, off |-> n]}
              /\ e.data = <<>> \/ \A b \in l.blobs : End(b) <= n
    PROVE  Grown(l, m)
<1> DEFINE a == l.events[active]
           new == [data |-> e.data, off |-> n]
<1>1. a \in Seq(Events) /\ \A k \in Keys : l.events[k] \in Seq(Events) /\ m.events[k] \in Seq(Events)
  BY DEF Ledgers
<1>2. /\ DOMAIN m.events[active] = 1..(Len(a) + 1) /\ Len(a) \in Nat /\ DOMAIN a = 1..Len(a)
      /\ m.events[active][Len(a) + 1] = e
      /\ \A i \in DOMAIN a : i \in DOMAIN m.events[active] /\ m.events[active][i] = a[i]
      /\ \A i \in DOMAIN m.events[active] : i \in DOMAIN a \/ i = Len(a) + 1
  BY <1>1
<1> HIDE DEF a
<1>3. l.blobs \subseteq m.blobs
  OBVIOUS
<1> SUFFICES ASSUME Consistent(l) PROVE Consistent(m)
  BY <1>3 DEF Grown
<1>4. Referenced(m)
  <2> SUFFICES ASSUME NEW b \in m.blobs
               PROVE  \E k \in Keys : \E i \in DOMAIN m.events[k] :
                          m.events[k][i].kind \in BlobKinds /\ m.events[k][i].data = b.data
    BY DEF Referenced
  <2>1. CASE b \in l.blobs
    <3>1. PICK k \in Keys : \E i \in DOMAIN l.events[k] :
              l.events[k][i].kind \in BlobKinds /\ l.events[k][i].data = b.data
      BY <2>1 DEF Consistent, Referenced
    <3>2. PICK i \in DOMAIN l.events[k] :
              l.events[k][i].kind \in BlobKinds /\ l.events[k][i].data = b.data
      BY <3>1
    <3>3. i \in DOMAIN m.events[k] /\ m.events[k][i] = l.events[k][i]
      BY <1>2, <3>2 DEF a
    <3> QED BY <3>2, <3>3
  <2>2. CASE b \notin l.blobs
    <3>1. b.data = e.data /\ e.kind \in BlobKinds
      BY <2>2
    <3> QED BY <1>2, <3>1
  <2> QED BY <2>1, <2>2
<1>5. Backed(m)
  <2> SUFFICES ASSUME NEW k \in Keys, NEW i \in DOMAIN m.events[k],
                      m.events[k][i].kind \in BlobKinds
               PROVE  Stored(m, m.events[k][i].data)
    BY DEF Backed
  <2>1. CASE i \in DOMAIN l.events[k] /\ m.events[k][i] = l.events[k][i]
    <3>1. Stored(l, l.events[k][i].data)
      BY <2>1 DEF Consistent, Backed
    <3> QED BY <1>3, <2>1, <3>1 DEF Stored
  <2>2. CASE k = active /\ m.events[k][i] = e
    <3>1. CASE Stored(l, e.data)
      BY <1>3, <2>2, <3>1 DEF Stored
    <3>2. CASE ~Stored(l, e.data)
      <4>1. new \in m.blobs /\ new.data = e.data
        BY <2>2, <3>2
      <4> QED BY <2>2, <4>1 DEF Stored
    <3> QED BY <3>1, <3>2
  <2>3. CASE k # active
    <3>1. m.events[k] = l.events[k]
      BY <2>3
    <3> QED BY <2>1, <3>1
  <2> QED BY <1>2, <2>1, <2>2, <2>3 DEF a
<1>6. ~Overlapping(m)
  <2> SUFFICES ASSUME NEW b \in m.blobs, NEW c \in m.blobs, b # c, Len(b.data) > 0,
                      Len(c.data) > 0, b.off <= c.off, c.off < End(b)
               PROVE  FALSE
    BY DEF Overlapping
  <2>1. b \in l.blobs /\ c \in l.blobs => FALSE
    BY DEF Consistent, Overlapping
  <2>2. b.off \in Nat /\ c.off \in Nat /\ Len(b.data) \in Nat /\ Len(c.data) \in Nat
        /\ End(b) = b.off + Len(b.data) /\ End(c) = c.off + Len(c.data)
    BY DEF Ledgers, Blobs, End
  <2>3. e.data # <<>> => \A x \in l.blobs : End(x) <= n
    BY <2>1
  <2>4. ASSUME b \notin l.blobs PROVE FALSE
    <3>1. b = new /\ c \in l.blobs
      BY <2>4
    <3>2. e.data # <<>> /\ End(c) <= n
      BY <2>3, <3>1
    <3> QED BY <2>2, <3>1, <3>2
  <2>5. ASSUME c \notin l.blobs PROVE FALSE
    <3>1. c = new /\ b \in l.blobs
      BY <2>5
    <3>2. e.data # <<>> /\ End(b) <= n
      BY <2>3, <3>1
    <3> QED BY <2>2, <3>1, <3>2
  <2> QED BY <2>1, <2>4, <2>5
<1> QED BY <1>4, <1>5, <1>6 DEF Consistent

\* An event without payload.
LEMMA PlainGrown ==
    ASSUME NEW l \in Ledgers, active \in Keys, NEW kind \in PlainKinds
    PROVE  Grown(l, record_event(l, kind, <<>>))
<1> DEFINE e == [kind |-> kind, data |-> <<>>]
           m == record_event(l, kind, <<>>)
<1>1. e \in Events /\ e.kind \notin BlobKinds /\ 0 \in Nat
  BY DEF Events, PlainKinds, BlobKinds
<1>2. m \in Ledgers /\ m.blobs = l.blobs
  <2>1. kind \in BlobKinds \cup PlainKinds /\ <<>> \in Seq(Bytes)
    OBVIOUS
  <2> QED BY <2>1, RecordEventFacts
<1>3. m.status = l.status /\ m.events[active] = Append(l.events[active], e)
      /\ \A k \in Keys \ {active} : m.events[k] = l.events[k]
  BY DEF record_event, Ledgers
<1> HIDE DEF m, e
<1> QED BY <1>1, <1>2, <1>3, RecordedGrown DEF m

\* An event with its payload, which is stored behind what is there.
LEMMA PayloadGrown ==
    ASSUME NEW l \in Ledgers, active \in Keys, NEW kind \in BlobKinds, NEW start \in Nat,
           NEW data \in Seq(Bytes), data = <<>> \/ \A b \in l.blobs : End(b) <= start
    PROVE  Grown(l, record_event(finish_blob(l, start, data), kind, data))
<1> DEFINE e == [kind |-> kind, data |-> data]
           f == finish_blob(l, start, data)
           m == record_event(f, kind, data)
<1>1. e \in Events /\ e.kind \in BlobKinds /\ e.data = data
  BY DEF Events
<1>2. /\ f \in Ledgers /\ f.status = l.status /\ f.events = l.events
      /\ \/ Stored(l, data) /\ f.blobs = l.blobs
         \/ f.blobs = l.blobs \cup {[data |-> data, off |-> start]}
  BY FinishBlobFacts DEF finish_blob, Ledgers
<1> HIDE DEF f
<1>3. m \in Ledgers /\ m.blobs = f.blobs
  BY <1>2, RecordEventFacts
<1>4. m.status = f.status /\ m.events[active] = Append(f.events[active], e)
      /\ \A k \in Keys \ {active} : m.events[k] = f.events[k]
  BY <1>2 DEF record_event, Ledgers
<1>5. /\ m.status = l.status /\ m.events[active] = Append(l.events[active], e)
      /\ \A k \in Keys \ {active} : m.events[k] = l.events[k]
      /\ \/ Stored(l, e.data) /\ m.blobs = l.blobs
         \/ m.blobs = l.blobs \cup {[data |-> e.data, off |-> start]}
      /\ e.data = <<>> \/ \A b \in l.blobs : End(b) <= start
  BY <1>1, <1>2, <1>3, <1>4
<1> HIDE DEF m, e
<1>6. Grown(l, m)
  BY <1>1, <1>3, <1>5, RecordedGrown
<1> QED BY <1>6 DEF m, f

\* What a step of one candidate does, seen from the rows.
LEMMA GrownTwice ==
    ASSUME NEW l, NEW m, NEW n, Grown(l, m), Grown(m, n) PROVE Grown(l, n)
BY DEF Grown

\* finish_attachment.
LEMMA AttachmentGrown ==
    ASSUME IInv, active \in Keys, attachmentOpen, NEW l \in Ledgers, l.blobs = work.blobs,
           NEW complete \in BOOLEAN,
           NEW empty \in {"attachment_data", "attachment_reference", "none",
                          "attachment_missing"}
    PROVE  Grown(l, AttachmentLedger(l, complete, empty))
<1>1. /\ blob.start \in Nat /\ blob.data \in Seq(Bytes) /\ <<>> \in Seq(Bytes)
      /\ Len(pack) \in Nat
  BY DEF IInv, TypeOK
<1>2. blob.owner = "attachment" => \A b \in l.blobs : End(b) <= blob.start
  BY DEF IInv, BlobSafe
<1>3. CASE blob.owner = "attachment"
  <2> DEFINE kind == IF complete THEN "attachment_data" ELSE "attachment_partial"
  <2>1. kind \in BlobKinds
    BY DEF BlobKinds
  <2>2. AttachmentLedger(l, complete, empty)
          = record_event(finish_blob(l, blob.start, blob.data), kind, blob.data)
    BY <1>3 DEF AttachmentLedger
  <2> HIDE DEF kind
  <2> QED BY <1>1, <1>2, <1>3, <2>1, <2>2, PayloadGrown
<1>4. CASE blob.owner # "attachment" /\ empty = "attachment_data"
  <2>1. "attachment_data" \in BlobKinds
    BY DEF BlobKinds
  <2>2. AttachmentLedger(l, complete, empty)
          = record_event(finish_blob(l, Len(pack), <<>>), "attachment_data", <<>>)
    BY <1>4 DEF AttachmentLedger
  <2> QED BY <1>1, <2>1, <2>2, PayloadGrown
<1>5. CASE blob.owner # "attachment" /\ empty = "none"
  BY <1>5 DEF AttachmentLedger, Grown
<1>6. CASE blob.owner # "attachment" /\ empty \notin {"attachment_data", "none"}
  <2>1. AttachmentLedger(l, complete, empty) = record_event(l, empty, <<>>)
        /\ empty \in PlainKinds
    BY <1>6 DEF AttachmentLedger, PlainKinds
  <2> QED BY <2>1, PlainGrown
<1> QED BY <1>3, <1>4, <1>5, <1>6

-----------------------------------------------------------------------------
(* The steps, by what they do to the rows.                                 *)

\* Recording inside the candidate.
LEMMA InsideCost ==
    ASSUME IInv, CostInv, active # None, Grown(work, work'),
           UNCHANGED <<db, save, batch, active, phase>>
    PROVE  CostInv'
<1>1. active \in Keys /\ work \in Ledgers /\ work' \in Ledgers /\ work'.status = work.status
      /\ work.blobs \subseteq work'.blobs /\ Consistent(work')
      /\ \A k \in Keys \ {active} : work'.events[k] = work.events[k]
  BY DEF IInv, TypeOK, Grown, CostInv, RowsInv
<1>2. db.status[active] \notin Done
  <2>1. save.status[active] = "absent" /\ Keeps(save)
    BY DEF CostInv, SavepointInv
  <2> QED BY <1>1, <2>1 DEF Keeps, Done
<1>3. Keeps(work')
  BY <1>1, <1>2 DEF CostInv, RowsInv, Keeps
<1>4. RowsInv'
  <2>1. Keeps(work)'
    BY <1>3 DEF Keeps
  <2>2. Consistent(work)' /\ Consistent(db)'
    BY <1>1 DEF CostInv, RowsInv, Consistent, Referenced, Backed, Overlapping, Stored, End
  <2> QED BY <1>1, <2>1, <2>2 DEF CostInv, RowsInv
<1>5. SavepointInv'
  <2>1. Keeps(save)' /\ Consistent(save)'
    BY DEF CostInv, SavepointInv, Keeps, Consistent, Referenced, Backed, Overlapping, Stored, End
  <2> QED BY <1>1, <2>1 DEF CostInv, SavepointInv
<1>6. CountInv'
  <2>1. Replayed' = Replayed
    BY <1>1 DEF Replayed
  <2> QED BY <2>1 DEF CostInv, CountInv
<1> QED BY <1>4, <1>5, <1>6 DEF CostInv

\* The end of the candidate.
LEMMA EndCost ==
    ASSUME IInv, CostInv, InCandidate, NEW l, Grown(work, l), NEW supported \in BOOLEAN,
           work' = EndLedger(l, supported), AfterCandidate, active' = None, db' = db
    PROVE  CostInv'
<1>1. active \in Keys /\ work \in Ledgers /\ l \in Ledgers /\ batch.count \in Nat
      /\ phase = "run" /\ active # None
  BY DEF IInv, TypeOK, Grown, InCandidate
<1> DEFINE m == IF supported THEN l ELSE record_event(l, "output_unrepresentable", <<>>)
<1>2. Grown(work, m)
  <2>1. Grown(l, record_event(l, "output_unrepresentable", <<>>))
    BY <1>1, PlainGrown DEF PlainKinds
  <2> QED BY <2>1, GrownTwice
<1>3. work' = [m EXCEPT !.status[active] = Status(supported)]
  BY DEF EndLedger
<1> HIDE DEF m
<1>4. m \in Ledgers /\ m.status = work.status /\ work.blobs \subseteq m.blobs /\ Consistent(m)
      /\ \A k \in Keys \ {active} : m.events[k] = work.events[k]
  BY <1>2 DEF Grown, CostInv, RowsInv
<1>5. /\ work'.events = m.events /\ work'.blobs = m.blobs
      /\ work'.status[active] \in Done
      /\ \A k \in Keys \ {active} : work'.status[k] = work.status[k]
  BY <1>1, <1>3, <1>4 DEF Ledgers, Status, Done
<1>6. db.status[active] \notin Done /\ work.status[active] = "pending"
  <2>1. save.status[active] = "absent" /\ Keeps(save) /\ work.status[active] = "pending"
    BY <1>1 DEF CostInv, SavepointInv
  <2> QED BY <1>1, <2>1 DEF Keeps, Done
<1>7. RowsInv'
  <2>1. Keeps(work)'
    BY <1>1, <1>4, <1>5, <1>6 DEF CostInv, RowsInv, Keeps
  <2>2. Consistent(work)' /\ Consistent(db)'
    BY <1>4, <1>5 DEF CostInv, RowsInv, Consistent, Referenced, Backed, Overlapping, Stored, End
  <2>3. \A k \in Keys : work'.status[k] # "pending"
    BY <1>1, <1>5 DEF CostInv, RowsInv, Done
  <2> QED BY <2>1, <2>2, <2>3 DEF CostInv, RowsInv
<1>8. CountInv'
  <2>1. Replayed' = Replayed \cup {active} /\ active \notin Replayed
    BY <1>1, <1>5, <1>6 DEF Replayed, Done
  <2>2. /\ IsFiniteSet(Replayed) /\ Cardinality(Replayed) <= batch.count
        /\ batch.count < BatchLimit /\ batch.open
    BY <1>1 DEF CostInv, CountInv, IInv, CandidateSafe
  <2>3. /\ IsFiniteSet(Replayed')
        /\ Cardinality(Replayed') = Cardinality(Replayed) + 1
        /\ Cardinality(Replayed) \in Nat
    BY <2>1, <2>2, FS_AddElement, FS_CardinalityType
  <2>4. /\ batch'.count = batch.count + 1 /\ batch'.open = batch.open
        /\ phase' = IF batch.count + 1 >= BatchLimit THEN "commit" ELSE "run"
    BY DEF AfterCandidate, BatchAfter, IInv, TypeOK
  <2> QED BY <1>1, <2>2, <2>3, <2>4, BatchAssumption DEF CountInv
<1> QED BY <1>7, <1>8 DEF CostInv, SavepointInv

\* The transaction is given up.
LEMMA BackCost ==
    ASSUME IInv, CostInv, UNCHANGED db, work' = db, active' = None,
           batch'.count \in Nat, batch'.count <= BatchLimit,
           ~batch'.open => batch'.count = 0, phase' = "run" => batch'.count = 0
    PROVE  CostInv'
<1>1. RowsInv'
  BY DEF CostInv, RowsInv, Keeps, Consistent, Referenced, Backed, Overlapping, Stored, End
<1>2. CountInv'
  <2>1. Replayed' = {}
    BY DEF Replayed
  <2> QED BY <2>1, FS_EmptySet, BatchAssumption DEF CountInv
<1> QED BY <1>1, <1>2 DEF CostInv, SavepointInv

\* At first there is nothing to lose.
LEMMA InitCost == Init => CostInv
<1> SUFFICES ASSUME Init PROVE CostInv
  OBVIOUS
<1>1. Consistent(db) /\ Consistent(work) /\ Keeps(work)
  BY DEF Init, Consistent, Referenced, Backed, Overlapping, Keeps
<1>2. Replayed = {}
  BY DEF Init, Replayed
<1>3. CountInv
  <2>1. batch.count = 0 /\ ~batch.open
    BY DEF Init
  <2> QED BY <1>2, <2>1, FS_EmptySet, BatchAssumption DEF CountInv
<1> QED BY <1>1, <1>3 DEF Init, CostInv, RowsInv, SavepointInv

\* The savepoint is the ledger before the candidate.
LEMMA StartCost ==
    ASSUME IInv, CostInv, NEW k \in Keys, start_candidate(k) PROVE CostInv'
<1>1. /\ phase = "run" /\ active = None /\ work.status[k] = "absent" /\ save' = work
      /\ work' = [work EXCEPT !.status[k] = "pending"] /\ active' = k /\ db' = db
      /\ phase' = phase /\ work \in Ledgers /\ batch.count \in Nat
  BY DEF start_candidate, IInv, TypeOK
<1>2. /\ work'.blobs = work.blobs /\ work'.events = work.events
      /\ work'.status[k] = "pending" /\ \A j \in Keys \ {k} : work'.status[j] = work.status[j]
  BY <1>1 DEF Ledgers
<1>3. db.status[k] \notin Done
  BY <1>1 DEF CostInv, RowsInv, Keeps, Done
<1>4. RowsInv'
  <2>1. Keeps(work)'
    BY <1>1, <1>2, <1>3 DEF CostInv, RowsInv, Keeps
  <2>2. Consistent(work)' /\ Consistent(db)'
    BY <1>1, <1>2 DEF CostInv, RowsInv, Consistent, Referenced, Backed, Overlapping, Stored, End
  <2> QED BY <1>1, <1>2, <2>1, <2>2, NoneAssumption DEF CostInv, RowsInv
<1>5. SavepointInv'
  <2>1. Keeps(save)' /\ Consistent(save)'
    BY <1>1 DEF CostInv, RowsInv, Keeps, Consistent, Referenced, Backed, Overlapping, Stored, End
  <2> QED BY <1>1, <1>2, <2>1 DEF SavepointInv
<1>6. CountInv'
  <2>1. Replayed' = Replayed
    BY <1>1, <1>2, <1>3 DEF Replayed, Done
  <2>2. batch'.open /\ batch'.count = batch.count
    BY DEF start_candidate, CostInv, CountInv
  <2> QED BY <1>1, <2>1, <2>2 DEF CostInv, CountInv
<1> QED BY <1>4, <1>5, <1>6 DEF CostInv

\* COMMIT: what was pending is finished.
LEMMA CommitCost == ASSUME IInv, CostInv, commit_candidate_batch PROVE CostInv'
<1>1. /\ phase = "commit" /\ db' = work /\ work' = work /\ active' = active /\ phase' = "run"
      /\ batch' = [open |-> FALSE, count |-> 0, start |-> Len(pack)]
  BY DEF commit_candidate_batch, candidateVars
<1>2. active = None
  BY <1>1 DEF IInv, CandidateSafe
<1>3. RowsInv'
  <2>1. Keeps(work)'
    BY <1>1 DEF Keeps
  <2>2. Consistent(work)' /\ Consistent(db)'
    BY <1>1 DEF CostInv, RowsInv, Consistent, Referenced, Backed, Overlapping, Stored, End
  <2> QED BY <1>1, <1>2, <2>1, <2>2, NoneAssumption DEF CostInv, RowsInv
<1>4. CountInv'
  <2>1. Replayed' = {}
    BY <1>1 DEF Replayed
  <2> QED BY <1>1, <2>1, FS_EmptySet, BatchAssumption DEF CountInv
<1> QED BY <1>1, <1>2, <1>3, <1>4 DEF CostInv, SavepointInv

\* An abort leaves the batch as the savepoint has it.
LEMMA AbortCost == ASSUME IInv, CostInv, abort_worker_attempt PROVE CostInv'
<1>1. /\ active # None /\ work' = save /\ db' = db /\ batch' = batch /\ active' = None
      /\ phase' = "commit" /\ active \in Keys
  BY DEF abort_worker_attempt, InCandidate, Quiet, IInv, TypeOK
<1>2. /\ Consistent(save) /\ Keeps(save)
      /\ save.status[active] = "absent" /\ work.status[active] = "pending"
      /\ \A k \in Keys \ {active} : save.status[k] = work.status[k]
  BY <1>1 DEF CostInv, SavepointInv
<1>3. RowsInv'
  <2>1. Keeps(work)'
    BY <1>1, <1>2 DEF Keeps
  <2>2. Consistent(work)' /\ Consistent(db)'
    BY <1>1, <1>2 DEF CostInv, RowsInv, Consistent, Referenced, Backed, Overlapping, Stored, End
  <2>3. \A k \in Keys : save.status[k] # "pending"
    BY <1>1, <1>2 DEF CostInv, RowsInv
  <2> QED BY <1>1, <2>1, <2>2, <2>3 DEF CostInv, RowsInv
<1>4. CountInv'
  <2>1. Replayed' = Replayed
    BY <1>1, <1>2 DEF Replayed, Done
  <2> QED BY <1>1, <2>1 DEF CostInv, CountInv
<1> QED BY <1>1, <1>3, <1>4 DEF CostInv, SavepointInv

\* The events of one candidate.
LEMMA EventCost ==
    ASSUME IInv, CostInv,
           \/ PropertyStart \/ (\E x \in Bytes : PropertyData(x))
           \/ finish_property \/ PropertyAbort \/ AttachmentStart
           \/ (\E x \in Bytes : AttachmentData(x))
           \/ (\E complete \in BOOLEAN : finish_attachment(complete))
    PROVE  CostInv'
<1>1. /\ active # None /\ UNCHANGED <<db, save, batch, active, phase>>
  BY DEF PropertyStart, PropertyData, finish_property, PropertyAbort, AttachmentStart,
         AttachmentData, finish_attachment, InCandidate
<1>2. active \in Keys /\ work \in Ledgers
  BY <1>1 DEF IInv, TypeOK
<1> SUFFICES Grown(work, work')
  BY <1>1, InsideCost
<1>3. CASE PropertyStart \/ (\E x \in Bytes : PropertyData(x) \/ AttachmentData(x))
  BY <1>2, <1>3 DEF PropertyStart, PropertyData, AttachmentData, Grown
<1>4. CASE finish_property
  <2>1. /\ blob.start \in Nat /\ blob.data \in Seq(Bytes) /\ "property" \in BlobKinds
        /\ \A b \in work.blobs : End(b) <= blob.start
    BY <1>4 DEF finish_property, IInv, TypeOK, BlobSafe, BlobKinds
  <2> QED BY <1>2, <1>4, <2>1, PayloadGrown DEF finish_property
<1>5. CASE PropertyAbort
  BY <1>2, <1>5, PlainGrown DEF PropertyAbort, PlainKinds
<1>6. CASE AttachmentStart
  BY <1>2, <1>6, PlainGrown DEF AttachmentStart, PlainKinds
<1>7. CASE \E complete \in BOOLEAN : finish_attachment(complete)
  <2>1. PICK complete \in BOOLEAN : finish_attachment(complete)
    BY <1>7
  <2>2. PICK empty \in EmptyAttachment(complete) :
            work' = AttachmentLedger(work, complete, empty)
    BY <2>1 DEF finish_attachment
  <2>3. attachmentOpen /\ empty \in {"attachment_data", "attachment_reference", "none",
                                     "attachment_missing"}
    BY <2>1, <2>2 DEF finish_attachment, EmptyAttachment
  <2> QED BY <1>2, <2>2, <2>3, AttachmentGrown
<1> QED BY <1>3, <1>4, <1>5, <1>6, <1>7

\* The end of a message, with or without something left open.
LEMMA MessageEndCost ==
    ASSUME IInv, CostInv, NEW supported \in BOOLEAN,
           MessageEnd(supported) \/ MessageEndIncomplete(supported)
    PROVE  CostInv'
<1>1. /\ InCandidate /\ AfterCandidate /\ active' = None /\ db' = db
  BY DEF MessageEnd, MessageEndIncomplete, Quiet
<1>2. active \in Keys /\ work \in Ledgers /\ Grown(work, work)
  BY <1>1 DEF InCandidate, IInv, TypeOK, Grown
<1>3. CASE MessageEnd(supported)
  <2>1. work' = EndLedger(work, supported)
    BY <1>3 DEF MessageEnd
  <2> QED BY <1>1, <1>2, <2>1, EndCost
<1>4. CASE MessageEndIncomplete(supported)
  <2> DEFINE cut == blob.owner = "property"
             l1 == IF cut THEN record_event(work, "property_incomplete", <<>>) ELSE work
             l2 == IF attachmentOpen
                   THEN AttachmentLedger(l1, FALSE, "attachment_missing") ELSE l1
  <2>1. work' = EndLedger(l2, supported)
    BY <1>4 DEF MessageEndIncomplete
  <2>2. Grown(work, l1) /\ l1 \in Ledgers /\ l1.blobs = work.blobs
    <3>1. Grown(work, record_event(work, "property_incomplete", <<>>))
      BY <1>2, PlainGrown DEF PlainKinds
    <3>2. record_event(work, "property_incomplete", <<>>).blobs = work.blobs
      BY <1>2 DEF record_event, Ledgers
    <3> QED BY <1>2, <3>1, <3>2 DEF Grown
  <2> HIDE DEF l1
  <2>3. attachmentOpen => Grown(l1, AttachmentLedger(l1, FALSE, "attachment_missing"))
    BY <1>2, <2>2, AttachmentGrown
  <2>4. Grown(work, l2)
    BY <2>2, <2>3, GrownTwice
  <2> HIDE DEF l2
  <2> QED BY <1>1, <2>1, <2>4, EndCost
<1> QED BY <1>3, <1>4

\* Every step preserves it.
LEMMA NextCost == IInv /\ CostInv /\ [Next]_vars => CostInv'
<1> SUFFICES ASSUME IInv, CostInv, [Next]_vars PROVE CostInv'
  OBVIOUS
<1>0. batch.count \in Nat /\ batch.count <= BatchLimit /\ (~batch.open => batch.count = 0)
  BY DEF IInv, TypeOK, CostInv, CountInv
<1>1. CASE UNCHANGED vars
  BY <1>1 DEF vars, CostInv, RowsInv, SavepointInv, CountInv, Replayed, Keeps, Consistent,
              Referenced, Backed, Overlapping, Stored, End
<1>2. CASE \E k \in Keys : start_candidate(k)
  BY <1>2, StartCost
<1>3. CASE \/ PropertyStart \/ (\E x \in Bytes : PropertyData(x))
           \/ finish_property \/ PropertyAbort \/ AttachmentStart
           \/ (\E x \in Bytes : AttachmentData(x))
           \/ (\E complete \in BOOLEAN : finish_attachment(complete))
  BY <1>3, EventCost
<1>4. CASE \E supported \in BOOLEAN : MessageEnd(supported) \/ MessageEndIncomplete(supported)
  BY <1>4, MessageEndCost
<1>5. CASE sync_payload_pack
  BY <1>5 DEF sync_payload_pack, candidateVars, CostInv, RowsInv, SavepointInv, CountInv,
              Replayed, Keeps, Consistent, Referenced, Backed, Overlapping, Stored, End
<1>6. CASE commit_candidate_batch
  BY <1>6, CommitCost
<1>7. CASE abort_worker_attempt
  BY <1>7, AbortCost
<1>8. CASE rollback
  <2>1. /\ db' = db /\ work' = db /\ active' = None /\ batch'.count = 0
    BY <1>8 DEF rollback, Quiet, IInv, TypeOK
  <2> QED BY <2>1, BackCost, BatchAssumption
<1>9. CASE ProcessStop \/ HostStop
  <2>1. /\ db' = db /\ work' = db /\ active' = None /\ batch' = batch /\ phase' = "down"
    BY <1>9 DEF ProcessStop, HostStop, Quiet
  <2> QED BY <1>0, <2>1, BackCost
<1>10. CASE open_expected
  <2>1. /\ db' = db /\ active' = None /\ work = db
    BY <1>10 DEF open_expected, candidateVars, IInv, PhaseSafe, Alive
  <2>2. /\ work' = db
        /\ \/ phase' = "refused" /\ batch' = batch
           \/ batch' = [open |-> FALSE, count |-> 0, start |-> 0]
    BY <1>10, <2>1 DEF open_expected
  <2> QED BY <1>0, <2>1, <2>2, BackCost, BatchAssumption
<1> QED BY <1>1, <1>2, <1>3, <1>4, <1>5, <1>6, <1>7, <1>8, <1>9, <1>10 DEF Next

\* The rows agree, and the batch is counted, in every reachable state.
LEMMA CostInvariant == Spec => []CostInv
BY InitCost, NextCost, LedgerInvariant, PTL DEF Spec

\* The next process accepts what any stop left.
LEMMA NeverRefused == IInv /\ CostInv => ~Refused
<1> SUFFICES ASSUME IInv, CostInv PROVE ~Refused
  OBVIOUS
<1>1. ~LogicallyInvalid(db) /\ ~Overlapping(db)
  BY DEF CostInv, RowsInv, Consistent, Referenced, LogicallyInvalid
<1>2. \A b \in db.blobs : Holds(pack, b) /\ ~(Len(pack) < End(b))
  <2> SUFFICES ASSUME NEW b \in db.blobs PROVE Holds(pack, b) /\ ~(Len(pack) < End(b))
    OBVIOUS
  <2>1. b \in Blobs /\ pack \in Seq(Bytes) /\ synced \in Nat
    BY DEF IInv, TypeOK, Ledgers
  <2> QED BY <2>1, EndType DEF IInv, CommittedSafe
<1>3. \A k \in Keys : \A i \in DOMAIN db.events[k] :
          db.events[k][i].kind \in BlobKinds =>
              \E b \in db.blobs : b.data = db.events[k][i].data /\ Holds(pack, b)
  BY <1>2 DEF CostInv, RowsInv, Consistent, Backed, Stored
<1> QED BY <1>1, <1>2, <1>3 DEF Refused

\* Only COMMIT changes the committed ledger, and it keeps what is finished.
LEMMA FinishedKept == CostInv /\ [Next]_vars => [DurableKept]_vars
<1> SUFFICES ASSUME CostInv, [Next]_vars PROVE DurableKept
  OBVIOUS
<1>1. db' = db \/ db' = work
  BY DEF Next, vars, start_candidate, PropertyStart, PropertyData, finish_property,
         PropertyAbort, AttachmentStart, AttachmentData, finish_attachment, MessageEnd,
         MessageEndIncomplete, sync_payload_pack, commit_candidate_batch,
         abort_worker_attempt, rollback, ProcessStop, HostStop, open_expected
<1> QED BY <1>1 DEF CostInv, RowsInv, Keeps, DurableKept

\* A stop costs at most the open batch: the ledger and the pack that any stop
\* leaves are accepted, at most BatchLimit candidates are replayed, and no
\* step touches the rows, the events or the payload of a durable candidate.
THEOREM StopCosts == Spec => StopCostsOneBatch
<1>1. IInv /\ CostInv => (phase = "down" => ~Refused)
  BY NeverRefused
<1>2. IInv /\ CostInv => Cardinality(Replayed) <= BatchLimit
  <2> SUFFICES ASSUME IInv, CostInv PROVE Cardinality(Replayed) <= BatchLimit
    OBVIOUS
  <2>1. Cardinality(Replayed) \in Nat /\ batch.count \in Nat
    BY FS_CardinalityType DEF CostInv, CountInv, IInv, TypeOK
  <2> QED BY <2>1, BatchAssumption DEF CostInv, CountInv
<1> QED BY <1>1, <1>2, FinishedKept, LedgerInvariant, CostInvariant, PTL
        DEF Spec, StopCostsOneBatch
=============================================================================
