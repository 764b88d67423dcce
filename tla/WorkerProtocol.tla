--------------------------- MODULE WorkerProtocol ---------------------------
(***************************************************************************)
(* The supervisor's end of the worker's pipe (pstforge-core/src/worker.rs) *)
(* over the walk of CatalogTraversal, and the durable sink behind it       *)
(* (DurableCatalogSink::handle_event of pstforge-job).  A catalog receiver *)
(* hands each frame to the sink.  The direct source buffers the metadata   *)
(* of one top-level message, hands it over at its boundary and then lets   *)
(* the writer pull the payloads that were put off, in the writer's order.  *)
(***************************************************************************)
EXTENDS CatalogTraversal, CanonicalRules

CONSTANT MaxBuffered   \* MAX_DIRECT_METADATA_BUFFER_FRAMES

ASSUME BufferAssumption == MaxBuffered \in Nat

VARIABLES
    sink,     \* the durable sink
    buffer,   \* direct: the messages being buffered, outermost first
    graph,    \* direct: the metadata of the finished top-level message
    charged,  \* direct: frames charged to the metadata budget
    phase,    \* direct: what the source is doing
    wants,    \* direct: the streams the writer still has to open
    got,      \* direct: the streams handed to the writer
    written,  \* direct: the top-level messages appended to a part
    verdict   \* how the supervisor ended

receiver == <<sink, buffer, graph, charged, phase, wants, got, written, verdict>>
vars == <<traversal, receiver>>

-----------------------------------------------------------------------------
(* The durable sink *)

NewSink == [unit |-> <<>>, active |-> <<>>, open |-> 0, terminals |-> <<>>,
            rows |-> <<>>, streams |-> {}, bad |-> FALSE]

Bad(s) == [s EXCEPT !.bad = TRUE]
Require(s, ok, next) == IF s.bad \/ ~ok THEN Bad(s) ELSE next

\* require_message: the event names the active candidate's identifier.
ActiveIs(s, w) == s.active # <<>> /\ Head(s.active).id = w.id

\* finish_attachment: a complete attachment's long streams get identifiers.
Registered(m, i) ==
    {st \in {Stream(m, i, "props"), Stream(m, i, "data")} :
        IF st.what = "props" THEN Attachments[m][i].longProps
                             ELSE Attachments[m][i].longData}

UnitEvent(s, e) ==
    IF e.f = "UnitStart"
      THEN Require(s, s.active = <<>> /\ s.unit = <<>>,
                   [s EXCEPT !.unit = <<e.unit>>])
      ELSE Require(s, s.active = <<>> /\ s.unit = <<e.unit>>,
                   [s EXCEPT !.unit = <<>>])

\* Mutant: an attachment that ends without data gets no terminal event.
SettledIfRead(s, kind) ==
    [s EXCEPT !.open = 0,
              !.terminals = [@ EXCEPT ![s.open] =
                  CASE kind = "data" -> "Payload" [] kind = "reference" -> "Reference"
                    [] OTHER -> "none"]]

\* finish_attachment: the terminal event of an attachment, none for an embedded
\* message that was read; an aborted one without data is missing.
Settled(s, kind) ==
    [s EXCEPT !.open = 0,
              !.terminals = [@ EXCEPT ![s.open] =
                  CASE kind = "data" -> "Payload" [] kind = "reference" -> "Reference"
                    [] kind = "missing" -> "Missing" [] OTHER -> "none"]]

AttachmentEvent(s, e) ==
    CASE e.f = "AttachmentStart" ->
           Require(s, ActiveIs(s, e.w) /\ s.open = 0,
                   [s EXCEPT !.open = e.i, !.terminals = @ @@ (e.i :> "none")])
      [] e.f = "AttachmentEnd" ->
           Require(s, ActiveIs(s, e.w) /\ s.open = e.i,
                   [Settled(s, Attachments[e.w.m][e.i].kind) EXCEPT
                             !.streams = @ \cup Registered(e.w.m, e.i)])
      [] e.f = "AttachmentAbort" ->
           Require(s, ActiveIs(s, e.w) /\ s.open = e.i, Settled(s, "missing"))
      [] OTHER -> Require(s, ActiveIs(s, e.w) /\ s.open = e.i, s)

StartCandidate(s, e) ==
    Require(s, s.active = <<>>, [s EXCEPT !.active = <<e.w>>])

\* A property's end: a long one gets a stream identifier.
FinishProperty(s, e) ==
    Require(s, ActiveIs(s, e.w),
            [s EXCEPT !.streams = IF e.w.m \in LongBody
                                    THEN @ \cup {Stream(e.w.m, 0, "props")}
                                    ELSE @])

Row(s, e) == [m |-> e.w.m, path |-> e.w.path, id |-> e.w.id, unit |-> s.unit,
              complete |-> e.complete, terminals |-> s.terminals]

\* Mutant: a partial message may not leave an attachment open either.
EndClosedCandidate(s, e) ==
    Require(s, ActiveIs(s, e.w) /\ s.open = 0,
            [s EXCEPT !.active = <<>>, !.terminals = <<>>,
                      !.rows = Append(@, Row(s, e))])

\* A partial message ends the attachment that is still open.
EndCandidate(s, e) ==
    LET closed == IF s.open = 0 THEN s ELSE Settled(s, "missing")
    IN  Require(s, ActiveIs(s, e.w) /\ (e.complete => s.open = 0),
                [closed EXCEPT !.active = <<>>, !.terminals = <<>>,
                               !.rows = Append(@, Row(closed, e))])

\* DurableCatalogSink::handle_event.
SinkEvent(s, e) ==
    CASE e.f \in {"UnitStart", "UnitEnd"} -> UnitEvent(s, e)
      [] e.f = "Folder" -> Require(s, s.active = <<>>, s)
      [] e.f = "MessageStart" -> StartCandidate(s, e)
      [] e.f \in {"Recipient", "PropertyAbort"} ->
           Require(s, ActiveIs(s, e.w), s)
      [] e.f = "MessageProperty" -> FinishProperty(s, e)
      [] e.f = "MessageEnd" -> EndCandidate(s, e)
      [] OTHER -> AttachmentEvent(s, e)

-----------------------------------------------------------------------------
(* The catalog receiver: receive_worker_catalog_body_with_progress *)

Receiving == verdict = "running" /\ pipe # <<>>
Frame == Head(pipe)
ReadFrame ==
    /\ pipe' = Tail(pipe)
    /\ UNCHANGED <<given, todo, folders, pending, visited, issues, active,
                   deferred, final, faults, hurt, damage>>

ReceiveEvent ==
    /\ Receiving /\ order # "Direct"
    /\ Frame.f \notin {"Complete", "ParserBoundary", "Error"}
    /\ sink' = SinkEvent(sink, Frame)
    /\ verdict' = IF sink'.bad THEN "refused" ELSE "running"
    /\ ReadFrame
    /\ UNCHANGED <<buffer, graph, charged, phase, wants, got, written>>

\* Both receivers: the worker's last frame.  A parser boundary is accepted by
\* the direct source only, between two top-level messages.
ReceiveEnd ==
    /\ Receiving /\ Frame.f \in {"Complete", "ParserBoundary", "Error"}
    /\ order = "Direct" => phase = "metadata"
    /\ verdict' = CASE Frame.f = "Complete" -> "complete"
                    [] Frame.f = "ParserBoundary" -> "boundary"
                    [] OTHER -> "failed"
    /\ ReadFrame
    /\ UNCHANGED <<sink, buffer, graph, charged, phase, wants, got, written>>

-----------------------------------------------------------------------------
(* The direct source: next_one_pass_candidate *)

Direct(p) == Receiving /\ order = "Direct" /\ phase = p

Refuse ==
    /\ verdict' = "refused"
    /\ UNCHANGED <<sink, buffer, graph, charged, phase, wants, got, written>>

\* BufferedMetadataMessage: its own frames and those of its children, which
\* emit hands over after them.
Buffered(e) == [frames |-> <<e>>, children |-> <<>>]
AddFrame(b, e) ==
    [b EXCEPT ![Len(b)].frames = Append(@, e)]
Finished(b) == Last(b).frames \o Last(b).children
AddChild(b) ==
    [k \in 1..(Len(b) - 1) |->
        IF k = Len(b) - 1 THEN [b[k] EXCEPT !.children = @ \o Finished(b)]
                          ELSE b[k]]

\* DirectMetadataBudget::charge
OverBudget == charged + 1 > MaxBuffered

\* A frame outside a message goes to the sink; inside it is charged to the
\* budget and buffered, and MessageEnd closes whatever message is innermost.
BufferMetadata ==
    /\ Direct("metadata")
    /\ Frame.f \notin {"Complete", "ParserBoundary", "Error",
                        "TopLevelMetadataEnd"}
    /\ ReadFrame
    /\ IF Frame.f \in {"TopLevelPayloadEnd", "Deferred"}
         THEN Refuse
         ELSE IF buffer = <<>> /\ Frame.f # "MessageStart"
         THEN /\ sink' = SinkEvent(sink, Frame)
              /\ verdict' = IF sink'.bad THEN "refused" ELSE "running"
              /\ UNCHANGED <<buffer, graph, charged, phase, wants, got, written>>
         ELSE IF OverBudget
         THEN Refuse
         ELSE /\ charged' = charged + 1
              /\ LET b == IF Frame.f = "MessageStart"
                            THEN Append(buffer, Buffered(Frame))
                            ELSE AddFrame(buffer, Frame)
                     ended == Frame.f = "MessageEnd"
                 IN  /\ buffer' = IF ended THEN AddChild(b) ELSE b
                     /\ graph' = IF ended /\ Len(b) = 1 THEN Finished(b)
                                                        ELSE graph
                     /\ verdict' = IF ended /\ Len(b) = 1 /\ graph # <<>>
                                     THEN "refused" ELSE "running"
              /\ UNCHANGED <<sink, phase, wants, got, written>>

\* consume_control: the frames of a finished message that are dropped.
Dropped == {"Deferred", "UnitStart", "UnitEnd", "Folder", "Recipient"}

\* Mutant: the next payload frame taken for the requested stream.
CarriesAny(e, st) == e.f = "Deferred"

\* current_data_identity: the frame carries the stream.
Carries(e, st) == e.f = "Deferred" /\ e.s = st

\* The writer's order (build_message_blocks of pstforge-pst/src/writer.rs):
\* the content of each attachment before its properties, the message's own
\* properties last.
WriterOrder[m \in Messages] ==
    FlattenSeq([i \in 1..Len(Attachments[m]) |->
        LET a == Attachments[m][i]
        IN  (CASE a.kind = "data" -> <<Stream(m, i, "data")>>
               [] a.kind = "embedded" -> WriterOrder[a.child]
               [] OTHER -> <<>>)
            \o <<Stream(m, i, "props")>>])
    \o <<Stream(m, 0, "props")>>

\* The boundary of a top-level message: nothing may be left open; a message
\* that was a duplicate left no metadata and its payload is drained.
MetadataEnd ==
    /\ Direct("metadata") /\ Frame.f = "TopLevelMetadataEnd"
    /\ ReadFrame
    /\ IF buffer # <<>>
         THEN Refuse
         ELSE /\ phase' = IF graph = <<>> THEN "drain" ELSE "emit"
              /\ UNCHANGED <<sink, buffer, graph, charged, wants, got, written,
                             verdict>>

\* BufferedMetadataMessage::emit: the buffered metadata goes to the sink.
EmitMetadata ==
    /\ verdict = "running" /\ phase = "emit" /\ graph # <<>>
    /\ sink' = SinkEvent(sink, Head(graph))
    /\ graph' = Tail(graph)
    /\ verdict' = IF sink'.bad THEN "refused" ELSE "running"
    /\ UNCHANGED <<traversal, buffer, charged, phase, wants, got, written>>

\* The newest top-level row is the candidate.  A supported one goes to the
\* writer, which takes it or rejects it.
Candidate == LET tops == SelectSeq(sink.rows, LAMBDA row : row.path = <<>>)
             IN  Last(tops).m

TakeCandidate ==
    /\ verdict = "running" /\ phase = "emit" /\ graph = <<>>
    /\ charged' = 0
    /\ \E taken \in {Candidate \in Supported, FALSE} :
        IF taken
          THEN /\ phase' = "payload"
               /\ wants' = SelectSeq(WriterOrder[Candidate],
                                     LAMBDA st : st \in sink.streams)
               /\ written' = written \cup {Candidate}
          ELSE phase' = "drain" /\ UNCHANGED <<wants, written>>
    /\ UNCHANGED <<traversal, sink, buffer, graph, got, verdict>>

\* open_blob: frames of other streams are passed over; the end of the
\* message's payload before the requested stream is a protocol error.
OpenBlob ==
    /\ Direct("payload") /\ wants # <<>>
    /\ ReadFrame
    /\ CASE Carries(Frame, Head(wants)) ->
              /\ wants' = Tail(wants) /\ got' = got \cup {Frame.s}
              /\ UNCHANGED <<sink, buffer, graph, charged, phase, written,
                             verdict>>
         [] ~Carries(Frame, Head(wants)) /\ Frame.f \in Dropped ->
              UNCHANGED receiver
         [] OTHER -> Refuse

\* finish_top_level_message: the rest of the payload is read and dropped.
DrainPayload ==
    /\ Direct(phase)
    /\ phase = "drain" \/ (phase = "payload" /\ wants = <<>>)
    /\ ReadFrame
    /\ CASE Frame.f = "TopLevelPayloadEnd" ->
              /\ phase' = "metadata"
              /\ UNCHANGED <<sink, buffer, graph, charged, wants, got, written,
                             verdict>>
         [] Frame.f \in Dropped -> UNCHANGED receiver
         [] OTHER -> Refuse

\* The supervisor kills a worker it has refused; then nothing moves.
Stopped == verdict # "running"

Init ==
    /\ TraversalInit
    /\ sink = NewSink /\ buffer = <<>> /\ graph = <<>> /\ charged = 0
    /\ phase = "metadata" /\ wants = <<>> /\ got = {} /\ written = {}
    /\ verdict = "running"

Next ==
    \/ ~Stopped /\ Traverse /\ UNCHANGED receiver
    \/ ReceiveEvent \/ ReceiveEnd \/ BufferMetadata \/ MetadataEnd
    \/ EmitMetadata \/ TakeCandidate \/ OpenBlob \/ DrainPayload
    \/ Stopped /\ UNCHANGED vars

Spec == Init /\ [][Next]_vars

-----------------------------------------------------------------------------
(* Properties *)

\* The message and the messages embedded in it, at any depth.
Within[m \in Messages] ==
    {m} \cup UNION {Within[Attachments[m][i].child] :
                       i \in {j \in 1..Len(Attachments[m]) :
                                 Attachments[m][j].kind = "embedded"}}

\* The metadata frames of a message that nothing happened to.
GraphFrames[m \in Messages] ==
    LET Frames[i \in 0..Len(Attachments[m])] ==
            IF i = 0 THEN 4
            ELSE Frames[i - 1] + 3 +
                 (CASE Attachments[m][i].kind = "data" -> 1
                    [] Attachments[m][i].kind = "embedded" ->
                         GraphFrames[Attachments[m][i].child]
                    [] OTHER -> 0)
    IN  Frames[Len(Attachments[m])]

FitsBudget == \A m \in Messages : GraphFrames[m] <= MaxBuffered

\* No attachment has both data and properties to put off: the worker sends
\* its properties first, the writer asks for its data first.
SameOrder ==
    \A m \in Messages : \A i \in 1..Len(Attachments[m]) :
        LET a == Attachments[m][i]
        IN  ~(a.kind = "data" /\ a.longData /\ a.longProps)

\* The supervisor refuses the worker's stream only for a root folder that
\* cannot be read, a limit exceeded inside an embedded message, a deferred
\* payload that cannot be read, an attachment whose data and properties are
\* both put off, or metadata over the budget: whatever else libpff fails at,
\* the frames stay well-formed (units not nested, one candidate at a time,
\* attachments and messages closed or marked partial, payloads in order).
RefusalExplained ==
    verdict = "refused" =>
        \/ "root" \in damage
        \/ order = "Direct" /\ damage \cap {"nested limit", "payload"} # {}
        \/ order = "Direct" /\ ~(SameOrder /\ FitsBudget)

\* The messages the store holds, the embedded ones included.
Held ==
    UNION {Within[m] : m \in ToSet(recovered) \cup ToSet(Orphans) \cup
              UNION {ToSet(Normal[f]) \cup ToSet(Associated[f]) : f \in Folders}}

\* Nothing is lost silently: a candidate is recorded as complete exactly when
\* no call failed for it or, marked partial, for its own damage or that of a
\* message embedded in it; and a catalog that ends without an issue has every
\* message of the store recorded once, and complete.
NoSilentLoss ==
    /\ \A k \in 1..Len(sink.rows) :
           LET row == sink.rows[k]
           IN  IF row.complete THEN row.m \notin hurt
                               ELSE Within[row.m] \cap hurt # {}
    /\ verdict = "complete" /\ ~issues =>
           \A m \in Held :
               Cardinality({k \in 1..Len(sink.rows) :
                   sink.rows[k].m = m /\ sink.rows[k].complete}) = 1

\* The row of the message embedded in attachment i of row k.
Children(k, i) ==
    {j \in 1..Len(sink.rows) : /\ sink.rows[j].unit = sink.rows[k].unit
                               /\ sink.rows[j].path = Append(sink.rows[k].path, i)}

\* canonical.rs takes in every attachment of the row.
RowAssembles(k) ==
    \A i \in DOMAIN sink.rows[k].terminals :
        LET all == Children(k, i)
        IN  AttachmentAssembles(Attachments[sink.rows[k].m][i].kind,
                                sink.rows[k].terminals[i],
                                \E j \in all : sink.rows[j].m \in Supported,
                                \E j \in all : sink.rows[j].m \notin Supported)

TreesAssembleAfter(ends) ==
    verdict \in ends =>
        \A k \in 1..Len(sink.rows) :
            sink.rows[k].m \in Supported => RowAssembles(k)

\* What the sink has recorded when a walk ends well can be assembled into
\* canonical mail: every attachment has its data, its embedded message or a
\* terminal event that says why not, and never two of them.  One row that
\* cannot be assembled makes the whole split fail.
TreesAssemble == TreesAssembleAfter({"complete", "boundary"})

\* PRODUCT_SPEC.md says that an attachment failure leaves the parent mail
\* partial rather than failed, so the same holds when a walk is broken off
\* inside a unit: the rows of the unit stay in the ledger when it is isolated.
BrokenTreesAssemble == TreesAssembleAfter({"complete", "boundary", "failed"})

\* Every stream of a message in a part was handed to the writer: what the
\* sink registered for it was found in the pipe.
StreamsDelivered ==
    verdict \in {"complete", "boundary"} =>
        \A m \in written :
            {st \in sink.streams : st.m \in Within[m]} \subseteq got

=============================================================================
