----------------------------- MODULE StoredMail -----------------------------
(***************************************************************************)
(* The messages of a finished PST part and the checks that the writer makes*)
(* of them before it publishes (the validate_completed functions of        *)
(* pstforge-pst/src/writer.rs), through the readers of messaging/ and      *)
(* ltp/.  A stored value is the token of what it was made from: two values *)
(* are equal when they were made from the same thing.                      *)
(*                                                                         *)
(* A tree is an appended message with the messages it embeds: root, node,  *)
(* folder, associated, and the items and translated messages of its root.  *)
(***************************************************************************)
EXTENDS MessageValidation, SequencesExt

VARIABLE pst        \* the appended trees, in the order of their nodes

MaxMaterialized    == 64 * Kibi * Kibi   \* MAX_PROPERTY_MATERIALIZATION_BYTES
PropertyValueBytes == 32                 \* size_of::<PropertyValue>()
GeneratedBytes     == 16                 \* class, address type, record key

(***************************************************************************)
(* Property contexts: a set of cells.                                      *)
(***************************************************************************)
Value(item, slot, field, path) == [item |-> item, slot |-> slot, field |-> field, path |-> path]

StoredInRow == {\h0002, \h0003, \h0004, \h000A, PtypBoolean}
externalize_large_properties(type, len) == len > 2048 /\ type # PtypObject

\* property_context: where the value of a record is.
StoredAt(type, len) ==
  CASE type \in StoredInRow -> "inline"
    [] type \notin StoredInRow /\ len = 0 -> "null"
    [] len > 0 /\ type \notin StoredInRow /\ externalize_large_properties(type, len) -> "node"
    [] OTHER -> "heap"

Cell(id, name, type, len, value) ==
  [id |-> id, name |-> name, type |-> type, len |-> len, value |-> value, at |-> StoredAt(type, len)]

\* A named property is stored under the index of its name.
named_identity_index(e) == IF e.name = None THEN e.id ELSE \h8000

raw_property_value(i, k, e) ==
  Cell(named_identity_index(e), e.name, e.type, e.size, Value(i, k, "raw", <<e.from>>))
StreamedCell(i, k, e) == [raw_property_value(i, k, e) EXCEPT !.at = "node"]

(***************************************************************************)
(* What is written for a message.                                          *)
(***************************************************************************)
output_message_flags(t, i) == Value(i, 0, "flags", <<IF i = t.root /\ t.associated THEN 1 ELSE 0>>)

\* Ids of the joined display names, one for each kind of recipient.
DisplayIds == <<\h0E04, \h0E03, \h0E02>>
display_recipient_properties(t, i) ==
  {Cell(DisplayIds[kind], None, PtypUnicode, GeneratedBytes, Value(i, 0, "display", <<kind>>)) :
     kind \in {t.made[i].recipients[k].type : k \in DOMAIN t.made[i].recipients}}

message_record_key(node) == Value(0, 0, "recordKey", <<node.type, node.index>>)
embedded_message_record_key(key, slot) == [key EXCEPT !.path = Append(@, slot)]

\* The attachment that holds an embedded message.
Holder(t, i) ==
  CHOOSE h \in UNION {{<<j, k>> : k \in DOMAIN t.made[j].attachments} : j \in DOMAIN t.made} :
    t.made[h[1]].attachments[h[2]].child = i

RecordKey(t, i) ==
  LET key[j \in DOMAIN t.made] ==
        IF j = t.root THEN message_record_key(t.node)
        ELSE LET h == Holder(t, j) IN embedded_message_record_key(key[h[1]], h[2])
  IN key[i]

\* The display name of an associated message: its own, or else the subject.
AssociatedName3001(t, i) ==
  LET own == {e \in t.made[i].raw : e.id = \h3001 /\ e.type = PtypUnicode}
  IN IF own = {} THEN Value(i, 0, "subject", <<>>)
     ELSE Value(i, 0, "raw", <<(CHOOSE e \in own : TRUE).from>>)

SenderIds == {\h0042, \h0064, \h0065, \h0C1A, \h0C1E, \h0C1F}
SenderField(id) ==
  CASE id \in {\h0042, \h0C1A} -> "senderName" [] id \in {\h0065, \h0C1F} -> "senderEmail"
    [] OTHER -> "SMTP"

message_properties(t, i) ==
  LET o == t.made[i]
      m == t.items[i]
      own(id, type, len, field) == Cell(id, None, type, len, Value(i, 0, field, <<>>))
      shown == i = t.root /\ t.associated
      when(condition, cells) == IF condition THEN cells ELSE {}
  IN {own(\h001A, PtypUnicode, GeneratedBytes, "class"), own(\h0E06, PtypTime, 8, "received"),
      Cell(\h0E07, None, PtypInteger32, 4, output_message_flags(t, i)),
      own(\h0E08, PtypInteger32, 4, "size"), own(\h0E17, PtypInteger32, 4, "zero"),
      own(\h0E1B, PtypBoolean, 1, "hasAttachments"), own(\h3007, PtypTime, 8, "created"),
      own(\h3008, PtypTime, 8, "modified"), own(\h3FDE, PtypInteger32, 4, "codepage"),
      own(\h0039, PtypTime, 8, "sent"), Cell(\h300B, None, PtypBinary, 16, RecordKey(t, i))}
     \cup when(Full(m.subject), {own(\h0037, PtypUnicode, m.subject, "subject")})
     \cup when(shown, {Cell(\h3001, None, PtypUnicode, GeneratedBytes, AssociatedName3001(t, i))})
     \cup when(o.sender, {own(id, PtypUnicode, GeneratedBytes, SenderField(id)) : id \in SenderIds})
     \cup when(o.body, {own(\h1000, PtypUnicode, 0, "body")})
     \cup when(message_has_streamed_property(o, \h1009), {own(\h0E1F, PtypBoolean, 1, "sync")})
     \cup when(o.native # None, {own(\h1016, PtypInteger32, 4, "native")})
     \cup display_recipient_properties(t, i)
     \cup {raw_property_value(i, 0, e) : e \in {x \in o.named \cup o.raw : ~(shown /\ x.id = \h3001)}}

MessageContext(t, i) == message_properties(t, i) \cup {StreamedCell(i, 0, e) : e \in Streamed(t.made[i])}

(***************************************************************************)
(* What is written for an attachment.                                      *)
(***************************************************************************)
AttachmentMethod(spec) ==
  CASE spec.kind \in {"binary", "spooled", "direct"} -> 1
    [] spec.kind \in {"ole", "directOle"} -> 6
    [] spec.kind = "embedded" -> 5
    [] OTHER -> spec.method

AttachmentTextIds ==
  [contentId |-> \h3712, contentLocation |-> \h3713, longPathname |-> \h370D, pathname |-> \h3708]

FieldCell(t, i, k, f) ==
  LET a == SourceOf(t.items[i], t.made[i], k)
      spec == t.made[i].attachments[k]
      value == Value(i, k, f, <<>>)
  IN CASE f \in Permissions -> Cell(\h8000, f, PtypInteger32, 4, value)
       [] f \in AttachmentNames \ Permissions ->
            Cell(\h8000, f, PtypUnicode, FieldBytes(a, spec, f), value)
       [] OTHER -> Cell(AttachmentTextIds[f], None, PtypUnicode, FieldBytes(a, spec, f), value)

FieldCells(t, i, k, fields) ==
  {FieldCell(t, i, k, f) : f \in {x \in fields : t.made[i].attachments[k].fields[x] # None}}

attachment_base_properties(t, i, k, size) ==
  LET spec == t.made[i].attachments[k]
      own(id, type, len, field) == Cell(id, None, type, len, Value(i, k, field, <<>>))
  IN {Cell(\h0E20, None, PtypInteger32, 4, Value(i, k, "size", <<size>>)),
      own(\h0E21, PtypInteger32, 4, "number"), own(\h3704, PtypUnicode, spec.filename, "filename"),
      Cell(\h3705, None, PtypInteger32, 4, Value(i, k, "method", <<AttachmentMethod(spec)>>)),
      own(\h3707, PtypUnicode, spec.filename, "filename"),
      own(\h370B, PtypInteger32, 4, "rendering"), own(\h3714, PtypInteger32, 4, "flags")}
     \cup (IF spec.mime = None THEN {} ELSE {own(\h370E, PtypUnicode, spec.mime, "mime")})
     \cup FieldCells(t, i, k, {"contentId", "contentLocation"})
     \cup {raw_property_value(i, k, e) : e \in spec.raw}

ole_data_property(spec, value) ==
  IF spec.dataType = PtypObject THEN Cell(\h3701, None, PtypObject, spec.bytes, value)
  ELSE [Cell(\h3701, None, PtypBinary, spec.bytes, value) EXCEPT
          !.at = IF spec.bytes = 0 THEN "null" ELSE "node"]

\* The content: an embedded message is an object of the size of the message.
DataProperty(t, i, k) ==
  LET spec == t.made[i].attachments[k]
      value == Value(i, k, "content", <<>>)
  IN CASE spec.kind = "binary" -> {Cell(\h3701, None, PtypBinary, spec.bytes, value)}
       [] spec.kind \in {"spooled", "direct"} ->
            {[Cell(\h3701, None, PtypBinary, spec.bytes, value) EXCEPT !.at = "node"]}
       [] spec.kind \in {"ole", "directOle"} -> {ole_data_property(spec, value)}
       [] spec.kind = "embedded" ->
            {Cell(\h3701, None, PtypObject, t.made[spec.child].payload, value)}
       [] OTHER -> {}

attachment_properties_mapped(t, i, k, size) ==
  attachment_base_properties(t, i, k, size) \cup DataProperty(t, i, k)
    \cup (IF t.made[i].attachments[k].kind # "reference" THEN {}
          ELSE FieldCells(t, i, k, {"longPathname", "pathname"} \cup AttachmentNames))

attachment_property_size_with_stream(cells) == Sum(LAMBDA c : c.len, cells)

attachment_size_with_spooled_properties(size, spec) == size + SizeSum(spec.spooled \cup spec.direct)

set_attachment_size(t, i, k) ==
  attachment_size_with_spooled_properties(
    attachment_property_size_with_stream(attachment_properties_mapped(t, i, k, 0)),
    t.made[i].attachments[k])

AttachmentStreams(spec) == spec.spooled \cup spec.direct

AttachmentContext(t, i, k) ==
  attachment_properties_mapped(t, i, k, set_attachment_size(t, i, k))
    \cup {StreamedCell(i, k, e) : e \in AttachmentStreams(t.made[i].attachments[k])}

attachment_table_row(t, i, k) ==
  {c \in AttachmentContext(t, i, k) : c.name = None /\ c.id \in {\h0E20, \h0E21, \h3704, \h3705, \h370B}}

(***************************************************************************)
(* Rows of the recipient and contents tables.                              *)
(***************************************************************************)
recipient_table_row(t, i, k) ==
  {Cell(id, None, IF id = \h0C15 THEN PtypInteger32 ELSE PtypUnicode, GeneratedBytes,
        Value(i, k, IF id \in {\h3003, \h39FF} THEN "email" ELSE IF id = \h3001 THEN "name"
                    ELSE IF id = \h3002 THEN "SMTP" ELSE "kind", <<>>)) :
     id \in {\h0C15, \h3001, \h3002, \h3003, \h39FF}}

message_table_row(t) ==
  LET i == t.root
      fixed == {\h001A, \h0037, \h0039, \h0042, \h0E03, \h0E04, \h0E06, \h0E07, \h0E08, \h0E17, \h3008}
      copied == {e \in t.made[i].raw : contents_column_type(e.id) # None /\ e.id \notin {\h0E30, \h0E33, \h0E34}}
  IN {c \in message_properties(t, i) : c.name = None /\ c.id \in fixed}
     \cup {Cell(\h0E30, None, PtypBinary, 16, message_record_key(t.node))}
     \cup {raw_property_value(i, 0, e) : e \in copied}

associated_message_table_row(t) ==
  {c \in message_properties(t, t.root) : c.name = None /\ c.id \in {\h001A, \h0E07, \h0E17, \h3001}}

(***************************************************************************)
(* Reading back.  A reader takes the ids it is asked for, streams the ones *)
(* that it is told to stream, and pays for the others out of one budget.   *)
(***************************************************************************)
MaterializedSize(c) ==
  IF c.at = "null" THEN 0
  ELSE PropertyValueBytes + (IF c.at = "inline" \/ c.type = PtypObject THEN 0 ELSE c.len)

Materialized(cells) == Sum(MaterializedSize, cells)

read_properties(context, ids, streams) ==
  {c \in context : /\ c.id \notin {e.id : e \in streams}
                   /\ ids = {} \/ <<c.id, c.name>> \in ids}

\* stream_property_identity demands a value in a node of its own.
StreamsRead(context, i, k, streams) ==
  \A e \in streams : \E c \in context :
    /\ c.id = e.id /\ c.at = "node" /\ c.len = e.size /\ c.type = e.type
    /\ c.value = Value(i, k, "raw", <<e.from>>)

\* AttachmentInner::read without its content: the data is streamed too.
attachment_metadata(context, streams) ==
  {c \in read_properties(context, {}, streams) : c.id # \h3701 \/ c.at \notin {"node", "null"}}

validation_property_ids(t, i) ==
  {<<id, None>> : id \in is_writer_managed \cup {e.id : e \in t.made[i].raw}}
    \cup {<<\h8000, e.name>> : e \in t.made[i].named}

(***************************************************************************)
(* Comparisons.                                                            *)
(***************************************************************************)
Holding(cells, id, type, value) ==
  \E c \in cells : c.id = id /\ c.name = None /\ c.type = type /\ c.value = value /\ c.at # "null"
Lacking(cells, id) == \A c \in cells : c.id # id \/ c.name # None

\* An empty value is read back as null.
raw_value_matches(cells, i, k, e) ==
  \E c \in cells : /\ c.id = named_identity_index(e) /\ c.name = e.name /\ c.type = e.type
                   /\ c.value = Value(i, k, "raw", <<e.from>>) /\ (c.at = "null" => e.size = 0)

OptionalText(cells, id, value, expected) ==
  IF expected THEN Holding(cells, id, PtypUnicode, value) ELSE Lacking(cells, id)

SenderMatches(cells, t, i) ==
  \A id \in SenderIds : OptionalText(cells, id, Value(i, 0, SenderField(id), <<>>), t.made[i].sender)

BodiesMatch(cells, t, i) ==
  LET o == t.made[i]
      none(id) == ~message_has_streamed_property(o, id) => Lacking(cells, id)
  IN /\ IF o.body THEN \E c \in cells : c.id = \h1000 /\ c.name = None /\ c.at = "null"
        ELSE none(\h1000)
     /\ none(\h1009) /\ none(\h1013) /\ none(\h007D)
     /\ IF message_has_streamed_property(o, \h1009)
        THEN Holding(cells, \h0E1F, PtypBoolean, Value(i, 0, "sync", <<>>)) ELSE Lacking(cells, \h0E1F)
     /\ IF o.native # None
        THEN Holding(cells, \h1016, PtypInteger32, Value(i, 0, "native", <<>>)) ELSE Lacking(cells, \h1016)

TimesMatch(cells, i) ==
  \A x \in {<<\h0039, "sent">>, <<\h0E06, "received">>, <<\h3007, "created">>, <<\h3008, "modified">>} :
    Holding(cells, x[1], PtypTime, Value(i, 0, x[2], <<>>))

DisplayMatches(cells, t, i) ==
  \A kind \in DOMAIN DisplayIds :
    OptionalText(cells, DisplayIds[kind], Value(i, 0, "display", <<kind>>),
                 \E k \in DOMAIN t.made[i].recipients : t.made[i].recipients[k].type = kind)

\* The comparisons that validate_completed_store and validate_embedded_message share.
PropertiesMatch(cells, t, i, key) ==
  /\ Holding(cells, \h001A, PtypUnicode, Value(i, 0, "class", <<>>))
  /\ OptionalText(cells, \h0037, Value(i, 0, "subject", <<>>), Full(t.items[i].subject))
  /\ SenderMatches(cells, t, i) /\ TimesMatch(cells, i)
  /\ Holding(cells, \h0E07, PtypInteger32, output_message_flags(t, i))
  /\ Holding(cells, \h0E1B, PtypBoolean, Value(i, 0, "hasAttachments", <<>>))
  /\ Holding(cells, \h3FDE, PtypInteger32, Value(i, 0, "codepage", <<>>))
  /\ Holding(cells, \h300B, PtypBinary, key)
  /\ BodiesMatch(cells, t, i) /\ DisplayMatches(cells, t, i)
  /\ \A e \in t.made[i].raw \cup t.made[i].named : raw_value_matches(cells, i, 0, e)

\* The rows that were stored for item j against the recipients of item i.
validate_completed_recipients(s, j, t, i) ==
  /\ Len(s.made[j].recipients) = Len(t.made[i].recipients)
  /\ \A k \in DOMAIN t.made[i].recipients :
       /\ Holding(recipient_table_row(s, j, k), \h0C15, PtypInteger32, Value(i, k, "kind", <<>>))
       /\ \A x \in {<<\h3001, "name">>, <<\h3002, "SMTP">>, <<\h3003, "email">>, <<\h39FF, "email">>} :
            Holding(recipient_table_row(s, j, k), x[1], PtypUnicode, Value(i, k, x[2], <<>>))

AttachmentRowMatches(row, cells) ==
  \A id \in {\h0E20, \h0E21, \h3704, \h3705, \h370B} : \E c \in row :
     c.id = id /\ \E d \in cells : d.id = id /\ d.name = None /\ d.value = c.value

AttachmentMetadataMatches(cells, t, i, k) ==
  LET spec == t.made[i].attachments[k]
  IN /\ \A x \in {<<\h0E21, "number">>, <<\h370B, "rendering">>, <<\h3714, "flags">>} :
          Holding(cells, x[1], PtypInteger32, Value(i, k, x[2], <<>>))
     /\ \A id \in {\h3704, \h3707} : Holding(cells, id, PtypUnicode, Value(i, k, "filename", <<>>))
     /\ OptionalText(cells, \h370E, Value(i, k, "mime", <<>>), spec.mime # None)
     /\ \A f \in {"contentId", "contentLocation"} :
          OptionalText(cells, AttachmentTextIds[f], Value(i, k, f, <<>>), spec.fields[f] # None)
     /\ \A e \in spec.raw : raw_value_matches(cells, i, k, e)

validate_reference_named_values(cells, t, i, k) ==
  \A f \in AttachmentNames :
    (t.made[i].attachments[k].fields[f] # None) <=>
      \E c \in cells : c.id = \h8000 /\ c.name = f /\ c.value = Value(i, k, f, <<>>)

Data(context) == {c \in context : c.id = \h3701 /\ c.name = None}

\* The whole content under one of the types.
BinaryMatches(context, t, i, k, types) ==
  \E c \in Data(context) : /\ c.value = Value(i, k, "content", <<>>)
                           /\ c.len = t.made[i].attachments[k].bytes /\ c.type \in types

ReferenceMatches(context, cells, t, i, k) ==
  /\ Data(context) = {}
  /\ Holding(cells, \h370D, PtypUnicode, Value(i, k, "longPathname", <<>>))
  /\ OptionalText(cells, \h3708, Value(i, k, "pathname", <<>>),
                  t.made[i].attachments[k].fields["pathname"] # None)
  /\ validate_reference_named_values(cells, t, i, k)

\* Method, size and content, by the kind of the expected attachment.
AttachmentContentMatches(context, cells, t, i, k) ==
  LET spec == t.made[i].attachments[k]
  IN /\ Holding(cells, \h3705, PtypInteger32, Value(i, k, "method", <<AttachmentMethod(spec)>>))
     /\ Holding(cells, \h0E20, PtypInteger32, Value(i, k, "size", <<set_attachment_size(t, i, k)>>))
     /\ CASE spec.kind \in {"binary", "spooled", "direct"} -> BinaryMatches(context, t, i, k, {PtypBinary})
          [] spec.kind \in {"ole", "directOle"} -> BinaryMatches(context, t, i, k, {spec.dataType})
          [] spec.kind = "embedded" -> \E c \in Data(context) : c.type = PtypObject
          [] OTHER -> ReferenceMatches(context, cells, t, i, k)

\* The attachment k of item i, as the attachment k of the stored item j.
AttachmentMatches(s, j, t, i, k) ==
  /\ k \in DOMAIN s.made[j].attachments
  /\ LET context == AttachmentContext(s, j, k)
         streams == AttachmentStreams(t.made[i].attachments[k])
         cells   == read_properties(context, {}, streams)
     IN /\ StreamsRead(context, i, k, streams)
        /\ AttachmentRowMatches(attachment_table_row(s, j, k), cells)
        /\ AttachmentMetadataMatches(cells, t, i, k)
        /\ AttachmentContentMatches(context, cells, t, i, k)

(***************************************************************************)
(* What each reader pays.                                                  *)
(***************************************************************************)
\* Content of its own node is streamed; an object costs its record.
AttachmentPaid(t, i, k, streams) ==
  LET context == AttachmentContext(t, i, k)
  IN Materialized(IF t.made[i].attachments[k].kind \in {"spooled", "direct", "ole", "directOle"}
                  THEN attachment_metadata(context, streams)
                  ELSE read_properties(context, {}, streams))

ChildPaid(t, i) ==
  Materialized(read_properties(MessageContext(t, i), validation_property_ids(t, i), Streamed(t.made[i])))

ContainedIn(t, i) ==
  LET under[j \in DOMAIN t.made] ==
        {j} \cup UNION {under[c] : c \in {t.made[j].attachments[k].child : k \in DOMAIN t.made[j].attachments} \ {None}}
  IN under[i]

\* Every attachment below a message, and every message below it.
TreePaid(t, i) ==
  Sum(LAMBDA j : Sum(LAMBDA k : AttachmentPaid(t, j, k, AttachmentStreams(t.made[j].attachments[k])),
                     DOMAIN t.made[j].attachments), ContainedIn(t, i))
    + Sum(LAMBDA j : ChildPaid(t, j), ContainedIn(t, i) \ {i})

Affordable(bytes) == bytes <= MaxMaterialized

(***************************************************************************)
(* The validators.                                                         *)
(***************************************************************************)
AttachmentKeys(t, i) == DOMAIN t.made[i].attachments

\* The attachments of a message that is read as the content of another.
NestedAttachmentsMatch(t, i) == \A k \in AttachmentKeys(t, i) : AttachmentMatches(t, i, t, i, k)

\* One message below a top-level one; key is the record key derived for it.
EmbeddedMatches(t, i) ==
  LET context == MessageContext(t, i)
      cells   == read_properties(context, validation_property_ids(t, i), Streamed(t.made[i]))
  IN /\ StreamsRead(context, i, 0, Streamed(t.made[i]))
     /\ PropertiesMatch(cells, t, i, RecordKey(t, i))
     /\ validate_completed_recipients(t, i, t, i)
     /\ NestedAttachmentsMatch(t, i)

\* The whole tree under i; the message itself was read with all its properties.
validate_embedded_message(t, i) ==
  LET cells == read_properties(MessageContext(t, i), {}, Streamed(t.made[i]))
  IN /\ PropertiesMatch(cells, t, i, RecordKey(t, i))
     /\ StreamsRead(MessageContext(t, i), i, 0, Streamed(t.made[i]))
     /\ validate_completed_recipients(t, i, t, i)
     /\ NestedAttachmentsMatch(t, i)
     /\ \A j \in ContainedIn(t, i) \ {i} : EmbeddedMatches(t, j)

NodeTree(node) == {n \in DOMAIN pst : pst[n].node = node}

\* The attachments of the first message, read at the first node of the store.
validate_attachment_fidelity(t) ==
  LET here == NodeTree([type |-> 0, index |-> 0])
  IN /\ here # {}
     /\ LET s == pst[CHOOSE n \in here : TRUE]
        IN /\ \A k \in AttachmentKeys(t, t.root) : AttachmentMatches(s, s.root, t, t.root, k)
           /\ \A j \in ContainedIn(t, t.root) \ {t.root} : EmbeddedMatches(t, j)
     /\ Affordable(TreePaid(t, t.root))

RowMatches(row, t) ==
  LET i == t.root
  IN /\ Holding(row, \h0E08, PtypInteger32, Value(i, 0, "size", <<>>))
     /\ Holding(row, \h0E06, PtypTime, Value(i, 0, "received", <<>>))
     /\ Holding(row, \h0039, PtypTime, Value(i, 0, "sent", <<>>))
     /\ Holding(row, \h0E17, PtypInteger32, Value(i, 0, "zero", <<>>))
     /\ OptionalText(row, \h0042, Value(i, 0, "senderName", <<>>), t.made[i].sender)
     /\ \A kind \in 1..2 :
          OptionalText(row, DisplayIds[kind], Value(i, 0, "display", <<kind>>),
                       \E k \in DOMAIN t.made[i].recipients : t.made[i].recipients[k].type = kind)

\* t is the first message of the first folder that has messages, s what its row names.
validate_completed_store(t, s) ==
  LET i == t.root
      context == MessageContext(s, s.root)
      cells   == read_properties(context, validation_property_ids(t, i), t.made[i].spooled)
  IN /\ RowMatches(message_table_row(s), t)
     /\ Affordable(Materialized(cells))
     /\ PropertiesMatch(cells, t, i, message_record_key(s.node))
     /\ validate_completed_recipients(s, s.root, t, i)
     /\ Len(s.made[s.root].attachments) = Len(t.made[i].attachments)
     /\ validate_attachment_fidelity(t)

\* Messages of a folder in the order of appending, and their rows in node order.
FolderMessages(folder, associated) ==
  SelectSeq(pst, LAMBDA t : t.folder = folder /\ t.associated = associated)
FolderRows(folder, associated) ==
  SortSeq(FolderMessages(folder, associated), LAMBDA s, t : s.node.index < t.node.index)

\* The plain-text body is asked for with the class, streamed or not.
NormalRowMatches(s, t) ==
  LET i == t.root
      cells == read_properties(MessageContext(s, s.root), {<<\h001A, None>>, <<\h1000, None>>}, {})
      row   == message_table_row(s)
  IN /\ s.node.type = 0
     /\ OptionalText(row, \h0037, Value(i, 0, "subject", <<>>), Full(t.items[i].subject))
     /\ OptionalText(row, \h0042, Value(i, 0, "senderName", <<>>), t.made[i].sender)
     /\ Holding(row, \h0E07, PtypInteger32, output_message_flags(t, i))
     /\ Affordable(Materialized(cells))
     /\ Holding(cells, \h001A, PtypUnicode, Value(i, 0, "class", <<>>))
     /\ validate_completed_recipients(s, s.root, t, i)
     /\ ~message_has_streamed_property(t.made[i], \h1000) =>
          IF t.made[i].body THEN \E c \in cells : c.id = \h1000 /\ c.at = "null"
          ELSE Lacking(cells, \h1000)

AssociatedRowMatches(s, t) ==
  LET i == t.root
      cells == read_properties(MessageContext(s, s.root),
                               {<<\h001A, None>>, <<\h0E07, None>>, <<\h3001, None>>}, {})
      row   == associated_message_table_row(s)
  IN /\ s.node.type = 1
     /\ Affordable(Materialized(cells))
     /\ Holding(cells, \h001A, PtypUnicode, Value(i, 0, "class", <<>>))
     /\ validate_completed_recipients(s, s.root, t, i)
     /\ \A where \in {row, cells} :
          /\ Holding(where, \h3001, PtypUnicode, AssociatedName3001(t, i))
          /\ Holding(where, \h0E07, PtypInteger32, output_message_flags(t, i))

\* Streams of the message, content of its attachments, bodies of what they embed.
SpooledIdentitiesMatch(t) ==
  LET i == t.root
      attachments == t.made[i].attachments
  IN /\ StreamsRead(MessageContext(t, i), i, 0, Streamed(t.made[i]))
     /\ \A k \in DOMAIN attachments :
          /\ attachments[k].kind \in {"spooled", "direct"} =>
               \E c \in AttachmentContext(t, i, k) :
                 c.id = \h3701 /\ c.at = "node" /\ c.len = attachments[k].bytes
          /\ attachments[k].kind = "embedded" =>
               LET j == attachments[k].child
               IN StreamsRead(MessageContext(t, j), j, 0, Streamed(t.made[j]))

\* The reader of the spooled content is not told which metadata is streamed.
IdentitiesPaid(t) ==
  LET i == t.root
      attachments == t.made[i].attachments
      again(k) ==
        CASE attachments[k].kind \in {"spooled", "direct"} -> AttachmentPaid(t, i, k, {})
          [] attachments[k].kind = "embedded" /\ Streamed(t.made[attachments[k].child]) # {} ->
               AttachmentPaid(t, i, k, {}) + PropertyValueBytes
          [] OTHER -> 0
  IN Materialized(read_properties(MessageContext(t, i), {}, Streamed(t.made[i])))
       + Sum(again, DOMAIN attachments) + TreePaid(t, i)

validate_spooled_attachment_identities(t) ==
  /\ SpooledIdentitiesMatch(t)
  /\ Affordable(IdentitiesPaid(t))
  /\ validate_embedded_message(t, t.root)

validate_completed_folder_store(folders) ==
  \A folder \in folders : \A associated \in BOOLEAN :
    LET expected == FolderMessages(folder, associated)
        rows     == FolderRows(folder, associated)
    IN \A n \in DOMAIN expected :
         /\ IF associated THEN AssociatedRowMatches(rows[n], expected[n])
            ELSE NormalRowMatches(rows[n], expected[n])
         /\ validate_spooled_attachment_identities(rows[n])

validate_completed_table_indexes ==
  \A m, n \in DOMAIN pst : m # n => pst[m].node # pst[n].node

\* first is the first folder, in the order of the layout, that holds messages.
StoreValidates(first, folders) ==
  LET normal == FolderMessages(first, FALSE)
  IN /\ validate_completed_table_indexes
     /\ normal # <<>> => validate_completed_store(normal[1], FolderRows(first, FALSE)[1])
     /\ validate_completed_folder_store(folders)
=============================================================================
