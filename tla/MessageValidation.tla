------------------------- MODULE MessageValidation -------------------------
(***************************************************************************)
(* What the PST writer demands of its input before it writes a byte        *)
(* (validate_mail_store_input in pstforge-pst/src/writer.rs).  One operator*)
(* per rule; a message that breaks one is refused as a whole.              *)
(***************************************************************************)
EXTENDS MailInput

CONSTANT MaxTableValues   \* 2043, the heap indexes 5..2047 that a table page names

ASSUME TableAssumption == MaxTableValues \in Nat

MaxUnicodeBytes           == 4096            \* 2048 UTF-16 units
MaxInMemoryPropertyBytes  == Kibi * Kibi
MaxCustomPropertyBytes    == 128 * Kibi * Kibi
MaxFidelityPropertyBytes  == 16 * Kibi
MaxFidelityCollectionItems == MaxFidelityPropertyBytes \div 8
MaxDistributionListBytes  == 15000
AttachmentTablePageBytes  == 8176            \* MAX_DATA_BLOCK_PAYLOAD
AttachmentTableBaseBytes  == 120             \* heap header, TCINFO, tree and map
AttachmentRowBytes        == 39              \* row, index entry, map slot
RecipientRowValues        == 4               \* texts and keys in the heap of the table

explicit_message_property == is_writer_managed
explicit_attachment_property ==
  {\h0E20, \h0E21, \h3701, \h3704, \h3705, \h3707, \h370B, \h370E, \h3712, \h3713, \h3714}

contents_column_type(id) ==
  CASE copied_contents_property_type(id) # None -> copied_contents_property_type(id)
    [] id \in {\h0E30, \h0E34} -> PtypBinary
    [] id = \h0E33 -> \h0014
    [] OTHER -> None

validate_unicode(text) == text <= MaxUnicodeBytes

Streamed(o) == o.spooled \cup o.direct
message_has_streamed_property(o, id) == \E e \in Streamed(o) : e.id = id

\* Types that a property context stores in the row itself cannot be streamed.
ExternalType(type) == type \notin {\h0001, \h0002, \h0003, \h0004, \h000A, PtypBoolean, PtypObject}

raw_value_payload_len(e) ==
  IF e.type \in {\h0002, \h0003, \h0004, \h000A, PtypBoolean} THEN 0 ELSE e.size

validate_raw_value(e) == raw_value_payload_len(e) <= MaxInMemoryPropertyBytes

OncePerId(S) == \A d, e \in S : d # e => d.id # e.id

(***************************************************************************)
(* validate_message.                                                       *)
(***************************************************************************)
ValidClass(o, depth) ==
  /\ supported_message_class(o.class)
  /\ depth = 0 => ~calendar_exception_message_class(o.class)
  /\ o.codepage > 0
  /\ o.class # LongClass

ValidRecipients(o) ==
  \A k \in DOMAIN o.recipients :
     LET r == o.recipients[k]
     IN Full(r.name) /\ Full(r.email) /\ validate_unicode(r.name) /\ validate_unicode(r.email)

ValidHeader(m) ==
  \A text \in {m.subject, m.senderName, m.senderEmail} : text # None => validate_unicode(text)

ValidBodies(o) ==
  /\ o.sync => message_has_streamed_property(o, \h1009)
  /\ o.native = 1 => o.body \/ message_has_streamed_property(o, \h1000)
  /\ o.native = 2 => message_has_streamed_property(o, \h1009)
  /\ o.native = 3 => message_has_streamed_property(o, \h1013)

validate_direct_blob(e) == e.size > 0 /\ e.size <= MaxPropertyBytes

ValidStreams(o) ==
  /\ OncePerId(Streamed(o))
  /\ \A e \in Streamed(o) :
       /\ ExternalType(e.type) /\ e.id < \h8000
       /\ \A r \in o.raw : r.id # e.id
       /\ e.id \in explicit_message_property =>
            /\ e.id \in Bodies /\ body_type_is_valid(e.id, e.type)
            /\ e.id = \h1000 => ~o.body
       /\ validate_direct_blob(e)

calendar_exception_attachment_has_linkage_raw(spec) ==
  \A id \in Linkage : \E e \in spec.raw : e.id = id

ValidAttachmentProperties(o, spec, exception) ==
  LET inline == spec.kind \in Inline
      extra  == spec.raw \cup spec.spooled \cup spec.direct
  IN /\ OncePerId(extra)
     /\ exception => o.class = "appointment" /\ calendar_exception_attachment_has_linkage_raw(spec)
     /\ spec.raw # {} => inline \/ exception
     /\ \A e \in spec.raw :
          /\ e.id \in 1..\h7FFF /\ e.id \notin explicit_attachment_property
          /\ IF inline THEN e.id \in BinaryMetadata /\ e.type = PtypBinary
             ELSE e.id \in attachment_property_is_preservable
                  /\ attachment_property_type_is_preservable(e.id, e.type)
          /\ validate_raw_value(e)
     /\ \A e \in spec.spooled \cup spec.direct :
          inline /\ e.id \in BinaryMetadata /\ e.type = PtypBinary /\ validate_direct_blob(e)
     /\ SizeSum(spec.raw) <= MaxCustomPropertyBytes

\* Length of a text field, from the source property it was read from.
FieldBytes(a, spec, f) == IF spec.fields[f] = None THEN 0 ELSE a.properties[spec.fields[f]].size

ValidAttachmentTexts(a, spec) ==
  /\ Full(spec.filename) /\ validate_unicode(spec.filename)
  /\ spec.mime # None => Full(spec.mime) /\ validate_unicode(spec.mime)
  /\ \A f \in {"contentId", "contentLocation"} :
       spec.fields[f] # None => Full(FieldBytes(a, spec, f)) /\ validate_unicode(FieldBytes(a, spec, f))

ValidContent(a, spec) ==
  /\ spec.kind = "binary" => spec.bytes <= MaxFidelityPropertyBytes
  /\ spec.kind \in {"spooled", "direct"} => spec.bytes \in 1..MaxPropertyBytes
  /\ spec.kind \in {"ole", "directOle"} =>
       spec.bytes <= MaxPropertyBytes /\ (spec.dataType = PtypObject => spec.bytes > 0)
  /\ spec.kind = "reference" =>
       /\ \A f \in {"longPathname", "pathname", "AttachmentProviderType"} :
            spec.fields[f] # None => Full(FieldBytes(a, spec, f)) /\ validate_unicode(FieldBytes(a, spec, f))
       /\ spec.fields["longPathname"] # None
       /\ spec.method # 7 => \A f \in AttachmentNames : spec.fields[f] = None

SourceOf(m, o, k) == m.attachments[o.sources[k]]

ValidAttachments(m, o) ==
  \A k \in DOMAIN o.attachments :
     LET spec == o.attachments[k]
         a    == SourceOf(m, o, k)
         exception == spec.kind = "embedded" /\ made[spec.child].class = "exception"
     IN /\ ValidAttachmentTexts(a, spec)
        /\ ValidAttachmentProperties(o, spec, exception)
        /\ ValidContent(a, spec)

ValidNamed(o) ==
  /\ Cardinality(o.named) <= MaxFidelityCollectionItems
  /\ \A d, e \in o.named : d # e => d.name # e.name
  /\ \A e \in o.named : NameBytes[e.name] <= MaxUnicodeBytes /\ validate_raw_value(e)

ValidRaw(o) ==
  /\ Cardinality(o.raw) <= MaxFidelityCollectionItems
  /\ OncePerId(o.raw)
  /\ \A e \in o.raw : /\ e.id \in 1..\h7FFF /\ e.id \notin explicit_message_property
                      /\ validate_raw_value(e)
  /\ Sum(raw_value_payload_len, o.raw \cup o.named) <= MaxCustomPropertyBytes

validate_distribution_list_properties(o) ==
  LET members == NamedEntry(o, "8:8055")
      lists   == members \cup NamedEntry(o, "8:8054")
  IN o.class = "distlist" =>
       /\ members = {} => NamedEntry(o, "8:8054") = {} /\ NamedEntry(o, Checksum) = {}
       /\ \A e \in lists : e.type = PtypMultipleBinary /\ e.size < MaxDistributionListBytes
       /\ \A d, e \in lists : d.value = e.value
       /\ \A e \in NamedEntry(o, Checksum) : e.type = PtypInteger32

validate_contents_raw_property_types(o) ==
  \A e \in o.raw : contents_column_type(e.id) \in {None, e.type}

validate_message(m, o, depth) ==
  /\ ValidClass(o, depth) /\ ValidHeader(m) /\ ValidRecipients(o) /\ ValidBodies(o)
  /\ ValidStreams(o) /\ ValidAttachments(m, o) /\ ValidNamed(o) /\ ValidRaw(o)
  /\ validate_distribution_list_properties(o)
  /\ depth = 0 => validate_contents_raw_property_types(o)

(***************************************************************************)
(* validate_aggregate_properties and the size of the whole message.        *)
(***************************************************************************)
\* The compact table asks for a heap identifier for every value before it looks
\* at the size; what has identifiers but no room in one page goes external.
validate_recipient_table_shape(o) == RecipientRowValues * Len(o.recipients) <= MaxTableValues

validate_attachment_table_shape(o) ==
  AttachmentTableBaseBytes + Sum(LAMBDA k : AttachmentRowBytes + o.attachments[k].filename,
                                 DOMAIN o.attachments) <= AttachmentTablePageBytes

\* Names that the content of an attachment adds to the map.
reference_named_property_names(spec) ==
  IF spec.kind = "reference" THEN {f \in AttachmentNames : spec.fields[f] # None} ELSE {}

\* A name in the string stream: its length, its text, padding.
NameStreamBytes(n) == IF NameBytes[n] = 0 THEN 0 ELSE ((NameBytes[n] + 7) \div 4) * 4

\* Items that a translated message contains, itself included.
Contained(i) ==
  LET under[j \in DOMAIN made] ==
        {j} \cup UNION {under[made[j].attachments[k].child] :
                        k \in {n \in DOMAIN made[j].attachments : made[j].attachments[n].child # None}}
  IN under[i]

\* The counts of recipients and attachments, their total texts and the stream of
\* entries have limits of their own that the ones below already imply.
validate_aggregate_properties(i) ==
  LET all == Contained(i)
      custom(j) == Sum(raw_value_payload_len, made[j].raw \cup made[j].named)
                     + Sum(LAMBDA k : SizeSum(made[j].attachments[k].raw), DOMAIN made[j].attachments)
      references(j) == [k \in DOMAIN made[j].attachments |->
                          reference_named_property_names(made[j].attachments[k])]
      occurrences(j) == Cardinality(made[j].named)
                          + Sum(LAMBDA k : Cardinality(references(j)[k]), DOMAIN references(j))
      identities == UNION {{e.name : e \in made[j].named}
                             \cup UNION {references(j)[k] : k \in DOMAIN references(j)} : j \in all}
  IN /\ Sum(custom, all) <= MaxCustomPropertyBytes
     /\ Sum(occurrences, all) <= MaxFidelityCollectionItems
     /\ Sum(NameStreamBytes, identities) <= MaxFidelityPropertyBytes
     /\ Sum(LAMBDA j : made[j].unsupported, all) <= MaxFidelityCollectionItems
     /\ \A j \in all : /\ validate_recipient_table_shape(made[j])
                      /\ validate_attachment_table_shape(made[j])

validate_message_size_bound(i) ==
  \A j \in Contained(i) :
     LET o == made[j]
     IN /\ \A k \in DOMAIN o.attachments :
             attachment_logical_size(o.attachments[k], made) <= MaxPropertyBytes
        /\ o.payload + 16 * Kibi * Len(o.recipients) <= MaxPropertyBytes

associated_display_name(o, m) ==
  Full(m.subject) \/ \E e \in o.raw : e.id = \h3001 /\ e.size > 0

Acceptable(i) ==
  /\ mail.items[i].associated => associated_display_name(made[i], mail.items[i])
  /\ validate_aggregate_properties(i)
  /\ \A j \in Contained(i) : validate_message(mail.items[j], made[j], IF j = i THEN 0 ELSE 1)
  /\ validate_message_size_bound(i)

validate_mail_store_input ==
  /\ stage = "translated"
  /\ stage' = IF /\ plan_folders(part.folders)
                 /\ \A k \in DOMAIN mail.roots : Acceptable(mail.roots[k])
              THEN "accepted" ELSE "refused"
  /\ UNCHANGED <<mail, stack, made, part>>
============================================================================
