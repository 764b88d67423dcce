----------------------------- MODULE MailInput -----------------------------
(***************************************************************************)
(* The translation of canonical mail into the input of the PST writer      *)
(* (pstforge-core/src/writer_input.rs).  A forest of messages is           *)
(* translated one property at a time, in source order, an embedded message *)
(* in the middle of the attachment that holds it.  A property keeps what   *)
(* the code branches on: identifier, type, name, size, whether its bytes   *)
(* were deferred to a direct stream, and whether they are well formed.     *)
(***************************************************************************)
EXTENDS FolderLayout, FiniteSetsExt, TLC

CONSTANTS MaxPropertyBytes, \* i32::MAX, the largest value a PST property holds
          NameBytes         \* UTF-16 bytes of a property's name, 0 for a number

ASSUME BoundAssumption == MaxPropertyBytes \in Nat /\ MaxPropertyBytes > 8 * 1024 * 1024

VARIABLES stage,       \* "assembled", "translating", "translated" or how it ended
          mail,        \* the canonical mail: roots, items and folders around them
          stack,       \* frames of the messages being translated, innermost last
          made,        \* translated messages by item
          part         \* what build_part_writer_input has gathered

PtypInteger32 == \h0003
PtypBoolean   == \h000B
PtypObject    == \h000D
PtypString8   == \h001E
PtypUnicode   == \h001F
PtypTime      == \h0040
PtypBinary    == \h0102
PtypMultipleUnicode == \h101F
PtypMultipleBinary  == \h1102

Kibi == 1024

(***************************************************************************)
(* Identifiers.                                                            *)
(***************************************************************************)
is_writer_managed ==
  {\h001A, \h0037, \h0039, \h0042, \h0064, \h0065, \h007D, \h0C1A, \h0C1E,
   \h0C1F, \h0E02, \h0E03, \h0E04, \h0E06, \h0E07, \h0E08, \h0E17, \h0E1B,
   \h0E1F, \h1000, \h1009, \h1013, \h1016, \h3007, \h3008, \h300B, \h3FDE}

Bodies == {\h007D, \h1000, \h1009, \h1013}

\* Read into fields of the message, each at most once.
OnceIds == {\h0E07, \h0E1F, \h1016, \h3FDE}

copied_contents_property_type(id) ==
  CASE id \in {\h0017, \h0036, \h0E38, \h1097, \h65C6} -> PtypInteger32
    [] id \in {\h0057, \h0058} -> PtypBoolean
    [] id = \h0070 -> PtypUnicode
    [] id \in {\h0071, \h0E3C, \h0E3D, \h3013} -> PtypBinary
    [] OTHER -> None

body_type_is_valid(id, type) ==
  /\ id \in {\h007D, \h1000} => type \in {PtypString8, PtypUnicode}
  /\ id \in {\h1009, \h1013} => type = PtypBinary

writer_stream_type_is_supported(type) ==
  type \in {PtypString8, PtypUnicode, PtypBinary}

(***************************************************************************)
(* Message classes, abstracted to the families the code tells apart.       *)
(***************************************************************************)
LongClass == "long class"      \* below IPM.Note, of more than 2048 UTF-16 units

calendar_exception_message_class(class) == class = "exception"
supported_message_class(class)          == class # "empty"
sender_optional_message_class(class)    == class \notin {"note", "meeting", LongClass}
default_container_class(class) ==
  CASE class \in {"contact", "distlist"} -> "IPF.Contact"
    [] class = "appointment" -> "IPF.Appointment"
    [] class = "task"        -> "IPF.Task"
    [] class = "sticky"      -> "IPF.StickyNote"
    [] OTHER                 -> "IPF.Note"
ClassOf(m) == IF m.class = None THEN "note" ELSE m.class

(***************************************************************************)
(* Reading a value.  A read gives "ok", "empty", "malformed" (contained by *)
(* omit_malformed or, where the code uses a bare `?`, fatal to the         *)
(* message) or "none" (not a type that the reader takes).                  *)
(***************************************************************************)
ScalarWidths(type) ==
  CASE type = \h0002 -> {2}
    [] type \in {\h0003, \h0004, \h000A} -> {4}
    [] type \in {\h0005, \h0006, \h0007, \h0014, \h0040} -> {8}
    [] type = PtypBoolean -> {1, 2}
    [] type = \h0048 -> {16}
    [] OTHER -> {}

scalar_property(p) ==
  IF ScalarWidths(p.type) = {} THEN "none"
  ELSE IF p.size \in ScalarWidths(p.type) THEN "ok" ELSE "malformed"

read_unicode_value(p) ==
  IF p.type # PtypUnicode \/ p.size > Kibi * Kibi \/ ~p.good THEN "malformed" ELSE "ok"

read_unicode(p) ==
  IF read_unicode_value(p) = "ok" /\ p.size = 0 THEN "empty" ELSE read_unicode_value(p)

read_i32(p)     == p.type = PtypInteger32 /\ scalar_property(p) = "ok"
read_boolean(p) == p.type = PtypBoolean /\ scalar_property(p) = "ok"

multiple_property(p, maximum) == p.size <= maximum /\ p.good

\* Only a prefix of the value is at hand: the bytes come as a direct stream.
Deferred(p) == p.direct /\ p.size < p.declared

\* A direct compressed RTF body is judged by the sixteen bytes of its header.
validate_streamed_property(p) ==
  CASE p.direct /\ p.id = \h1009 -> p.size >= 16 /\ p.good
    [] p.direct -> TRUE
    [] p.id = \h1009 -> p.size <= 8 * Kibi * Kibi /\ p.good
    [] p.type = PtypUnicode -> p.good
    [] OTHER -> TRUE

StreamFate(p) ==
  IF /\ writer_stream_type_is_supported(p.type)
     /\ p.declared <= MaxPropertyBytes
     /\ body_type_is_valid(p.id, p.type)
     /\ validate_streamed_property(p)
  THEN IF p.direct THEN "direct" ELSE "spooled"
  ELSE "unsupported"

materialize_copied_contents_property(p) ==
  /\ p.size <= 16 * Kibi
  /\ CASE p.type = PtypUnicode -> read_unicode(p) = "ok"
       [] p.type = PtypBinary  -> p.size > 0
       [] OTHER                -> scalar_property(p) = "ok"

(***************************************************************************)
(* What becomes of one property of a message.                              *)
(*   raw, named, spooled, direct, body        it is serialized             *)
(*   sync, native, flags, codepage, created, modified   into a field       *)
(*   managed        the writer writes its own value for it                 *)
(*   lost, unsupported, untimed               it is omitted                *)
(*   refused        the error leaves translate_message                     *)
(***************************************************************************)
Checksum == "8:804C"
Members  == {"8:8054", "8:8055"}
Keywords == "Keywords"

\* Mutant: the limit of the writer is exclusive, this one is not.
InclusiveLimit == 15000
MembersLimit == 14999

NamedFate(o, p) ==
  IF p.direct THEN "unsupported"
  ELSE IF p.name \in o.names THEN "lost"
  ELSE IF (p.name \in Members /\ p.type # PtypMultipleBinary)
          \/ (p.name = Checksum /\ p.type # PtypInteger32) THEN "unsupported"
  ELSE CASE p.type = PtypUnicode ->
              IF read_unicode(p) = "malformed" THEN "refused" ELSE "named"
         [] p.type = PtypBinary /\ p.size <= Kibi * Kibi -> "named"
         [] p.type = PtypMultipleUnicode ->
              IF multiple_property(p, 16 * Kibi) /\ (p.name = Keywords => p.value < 256)
              THEN "named" ELSE "unsupported"
         [] p.type = PtypMultipleBinary ->
              IF multiple_property(p, IF p.name \in Members THEN MembersLimit ELSE 16 * Kibi)
              THEN "named" ELSE "unsupported"
         [] p.name = Checksum ->
              IF scalar_property(p) = "ok" THEN "named" ELSE "unsupported"
         [] OTHER -> CASE scalar_property(p) = "ok"        -> "named"
                       [] scalar_property(p) = "malformed" -> "refused"
                       [] OTHER                            -> "unsupported"

\* Properties read into a field of the message.
FieldFate(p) ==
  CASE p.id = \h0E1F -> IF read_boolean(p) THEN "sync" ELSE "lost"
    [] p.id = \h1016 -> IF read_i32(p) /\ p.value \in 1..3 THEN "native" ELSE "lost"
    [] p.id = \h0E07 -> IF read_i32(p) THEN "flags" ELSE "lost"
    [] p.id = \h3FDE -> IF read_i32(p) /\ p.value > 0 THEN "codepage" ELSE "lost"
    [] p.id \in {\h3007, \h3008} ->
         CASE scalar_property(p) = "malformed" -> "lost"
           [] p.type = PtypTime /\ p.id = \h3007 -> "created"
           [] p.type = PtypTime -> "modified"
           [] OTHER -> "untimed"

FieldIds == OnceIds \cup {\h3007, \h3008}

\* Properties carried as values.
ValueFate(p) ==
  IF Deferred(p) THEN StreamFate(p)
  ELSE IF copied_contents_property_type(p.id) # None
       THEN IF materialize_copied_contents_property(p) THEN "raw" ELSE "unsupported"
  ELSE IF p.size = 0
       THEN CASE p.type = PtypUnicode /\ p.id = \h1000 -> "body"
              [] p.type \in {PtypUnicode, PtypBinary}  -> "raw"
              [] OTHER                                 -> "unsupported"
  ELSE CASE scalar_property(p) = "ok"        -> "raw"
         [] scalar_property(p) = "malformed" -> "lost"
         [] OTHER                            -> StreamFate(p)

AssociatedName(m, p) == m.associated /\ p.id = \h3001

PlainFate(m, o, p) ==
  IF p.id = None THEN "lost"
  ELSE IF p.set # 0 \/ p.id = 0 \/ p.id >= \h8000 THEN "unsupported"
  ELSE IF Deferred(p) /\ (p.id \in FieldIds \/ AssociatedName(m, p)) THEN "unsupported"
  ELSE IF p.id \in OnceIds /\ p.id \in o.ids THEN "lost"
  ELSE IF p.id \in FieldIds THEN FieldFate(p)
  ELSE IF AssociatedName(m, p)
       THEN CASE p.id \in o.ids -> "lost"
              [] p.id \notin o.ids /\ read_unicode_value(p) = "ok" -> "raw"
              [] OTHER -> "unsupported"
  ELSE IF p.id \in is_writer_managed \ Bodies THEN "managed"
  ELSE IF copied_contents_property_type(p.id) \notin {None, p.type} THEN "unsupported"
  ELSE IF p.id \in o.ids THEN "lost"
  ELSE ValueFate(p)

Fate(m, o, p) ==
  IF p.type = None THEN "lost"
  ELSE IF p.name # None THEN NamedFate(o, p) ELSE PlainFate(m, o, p)

\* The identifier enters serialized_ids once the property reaches the check.
Registers(m, p) ==
  /\ p.type # None /\ p.name = None /\ p.id # None
  /\ p.set = 0 /\ p.id \in 1..\h7FFF
  /\ \/ p.id \in OnceIds /\ ~Deferred(p)
     \/ AssociatedName(m, p) /\ ~Deferred(p)
     \/ /\ p.id \notin (is_writer_managed \ Bodies) /\ ~AssociatedName(m, p)
        /\ copied_contents_property_type(p.id) \in {None, p.type}

(***************************************************************************)
(* The translated message in the making.                                   *)
(***************************************************************************)
Omitted == {"lost", "unsupported"}
Serialized == {"raw", "named", "spooled", "direct"}

NewMessage(i, m) ==
  [item |-> i, partial |-> ~m.complete, omitted |-> 0, omittedAttachments |-> 0,
   raw |-> {}, named |-> {}, spooled |-> {}, direct |-> {}, unsupported |-> 0,
   native |-> None, sync |-> FALSE, syncSeen |-> FALSE, created |-> None,
   modified |-> None, flags |-> None, codepage |-> None, html |-> None,
   body |-> FALSE, ids |-> {}, names |-> {}, keys |-> <<m.key>>, badKeys |-> {},
   recipients |-> <<>>, attachments |-> <<>>, sources |-> <<>>, derived |-> {}, generated |-> {},
   payload |-> 0, sender |-> FALSE, class |-> ClassOf(m), associated |-> m.associated]

Entry(p, j) == [id |-> p.id, type |-> p.type, name |-> p.name, size |-> p.declared,
                value |-> p.value, from |-> j]

Counted(o, n) == [o EXCEPT !.partial = @ \/ n > 0, !.omitted = @ + n]

Carry(o, p, j, fate) ==
  CASE fate \in Serialized ->
         [o EXCEPT ![fate] = @ \cup {Entry(p, j)},
                   !.html = IF fate \in {"spooled", "direct"} /\ p.id = \h1013 THEN j ELSE @]
    [] fate = "body"     -> [o EXCEPT !.body = TRUE]
    [] fate = "sync"     -> [o EXCEPT !.sync = (p.value # 0), !.syncSeen = TRUE]
    [] fate \in {"native", "flags", "codepage"} -> [o EXCEPT ![fate] = p.value]
    [] fate \in {"created", "modified"} -> [o EXCEPT ![fate] = j]
    [] fate = "untimed"  -> [o EXCEPT !.partial = TRUE]
    [] fate \in Omitted  -> [Counted(o, 1) EXCEPT
                               !.unsupported = @ + (IF fate = "unsupported" THEN 1 ELSE 0)]
    [] OTHER -> o

Register(m, o, p) ==
  [o EXCEPT !.ids = IF Registers(m, p) THEN @ \cup {p.id} ELSE @,
            !.names = IF p.type # None /\ p.name # None /\ ~p.direct THEN @ \cup {p.name} ELSE @]

(***************************************************************************)
(* After the properties: what the collected values say about each other.   *)
(***************************************************************************)
NamedEntry(o, n) == {e \in o.named : e.name = n}

\* Mutant: the members that cannot stay are dropped without being counted.
DropMembersQuietly(o) ==
  IF NamedEntry(o, "8:8055") # {} THEN o
  ELSE [o EXCEPT !.named = @ \ (NamedEntry(o, "8:8054") \cup NamedEntry(o, Checksum))]

\* Only a list of members gives the one-off members and the checksum meaning.
contain_distribution_list_properties(o) ==
  LET primary == NamedEntry(o, "8:8055")
      oneOff  == {e \in NamedEntry(o, "8:8054") : \A q \in primary : q.value # e.value}
      orphans == IF primary = {} THEN NamedEntry(o, "8:8054") \cup NamedEntry(o, Checksum)
                 ELSE oneOff
  IN [Counted(o, Cardinality(orphans)) EXCEPT !.named = @ \ orphans]

Holds(o, id) == \E e \in o.spooled \cup o.direct : e.id = id

contain_html(m, o) ==
  LET utf8 == o.html # None /\ m.properties[o.html].utf8
      page == IF o.codepage = None THEN 65001 ELSE o.codepage
      drop == page = 65001 /\ o.html # None /\ ~utf8
      kept(s) == {e \in s : ~drop \/ e.id # \h1013}
      field == IF o.codepage # None THEN {} ELSE {"InternetCodepage"}
  IN [Counted(o, IF drop THEN 1 ELSE 0) EXCEPT
        !.spooled = kept(@), !.direct = kept(@), !.codepage = page,
        !.unsupported = @ + (IF drop THEN 1 ELSE 0),
        !.derived   = IF utf8 /\ page = 65001 THEN @ \cup field ELSE @,
        !.generated = IF utf8 /\ page = 65001 THEN @ ELSE @ \cup field]

contain_body_metadata(o) ==
  LET orphanSync   == o.syncSeen /\ ~Holds(o, \h1009)
      orphanNative == CASE o.native = 1 -> ~o.body /\ ~Holds(o, \h1000)
                        [] o.native = 2 -> ~Holds(o, \h1009)
                        [] o.native = 3 -> ~Holds(o, \h1013)
                        [] OTHER        -> FALSE
  IN [Counted(o, Cardinality({x \in {"sync", "native"} :
                              (x = "sync" /\ orphanSync) \/ (x = "native" /\ orphanNative)}))
      EXCEPT !.sync = @ /\ ~orphanSync, !.native = IF orphanNative THEN None ELSE @]

(***************************************************************************)
(* Recipients.  A text is its number of bytes, None when it is absent.     *)
(***************************************************************************)
Or(a, b) == IF a # None THEN a ELSE b
Full(text) == text # None /\ text # 0

expected_recipient_property_value(r) ==
  {\h3001, \h3002, \h3003, \h39FF, \h0E0F, \h3A40, \h0FF9, \h0FFF, \h300B, \h0FFE,
   \h3900, \h67F2, \h67F3} \cup (IF r.type # None THEN {\h0C15} ELSE {})

recipient_property_is_reconstructed(r, p) ==
  /\ p.set = r.index /\ p.type # None /\ p.id # None
  /\ Or(r.name, r.email) # None /\ p.id \in expected_recipient_property_value(r)
  /\ p.good /\ p.matches

Recipient(r) == [type |-> r.type, name |-> Or(r.name, r.email), email |-> Or(r.email, r.name)]
Usable(r) == r.type \in 1..3 /\ Or(r.name, r.email) # None

translate_recipients(m, o) ==
  LET all   == {m.recipients[k] : k \in DOMAIN m.recipients}
      left  == Cardinality({<<k, j>> \in (DOMAIN m.recipients) \X (1..4) :
                 /\ j \in DOMAIN m.recipients[k].properties
                 /\ ~recipient_property_is_reconstructed(m.recipients[k],
                                                         m.recipients[k].properties[j])})
      named == SelectSeq(m.recipients, Usable)
  IN [Counted(o, left) EXCEPT
        !.partial = @ \/ left > 0 \/ \E r \in all : ~Usable(r) \/ ~r.smtp,
        !.recipients = [k \in DOMAIN named |-> Recipient(named[k])],
        !.derived = @ \cup {"RecipientDisplayName" : r \in {q \in all : ~Full(q.name) /\ Full(q.email)}}
                      \cup {"RecipientAddress" : r \in {q \in all : Full(q.name) /\ ~Full(q.email)}}]

(***************************************************************************)
(* Attachments.  The attachment in the making keeps the source index of    *)
(* each value it took.                                                     *)
(***************************************************************************)
AttachmentTexts == [x \in {\h370D, \h3708, \h370E, \h3712, \h3713} |->
  CASE x = \h370D -> "longPathname" [] x = \h3708 -> "pathname" [] x = \h370E -> "mime"
    [] x = \h3712 -> "contentId"    [] x = \h3713 -> "contentLocation"]
AttachmentNumbers == [x \in {\h370B, \h3714, \h3705} |->
  CASE x = \h370B -> "rendering" [] x = \h3714 -> "flags" [] x = \h3705 -> "method"]
AttachmentNames ==
  {"AttachmentProviderType", "AttachmentOriginalPermissionType", "AttachmentPermissionType"}
Permissions == AttachmentNames \ {"AttachmentProviderType"}

attachment_property_is_mapped ==
  {\h0E20, \h0E21, \h3701, \h3704, \h3705, \h3707, \h3708, \h370D}
BinaryMetadata == {\h3702, \h3709, \h370A}
Linkage == \h7FFA..\h7FFE
attachment_property_is_preservable == {\h3001, \h3702, \h3709} \cup \h7FFA..\h7FFF

attachment_property_type_is_preservable(id, type) ==
  type = CASE id = \h3001 -> PtypUnicode
           [] id \in {\h3702, \h3709} -> PtypBinary
           [] id \in {\h7FFA, \h7FFD} -> PtypInteger32
           [] id \in {\h7FFB, \h7FFC} -> PtypTime
           [] OTHER -> PtypBoolean

calendar_exception_attachment_has_linkage(a) ==
  \A id \in Linkage : \E j \in DOMAIN a.properties :
     a.properties[j].set = 0 /\ a.properties[j].id = id

preserves_calendar_exception(m, a) ==
  /\ ClassOf(m) = "appointment"
  /\ a.embedded # None /\ mail.items[a.embedded].class = "exception"
  /\ calendar_exception_attachment_has_linkage(a)

NewAttachment ==
  [ids |-> {}, omitted |-> 0, raw |-> {}, meta |-> {}, spooled |-> {}, direct |-> {},
   fields |-> [f \in {"longPathname", "pathname", "mime", "contentId", "contentLocation",
                      "rendering", "flags", "method", "dataType"} \cup AttachmentNames |-> None]]

PreservedFate(p) ==
  IF p.type = None \/ ~attachment_property_type_is_preservable(p.id, p.type) THEN "lost"
  ELSE CASE p.type = PtypUnicode -> IF read_unicode(p) = "ok" THEN "raw" ELSE "lost"
         [] p.type = PtypBinary -> IF p.size <= Kibi * Kibi THEN "raw" ELSE "lost"
         [] OTHER -> IF scalar_property(p) = "ok" THEN "raw" ELSE "lost"

MetadataFate(p) ==
  CASE p.type # PtypBinary -> "lost"
    [] p.declared <= 16 * Kibi -> IF p.size <= 16 * Kibi THEN "meta" ELSE "lost"
    [] p.declared > MaxPropertyBytes -> "lost"
    [] OTHER -> IF p.direct THEN "direct" ELSE "spooled"

TextFate(p) ==
  CASE read_unicode(p) = "ok" -> "field" [] read_unicode(p) = "empty" -> "managed"
    [] OTHER -> "lost"

AttachmentFate(m, a, o, p) ==
  IF p.id = None \/ p.set # 0 \/ p.id \in o.ids THEN "lost"
  ELSE IF Deferred(p) /\ (\/ p.name \in AttachmentNames
                          \/ p.id \in DOMAIN AttachmentTexts \cup DOMAIN AttachmentNumbers)
       THEN "lost"
  ELSE IF p.name = "AttachmentProviderType" THEN TextFate(p)
  ELSE IF p.name \in Permissions
       THEN IF read_i32(p) /\ p.value \in 0..2 THEN "field" ELSE "lost"
  ELSE IF p.id = \h3701 THEN "field"
  ELSE IF p.id = \h3705 /\ a.embedded # None THEN "managed"
  ELSE IF p.id \in DOMAIN AttachmentNumbers THEN IF read_i32(p) THEN "field" ELSE "lost"
  ELSE IF p.id \in DOMAIN AttachmentTexts THEN TextFate(p)
  ELSE IF p.id \in attachment_property_is_mapped THEN "managed"
  ELSE IF preserves_calendar_exception(m, a) /\ p.id \in attachment_property_is_preservable
          /\ p.name = None THEN PreservedFate(p)
  ELSE IF p.id \in BinaryMetadata THEN MetadataFate(p)
  ELSE "lost"

FieldName(p) ==
  CASE p.name \in AttachmentNames -> p.name
    [] p.id = \h3701 -> "dataType"
    [] p.id \in DOMAIN AttachmentNumbers -> AttachmentNumbers[p.id]
    [] OTHER -> AttachmentTexts[p.id]

CarryAttachment(o, p, j, fate) ==
  LET seen == [o EXCEPT !.ids = IF p.id # None /\ p.set = 0 THEN @ \cup {p.id} ELSE @]
  IN CASE fate \in {"raw", "meta", "spooled", "direct"} ->
            [seen EXCEPT ![fate] = @ \cup {Entry(p, j)}]
       [] fate = "field" -> [seen EXCEPT !.fields[FieldName(p)] = j]
       [] fate = "lost"  -> [seen EXCEPT !.omitted = @ + 1]
       [] OTHER          -> seen

(***************************************************************************)
(* What an attachment becomes once its properties are read.                *)
(***************************************************************************)
FieldValue(a, o, f) ==
  IF o.fields[f] = None THEN None
  ELSE IF f = "dataType" THEN a.properties[o.fields[f]].type ELSE a.properties[o.fields[f]].value

reference_attachment_method(method) == method \in {2, 3, 4, 7}

ContentKind(a, o) ==
  LET method == FieldValue(a, o, "method")
      type   == FieldValue(a, o, "dataType")
  IN IF method = 6
     THEN IF /\ a.data /\ a.complete /\ a.declared # None
             /\ a.declared <= MaxPropertyBytes
             /\ type \in {PtypObject, PtypBinary}
             /\ ~(type = PtypObject /\ a.declared = 0)
          THEN IF a.direct THEN "directOle" ELSE "ole"
          ELSE "omitted"
     ELSE IF reference_attachment_method(method) /\ a.reference
     THEN IF o.fields["longPathname"] # None THEN "reference" ELSE "omitted"
     ELSE IF a.embedded # None THEN "embedded"
     ELSE IF ~a.complete \/ ~a.data \/ (a.declared # None /\ a.declared > MaxPropertyBytes)
     THEN "dropped"
     ELSE CASE a.declared = 0 -> "binary" [] a.declared # 0 /\ a.direct -> "direct"
            [] OTHER -> "spooled"

Inline == {"binary", "direct", "spooled", "ole", "directOle"}

\* Binary metadata belongs to attachments with content; elsewhere it is omitted.
SettleMetadata(a, o, kind) ==
  LET beside == a.data \/ \E j \in DOMAIN a.properties :
                              a.properties[j].set = 0 /\ a.properties[j].id = \h3701
      web    == FieldValue(a, o, "method") = 7
      stray  == IF web THEN {} ELSE {f \in AttachmentNames : o.fields[f] # None}
      count  == Cardinality(o.meta) + Cardinality(o.spooled) + Cardinality(o.direct)
  IN CASE kind \in Inline -> [o EXCEPT !.raw = @ \cup o.meta]
       [] kind = "embedded" ->
            [o EXCEPT !.meta = {}, !.spooled = {}, !.direct = {}, !.omitted = @ + count]
       [] kind = "reference" ->
            [o EXCEPT !.meta = {}, !.spooled = {}, !.direct = {},
                      !.omitted = @ + count + Cardinality(stray) + (IF beside THEN 1 ELSE 0),
                      !.fields = [f \in DOMAIN @ |-> IF f \in stray THEN None ELSE @[f]]]
       [] kind = "omitted" /\ reference_attachment_method(FieldValue(a, o, "method")) ->
            [o EXCEPT !.omitted = @ + count]
       [] OTHER -> o

Sum(f(_), S) == MapThenSumSet(f, S)
SizeSum(S) == Sum(LAMBDA e : e.size, S)
TextBytes(a, o, f) ==
  IF o.fields[f] = None \/ f \in Permissions THEN 0 ELSE a.properties[o.fields[f]].size

GeneratedTextBytes == 64

\* What goes to the writer for an attachment whose content is settled.
AttachmentSpec(a, o, kind) ==
  LET source == Full(TextBytes(a, o, "mime"))
      named  == Full(a.filename)
      probed == kind \in {"binary", "direct", "spooled"} /\ (~source \/ ~named)
                /\ a.detected
      mime   == CASE source -> TextBytes(a, o, "mime")
                  [] ~source /\ (kind = "embedded" \/ probed) -> GeneratedTextBytes
                  [] OTHER -> None
      file   == IF named THEN a.filename ELSE GeneratedTextBytes
      cited  == {"contentId", "contentLocation"}
                  \cup (IF kind = "reference"
                       THEN {"longPathname", "pathname", "AttachmentProviderType"} ELSE {})
      permits == IF kind = "reference" THEN {f \in Permissions : o.fields[f] # None} ELSE {}
  IN [kind |-> kind, filename |-> file, mime |-> mime, fields |-> o.fields,
      method |-> FieldValue(a, o, "method"), dataType |-> FieldValue(a, o, "dataType"),
      raw |-> o.raw, spooled |-> o.spooled, direct |-> o.direct,
      child |-> IF kind = "embedded" THEN a.embedded ELSE None,
      bytes |-> IF kind \in Inline THEN a.declared ELSE 0,
      metadata |-> 20 + 2 * file + (IF mime = None THEN 0 ELSE mime)
                   + Sum(LAMBDA f : TextBytes(a, o, f), cited) + 4 * Cardinality(permits)
                   + SizeSum(o.raw \cup o.spooled \cup o.direct),
      derived |-> IF ~source /\ mime # None THEN {"AttachmentMimeType"} ELSE {},
      generated |-> (IF named THEN {} ELSE {"AttachmentFilename"})
                      \cup (IF o.fields["rendering"] = None THEN {"AttachmentRenderingPosition"} ELSE {})
                      \cup (IF o.fields["flags"] = None THEN {"AttachmentFlags"} ELSE {})]

attachment_logical_size(spec, translated) ==
  spec.metadata + (IF spec.kind = "embedded" THEN translated[spec.child].payload ELSE spec.bytes)

estimated_message_payload(o, translated) ==
  128 * Kibi + SizeSum(o.spooled \cup o.direct)
    + Sum(LAMBDA k : 64 * Kibi + attachment_logical_size(o.attachments[k], translated),
          DOMAIN o.attachments)

(***************************************************************************)
(* The frames of the translation.                                          *)
(***************************************************************************)
Top      == stack[Len(stack)]
Message  == mail.items[Top.item]
InBody   == stage = "translating" /\ stack # <<>> /\ Top.attachment = 0
InAttachment == stage = "translating" /\ stack # <<>>
                /\ Top.attachment \in DOMAIN Message.attachments
Attachment == Message.attachments[Top.attachment]

Frame(i) == [item |-> i, at |-> 1, attachment |-> 0, out |-> NewMessage(i, mail.items[i]),
             new |-> NewAttachment]

SetTop(frame) == stack' = [stack EXCEPT ![Len(stack)] = frame]
NextAttachment(o) == [Top EXCEPT !.out = o, !.attachment = @ + 1, !.at = 1, !.new = NewAttachment]

\* build_part_writer_input turns to the next message of the part.
TranslateNext ==
  /\ stage = "translating" /\ stack = <<>> /\ part.next <= Len(mail.roots)
  /\ stack' = <<Frame(mail.roots[part.next])>>
  /\ UNCHANGED <<stage, mail, made, part>>

TranslateProperty ==
  /\ InBody /\ Top.at <= Len(Message.properties)
  /\ LET p    == Message.properties[Top.at]
         fate == Fate(Message, Top.out, p)
     IN IF fate = "refused"
        THEN stage' = "rejected" /\ UNCHANGED stack
        ELSE /\ SetTop([Top EXCEPT !.at = @ + 1,
                          !.out = Carry(Register(Message, @, p), p, Top.at, fate)])
             /\ UNCHANGED stage
  /\ UNCHANGED <<mail, made, part>>

ContainMessage ==
  /\ InBody /\ Top.at > Len(Message.properties)
  /\ LET lists == IF Message.class = "distlist"
                  THEN contain_distribution_list_properties(Top.out) ELSE Top.out
     IN SetTop(NextAttachment(
          contain_body_metadata(translate_recipients(Message, contain_html(Message, lists)))))
  /\ UNCHANGED <<stage, mail, made, part>>

TranslateAttachmentProperty ==
  /\ InAttachment /\ Top.at <= Len(Attachment.properties)
  /\ LET p    == Attachment.properties[Top.at]
         fate == AttachmentFate(Message, Attachment, Top.new, p)
     IN SetTop([Top EXCEPT !.at = @ + 1, !.new = CarryAttachment(@, p, Top.at, fate)])
  /\ UNCHANGED <<stage, mail, made, part>>

Dropped(o, omitted) ==
  [o EXCEPT !.partial = TRUE, !.omittedAttachments = @ + 1, !.omitted = @ + omitted]

Placed(o, spec, from, omitted) ==
  [o EXCEPT !.attachments = Append(@, spec), !.sources = Append(@, from),
            !.partial = @ \/ omitted > 0, !.omitted = @ + omitted,
            !.derived = @ \cup spec.derived, !.generated = @ \cup spec.generated]

Children(i) == {mail.items[i].attachments[k].embedded : k \in DOMAIN mail.items[i].attachments} \ {None}
\* Mutant: the messages inside the refused message are forgotten.
OwnItemKey(i) == {mail.items[i].key}

collect_message_item_keys(i) ==
  LET under[j \in DOMAIN mail.items] ==
        {mail.items[j].key} \cup UNION {under[c] : c \in Children(j)}
  IN under[i]

\* The content is chosen; an embedded message is translated before its attachment.
ChooseContent ==
  /\ InAttachment /\ Top.at > Len(Attachment.properties)
  /\ LET kind == ContentKind(Attachment, Top.new)
         new  == SettleMetadata(Attachment, Top.new, kind)
         spec == AttachmentSpec(Attachment, new, kind)
         fits == /\ kind \in {"ole", "directOle"}
                 /\ attachment_logical_size(spec, made) > MaxPropertyBytes
     IN /\ kind # "embedded"
        /\ SetTop(NextAttachment(
             CASE kind = "dropped" -> Dropped(Top.out, 0)
               [] kind = "omitted" \/ fits -> Dropped(Top.out, new.omitted)
               [] OTHER -> Placed(Top.out, spec, Top.attachment, new.omitted)))
  /\ UNCHANGED <<stage, mail, made, part>>

EnterEmbedded ==
  /\ InAttachment /\ Top.at > Len(Attachment.properties)
  /\ LET kind  == ContentKind(Attachment, Top.new)
         new   == SettleMetadata(Attachment, Top.new, kind)
         child == Attachment.embedded
         class == ClassOf(mail.items[child])
         refused == \/ ~supported_message_class(class)
                    \/ /\ calendar_exception_message_class(class)
                       /\ \/ ~preserves_calendar_exception(Message, Attachment)
                          \/ \E id \in Linkage : \A e \in new.raw : e.id # id
     IN /\ kind = "embedded"
        /\ IF refused
           THEN SetTop(NextAttachment([Dropped(Top.out, new.omitted) EXCEPT
                         !.badKeys = @ \cup collect_message_item_keys(child)]))
           ELSE stack' = Append([stack EXCEPT ![Len(stack)].new = new], Frame(child))
  /\ UNCHANGED <<stage, mail, made, part>>

(***************************************************************************)
(* The end of a message: class, sender, times.                             *)
(***************************************************************************)
Bad(time) == time = "invalid"
FinalMessage(m, o) ==
  LET empty  == ClassOf(m) = "document" /\ o.attachments = <<>>
      times  == <<m.submit, m.delivery>>
      bad    == Cardinality({k \in 1..2 : Bad(times[k])})
      filed  == m.delivery = "good"
      missing == {f \in {"created", "modified"} : o[f] = None}
      half   == Full(m.senderName) # Full(m.senderEmail)
      noSender == ~Full(m.senderName) /\ ~Full(m.senderEmail)
  IN [Counted(o, bad) EXCEPT
        !.partial = @ \/ empty,
        !.flags = IF @ = None THEN 1 ELSE @,
        !.sender = ~noSender,
        !.derived = @ \cup (IF half THEN {"Sender"} ELSE {})
                      \cup (IF filed THEN missing ELSE {}),
        !.generated = @ \cup (IF m.class = None THEN {"MessageClass"} ELSE {})
                        \cup (IF empty THEN {"DocumentAttachment"} ELSE {})
                        \cup (IF ~Full(m.subject) THEN {"Subject"} ELSE {})
                        \cup (IF noSender /\ ~sender_optional_message_class(ClassOf(m))
                              THEN {"Sender"} ELSE {})
                        \cup (IF m.submit # "good" THEN {"SubmitTime"} ELSE {})
                        \cup (IF m.delivery # "good" THEN {"DeliveryTime"} ELSE {})
                        \cup (IF filed THEN {} ELSE missing)
                        \cup (IF o.flags = None THEN {"MessageFlags"} ELSE {})]

Unwritable(m) == \/ ~supported_message_class(ClassOf(m))
                 \/ calendar_exception_message_class(ClassOf(m)) /\ Len(stack) = 1

(***************************************************************************)
(* An associated message is shown under its display name.                  *)
(***************************************************************************)
normalize_associated_display_name(m, o) ==
  LET shown == {e \in o.raw : e.id = \h3001 /\ e.type = PtypUnicode}
      blank == {e \in shown : e.size = 0}
      given == [id |-> \h3001, type |-> PtypUnicode, name |-> None, value |-> 0, from |-> 0,
                size |-> IF Full(m.subject) THEN m.subject ELSE GeneratedTextBytes]
      field == IF shown \ blank = {} THEN {"AssociatedDisplayName"} ELSE {}
  IN IF ~m.associated THEN o
     ELSE [o EXCEPT
            !.raw = IF blank # {} \/ (shown = {} /\ ~Full(m.subject))
                    THEN (@ \ blank) \cup {[given EXCEPT !.from = IF blank = {} THEN 0
                                              ELSE (CHOOSE e \in blank : TRUE).from]}
                    ELSE @,
            !.derived = IF Full(m.subject) THEN @ \cup field ELSE @,
            !.generated = IF Full(m.subject) THEN @ ELSE @ \cup field]

Place(folders, m, i) ==
  LET old == IF m.folder \in DOMAIN folders THEN folders[m.folder]
             ELSE [class |-> default_container_class(ClassOf(m)), role |-> m.role,
                   normal |-> <<>>, associated |-> <<>>]
      new == IF m.associated THEN [old EXCEPT !.associated = Append(@, i)]
             ELSE [old EXCEPT !.normal = Append(@, i)]
  IN [f \in DOMAIN folders \cup {m.folder} |-> IF f = m.folder THEN new ELSE folders[f]]

Derives(m, folders) == m.folder \notin DOMAIN folders /\ m.class # None

Gather(m, i, o) ==
  [part EXCEPT !.next = @ + 1, !.partial = @ \/ o.partial, !.omitted = @ + o.omitted,
     !.omittedAttachments = @ + o.omittedAttachments, !.keys = @ \o o.keys,
     !.badKeys = @ \cup o.badKeys, !.folders = Place(@, m, i),
     !.derived = @ \cup o.derived \cup (IF Derives(m, part.folders) THEN {"FolderClass"} ELSE {}),
     !.generated = @ \cup o.generated
        \cup (IF m.folder \notin DOMAIN part.folders /\ m.class = None THEN {"FolderClass"} ELSE {})]

Finished == /\ stage = "translating" /\ stack # <<>>
            /\ Top.attachment > Len(Message.attachments)

Complete(i, o) == made @@ (i :> [o EXCEPT !.payload = estimated_message_payload(o, made)])

FinishMessage ==
  /\ Finished /\ Len(stack) = 1
  /\ IF Unwritable(Message)
     THEN stage' = "rejected" /\ UNCHANGED <<stack, made, part>>
     ELSE LET o == normalize_associated_display_name(Message, FinalMessage(Message, Top.out))
          IN /\ made' = Complete(Top.item, o)
             /\ part' = Gather(Message, Top.item, o)
             /\ stack' = <<>>
             /\ UNCHANGED stage
  /\ UNCHANGED mail

FinishEmbedded ==
  /\ Finished /\ Len(stack) > 1
  /\ LET o      == FinalMessage(Message, Top.out)
         outer  == stack[Len(stack) - 1]
         holder == mail.items[outer.item].attachments[outer.attachment]
         spec   == AttachmentSpec(holder, outer.new, "embedded")
         merged == [Placed(outer.out, spec, outer.attachment,
                              outer.new.omitted + o.omitted) EXCEPT
                      !.partial = @ \/ o.partial \/ o.omittedAttachments > 0,
                      !.omittedAttachments = @ + o.omittedAttachments,
                      !.keys = @ \o o.keys, !.badKeys = @ \cup o.badKeys,
                      !.derived = @ \cup o.derived, !.generated = @ \cup o.generated]
     IN /\ made' = Complete(Top.item, o)
        /\ stack' = Append(SubSeq(stack, 1, Len(stack) - 2),
                     [outer EXCEPT !.out = merged, !.attachment = @ + 1, !.at = 1,
                                   !.new = NewAttachment])
  /\ UNCHANGED <<stage, mail, part>>

FinishPart ==
  /\ stage = "translating" /\ stack = <<>> /\ part.next > Len(mail.roots)
  /\ stage' = "translated"
  /\ UNCHANGED <<mail, stack, made, part>>

\* The interrupt flag is read before a message and before every blob.
Interrupt ==
  /\ stage = "translating"
  /\ stage' = "interrupted"
  /\ UNCHANGED <<mail, stack, made, part>>

\* build_part_writer_layout: every source folder is laid out, mail or not.
build_part_writer_layout(folders) ==
  [f \in DOMAIN folders |->
     [class |-> IF folders[f].class = None THEN "IPF.Note" ELSE folders[f].class,
      role |-> folders[f].role, normal |-> <<>>, associated |-> <<>>]]

NewPart(folders) ==
  [next |-> 1, partial |-> FALSE, omitted |-> 0, omittedAttachments |-> 0, keys |-> <<>>,
   badKeys |-> {}, folders |-> build_part_writer_layout(folders), derived |-> {},
   generated |-> IF \E f \in DOMAIN folders : folders[f].class = None
                 THEN {"FolderClass"} ELSE {}]

Begin ==
  /\ stage = "assembled"
  /\ stage' = "translating"
  /\ part' = NewPart(mail.folders)
  /\ stack' = <<>> /\ made' = <<>>
  /\ UNCHANGED mail

Translate ==
  \/ Begin \/ TranslateNext \/ TranslateProperty \/ ContainMessage
  \/ TranslateAttachmentProperty \/ ChooseContent \/ EnterEmbedded
  \/ FinishMessage \/ FinishEmbedded \/ FinishPart \/ Interrupt
============================================================================
