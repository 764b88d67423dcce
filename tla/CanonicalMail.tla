--------------------------- MODULE CanonicalMail ---------------------------
(***************************************************************************)
(* From the durable candidates of a job to canonical mail: the events that *)
(* DurableCatalogSink records for a message (pstforge-job/src/lib.rs), and *)
(* the assembly of one message with its embedded messages from those       *)
(* events (pstforge-core/src/canonical.rs).                                *)
(***************************************************************************)
EXTENDS MailInput, CanonicalRules

CONSTANT Sources     \* stores as the catalog reports them

VARIABLES ledger,    \* what the job holds: folders, rows by item key
          status     \* the status column of each row

(***************************************************************************)
(* What the sink records.  Bounded mode (a direct split) keeps a prefix of *)
(* a payload and gives it a stream identifier.                             *)
(***************************************************************************)
PropertyPrefixBytes   == 64 * Kibi
AttachmentPrefixBytes == 16 * Kibi

captured_property_bytes(mode, declared) ==
  IF mode = "bounded" THEN Min({declared, PropertyPrefixBytes}) ELSE declared
captured_attachment_bytes(mode, declared) ==
  IF mode = "bounded" THEN Min({declared, AttachmentPrefixBytes}) ELSE declared

finish_property(mode, p) ==
  LET captured == captured_property_bytes(mode, p.declared)
  IN [p EXCEPT !.size = captured,
               !.direct = /\ mode = "bounded"
                          /\ \/ captured < p.declared
                             \/ p.name = None /\ writer_stream_type_is_supported(p.type)]

PropertyEvents(mode, owner, index, m, properties) ==
  [j \in DOMAIN properties |->
     [kind |-> IF properties[j].readable THEN "property" ELSE "property_incomplete",
      owner |-> owner, index |-> index, message |-> m.node,
      property |-> finish_property(mode, properties[j])]]

\* The bytes that reached the sink: nothing is sent for an empty payload.
Blob(mode, a) ==
  CASE a.type # "data" \/ a.outcome = "none" \/ a.declared = 0 -> None
    [] a.outcome = "cut" -> 1
    [] OTHER -> captured_attachment_bytes(mode, a.declared)

finish_attachment(mode, m, index, a) ==
  LET complete == a.outcome = "whole"
      blob     == Blob(mode, a)
      event(kind, actual, direct) ==
        <<[kind |-> kind, index |-> index, message |-> m.node, declared |-> a.declared,
           actual |-> actual, direct |-> direct]>>
  IN CASE blob # None /\ complete ->
            event(IF mode = "bounded" THEN "attachment_direct" ELSE "attachment_data",
                  blob, mode = "bounded")
       [] blob # None /\ ~complete -> event("attachment_partial", blob, FALSE)
       [] blob = None /\ complete /\ a.type = "embedded"  -> <<>>
       [] blob = None /\ complete /\ a.type = "reference" -> event("attachment_reference", None, FALSE)
       [] blob = None /\ complete /\ a.type = "data"      -> event("attachment_data", 0, FALSE)
       [] OTHER -> event("attachment_missing", None, FALSE)

RecipientEvents(mode, m, k) ==
  <<[kind |-> "recipient", index |-> k, recipient |-> m.recipients[k]]>>
    \o PropertyEvents(mode, "recipient", k, m, m.recipients[k].properties)

AttachmentEvents(mode, m, k) ==
  LET a == m.attachments[k]
  IN <<[kind |-> "attachment", index |-> k, type |-> a.type, filename |-> a.filename,
        declared |-> a.declared]>>
       \o PropertyEvents(mode, "attachment", k, m, a.properties)
       \o (IF a.probed /\ a.type = "data" THEN <<[kind |-> "attachment_mime_probe", index |-> k]>>
           ELSE <<>>)
       \o finish_attachment(mode, m, k, a)

\* Recipients, then attachments, then the properties of the message itself.
CandidateEvents(mode, m) ==
  LET recipients[k \in 0..Len(m.recipients)] ==
        IF k = 0 THEN <<>> ELSE recipients[k - 1] \o RecipientEvents(mode, m, k)
      attachments[k \in 0..Len(m.attachments)] ==
        IF k = 0 THEN <<>> ELSE attachments[k - 1] \o AttachmentEvents(mode, m, k)
  IN recipients[Len(m.recipients)] \o attachments[Len(m.attachments)]
       \o PropertyEvents(mode, "message", None, m, m.properties)

Row(s, m) ==
  [key |-> m.key, node |-> m.node, parent |-> m.parent, slot |-> m.slot, path |-> m.path,
   parentNode |-> IF m.parent = None THEN None
                  ELSE (CHOOSE p \in s.items : p.key = m.parent).node,
   unit |-> m.unit, provenance |-> m.provenance, complete |-> m.complete,
   events |-> CandidateEvents(s.mode, m),
   header |-> [class |-> m.class, associated |-> m.associated, subject |-> m.subject,
               senderName |-> m.senderName, senderEmail |-> m.senderEmail,
               submit |-> m.submit, delivery |-> m.delivery]]

\* The class decides at intake: none, empty, or an exception outside an appointment.
Supported(m) == /\ m.class \notin {None, "empty"}
                /\ m.class = "exception" => m.parent # None

Recorded(s) ==
  [source |-> s, mode |-> s.mode, folders |-> s.folders,
   rows |-> [k \in {m.key : m \in s.items} |-> Row(s, CHOOSE m \in s.items : m.key = k)]]

(***************************************************************************)
(* build_mail_inner reads the events of a candidate in order.              *)
(***************************************************************************)
NothingRead == [ok |-> TRUE, recipients |-> <<>>, attachments |-> <<>>, terminals |-> <<>>,
                properties |-> <<>>]

Demand(a, condition) == [a EXCEPT !.ok = @ /\ condition]

ReadRecipient(a, e) ==
  [Demand(a, e.index \notin DOMAIN a.recipients) EXCEPT
     !.recipients = (e.index :> [e.recipient EXCEPT !.properties = <<>>]) @@ @]

ReadAttachment(a, e) ==
  [Demand(a, e.index \notin DOMAIN a.attachments) EXCEPT
     !.attachments = (e.index :> [type |-> e.type, filename |-> e.filename, declared |-> e.declared,
                        data |-> FALSE, direct |-> FALSE, complete |-> FALSE, reference |-> FALSE,
                        detected |-> FALSE, properties |-> <<>>, embedded |-> None]) @@ @]

ReadProbe(a, e) ==
  IF e.index \notin DOMAIN a.attachments THEN Demand(a, FALSE)
  ELSE [Demand(a, ~a.attachments[e.index].detected) EXCEPT !.attachments[e.index].detected = TRUE]

\* Mutant: a reference leaves the attachment as if it had no content.
ReferenceIsMissing(e) ==
  IF e.kind \in {"attachment_reference", "attachment_missing"} THEN "Missing" ELSE "Payload"

Terminal(e) ==
  CASE e.kind = "attachment_reference" -> "Reference"
    [] e.kind = "attachment_missing"   -> "Missing"
    [] OTHER                           -> "Payload"

ReadTerminal(c, a, e) ==
  LET known == /\ e.message = c.node
               /\ e.index \notin DOMAIN a.terminals
               /\ e.index \in DOMAIN a.attachments
  IN IF ~known \/ a.attachments[e.index].declared # e.declared THEN Demand(a, FALSE)
     ELSE [Demand(a, Terminal(e) = "Payload" =>
                       /\ e.kind = "attachment_data" => e.declared = e.actual
                       /\ e.declared # None => e.actual <= e.declared
                       /\ e.kind = "attachment_direct" => e.direct) EXCEPT
             !.terminals = (e.index :> Terminal(e)) @@ @,
             !.attachments[e.index].data = Terminal(e) = "Payload",
             !.attachments[e.index].direct = e.direct,
             !.attachments[e.index].complete = e.kind \in {"attachment_data", "attachment_direct"},
             !.attachments[e.index].reference = Terminal(e) = "Reference"]

ReadProperty(c, a, e) ==
  LET owned == /\ e.message = c.node
               /\ e.owner = "recipient"  => e.index \in DOMAIN a.recipients
               /\ e.owner = "attachment" => e.index \in DOMAIN a.attachments
  IN CASE ~owned \/ e.kind = "property_incomplete" -> Demand(a, owned)
       [] owned /\ e.kind = "property" /\ e.owner = "message" ->
            [a EXCEPT !.properties = Append(@, e.property)]
       [] owned /\ e.kind = "property" /\ e.owner = "recipient" ->
            [a EXCEPT !.recipients[e.index].properties = Append(@, e.property)]
       [] OTHER ->
            [a EXCEPT !.attachments[e.index].properties = Append(@, e.property)]

ReadEvent(c, a, e) ==
  CASE e.kind = "recipient"             -> ReadRecipient(a, e)
    [] e.kind = "attachment"            -> ReadAttachment(a, e)
    [] e.kind = "attachment_mime_probe" -> ReadProbe(a, e)
    [] e.kind \in {"property", "property_incomplete"} -> ReadProperty(c, a, e)
    [] OTHER                            -> ReadTerminal(c, a, e)

EventsRead(c) ==
  LET read[k \in 0..Len(c.events)] ==
        IF k = 0 THEN NothingRead
        ELSE LET a == read[k - 1] IN ReadEvent(c, a, c.events[k])
  IN read[Len(c.events)]

(***************************************************************************)
(* assemble_canonical_mail on the tree under a top-level candidate.        *)
(***************************************************************************)
Present == {k \in DOMAIN ledger.rows : status[k] \in {"spooled", "written", "unsupported"}}

\* spooled_candidate_tree: unsupported rows are part of the tree.
TreeKeys(root) ==
  LET grow[d \in 0..Cardinality(Present)] ==
        IF d = 0 THEN {root}
        ELSE grow[d - 1] \cup {k \in Present : ledger.rows[k].parent \in grow[d - 1]}
  IN grow[Cardinality(Present)]

validate_ownership(k, tree) ==
  LET c == ledger.rows[k]
  IN IF c.parent = None
     THEN c.slot = None /\ c.parentNode = None /\ c.path = <<>>
     ELSE /\ c.slot # None /\ c.parent \in tree
          /\ c.path = Append(ledger.rows[c.parent].path, c.slot)
          /\ c.parentNode = ledger.rows[c.parent].node

Claimants(k, index, tree) ==
  {x \in tree : ledger.rows[x].parent = k /\ ledger.rows[x].slot = index}

CanonicalItem(k, read, tree, folder, role) ==
  LET writable == {x \in tree : status[x] = "spooled"}
      h == ledger.rows[k].header
      child(index) == LET here == Claimants(k, index, tree) \cap writable
                      IN IF here = {} THEN None ELSE CHOOSE x \in here : TRUE
  IN [key |-> k, class |-> h.class, associated |-> h.associated, complete |-> ledger.rows[k].complete,
      subject |-> h.subject, senderName |-> h.senderName, senderEmail |-> h.senderEmail,
      submit |-> h.submit, delivery |-> h.delivery, folder |-> folder, role |-> role,
      recipients |-> [n \in DOMAIN read.recipients |-> read.recipients[n]],
      attachments |-> [n \in DOMAIN read.attachments |->
                         [read.attachments[n] EXCEPT !.embedded = child(n)]],
      properties |-> read.properties]

ItemAssembles(k, read, tree) ==
  /\ read.ok
  /\ \A n \in DOMAIN read.attachments :
       LET here == Claimants(k, n, tree)
       IN AttachmentAssembles(read.attachments[n].type,
            IF n \in DOMAIN read.terminals THEN read.terminals[n] ELSE "none",
            \E x \in here : status[x] = "spooled", \E x \in here : status[x] # "spooled")

\* Candidates that no other writable candidate of the tree holds.
TreeRoots(tree) ==
  LET writable == {x \in tree : status[x] = "spooled"}
  IN {x \in writable : ledger.rows[x].parent \notin writable}

TreeAssembles(root, reads, tree) ==
  /\ \A k \in tree : validate_ownership(k, tree)
  /\ \A x, y \in tree : x # y /\ ledger.rows[x].parent # None =>
       <<ledger.rows[x].parent, ledger.rows[x].slot>> # <<ledger.rows[y].parent, ledger.rows[y].slot>>
  /\ TreeRoots(tree) = {root}
  /\ \A k \in DOMAIN reads : ItemAssembles(k, reads[k], tree)

Located(k) == [unit |-> ledger.rows[k].unit, provenance |-> ledger.rows[k].provenance]

\* Embedded messages inherit the folder of the message that holds them.
TreeMail(root, reads, tree, layout) ==
  LET at     == Located(root)
      folder == MessageFolder(ledger.folders, at)
  IN [roots |-> <<root>>, folders |-> source_folders_for_mail(layout, folder),
      items |-> [k \in DOMAIN reads |->
                   CanonicalItem(k, reads[k], tree, folder,
                                 candidate_folder_role(ledger.folders, at))]]
=============================================================================
