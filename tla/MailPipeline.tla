---------------------------- MODULE MailPipeline ----------------------------
(***************************************************************************)
(* The way of a job's mail to the writer, message by message, as the       *)
(* incremental split walks it (pstforge-core/src/split.rs): the folder     *)
(* layout, then for each top-level candidate its tree, its translation and *)
(* its validation, and at the end the check of the finished part and the   *)
(* disposition of every message in the job.  The part never fills up here. *)
(***************************************************************************)
EXTENDS CanonicalMail, StoredMail

CONSTANT NameRank   \* the alphabetical order of the texts of folder names

VARIABLES layout,   \* the folders that the writer was opened with
          queue     \* top-level candidates still to write

pipelineVars == <<ledger, status, layout, queue, pst, stage, mail, stack, made, part>>

NoMail == [roots |-> <<>>, items |-> <<>>, folders |-> <<>>]

Init ==
  /\ \E s \in Sources :
       /\ ledger = Recorded(s)
       /\ status = [k \in {m.key : m \in s.items} |->
                      IF Supported(CHOOSE m \in s.items : m.key = k) THEN "spooled" ELSE "unsupported"]
  /\ layout = <<>> /\ queue = <<>> /\ pst = <<>>
  /\ stage = "recorded" /\ mail = NoMail
  /\ stack = <<>> /\ made = <<>> /\ part = NewPart(<<>>)

TopLevel == {k \in DOMAIN ledger.rows : status[k] = "spooled" /\ ledger.rows[k].parent = None}

\* for_each_canonical_mail_header: a candidate without its events.
Header(k) ==
  [key |-> k, folder |-> MessageFolder(ledger.folders, Located(k)),
   role |-> candidate_folder_role(ledger.folders, Located(k)),
   container |-> default_container_class(ledger.rows[k].header.class),
   associated |-> ledger.rows[k].header.associated]

HeadersLoad == \A k \in TopLevel :
  ledger.rows[k].unit # None => ~PathTooDeep(ledger.folders, ledger.rows[k].unit)

(***************************************************************************)
(* The order of folders, and of candidates: location, path, placement, key.*)
(***************************************************************************)
NameBefore(a, b) ==
  IF a[1] = b[1] THEN a[2] < b[2] ELSE NameRank[a[1]] < NameRank[b[1]]
PathBefore(p, q) ==
  \/ Len(p) < Len(q) /\ StartsWith(q, p)
  \/ \E k \in DOMAIN p \cap DOMAIN q :
       NameBefore(p[k], q[k]) /\ \A j \in 1..(k - 1) : p[j] = q[j]
FolderBefore(f, g) == IF f[1] = g[1] THEN PathBefore(f[2], g[2]) ELSE f[1] = "StoreRoot"

\* Mutant: candidates are taken in the order of their keys.
KeyBefore(x, y) == x < y

CandidateBefore(x, y) ==
  LET a == Header(x)
      b == Header(y)
  IN CASE a.folder # b.folder -> FolderBefore(a.folder, b.folder)
       [] a.folder = b.folder /\ a.associated # b.associated -> b.associated
       [] OTHER -> x < y

\* mark_stranded_embedded_candidates_unsupported: parents are settled, they are not.
Stranded ==
  LET below[d \in 0..Cardinality(DOMAIN status)] ==
        {k \in DOMAIN status :
           /\ status[k] = "spooled" /\ ledger.rows[k].parent # None
           /\ \/ status[ledger.rows[k].parent] \in {"written", "unsupported"}
              \/ d > 0 /\ ledger.rows[k].parent \in below[d - 1]}
  IN below[Cardinality(DOMAIN status)]

Mark(keys, value) == [k \in DOMAIN status |-> IF k \in keys THEN value ELSE status[k]]

\* Everything up to the writer being opened with the layout.
OpenWriter ==
  /\ stage = "recorded" /\ TopLevel # {}
  /\ IF FoldersLoad(ledger.folders) /\ HeadersLoad
     THEN LET planned == LayoutOf(load_canonical_folders(ledger.folders),
                                  {Header(k) : k \in TopLevel})
          IN /\ layout' = planned
             /\ queue' = SetToSortSeq(TopLevel, CandidateBefore)
             /\ stage' = IF plan_folders(planned) THEN "open" ELSE "failed"
     ELSE stage' = "failed" /\ UNCHANGED <<layout, queue>>
  /\ UNCHANGED <<ledger, status, pst, mail, stack, made, part>>

FinishSplit ==
  /\ \/ stage = "recorded" /\ TopLevel = {}
     \/ stage = "open" /\ queue = <<>> /\ pst = <<>>
     \/ stage = "published"
  /\ status' = Mark(Stranded, "unsupported")
  /\ stage' = "done"
  /\ UNCHANGED <<ledger, layout, queue, pst, mail, stack, made, part>>

LoadTree ==
  /\ stage = "open" /\ queue # <<>>
  /\ LET root  == Head(queue)
         tree  == TreeKeys(root)
         reads == [k \in {x \in tree : status[x] = "spooled"} |-> EventsRead(ledger.rows[k])]
     IN IF TreeAssembles(root, reads, tree)
        THEN mail' = TreeMail(root, reads, tree, layout) /\ stage' = "assembled"
        ELSE stage' = "failed" /\ UNCHANGED mail
  /\ UNCHANGED <<ledger, status, layout, queue, pst, stack, made, part>>

Translation == Translate /\ UNCHANGED <<ledger, status, layout, queue, pst>>
Validation  == validate_mail_store_input /\ UNCHANGED <<ledger, status, layout, queue, pst>>

\* append_message: the keys wait for the part to be published.
AppendMessage ==
  /\ stage = "accepted"
  /\ LET m == mail.items[mail.roots[1]]
     IN pst' = Append(pst,
          [root |-> mail.roots[1], folder |-> m.folder, associated |-> m.associated,
           node |-> [type |-> IF m.associated THEN 1 ELSE 0, index |-> Len(pst)],
           items |-> mail.items, made |-> made,
           keys |-> ToSet(part.keys), badKeys |-> part.badKeys])
  /\ queue' = Tail(queue)
  /\ stage' = "open"
  /\ UNCHANGED <<ledger, status, layout, mail, stack, made, part>>

FirstFolder ==
  LET used == {pst[n].folder : n \in DOMAIN pst}
  IN CHOOSE f \in used : \A g \in used \ {f} : FolderBefore(f, g)

\* finalize and publish.  A direct split checks the indexes only.
Finalize ==
  /\ stage = "open" /\ queue = <<>> /\ pst # <<>>
  /\ IF \/ ledger.mode = "bounded" /\ validate_completed_table_indexes
        \/ ledger.mode = "full" /\ StoreValidates(FirstFolder, DOMAIN layout)
     THEN /\ status' = [k \in DOMAIN status |->
                          CASE \E n \in DOMAIN pst : k \in pst[n].badKeys -> "unsupported"
                            [] \E n \in DOMAIN pst : k \in pst[n].keys -> "written"
                            [] OTHER -> status[k]]
          /\ stage' = "published"
     ELSE stage' = "invalid" /\ UNCHANGED status
  /\ UNCHANGED <<ledger, layout, queue, pst, mail, stack, made, part>>

\* mark_candidates_unsupported, and the split goes on with the next candidate;
\* a row that is not spooled any more is an integrity error and nothing changes.
Reject(keys) ==
  /\ IF \A k \in keys : status[k] = "spooled"
     THEN /\ status' = Mark(keys, "unsupported")
          /\ queue' = Tail(queue)
          /\ stage' = "open"
     ELSE stage' = "failed" /\ UNCHANGED <<status, queue>>
  /\ UNCHANGED <<ledger, layout, pst, mail, stack, made, part>>

\* translation_rejections: the message at fault and the ones that hold it.
RejectTranslation ==
  /\ stage = "rejected"
  /\ Reject({stack[d].item : d \in DOMAIN stack})

RejectInput ==
  /\ stage = "refused"
  /\ Reject(collect_message_item_keys(mail.roots[1]))

Next ==
  \/ OpenWriter \/ LoadTree \/ Translation \/ Validation
  \/ AppendMessage \/ RejectTranslation \/ RejectInput \/ Finalize \/ FinishSplit

Spec == Init /\ [][Next]_pipelineVars

-----------------------------------------------------------------------------

TranslatedStages == {"translated", "accepted", "refused"}

(* Every message that the job holds ends as written or as unsupported,     *)
(* exactly one of the two, and an embedded message is written only inside  *)
(* the message that holds it: a translation names each message of its tree *)
(* once (item_keys, unsupported_item_keys), and what a rejection leaves    *)
(* behind is found by mark_stranded_embedded_candidates_unsupported.       *)
EveryItemSettled ==
  /\ stage \in TranslatedStages =>
       /\ IsInjective(part.keys)
       /\ ToSet(part.keys) \cap part.badKeys = {}
       /\ ToSet(part.keys) \cup part.badKeys = DOMAIN mail.items
  /\ stage = "done" =>
       \A k \in DOMAIN status :
          /\ status[k] \in {"written", "unsupported"}
          /\ status[k] = "written" /\ ledger.rows[k].parent # None =>
               status[ledger.rows[k].parent] = "written"

\* A source property that the translated message still carries.  A second 0x3007
\* or 0x3008 replaces the first, and both count as carried.
Kept(m, o, j) ==
  LET p == m.properties[j]
  IN \/ \E e \in o.raw \cup o.named \cup o.spooled \cup o.direct : e.from = j
     \/ /\ p.name = None /\ p.id # None /\ p.set = 0 /\ p.type # None
        /\ \/ p.id \in is_writer_managed \ (Bodies \cup FieldIds)
           \/ p.id = \h1000 /\ o.body /\ p.size = 0 /\ p.type = PtypUnicode
              /\ \A q \in 1..(j - 1) : m.properties[q].id # p.id
           \/ /\ p.id \in FieldIds /\ ~Deferred(p)
              /\ p.id \in OnceIds => \A q \in 1..(j - 1) :
                   m.properties[q].id = p.id => Deferred(m.properties[q]) \/ m.properties[q].type = None
              /\ CASE p.id = \h0E1F -> read_boolean(p) /\ Holds(o, \h1009)
                   [] p.id = \h1016 -> read_i32(p) /\ o.native = p.value
                   [] p.id = \h0E07 -> read_i32(p)
                   [] p.id = \h3FDE -> read_i32(p) /\ p.value > 0
                   [] OTHER -> p.type = PtypTime /\ scalar_property(p) = "ok"

LostProperties(m, o) == {j \in DOMAIN m.properties : ~Kept(m, o, j)}
Untimed(m) == {j \in DOMAIN m.properties :
                 /\ m.properties[j].id \in {\h3007, \h3008} /\ m.properties[j].name = None
                 /\ FieldFate(m.properties[j]) = "untimed" /\ m.properties[j].set = 0
                 /\ ~Deferred(m.properties[j]) /\ m.properties[j].type # None}

LostRecipientProperties(m) ==
  {<<k, j>> \in (DOMAIN m.recipients) \X (1..4) :
     j \in DOMAIN m.recipients[k].properties
     /\ ~recipient_property_is_reconstructed(m.recipients[k], m.recipients[k].properties[j])}

(* A message without attachments that the report calls complete carries    *)
(* every property of its source, and otherwise the report counts exactly   *)
(* the ones that are missing (omitted_properties of translate_message).    *)
(* A creation or modification time that a second one replaced is not a     *)
(* missing one.                                                            *)
OmissionsCounted ==
  stage \in {"translating", "translated"} =>
  \A i \in DOMAIN made :
    LET m == mail.items[i]
        o == made[i]
        lost == LostProperties(m, o)
        bad  == Cardinality({k \in 1..2 : Bad(<<m.submit, m.delivery>>[k])})
    IN m.attachments = <<>> =>
         /\ (lost # {} \/ LostRecipientProperties(m) # {} \/ bad > 0
               \/ Len(o.recipients) < Len(m.recipients)) => o.partial
         /\ o.omitted = Cardinality(lost \ Untimed(m)) + Cardinality(LostRecipientProperties(m)) + bad

\* Texts of a message that translate_message copies whatever their length.
CopiedTexts(m) ==
  {m.subject, m.senderName, m.senderEmail}
    \cup UNION {{m.recipients[k].name, m.recipients[k].email} : k \in DOMAIN m.recipients}
    \cup {m.attachments[k].filename : k \in DOMAIN m.attachments}

\* Rows of the attachment table at the least, in one page with the texts they show.
AttachmentTableBytes(m) ==
  Sum(LAMBDA k : 39 + (IF Full(m.attachments[k].filename) THEN m.attachments[k].filename
                       ELSE GeneratedTextBytes), DOMAIN m.attachments)

\* What translate_message lets through and validate_message does not take.
BeyondTranslator(m) ==
  \/ m.class = LongClass
  \/ \E text \in CopiedTexts(m) \ {None} : text > MaxUnicodeBytes
  \/ \E j \in DOMAIN m.properties :
       m.properties[j].name # None /\ NameBytes[m.properties[j].name] > MaxUnicodeBytes
  \/ 4 * Len(m.recipients) > MaxTableValues
  \/ AttachmentTableBytes(m) > 8056
  \/ \E j \in DOMAIN m.properties :
       LET p == m.properties[j]
       IN /\ p.name = None
          /\ \/ p.id \in Bodies /\ (p.size = 0 \/ ScalarWidths(p.type) # {})
             \/ contents_column_type(p.id) \notin {None, p.type}
  \/ \E k \in DOMAIN m.recipients : 0 \in {m.recipients[k].name, m.recipients[k].email}
  \/ \E k \in DOMAIN m.attachments : \E j \in DOMAIN m.attachments[k].properties :
       /\ m.attachments[k].properties[j].id \in DOMAIN AttachmentTexts
       /\ ~validate_unicode(m.attachments[k].properties[j].size)

Properties(m) == <<m.properties>> \o [k \in DOMAIN m.attachments |-> m.attachments[k].properties]
OverProperties(f(_), m) ==
  LET lists == Properties(m)
  IN Sum(LAMBDA k : Sum(LAMBDA j : f(lists[k][j]), DOMAIN lists[k]), DOMAIN lists)
PropertyNames(m) ==
  UNION {{p.name : p \in ToSet(Properties(m)[k])} : k \in DOMAIN Properties(m)} \ {None}

\* A value that is too large by itself is omitted, not written.
Weight(bytes) == IF bytes = None \/ bytes > MaxPropertyBytes THEN 0 ELSE bytes
Bulk(m) ==
  128 * Kibi + 16 * Kibi * Len(m.recipients) + OverProperties(LAMBDA p : Weight(p.declared), m)
    + Sum(LAMBDA k : 65 * Kibi + 2 * Weight(m.attachments[k].filename)
                       + Weight(m.attachments[k].declared), DOMAIN m.attachments)

\* And what it lets through of a message and the ones it holds together: too
\* many properties, too many bytes of them or of content, too long a list of names.
BeyondTogether ==
  LET over(f(_)) == Sum(LAMBDA i : f(mail.items[i]), DOMAIN mail.items)
      names == UNION {PropertyNames(mail.items[i]) : i \in DOMAIN mail.items}
      small(p) == IF p.declared <= Kibi * Kibi THEN p.declared ELSE 0
  IN \/ over(LAMBDA m : OverProperties(LAMBDA p : 1, m)) >= MaxFidelityCollectionItems
     \/ over(LAMBDA m : OverProperties(small, m)) > MaxCustomPropertyBytes
     \/ over(Bulk) > MaxPropertyBytes
     \/ Sum(LAMBDA n : NameBytes[n] + 6, names) > MaxFidelityPropertyBytes

SourceItem(k) == CHOOSE m \in ledger.source.items : m.key = k

\* What the catalog said of an attachment, and what the assembly made of it.
SameAttachment(a, b) ==
  /\ a.type = b.type /\ a.filename = b.filename /\ a.declared = b.declared
  /\ b.detected <=> (a.probed /\ a.type = "data")
  /\ b.complete <=> (a.type = "data" /\ a.outcome = "whole")
  /\ b.reference <=> (a.type = "reference" /\ a.outcome = "whole")
  /\ b.data <=> (a.type = "data" /\ a.outcome # "none" /\ ~(a.outcome = "cut" /\ a.declared = 0))
  /\ Len(b.properties) = Len(SelectSeq(a.properties, LAMBDA p : p.readable))

(* The events that the sink recorded for a message give back the message:  *)
(* as many recipients and readable properties, its attachments one by one, *)
(* embedded messages in the attachments that held them; and no job that the sink wrote is    *)
(* refused by the assembly or by the writer's layout, except in the three  *)
(* situations named below.                                                 *)
AssembledAsRecorded ==
  /\ stage = "assembled" =>
       \A k \in DOMAIN mail.items :
         LET m == SourceItem(k)
             o == mail.items[k]
         IN /\ Len(o.recipients) = Len(m.recipients)
            /\ Len(o.properties) = Len(SelectSeq(m.properties, LAMBDA p : p.readable))
            /\ Len(o.attachments) = Len(m.attachments)
            /\ \A n \in DOMAIN m.attachments :
                 /\ SameAttachment(m.attachments[n], o.attachments[n])
                 /\ o.attachments[n].embedded # None =>
                      LET c == SourceItem(o.attachments[n].embedded)
                      IN c.parent = k /\ c.slot = n
  /\ stage = "failed" =>
       \/ ~HeadersLoad
       \/ \E k \in TopLevel : Located(k).unit = None /\ Header(k).role = "DeletedItems"
       \/ \E k \in DOMAIN status :
            /\ status[k] = "spooled" /\ ledger.rows[k].parent # None
            /\ status[ledger.rows[k].parent] = "unsupported"

\* Only the child of the root is the IPM subtree.
OneIpmSubtree ==
  \A f \in ledger.folders : f.id = NidIpmSubtree => IsChildOf(f.address, Root)

(* The folder list and the folder of a message come from separate code in  *)
(* canonical.rs; they must name a folder alike, or its mail moves to a     *)
(* second folder with another class.  And a message that is accepted goes  *)
(* to a folder that the writer was opened with, or the append fails.       *)
FoldersAgree ==
  /\ stage = "open" /\ OneIpmSubtree =>
       \A f \in ledger.folders : Listed(ledger.folders, f) =>
         LET m == [unit |-> f.address, provenance |-> "normal"]
         IN /\ MessageFolder(ledger.folders, m) = FolderKey(ListedPath(ledger.folders, f))
            /\ candidate_folder_role(ledger.folders, m) = "DeletedItems" =>
                 load_canonical_folders(ledger.folders)[MessageFolder(ledger.folders, m)].role
                   = "DeletedItems"
  /\ stage = "accepted" => mail.items[mail.roots[1]].folder \in DOMAIN layout

\* Bytes of a tree that some reader takes into memory as a whole.
ReadWhole(t) ==
  LET attachment(j, k) ==
        LET spec == t.made[j].attachments[k]
        IN SizeSum(spec.raw) + SizeSum(AttachmentStreams(spec))
      message(j) == SizeSum(t.made[j].raw \cup t.made[j].named)
                      + SizeSum({e \in Streamed(t.made[j]) : e.id = \h1000})
                      + Sum(LAMBDA k : attachment(j, k), DOMAIN t.made[j].attachments)
  IN Sum(message, DOMAIN t.made)

(* The writer refuses mail only for reasons that are known.  Before it     *)
(* writes: the rules of translate_message (writer_input.rs) and of         *)
(* validate_message (writer.rs) are separate code, and where they differ a *)
(* usable message is lost as a whole although one omitted property would   *)
(* have done.  After it wrote: what message_properties and the attachment  *)
(* code stored for the messages that were appended, one after the other,   *)
(* is what the validate_completed functions of the finished part expect,   *)
(* whatever folders and classes the messages come from; only a message     *)
(* with more than a quarter of the reader's 64 MiB budget in values that a *)
(* reader takes whole may make the whole split fail.                       *)
RefusalKnown ==
  /\ stage = "refused" =>
       \/ \E i \in DOMAIN mail.items : BeyondTranslator(mail.items[i])
       \/ BeyondTogether
       \/ ~plan_folders(part.folders)
  /\ stage = "invalid" =>
       \E n \in DOMAIN pst : ReadWhole(pst[n]) > MaxMaterialized \div 4
=============================================================================
