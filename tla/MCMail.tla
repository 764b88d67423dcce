------------------------------- MODULE MCMail -------------------------------
EXTENDS MailPipeline

Property == [id |-> None, type |-> None, set |-> 0, name |-> None, size |-> 4, declared |-> 4,
             direct |-> FALSE, value |-> 1, good |-> TRUE, utf8 |-> TRUE, matches |-> TRUE, readable |-> TRUE]
P(id, type, size) == [Property EXCEPT !.id = id, !.type = type, !.size = size, !.declared = size]
N(name, type, size) == [P(\h8001, type, size) EXCEPT !.name = name]
BadBytes(p) == [p EXCEPT !.good = FALSE, !.utf8 = FALSE]
Unread(p) == [p EXCEPT !.readable = FALSE]

MessageProperties ==
  {P(None, PtypInteger32, 4), P(\h0036, None, 4), P(\h9000, PtypInteger32, 4),
   [P(\h0E28, PtypUnicode, 8) EXCEPT !.set = 1],
   P(\h0037, PtypUnicode, 12), P(\h0E1F, PtypBoolean, 2), P(\h0E1F, PtypInteger32, 4),
   P(\h1016, PtypInteger32, 4), [P(\h1016, PtypInteger32, 4) EXCEPT !.value = 3],
   [P(\h1016, PtypInteger32, 4) EXCEPT !.value = 9],
   P(\h0E07, PtypInteger32, 4), P(\h0E07, PtypInteger32, 3), P(\h3FDE, PtypInteger32, 4),
   [P(\h3FDE, PtypInteger32, 4) EXCEPT !.value = 0], P(\h0E07, PtypInteger32, 100 * Kibi),
   P(\h3007, PtypTime, 8), P(\h3008, PtypTime, 4), P(\h3008, PtypInteger32, 4),
   P(\h3001, PtypUnicode, 20), P(\h3001, PtypUnicode, 0), BadBytes(P(\h3001, PtypUnicode, 9)),
   P(\h0036, PtypInteger32, 4), P(\h0036, PtypUnicode, 4), P(\h0070, PtypUnicode, 0),
   P(\h0071, PtypBinary, 20 * Kibi), P(\h1000, PtypUnicode, 0), P(\h1000, PtypUnicode, 50),
   BadBytes(P(\h1000, PtypUnicode, 51)), P(\h1000, PtypUnicode, 900 * Kibi),
   P(\h1009, PtypBinary, 200), BadBytes(P(\h1009, PtypBinary, 200)), BadBytes(P(\h1009, PtypBinary, 80 * Kibi)),
   P(\h1013, PtypBinary, 300), BadBytes(P(\h1013, PtypBinary, 300)), P(\h1013, PtypBinary, MaxPropertyBytes + 1),
   P(\h1013, PtypBinary, 0), P(\h1000, PtypInteger32, 4), P(\h0E33, PtypInteger32, 4),
   P(\h6001, PtypInteger32, 4), P(\h6001, PtypInteger32, 5), P(\h6001, PtypUnicode, 60), P(\h6001, PtypObject, 4),
   N("n", PtypUnicode, 30), BadBytes(N("n", PtypUnicode, 30)), N("n", PtypBinary, 10), N("n", PtypInteger32, 3),
   N(Keywords, PtypMultipleUnicode, 40), [N(Keywords, PtypMultipleUnicode, 900) EXCEPT !.value = 400],
   N("8:8055", PtypMultipleBinary, 100), N("8:8054", PtypMultipleBinary, 100),
   [N("8:8054", PtypMultipleBinary, 200) EXCEPT !.value = 2], N("8:8055", PtypMultipleBinary, 15000),
   N(Checksum, PtypInteger32, 4), N("n", PtypUnicode, 90 * Kibi), Unread(P(\h6001, PtypUnicode, 60))}

AttachmentProperties ==
  {P(None, PtypInteger32, 4), [P(\h3705, PtypInteger32, 4) EXCEPT !.value = 6],
   [P(\h3705, PtypInteger32, 4) EXCEPT !.value = 7], [P(\h3705, PtypInteger32, 4) EXCEPT !.value = 2],
   P(\h3701, PtypObject, 4), P(\h3701, PtypBinary, 4), P(\h370D, PtypUnicode, 40), P(\h370D, PtypUnicode, 0),
   P(\h370E, PtypUnicode, 20), BadBytes(P(\h370E, PtypUnicode, 21)), P(\h3714, PtypInteger32, 4),
   P(\h3702, PtypBinary, 16), P(\h3702, PtypBinary, 90 * Kibi), P(\h3702, PtypBinary, 90 * Kibi),
   P(\h3712, PtypUnicode, 90 * Kibi), P(\h0E20, PtypInteger32, 4), P(\h6001, PtypInteger32, 4),
   [P(\h8002, PtypUnicode, 10) EXCEPT !.name = "AttachmentProviderType"],
   [P(\h8003, PtypInteger32, 4) EXCEPT !.name = "AttachmentPermissionType", !.value = 5]}

R == [index |-> 0, type |-> 1, name |-> 10, email |-> 20, smtp |-> TRUE, properties |-> <<>>]
Recipients ==
  {<<>>, <<R>>, <<[R EXCEPT !.name = None]>>, <<[R EXCEPT !.email = None]>>, <<[R EXCEPT !.name = 0]>>,
   <<[R EXCEPT !.name = None, !.email = None], R>>, <<[R EXCEPT !.type = 9]>>, <<[R EXCEPT !.smtp = FALSE]>>,
   <<[R EXCEPT !.properties = <<P(\h3001, PtypUnicode, 10), P(\h6002, PtypUnicode, 10), Unread(P(\h3002, PtypUnicode, 4))>>]>>}

A == [type |-> "data", filename |-> 20, declared |-> 5000, outcome |-> "whole", probed |-> FALSE, properties |-> <<>>]
Method(v) == [P(\h3705, PtypInteger32, 4) EXCEPT !.value = v]
Attachments ==
  {A, [A EXCEPT !.declared = 0, !.filename = None, !.probed = TRUE], [A EXCEPT !.declared = 90 * Kibi, !.filename = None],
   [A EXCEPT !.outcome = "cut"], [A EXCEPT !.outcome = "none"],
   [A EXCEPT !.declared = MaxPropertyBytes], [A EXCEPT !.declared = MaxPropertyBytes + 1]}
Reference(v) == [A EXCEPT !.type = "reference", !.declared = None, !.properties = <<Method(v)>>]
Embedded(ps) == [A EXCEPT !.type = "embedded", !.declared = None, !.properties = ps]
With(a, ps) == [a EXCEPT !.properties = @ \o ps]

Folder(address, id, name) == [address |-> address, id |-> id, name |-> name, class |-> None]
StoreRoot == Folder(<<>>, \h0122, None)
Ipm   == Folder(<<0>>, NidIpmSubtree, "Top of Outlook data file")
Inbox == Folder(<<0, 0>>, \h8082, "Inbox")
Trash == Folder(<<0, 1>>, NidDeletedItems, "Deleted Items")
Folders == {StoreRoot, Ipm, Inbox, Trash, Folder(<<1>>, NidSearchRoot, "Finder")}

M == [key |-> 1, node |-> 5, parent |-> None, slot |-> None, path |-> <<>>, unit |-> Inbox.address,
      provenance |-> "normal", class |-> "note", associated |-> FALSE, complete |-> TRUE, subject |-> 10,
      senderName |-> 10, senderEmail |-> 10, submit |-> "good", delivery |-> "good",
      recipients |-> <<>>, attachments |-> <<>>, properties |-> <<>>]
Store(items) == [mode |-> "full", folders |-> Folders, items |-> items]
Single(m) == Store({m})
Direct(S) == {[s EXCEPT !.mode = "bounded"] : s \in S}
Pairs(S) == {<<>>} \cup {<<p>> : p \in S} \cup {<<p, q>> : p, q \in S}

PropertyMails == {Single([M EXCEPT !.properties = ps]) : ps \in Pairs(MessageProperties)}
Bulky == {p \in MessageProperties : writer_stream_type_is_supported(p.type)}
DirectMails == Direct({Single([M EXCEPT !.properties = <<p>>]) : p \in MessageProperties}
                 \cup {Single([M EXCEPT !.properties = <<p, q>>]) : p \in Bulky, q \in Bulky})
ClassMails == {Single([M EXCEPT !.class = c, !.associated = assoc, !.properties = ps, !.subject = t]) :
                 c \in {None, "distlist", "document", "exception", "task", "appointment"}, assoc \in BOOLEAN, t \in {None, 10},
                 ps \in {<<>>} \cup {<<p>> : p \in MessageProperties}}
ListMails == {Single([M EXCEPT !.class = "distlist", !.properties = ps]) :
                ps \in [1..3 -> {p \in MessageProperties : p.name \in Members \cup {Checksum}}]}
HeaderMails == {Single([M EXCEPT !.recipients = r, !.senderName = n, !.senderEmail = e, !.submit = s, !.delivery = d,
                         !.complete = c]) :
                  r \in Recipients, n \in {None, 0, 10}, e \in {None, 10}, s \in {"none", "invalid", "good"},
                  d \in {"none", "invalid", "good"}, c \in BOOLEAN}
OneAttachment == {Single([M EXCEPT !.attachments = <<With(a, ps)>>]) : a \in Attachments, ps \in Pairs(AttachmentProperties)}
OleMails == {Single([M EXCEPT !.attachments = <<With(a, <<Method(6), k, p>>)>>]) :
               a \in Attachments, p \in AttachmentProperties,
               k \in {P(\h3701, PtypObject, 4), P(\h3701, PtypBinary, 4), P(\h370D, PtypUnicode, 40)}}
ReferenceMails == {Single([M EXCEPT !.attachments = <<With(Reference(v), <<k, p>>)>>]) :
               v \in {2, 7}, p \in AttachmentProperties, k \in {P(\h370D, PtypUnicode, 40), P(\h3708, PtypUnicode, 20)}}
AttachmentMails == OneAttachment \cup OleMails \cup ReferenceMails
  \cup Direct({Single([M EXCEPT !.attachments = <<With(a, <<p>>)>>]) : a \in Attachments, p \in AttachmentProperties})

\* A message, the messages it holds and the ones those hold.
Under(m, k, parent, slot) ==
  [m EXCEPT !.key = k, !.node = 5 + k, !.parent = parent.key, !.slot = slot, !.path = Append(parent.path, slot)]
Link == <<P(\h7FFA, PtypInteger32, 4), P(\h7FFB, PtypTime, 8), P(\h7FFC, PtypTime, 8),
          P(\h7FFD, PtypInteger32, 4), P(\h7FFE, PtypBoolean, 2)>>
Refusing == N("n", PtypInteger32, 3)
Tree(class, ps, c1, p1, class2, p2) ==
  LET top    == [M EXCEPT !.class = class, !.attachments = <<Embedded(ps), A, Embedded(<<>>)>>]
      middle == Under([M EXCEPT !.class = c1, !.properties = p1, !.attachments = <<Embedded(<<>>)>>], 2, top, 1)
  IN Store({top, middle, Under([M EXCEPT !.class = class2, !.properties = p2], 3, middle, 1),
            Under(M, 4, top, 3)})
TreeMails ==
  {Tree(class, ps, c1, p1, class2, p2) :
     class \in {"note", "appointment", None}, ps \in {<<>>, Link, SubSeq(Link, 1, 4)}, c1 \in {"note", "exception", "empty"},
     p1 \in {<<>>, <<Refusing>>}, class2 \in {"note", "exception", "empty"}, p2 \in {<<>>, <<Refusing>>}}
Missing == Store({[M EXCEPT !.attachments = <<[Embedded(<<>>) EXCEPT !.outcome = "none"]>>]})

\* Folders of every shape, with a message in each.
Extra == {Folder(<<0, 2>>, \h80A2, "Inbox"), Folder(<<0, 2>>, \h80A2, ""), Folder(<<0, 2>>, NidDeletedItems, "Inbox"),
          Folder(<<0, 2>>, \h80A2, LongName), Folder(<<2>>, \h80C2, "Drafts"), Folder(<<2>>, \h80C1, "Search"),
          Folder(<<2>>, NidIpmSubtree, "Second"), Folder(<<0, 0, 0>>, \h80E2, "Inner")}
FolderStores ==
  {[mode |-> "full", folders |-> Folders \cup {x},
    items |-> {[M EXCEPT !.unit = x.address], [M EXCEPT !.key = 2, !.unit = u, !.associated = assoc],
               [M EXCEPT !.key = 3, !.unit = None, !.provenance = v]}] :
     x \in Extra, u \in {<<>>, <<0>>, <<0, 1>>}, assoc \in BOOLEAN, v \in {"recovered", "orphan", "fragment"}}
DeepStore == [mode |-> "full", folders |-> Folders \cup {Folder(<<2>>, \h80C2, "a"), Folder(<<2, 0>>, \h80E2, "b"),
                Folder(<<2, 0, 0>>, \h8102, "c")}, items |-> {[M EXCEPT !.unit = <<2, 0, 0>>]}]
Rootless == [mode |-> "full", folders |-> {StoreRoot, Ipm, Inbox},
             items |-> {[M EXCEPT !.unit = None, !.provenance = "recovered"],
                        [M EXCEPT !.key = 2, !.unit = None, !.provenance = "orphan"]}]

\* Messages whose keys do not follow the order of their folders, with attachments or without.
PlacedStores ==
  {[mode |-> "full", folders |-> Folders \cup {Folder(<<2>>, \h80C2, "Drafts")},
    items |-> {[M EXCEPT !.unit = u, !.associated = assoc, !.properties = ps],
               [M EXCEPT !.key = 2, !.unit = v, !.attachments = as, !.recipients = <<R>>],
               [M EXCEPT !.key = 3, !.unit = w, !.class = c, !.associated = ~assoc]}] :
     u \in {Inbox.address, Trash.address}, v \in {Inbox.address, Trash.address, <<2>>}, w \in {Inbox.address, <<2>>},
     assoc \in BOOLEAN, as \in {<<>>, <<A, With(Reference(2), <<P(\h370D, PtypUnicode, 40)>>)>>},
     c \in {"note", "exception"}, ps \in {<<>>, <<Refusing>>}}
Huge == 65 * Kibi * Kibi
HugeMails == {Single([M EXCEPT !.attachments = <<With(a, <<P(\h3702, PtypBinary, n)>>)>>]) : a \in Attachments, n \in {9 * Kibi * Kibi, Huge}}
  \cup {Single([M EXCEPT !.properties = <<P(id, PtypUnicode, n)>>]) : id \in {\h1000, \h6001}, n \in {Kibi, Huge}}
  \cup {Tree("note", <<>>, "note", <<P(id, PtypUnicode, Huge)>>, "note", <<>>) : id \in {\h1000, \h6001}}

\* Mail at the limits of the writer and one step beyond them.
Texts == {4096, 4098}
Repeat(x, n) == [k \in 1..n |-> x]
LongNames == <<"w1", "w2", "w3", "w4">>
Numbered == [k \in 1..65 |-> ToString(k)]
Mebibytes(n) == [k \in 1..n |-> N(Numbered[k], PtypBinary, Kibi * Kibi)]
Heavy(n) == LET top == [M EXCEPT !.properties = Mebibytes(65), !.attachments = <<Embedded(<<>>)>>]
            IN Store({top, Under([M EXCEPT !.properties = Mebibytes(n)], 2, top, 1)})
LimitMails ==
  {Single([M EXCEPT !.subject = t]) : t \in Texts} \cup {Single([M EXCEPT !.senderName = t]) : t \in Texts}
  \cup {Single([M EXCEPT !.senderEmail = t, !.senderName = None]) : t \in Texts}
  \cup {Single([M EXCEPT !.recipients = <<[R EXCEPT !.name = t]>>]) : t \in Texts}
  \cup {Single([M EXCEPT !.recipients = <<[R EXCEPT !.email = t, !.name = None]>>]) : t \in Texts}
  \cup {Single([M EXCEPT !.recipients = Repeat(R, n)]) : n \in {4, 5}}
  \cup {Single([M EXCEPT !.class = LongClass])}
  \cup {Single([M EXCEPT !.attachments = <<[A EXCEPT !.filename = t]>>]) : t \in Texts}
  \cup {Single([M EXCEPT !.attachments = Repeat([A EXCEPT !.filename = t], 2)]) : t \in {3988, 3990}}
  \cup {Single([M EXCEPT !.attachments = Repeat([A EXCEPT !.filename = t], 40)]) : t \in {162, 164}}
  \cup {Single([M EXCEPT !.attachments = Repeat([A EXCEPT !.declared = MaxPropertyBytes \div 2], 2)])}
  \cup {Single([M EXCEPT !.properties = <<N(n, PtypInteger32, 4)>>]) : n \in {"w1", "too long"}}
  \cup {Single([M EXCEPT !.properties = [k \in 1..n |-> N(LongNames[k], PtypInteger32, 4)]]) : n \in {3, 4}}
  \cup {Single([M EXCEPT !.properties = Mebibytes(15)])} \cup {Heavy(n) : n \in {63, 64}}

BytesOfNames ==
  [n \in {"n", Keywords, Checksum, "too long"} \cup Members \cup AttachmentNames \cup ToSet(LongNames) \cup ToSet(Numbered) |->
     CASE n \in ToSet(LongNames) -> 4096 [] n = "too long" -> 4098
       [] n \in Members \cup {Checksum} -> 0 [] OTHER -> 20]

Names == <<"", "Deleted Items", "Drafts", "Finder", "Fragment Mail", "Inbox", "Inner", "Orphan Mail", "Recovered Folder",
           "Recovered Mail", "Search", "Second", "Top of Outlook data file", "Unfiled Mail", "a", "b", "c", LongName>>
RankOfNames == [text \in {Names[k] : k \in DOMAIN Names} |-> CHOOSE k \in DOMAIN Names : Names[k] = text]

AllSources == PropertyMails \cup DirectMails \cup ClassMails \cup ListMails \cup HeaderMails \cup AttachmentMails
                \cup TreeMails \cup {Missing, DeepStore, Rootless} \cup FolderStores
                \cup PlacedStores \cup HugeMails \cup LimitMails
=============================================================================
