----------------------------- MODULE PstWriter -----------------------------
(***************************************************************************)
(* TransactionalMailStoreWriter of pstforge-pst: a private file to which   *)
(* messages are appended one by one, with folders that are discovered on   *)
(* the way, and which finalization turns into a PST and publishes.         *)
(*                                                                         *)
(* A message is described by what its blocks depend on: the rows of its    *)
(* recipient table, its attachments, the sizes of the payloads that are    *)
(* streamed while it is built (`streams`), of the large properties that    *)
(* get a node of their own (`large`) and of its property context (`pc`).   *)
(* build_message_blocks works through it as a list of steps; an embedded   *)
(* message puts its own steps before the rest and a frame on the stack.    *)
(***************************************************************************)
EXTENDS PstStructures, StorePublication, FiniteSets

CONSTANTS
  Messages,       \* what may be appended
  Bodies,         \* the messages that may be embedded in another
  FolderSpecs,    \* the folders that may be observed: [key, role]
  MaximumBytes,   \* maximum_pst_bytes of append_message
  PreserveEmpty,  \* preserve_empty_folders
  NameUnits,      \* what one named identity adds to the entry stream of the map,
  BucketUnits,    \* and to its buckets
  BbtLeaf, NbtLeaf, BtreeBranch,   \* entries of a page of either B-tree
  EntryPoints,    \* the ways in which the caller appends
  MaxAppends,     \* bound: messages in the file
  MaxFailures     \* bound: appends that fail

(***************************************************************************)
(* What a message consists of.  Messages differ from Bodies in that they   *)
(* are appended by themselves, to a folder and with names of properties.   *)
(***************************************************************************)
Files == [kind : STRING, size : Nat, streams : Seq(Nat), large : Seq(Nat), pc : Nat]

Carriers ==
  [kind : {"embedded"}, message : Bodies, streams : Seq(Nat), large : Seq(Nat), pc : Nat]

ASSUME MessageAssumption ==
  /\ \A m \in Messages \cup Bodies :
       /\ m.recipients \in Nat /\ m.streams \in Seq(Nat) /\ m.large \in Seq(Nat)
       /\ m.pc \in Nat /\ m.attachments \in Seq(Files \cup Carriers)
       /\ \A a \in DOMAIN m.attachments :
            m.attachments[a].kind = "embedded" => m.attachments[a] \in Carriers
  /\ \A m \in Messages : m.names \in Seq(STRING) /\ m.associated \in BOOLEAN
ASSUME FolderAssumption == \A spec \in FolderSpecs : spec.key \in Seq(Nat) /\ Len(spec.key) > 1
ASSUME WriterAssumption ==
  /\ NameUnits \in Nat /\ BucketUnits \in Nat /\ BbtLeaf \in Nat \ {0} /\ NbtLeaf \in Nat \ {0}
  /\ BtreeBranch \in Nat \ {0, 1}
  /\ EntryPoints \subseteq {"deferred", "limited", "project", "preflighted", "whole"}

VARIABLES
  layout,      \* spec.folders, in the order in which they were observed
  names,       \* named_identities
  stream,      \* message_stream
  call,        \* the append or projection that is being executed
  batch,       \* the checkpoint of a batch
  projection,  \* what the last projection returned
  final,       \* finalization: its plan and how far it is
  failures     \* the appends that failed so far

writer == <<layout, names, stream, call, batch, projection, final, failures>>

vars == <<writer, output>>

NoCall == [kind |-> "none"]
NoBatch == [open |-> FALSE]
NoProjection == [message |-> "none"]
Open == [phase |-> "open"]

(* Node identifiers: their type and their index. *)
RootFolder == <<"folder", 9>>
IpmFolder == <<"folder", 1025>>
SearchRoot == <<"folder", 1026>>
DeletedFolder == <<"folder", 1027>>
MailFolderIndex == 1028
SpamSearch == <<"search", 273>>
MessageIndex == 65537

FirstData == ReservedEnd(0)
InitialFileEof == FirstAmap + AmapData

(***************************************************************************)
(* Folders.  A key is the location, 0 for the store root and 1 for the IPM *)
(* subtree, followed by the path.                                          *)
(***************************************************************************)
KeyLess(a, b) ==
  \/ \E n \in 1..AtMost(Len(a), Len(b)) :
       /\ a[n] < b[n]
       /\ \A k \in 1..n - 1 : a[k] = b[k]
  \/ Len(a) < Len(b) /\ \A k \in DOMAIN a : a[k] = b[k]

(* The folder itself and the folders above it. *)
PathPrefixes(key) == [depth \in 1..Len(key) - 1 |-> SubSeq(key, 1, depth + 1)]

Keys(folders) == {folders[f].key : f \in DOMAIN folders}

FolderAt(folders, key) == CHOOSE f \in DOMAIN folders : folders[f].key = key

RoleOf(folders, key) ==
  IF key \in Keys(folders) THEN folders[FolderAt(folders, key)].role ELSE "mail"

(* Mutant of transaction_folder_node: numbers in the order of the keys. *)
sorted_folder_node(folders, key) ==
  LET keys == UNION {ToSet(PathPrefixes(folders[f].key)) : f \in DOMAIN folders}
  IN  IF RoleOf(folders, key) = "deleted"
      THEN DeletedFolder
      ELSE <<"folder", MailFolderIndex + Cardinality({k \in keys : KeyLess(k, key)})>>

(* The paths that are observed before this one is, folder by folder. *)
ObservedBefore(folders, key) ==
  LET paths == [f \in DOMAIN folders |-> PathPrefixes(folders[f].key)]
      Unseen(f, depth) ==
        /\ \A g \in 1..f - 1 : key \notin ToSet(paths[g])
        /\ \A d \in 1..depth : paths[f][d] # key
  IN  UNION {{paths[f][d] : d \in {e \in DOMAIN paths[f] : Unseen(f, e)}} :
               f \in DOMAIN folders}

(* Folder nodes number the paths in the order in which they were seen. *)
transaction_folder_node(folders, key) ==
  IF RoleOf(folders, key) = "deleted"
  THEN DeletedFolder
  ELSE <<"folder", MailFolderIndex + Cardinality(ObservedBefore(folders, key))>>

(* What plan_folders_expected refuses of a layout. *)
LayoutRefused(folders) ==
  \/ \E f, g \in DOMAIN folders : f # g /\ folders[f].key = folders[g].key
  \/ \E f \in DOMAIN folders :
       folders[f].role = "deleted" /\ (folders[f].key[1] # 1 \/ Len(folders[f].key) # 2)
  \/ \E f, g \in DOMAIN folders :
       f # g /\ folders[f].role = "deleted" /\ folders[g].role = "deleted"

Empty(folder) == folder.messages = <<>> /\ folder.associated = <<>>

(* The folders of the finished store, in the order of their keys. *)
PlannedKeys(folders) ==
  LET keys == UNION {ToSet(PathPrefixes(folders[f].key)) :
                       f \in {g \in DOMAIN folders : PreserveEmpty \/ ~Empty(folders[g])}}
      Rank(key) == Cardinality({k \in keys : KeyLess(k, key)})
  IN  [n \in 1..Cardinality(keys) |-> CHOOSE key \in keys : Rank(key) = n - 1]

plan_transaction_folders(folders) ==
  LET keys == PlannedKeys(folders)
      Children(key) == {k \in ToSet(keys) : Len(k) = Len(key) + 1 /\ IsPrefix(key, k)}
      Here(key, field) ==
        IF key \in Keys(folders) THEN Len(folders[FolderAt(folders, key)][field]) ELSE 0
  IN  [p \in DOMAIN keys |->
         [key |-> keys[p], node |-> transaction_folder_node(folders, keys[p]),
          children |-> Cardinality(Children(keys[p])),
          messages |-> Here(keys[p], "messages"),
          associated |-> Here(keys[p], "associated")]]

(***************************************************************************)
(* The checkpoint of an append or of a batch, and what it restores.        *)
(***************************************************************************)
Lengths(folders) ==
  [f \in DOMAIN folders |-> <<Len(folders[f].messages), Len(folders[f].associated)>>]

checkpoint ==
  [fileLen |-> stream.fileLen, cursor |-> stream.cursor, next |-> stream.next,
   node |-> stream.node, written |-> Len(stream.written), rows |-> Len(stream.rows),
   associated |-> Len(stream.associated), tops |-> Len(stream.tops)]

Truncated(seq, n) == SubSeq(seq, 1, n)

restore(saved) ==
  [fileLen |-> saved.fileLen, cursor |-> saved.cursor, next |-> saved.next,
   node |-> saved.node,
   written |-> Truncated(stream.written, saved.written),
   rows |-> Truncated(stream.rows, saved.rows),
   associated |-> Truncated(stream.associated, saved.associated),
   tops |-> Truncated(stream.tops, saved.tops)]

TruncatedFolders(lengths) ==
  [f \in DOMAIN layout |->
     [layout[f] EXCEPT !.messages = Truncated(@, lengths[f][1]),
                       !.associated = Truncated(@, lengths[f][2])]]

begin_batch == [open |-> TRUE, stream |-> checkpoint, lengths |-> Lengths(layout)]

(***************************************************************************)
(* Finalization: the tables of every folder, the two hierarchies that are  *)
(* always there, the named-property map, the fixed blocks and the nodes.   *)
(***************************************************************************)
Shared(block, next) == [root |-> block, sub |-> NoBlock, blocks |-> <<>>, next |-> next]

(* One row tries the compact form on an identifier of its own. *)
ContentsTable(rows, preferred, next) ==
  IF rows = 1 /\ Compact(1)
  THEN build_table_context(1, next, preferred)
  ELSE table_context_external(rows, IF rows = 1 /\ preferred = NoBlock THEN next + 1 ELSE next)

(* What one planned folder needs: its property block and its three tables. *)
Want(form, rows, preferred) == [form |-> form, rows |-> rows, preferred |-> preferred]

WantTable(form, rows, preferred, shared) ==
  IF rows = 0 THEN Want("shared", 0, shared) ELSE Want(form, rows, preferred)

FolderBlocks(folder, isFirst) ==
  <<IF folder.node = DeletedFolder THEN Want("shared", 0, 8)
    ELSE Want("property", 0, IF isFirst THEN 10 ELSE NoBlock),
    WantTable("hierarchy", folder.children, NoBlock, 9),
    WantTable("contents", folder.messages, IF isFirst THEN 11 ELSE NoBlock, 5),
    WantTable("contents", folder.associated, NoBlock, 13)>>

(* A large entry stream gets a node of its own; the buckets may still need  *)
(* more than a page.                                                        *)
build_named_property_context(count, next) ==
  LET buckets == TableHead + count * BucketUnits
      size    == buckets + count * NameUnits
      tree    == append_data_tree(count * NameUnits, next)
      context == build_property_context(buckets, 2, tree.next)
      sub     == append_subnode_tree(<<Entry(<<"value", 0>>, tree.root, NoBlock)>>, context.next)
  IN  IF size <= MaxPayload
      THEN [root |-> 2, sub |-> NoBlock, blocks |-> <<Data(2, size)>>, next |-> next]
      ELSE [root |-> context.root, sub |-> sub.root, next |-> sub.next,
            blocks |-> tree.blocks \o context.blocks \o sub.blocks]

BuildWanted(want, next) ==
  CASE want.form = "shared" -> Shared(want.preferred, next)
    [] want.form = "property" ->
         Shared(IF want.preferred = NoBlock THEN next ELSE want.preferred,
                IF want.preferred = NoBlock THEN next + 1 ELSE next)
    [] want.form = "hierarchy" -> build_table_context(want.rows, next, want.preferred)
    [] want.form = "contents" -> ContentsTable(want.rows, want.preferred, next)
    [] want.form = "names" -> build_named_property_context(want.rows, next)

(* Everything in the order in which it takes its identifiers. *)
BuildInOrder(wanted, start) ==
  LET from == FoldLeft(LAMBDA nexts, want :
                         Append(nexts, BuildWanted(want, Last(nexts)).next), <<start>>, wanted)
  IN  [n \in 1..Len(wanted) |-> BuildWanted(wanted[n], from[n])]

Count(plans, Test(_)) == Cardinality({p \in DOMAIN plans : Test(plans[p])})

(***************************************************************************)
(* The reference counts that build_finalization_plan works out by hand for *)
(* the tables that folders share while they are empty.                     *)
(***************************************************************************)
(* Mutant of SharedRefCount: the planned Deleted Items is not looked at. *)
SharedByDefault(base, plans, field) ==
  base + 1 + Count(plans, LAMBDA plan : plan.node # DeletedFolder /\ plan[field] = 0)

SharedRefCount(base, plans, field) ==
  LET deleted == {p \in DOMAIN plans : plans[p].node = DeletedFolder}
      Mail(plan) == plan.node # DeletedFolder /\ plan[field] = 0
  IN  base + (IF \A p \in deleted : plans[p][field] = 0 THEN 1 ELSE 0) + Count(plans, Mail)

Counted(id, refs) == [Data(id, TableHead) EXCEPT !.rc = refs]

FixedBlocks(plans) ==
  [n \in 1..13 |-> Data(<<1, 3, 6, 8, 14, 15, 19, 20, 21, 22, 23, 24, 25>>[n], TableHead)]
    \o <<Data(26, 2), Counted(16, 3),
         Counted(5, SharedRefCount(5, plans, "messages")),
         Counted(9, SharedRefCount(3, plans, "children")),
         Counted(13, SharedRefCount(5, plans, "associated"))>>

Node(id, data, sub) == [node |-> id, data |-> data, sub |-> sub]

TableNodes(folder, tables) ==
  [t \in 1..3 |-> Node(<<<<"hierarchy", "contents", "associated">>[t], folder[2]>>,
                       tables[t].root, tables[t].sub)]

FolderNodes(done) ==
  <<Node(done.node, done.property, NoBlock)>> \o TableNodes(done.node, done.tables)

(* The nodes that every store has; some of them have no data. *)
FixedNodes(named, rootTable, ipmTable, deleted) ==
  <<Node(<<"store", 1>>, 1, NoBlock), Node(<<"names", 3>>, named.root, named.sub),
    Node(<<"queue", 15>>, NoBlock, NoBlock), Node(<<"activity", 16>>, 19, NoBlock),
    Node(<<"template", 1547>>, 20, NoBlock), Node(<<"template", 1548>>, 21, NoBlock),
    Node(<<"template", 1549>>, 9, NoBlock), Node(<<"template", 1550>>, 5, NoBlock),
    Node(<<"template", 1551>>, 13, NoBlock), Node(<<"template", 1552>>, 16, NoBlock),
    Node(<<"recipients", 1682>>, 17, NoBlock), Node(<<"attachments", 1649>>, 18, NoBlock),
    Node(<<"template", 1718>>, 22, NoBlock), Node(<<"template", 1751>>, 23, NoBlock),
    Node(<<"template", 1784>>, 24, NoBlock), Node(<<"map", 3073>>, 26, NoBlock),
    Node(<<"template", 3777>>, NoBlock, NoBlock),
    Node(RootFolder, 3, NoBlock), Node(IpmFolder, 6, NoBlock),
    Node(SearchRoot, 14, NoBlock), Node(SpamSearch, 15, NoBlock),
    Node(<<"updates", 273>>, NoBlock, NoBlock), Node(<<"criteria", 273>>, 25, NoBlock),
    Node(<<"found", 273>>, 16, NoBlock)>>
  \o TableNodes(RootFolder, <<rootTable, Shared(5, 0), Shared(13, 0)>>)
  \o TableNodes(IpmFolder, <<ipmTable, Shared(5, 0), Shared(13, 0)>>)
  \o TableNodes(SearchRoot, <<Shared(9, 0), Shared(5, 0), Shared(13, 0)>>)
  \o (IF deleted THEN <<>>
      ELSE <<Node(DeletedFolder, 8, NoBlock)>>
             \o TableNodes(DeletedFolder, <<Shared(9, 0), Shared(5, 0), Shared(13, 0)>>))

node_entries(fixed, folders, tops) ==
  fixed \o FlattenSeq([f \in DOMAIN folders |-> FolderNodes(folders[f])])
        \o [t \in DOMAIN tops |-> Node(tops[t].node, tops[t].property, tops[t].subnode)]

IdLess(a, b) == a.id < b.id

SortedById(blocks) ==
  LET sorted == SortSeq(blocks, IdLess)
  IN  [b \in 1..Len(blocks) |-> sorted[b]]

(* Every folder, the hierarchies of the root and the IPM subtree, the names. *)
WantedBlocks(plans, named) ==
  LET Top(location) == Count(plans, LAMBDA p : p.key[1] = location /\ Len(p.key) = 2
                                                 /\ p.node # DeletedFolder)
  IN  FlattenSeq([p \in DOMAIN plans |-> FolderBlocks(plans[p], p = 1)])
        \o <<Want("hierarchy", 3 + Top(0), 4), Want("hierarchy", 1 + Top(1), 7),
             Want("names", named, NoBlock)>>

PlannedFolders(plans, built) ==
  [p \in DOMAIN plans |-> [node |-> plans[p].node, property |-> built[4 * p - 3].root,
                           tables |-> SubSeq(built, 4 * p - 2, 4 * p)]]

PropertyBlocks(folders) ==
  FlattenSeq([f \in DOMAIN folders |->
                IF folders[f].node = DeletedFolder THEN <<>>
                ELSE <<Data(folders[f].property, TableHead)>>])

FinalizationPlan(plans, built, tops) ==
  LET folders == PlannedFolders(plans, built)
      always  == SubSeq(built, 4 * Len(plans) + 1, Len(built))
      deleted == \E f \in DOMAIN folders : folders[f].node = DeletedFolder
  IN  [plans |-> plans, next |-> Last(built).next,
       blocks |-> SortedById(FixedBlocks(plans) \o PropertyBlocks(folders)
                    \o FlattenSeq([b \in DOMAIN built |-> built[b].blocks])),
       nodes |-> node_entries(FixedNodes(always[3], always[1], always[2], deleted),
                              folders, tops)]

build_finalization_plan(folders, s, named) ==
  LET plans == plan_transaction_folders(folders)
  IN  FinalizationPlan(plans, BuildInOrder(WantedBlocks(plans, named), s.next), s.tops)

(* The rows that were streamed do not agree with the folders.  A planned    *)
(* folder takes the rows under its node away from those behind it.          *)
PlanRefused(plans, s) ==
  LET Rows(rows, p) == {r \in DOMAIN rows :
                          /\ rows[r].parent = plans[p].node
                          /\ \A q \in 1..p - 1 : plans[q].node # plans[p].node}
  IN  \/ \E p \in DOMAIN plans :
           \/ Cardinality(Rows(s.rows, p)) # plans[p].messages
           \/ Cardinality(Rows(s.associated, p)) # plans[p].associated
      \/ \E r \in DOMAIN s.rows : \A p \in DOMAIN plans : s.rows[r].parent # plans[p].node
      \/ \E r \in DOMAIN s.associated :
           \A p \in DOMAIN plans : s.associated[r].parent # plans[p].node

(* The pages of both B-trees behind the blocks, as they are projected. *)
IndexPages(blocks, nodes) ==
  [p \in 1..btree_page_count(blocks, BbtLeaf, BtreeBranch)
           + btree_page_count(nodes, NbtLeaf, BtreeBranch) |-> Page]

projected_finalized_file_eof(cursor, written, plan) ==
  LET sizes == [b \in DOMAIN plan.blocks |-> physical_size(plan.blocks[b])]
      end   == align_up(PlacedEnd(cursor, sizes, Slot), Page)
  IN  allocation_file_eof(
        PlacedEnd(end, IndexPages(written + Len(plan.blocks), Len(plan.nodes)), Page))

projected_file_eof(folders, s, named) ==
  projected_finalized_file_eof(s.cursor, Len(s.written),
                               build_finalization_plan(folders, s, named))
-----------------------------------------------------------------------------
(***************************************************************************)
(* Building one message.                                                   *)
(***************************************************************************)
Step(op, arg, local) == [op |-> op, arg |-> arg, local |-> local]

PayloadSteps(m, local) ==
  [s \in DOMAIN m.streams |-> Step("stream", m.streams[s], local)]
    \o [p \in DOMAIN m.large |-> Step("large", m.large[p], local)]

(* An empty OLE object is a property like any other. *)
ContentSteps(a) ==
  CASE a.kind = "embedded" -> <<Step("embed", a.message, TRUE)>>
    [] a.kind \in {"spooled", "ole"} /\ a.size > 0 -> <<Step("stream", a.size, TRUE)>>
    [] OTHER -> <<>>

AttachmentSteps(a) ==
  <<Step("attachment", 0, TRUE)>> \o ContentSteps(a) \o PayloadSteps(a, TRUE)
    \o <<Step("close", a.pc, TRUE)>>

StepsOf(m) ==
  <<Step("recipients", m.recipients, FALSE)>>
    \o FlattenSeq([a \in DOMAIN m.attachments |-> AttachmentSteps(m.attachments[a])])
    \o PayloadSteps(m, FALSE) \o <<Step("finish", m.pc, FALSE)>>

Frame(m, property, recipients, attachments) ==
  [message |-> m, property |-> property, recipients |-> recipients,
   attachments |-> attachments, subnodes |-> <<>>, dynamic |-> <<>>,
   table |-> <<>>, referenced |-> TRUE, attachment |-> NoBlock, local |-> <<>>,
   closed |-> 0]

Building == call.kind # "none" /\ call.stage = "build" /\ call.queue = <<>> /\ call.todo # <<>>

Doing(op) == Building /\ Head(call.todo).op = op

Now == call.frames[Len(call.frames)]

Changed(frame) == [call.frames EXCEPT ![Len(call.frames)] = frame]

(* The next step: the frame as it is now, and the blocks to emit. *)
Continue(frame, queue) ==
  call' = [call EXCEPT !.frames = Changed(frame), !.queue = queue, !.todo = Tail(@)]

WithEntry(frame, local, entry) ==
  IF local THEN [frame EXCEPT !.local = Append(@, entry)]
           ELSE [frame EXCEPT !.subnodes = Append(@, entry)]

(* The recipient table; the first message keeps a template of an external one. *)
BuildRecipients ==
  /\ Doing("recipients")
  /\ LET rows  == Head(call.todo).arg
         table == table_context_external(rows, stream.next)
         data  == IF Compact(rows) THEN Now.recipients ELSE table.root
         sub   == IF Compact(rows) THEN NoBlock ELSE table.sub
         entries == <<Entry(<<"recipients", 1682>>, data, sub),
                      Entry(<<"attachments", 1649>>, Now.attachments, NoBlock)>>
     IN  /\ stream' = [stream EXCEPT !.next = IF Compact(rows) THEN @ ELSE table.next]
         /\ Continue([Now EXCEPT
              !.subnodes = entries,
              !.dynamic = IF Compact(rows) THEN <<>> ELSE table.blocks,
              !.referenced = Compact(rows),
              !.table = IF Compact(rows) THEN <<rows>>
                        ELSE IF Now.recipients = 17 THEN <<0>> ELSE <<>>], <<>>)
  /\ UNCHANGED <<layout, names, batch, projection, final, failures>>

(* An attachment takes its block before anything of it is streamed. *)
BeginAttachment ==
  /\ Doing("attachment")
  /\ stream' = [stream EXCEPT !.next = @ + 1]
  /\ Continue([Now EXCEPT !.attachment = stream.next, !.local = <<>>], <<>>)
  /\ UNCHANGED <<layout, names, batch, projection, final, failures>>

(* A payload that is streamed: its blocks are emitted at once. *)
append_direct_properties ==
  /\ Doing("stream")
  /\ ~StreamRefused(Head(call.todo).arg, call.project)
  /\ LET size == Head(call.todo).arg
         tree == IF call.project THEN append_declared_data_tree(size, stream.next)
                                 ELSE append_reader_data_tree(size, stream.next)
     IN  /\ stream' = [stream EXCEPT !.next = tree.next, !.node = @ + 1]
         /\ Continue(WithEntry(Now, Head(call.todo).local,
                               Entry(<<"value", stream.node>>, tree.root, NoBlock)),
                     tree.blocks)
  /\ UNCHANGED <<layout, names, batch, projection, final, failures>>

(* A large property: its blocks are emitted with the message. *)
externalize_large_properties ==
  /\ Doing("large")
  /\ LET tree == append_data_tree(Head(call.todo).arg, stream.next)
     IN  /\ stream' = [stream EXCEPT !.next = tree.next, !.node = @ + 1]
         /\ Continue(WithEntry([Now EXCEPT !.dynamic = @ \o tree.blocks],
                               Head(call.todo).local,
                               Entry(<<"value", stream.node>>, tree.root, NoBlock)), <<>>)
  /\ UNCHANGED <<layout, names, batch, projection, final, failures>>

(* An embedded message is built inside its attachment, in a frame of its    *)
(* own; when it ends, what it built goes to the frame it was begun in.      *)
BeginEmbedded ==
  /\ Doing("embed")
  /\ LET m == Head(call.todo).arg
     IN  call' = [call EXCEPT
           !.frames = Append(@, Frame(m, stream.next, stream.next + 1, stream.next + 2)),
           !.todo = StepsOf(m) \o <<Step("embedded", Len(call.frames), TRUE)>> \o Tail(@)]
  /\ stream' = [stream EXCEPT !.next = @ + 3]
  /\ UNCHANGED <<layout, names, batch, projection, final, failures>>

EndEmbedded ==
  /\ Doing("embedded")
  /\ LET inner == Now
         depth == Head(call.todo).arg
         outer == call.frames[depth]
         tree  == append_subnode_tree_at(inner.subnodes, stream.next, stream.next + 1)
     IN  /\ call' = [call EXCEPT
              !.frames = Append(SubSeq(@, 1, depth - 1),
                [outer EXCEPT
                   !.dynamic = @ \o [t \in DOMAIN inner.table |->
                                       Data(inner.recipients, table_context(inner.table[t]))]
                                 \o <<Data(inner.attachments, table_context(inner.closed))>>
                                 \o tree.blocks \o inner.dynamic,
                   !.local = Append(@, Entry(<<"embedded", outer.closed>>,
                                             inner.property, tree.root))]),
              !.todo = Tail(@)]
         /\ stream' = [stream EXCEPT !.next = tree.next]
  /\ UNCHANGED <<layout, names, batch, projection, final, failures>>

(* The subnodes of an attachment are always one block. *)
EndAttachment ==
  /\ Doing("close")
  /\ LET context == build_property_context(Head(call.todo).arg, Now.attachment, stream.next)
         sub     == IF Now.local = <<>> THEN NoBlock ELSE context.next
     IN  /\ stream' = [stream EXCEPT
              !.next = IF sub = NoBlock THEN context.next ELSE context.next + 1]
         /\ Continue([Now EXCEPT
              !.dynamic = @ \o context.blocks
                            \o (IF sub = NoBlock THEN <<>> ELSE <<Subnode(sub, Now.local)>>),
              !.subnodes = Append(@, Entry(<<"attachment", Now.closed>>, context.root, sub)),
              !.closed = @ + 1], <<>>)
  /\ UNCHANGED <<layout, names, batch, projection, final, failures>>

(* The property context of the message; the attachment table has one page. *)
EndMessage ==
  /\ Doing("finish")
  /\ Compact(Now.closed)
  /\ LET context == build_property_context(Head(call.todo).arg, Now.property, stream.next)
     IN  /\ stream' = [stream EXCEPT !.next = context.next]
         /\ Continue([Now EXCEPT !.dynamic = @ \o context.blocks,
                                 !.property = context.root], <<>>)
  /\ UNCHANGED <<layout, names, batch, projection, final, failures>>

(* The tables of the first message are the templates of the store. *)
built_message_block_specs(frame, subnode, isFirst, next) ==
  LET tree == append_subnode_tree_at(frame.subnodes, subnode, next)
      recipients == [t \in DOMAIN frame.table |->
                       [Data(frame.recipients, table_context(frame.table[t]))
                          EXCEPT !.rc = IF isFirst /\ frame.referenced THEN 3 ELSE 2]]
      attachments == [Data(frame.attachments, table_context(frame.closed))
                        EXCEPT !.rc = IF isFirst THEN 3 ELSE 2]
  IN  [blocks |-> SortedById(recipients \o <<attachments>> \o tree.blocks \o frame.dynamic),
       next |-> tree.next]

TooManySubnodes(frame) == Len(frame.subnodes) > MaxSubnodeTreeEntries

(* The row, the node, and the rest of the blocks in the order of their ids. *)
PlaceMessage ==
  /\ call.kind # "none" /\ call.stage = "build" /\ call.queue = <<>> /\ call.todo = <<>>
  /\ ~TooManySubnodes(Now)
  /\ LET built == built_message_block_specs(Now, call.subnode, stream.tops = <<>>, stream.next)
         row   == [parent |-> call.parent, node |-> call.node]
     IN  /\ stream' = [stream EXCEPT
              !.next = built.next,
              !.rows = IF call.message.associated THEN @ ELSE Append(@, row),
              !.associated = IF call.message.associated THEN Append(@, row) ELSE @,
              !.tops = Append(@, [node |-> call.node, property |-> Now.property,
                                  subnode |-> call.subnode, parent |-> call.parent])]
         /\ call' = [call EXCEPT !.queue = built.blocks, !.stage = "emit"]
  /\ UNCHANGED <<layout, names, batch, projection, final, failures>>

(* Each block at the next extent. *)
Placed(s, blocks) ==
  LET sizes == [b \in DOMAIN blocks |-> physical_size(blocks[b])]
      at    == PlacedAt(s.cursor, sizes, Slot)
  IN  [s EXCEPT !.cursor = PlacedEnd(s.cursor, sizes, Slot),
                !.written = @ \o [b \in DOMAIN blocks |->
                                    [block |-> blocks[b], offset |-> at[b]]]]

Oversized(blocks) == \E b \in DOMAIN blocks : blocks[b].size \notin 0..MaxPayload

(***************************************************************************)
(* Every block is preceded by a look at the interrupt flag, but a failure  *)
(* after some of them is taken back like a failure before the first.       *)
(***************************************************************************)
emit ==
  /\ call.kind # "none" /\ call.queue # <<>>
  /\ ~Oversized(call.queue)
  /\ stream' = Placed(stream, call.queue)
  /\ call' = [call EXCEPT !.queue = <<>>]
  /\ UNCHANGED <<layout, names, batch, projection, final, failures>>
-----------------------------------------------------------------------------
(***************************************************************************)
(* The calls.  `kind` is the entry point: "deferred" leaves the size of    *)
(* the finished file to the caller, "limited" is append_message,           *)
(* "project" measures and takes back, "preflighted" appends what was       *)
(* measured, "whole" appends without measuring.                            *)
(***************************************************************************)
CanCall == call.kind = "none" /\ final.phase = "open"

(* Names that are not known yet, in the order of the message. *)
prepare_named_identities(m) ==
  LET Known(n) == ToSet(names) \cup {m.names[k] : k \in 1..n - 1}
  IN  names \o FlattenSeq([n \in DOMAIN m.names |->
                             IF m.names[n] \in Known(n) THEN <<>> ELSE <<m.names[n]>>])

(* The first message owns the fixed blocks 12, 17, 18 and 27.  A projection *)
(* is of the file as it is: it is used for the next append or not at all.   *)
BeginAppend(kind, m) ==
  /\ CanCall
  /\ m.folder \in Keys(layout)
  /\ Len(stream.tops) < MaxAppends
  /\ kind = "preflighted" => projection.message = m.id
  /\ kind \in {"project", "preflighted", "whole"} => m.direct
  /\ kind \in {"deferred", "limited"} => ~m.direct
  /\ LET f       == FolderAt(layout, m.folder)
         isFirst == stream.tops = <<>>
         ids     == IF isFirst THEN <<12, 17, 18, 27>>
                    ELSE [k \in 1..4 |-> stream.next + k - 1]
     IN  /\ names' = prepare_named_identities(m)
         /\ layout' = IF m.associated
                      THEN [layout EXCEPT ![f].associated = Append(@, m.id)]
                      ELSE [layout EXCEPT ![f].messages = Append(@, m.id)]
         /\ stream' = [stream EXCEPT !.next = IF isFirst THEN @ ELSE @ + 4]
         /\ call' = [kind |-> kind, message |-> m, project |-> kind = "project",
                     saved |-> begin_batch,
                     parent |-> transaction_folder_node(layout, m.folder),
                     node |-> <<IF m.associated THEN "assoc" ELSE "message",
                                MessageIndex + Len(stream.tops)>>,
                     subnode |-> ids[4],
                     frames |-> <<Frame(m, ids[1], ids[2], ids[3])>>,
                     todo |-> StepsOf(m), queue |-> <<>>, stage |-> "build"]
         /\ projection' = IF kind = "preflighted" THEN projection ELSE NoProjection
  /\ UNCHANGED <<batch, final, failures>>

(* What every failed or measured append leaves: all but the names. *)
TakeBack(saved) ==
  /\ stream' = restore(saved.stream)
  /\ layout' = TruncatedFolders(saved.lengths)

(* What no block, no tree and no one-page table can hold. *)
StepRefused ==
  \/ Doing("stream") /\ StreamRefused(Head(call.todo).arg, call.project)
  \/ Doing("finish") /\ ~Compact(Now.closed)
  \/ call.queue # <<>> /\ Oversized(call.queue)
  \/ call.stage = "build" /\ call.todo = <<>> /\ TooManySubnodes(Now)

(* An interrupt, a payload that fails, or something that is refused. *)
AppendFails ==
  /\ call.kind # "none"
  /\ failures < MaxFailures \/ StepRefused
  /\ TakeBack(call.saved)
  /\ call' = NoCall
  /\ failures' = AtMost(failures + 1, MaxFailures)
  /\ UNCHANGED <<names, batch, projection, final>>

Emitted == call.kind # "none" /\ call.stage = "emit" /\ call.queue = <<>>

AfterEmit == [stream EXCEPT !.fileLen = AtLeast(@, stream.cursor)]

ReturnAppend ==
  /\ Emitted /\ call.kind \in {"deferred", "whole"}
  /\ stream' = AfterEmit
  /\ call' = NoCall
  /\ UNCHANGED <<layout, names, batch, projection, final, failures>>

(* append_message: a message that does not fit is taken back, but not the first. *)
ReturnLimited ==
  /\ Emitted /\ call.kind = "limited"
  /\ IF /\ projected_file_eof(layout, AfterEmit, Len(names)) > MaximumBytes
        /\ Len(stream.tops) > 1
     THEN TakeBack(call.saved)
     ELSE stream' = AfterEmit /\ UNCHANGED layout
  /\ call' = NoCall
  /\ UNCHANGED <<names, batch, projection, final, failures>>

ReturnProjection ==
  /\ Emitted /\ call.kind = "project"
  /\ projection' = [message |-> call.message.id, private |-> AfterEmit.fileLen,
                    finalized |-> projected_file_eof(layout, AfterEmit, Len(names))]
  /\ TakeBack(call.saved)
  /\ call' = NoCall
  /\ UNCHANGED <<names, batch, final, failures>>

(* The private extent is compared; the finished one is left to finalization. *)
ReturnPreflighted ==
  /\ Emitted /\ call.kind = "preflighted"
  /\ IF AfterEmit.fileLen # projection.private
     THEN TakeBack(call.saved)
     ELSE stream' = AfterEmit /\ UNCHANGED layout
  /\ call' = NoCall
  /\ projection' = NoProjection
  /\ UNCHANGED <<names, batch, final, failures>>

observe_folder(spec) ==
  /\ CanCall
  /\ spec.key \notin Keys(layout)
  /\ LET added == Append(layout, [key |-> spec.key, role |-> spec.role,
                                  messages |-> <<>>, associated |-> <<>>])
     IN  ~LayoutRefused(added) /\ layout' = added
  /\ projection' = NoProjection
  /\ UNCHANGED <<names, stream, call, batch, final, failures>>

BeginBatch ==
  /\ CanCall /\ ~batch.open
  /\ batch' = begin_batch
  /\ UNCHANGED <<layout, names, stream, call, projection, final, failures>>

(* Refused if a folder was observed in between. *)
rollback_batch ==
  /\ CanCall /\ batch.open
  /\ DOMAIN batch.lengths = DOMAIN layout
  /\ TakeBack(batch)
  /\ batch' = NoBatch
  /\ projection' = NoProjection
  /\ UNCHANGED <<names, call, final, failures>>
-----------------------------------------------------------------------------
(***************************************************************************)
(* Finalization.  The writer is gone when it fails: nothing is rolled back *)
(* and the temporary file is removed.                                      *)
(***************************************************************************)
(* A plan may also need what no file can have, by data that is not in this  *)
(* model: a folder whose name and class do not fit on the page of its       *)
(* properties, more children than a table can name, more references to a    *)
(* shared block than sixteen bits count.                                    *)
TooLarge == [phase |-> "oversized"]

Planned(plan) ==
  IF PlanRefused(plan.plans, stream) THEN [phase |-> "refused"]
  ELSE IF Oversized(plan.blocks) THEN TooLarge
  ELSE [phase |-> "writing", queue |-> plan.blocks, nodes |-> plan.nodes,
        projected |-> projected_finalized_file_eof(stream.cursor, Len(stream.written), plan)]

Finalize ==
  /\ CanCall /\ stream.tops # <<>>
  /\ final' \in {Planned(build_finalization_plan(layout, stream, Len(names))), TooLarge}
  /\ batch' = NoBatch
  /\ projection' = NoProjection
  /\ UNCHANGED <<layout, names, stream, call, failures>>

write_blocks ==
  /\ final.phase = "writing" /\ final.queue # <<>>
  /\ stream' = Placed(stream, final.queue)
  /\ final' = [final EXCEPT !.queue = <<>>]
  /\ UNCHANGED <<layout, names, call, batch, projection, failures>>

(* The first folder in which something was accepted, and what is first in it. *)
FirstAssociated ==
  LET first == CHOOSE f \in DOMAIN layout :
                 ~Empty(layout[f]) /\ \A g \in 1..f - 1 : Empty(layout[g])
  IN  layout[first].messages = <<>>

(* The pages of both B-trees as they are written. *)
write_bbt == WrittenPages(Len(stream.written), BbtLeaf, BtreeBranch)

write_nbt == WrittenPages(Len(final.nodes), NbtLeaf, BtreeBranch)

(* Both B-trees, the maps and the header; the extent must be the projected one. *)
WriteIndexes ==
  /\ final.phase = "writing" /\ final.queue = <<>>
  /\ LET pages == PlacedAt(align_up(stream.cursor, Page),
                           [p \in 1..Len(write_bbt \o write_nbt) |-> Page], Page)
         end   == pages[Len(pages)] + Page
         agree == allocation_file_eof(end) = final.projected
     IN  /\ final' = [phase |-> IF agree THEN "sealed" ELSE "refused",
                      nodes |-> final.nodes, pages |-> pages, end |-> end]
         /\ output' = IF agree THEN output ELSE Ended(output, "failed")
  /\ UNCHANGED <<layout, names, stream, call, batch, projection, failures>>

NewStream ==
  [fileLen |-> InitialFileEof, cursor |-> FirstData, next |-> 28, node |-> 262144,
   written |-> <<>>, rows |-> <<>>, associated |-> <<>>, tops |-> <<>>]

(* finalize takes the writer by value: only the file goes on. *)
HandOver ==
  /\ final.phase = "sealed"
  /\ output' = [output EXCEPT !.phase = "sync", !.associated = FirstAssociated]
  /\ final' = [phase |-> "published"]
  /\ layout' = <<>> /\ names' = <<>> /\ stream' = NewStream /\ failures' = 0
  /\ UNCHANGED <<call, batch, projection>>

(* An interrupt or an error while the last blocks are written. *)
FinalizeFails ==
  /\ final.phase = "writing" /\ failures < MaxFailures
  /\ final' = [phase |-> "failed"]
  /\ failures' = failures + 1
  /\ output' = Ended(output, "failed")
  /\ UNCHANGED <<layout, names, stream, call, batch, projection>>

Init ==
  /\ layout = <<>> /\ names = <<>> /\ stream = NewStream
  /\ call = NoCall /\ batch = NoBatch /\ projection = NoProjection
  /\ final = Open /\ failures = 0
  /\ output = Private

Call ==
  \/ \E m \in Messages, kind \in EntryPoints : BeginAppend(kind, m)
  \/ \E spec \in FolderSpecs : observe_folder(spec)
  \/ BeginBatch \/ rollback_batch \/ Finalize

Work ==
  \/ BuildRecipients \/ BeginAttachment \/ append_direct_properties
  \/ externalize_large_properties \/ BeginEmbedded \/ EndEmbedded \/ EndAttachment
  \/ EndMessage \/ PlaceMessage \/ emit
  \/ ReturnAppend \/ ReturnLimited \/ ReturnProjection \/ ReturnPreflighted
  \/ write_blocks

Next ==
  \/ (Call \/ Work \/ AppendFails) /\ UNCHANGED output
  \/ WriteIndexes \/ FinalizeFails \/ HandOver
  \/ (Publishing \/ Around) /\ final.phase = "published" /\ UNCHANGED writer

(* finalize runs until it returns; a deadline passes by itself. *)
Fairness ==
  /\ WF_output(Publishing)
  /\ WF_output(DeadlinePasses)

Spec == Init /\ [][Next]_vars /\ Fairness
-----------------------------------------------------------------------------
Extents ==
  [w \in DOMAIN stream.written |->
     [offset |-> stream.written[w].offset,
      end |-> stream.written[w].offset + physical_size(stream.written[w].block)]]
  \o (IF final.phase # "sealed" THEN <<>>
      ELSE [p \in DOMAIN final.pages |->
              [offset |-> final.pages[p], end |-> final.pages[p] + Page]])

(* What the writer places never overlaps what it placed before, a map page  *)
(* of the format, or the border of an allocation map, whatever was rolled   *)
(* back in between; and in a sealed file every slot in use has its bit in   *)
(* the map of its region, inside the file.                                  *)
ExtentsSound ==
  LET extents == Extents
      Sound(e) ==
        LET region == Region(e.offset)
        IN  /\ e.end <= RegionStart(region + 1)
            /\ \A page \in MapPages(region) : e.offset >= page + Page
            /\ final.phase = "sealed" =>
                 /\ (e.end - RegionStart(region) - 1) \div Slot \in AmapBits(region, final.end)
                 /\ e.end <= allocation_file_eof(final.end)
  IN  /\ \A n \in DOMAIN extents : Sound(extents[n])
      /\ \A n \in 2..Len(extents) : extents[n].offset >= extents[n - 1].end

Blocks == {stream.written[w].block : w \in DOMAIN stream.written}

References ==
  FlattenSeq([w \in DOMAIN stream.written |-> stream.written[w].block.refs])
    \o FlattenSeq([n \in DOMAIN final.nodes |->
         SelectSeq(<<final.nodes[n].data, final.nodes[n].sub>>, LAMBDA b : b # NoBlock)])

(* A sealed file is one whole tree: no block or node is there twice, every  *)
(* reference leads to a block that was written, and the reference count of  *)
(* every block, added up by hand for the tables that folders share, is the  *)
(* number of references to it and one.                                      *)
ReferencesExact ==
  final.phase = "sealed" =>
    LET references == References
        ids == [w \in DOMAIN stream.written |-> stream.written[w].block.id]
        nodes == [n \in DOMAIN final.nodes |-> final.nodes[n].node]
    IN  /\ IsInjective(ids) /\ IsInjective(nodes)
        /\ ToSet(references) \subseteq ToSet(ids)
        /\ \A b \in Blocks :
             b.rc = 1 + Cardinality({r \in DOMAIN references : references[r] = b.id})

(* Whatever was appended, taken back and observed before, finalization does *)
(* not contradict itself: the plan accepts the rows that were streamed, and *)
(* the file that was written is as long as the projection said, level by    *)
(* level of both B-trees.                                                   *)
FinalizationAgrees == final.phase # "refused"

(* Between two calls there are as many streamed rows under the node that a  *)
(* folder has now as it has accepted messages, of each kind: a folder that  *)
(* is observed later never moves one that has messages.                     *)
RowsFollowFolders ==
  call.kind = "none" =>
    \A f \in DOMAIN layout :
      LET node == transaction_folder_node(layout, layout[f].key)
          Rows(rows) == {r \in DOMAIN rows : rows[r].parent = node}
      IN  /\ Cardinality(Rows(stream.rows)) = Len(layout[f].messages)
          /\ Cardinality(Rows(stream.associated)) = Len(layout[f].associated)

(* finalize returns, also when a reader of the finished file hangs, or is   *)
(* gone while something it started keeps its pipes open.                    *)
PublicationEnds == output.phase = "sync" ~> output.phase = "done"
=============================================================================
