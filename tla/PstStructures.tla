--------------------------- MODULE PstStructures ---------------------------
(***************************************************************************)
(* The blocks that the writer of pstforge-pst builds: data trees, subnode  *)
(* trees, property contexts and tables.  Sizes are in units of eight       *)
(* bytes, so that the header of a tree block is one unit, an entry of a    *)
(* data tree one, of a subnode leaf three and of a subnode branch two, and *)
(* the trailer of a block two; only the capacity of a block is scaled.     *)
(*                                                                         *)
(* A builder takes the next block index and returns what it built:         *)
(*   root    the block that a node or an entry refers to,                  *)
(*   blocks  the blocks in the order in which they are pushed or emitted,  *)
(*   next    the next block index.                                         *)
(* A block lists the blocks it refers to, and how many references the      *)
(* writer says it has.                                                     *)
(***************************************************************************)
EXTENDS PstAllocation, SequencesExt

CONSTANTS
  MaxPayload,   \* MAX_DATA_BLOCK_PAYLOAD
  TableHead,    \* a table context without rows
  RowUnits,     \* a row of its matrix
  ValueUnits,   \* the variable values of a row, in the heap
  LargeEvery,   \* one row of so many has a value above MAX_HEAP_ALLOCATION
  LargeUnits    \* such a value; texts are so limited that it fits in a block

BlockTrailer == 2

(***************************************************************************)
(* A block has room for one entry of any tree and for one row, and the     *)
(* largest block is no larger than the largest extent.                     *)
(***************************************************************************)
ASSUME StructureAssumption ==
  /\ MaxPayload \in Nat /\ 4 <= MaxPayload /\ RowUnits \in 1..MaxPayload
  /\ TableHead \in Nat /\ ValueUnits \in Nat
  /\ LargeEvery \in Nat \ {0} /\ LargeUnits \in 1..MaxPayload
  /\ align_up(MaxPayload + BlockTrailer, Slot) <= MaxExtent

MaxTreeEntries == MaxPayload - 1

SubnodeLeafCapacity == (MaxPayload - 1) \div 3

SubnodeIntermediateCapacity == (MaxPayload - 1) \div 2

MaxSubnodeTreeEntries == SubnodeLeafCapacity * SubnodeIntermediateCapacity

NoBlock == 0

physical_size(block) == align_up(block.size + BlockTrailer, Slot)

Data(id, size) == [id |-> id, size |-> size, refs |-> <<>>, rc |-> 2]

DataTree(id, refs) == [id |-> id, size |-> 1 + Len(refs), refs |-> refs, rc |-> 2]

Entry(node, data, sub) == [node |-> node, data |-> data, sub |-> sub]

EntryRefs(entries) ==
  FlattenSeq([e \in DOMAIN entries |->
                <<entries[e].data>>
                  \o (IF entries[e].sub = NoBlock THEN <<>> ELSE <<entries[e].sub>>)])

Subnode(id, entries) ==
  [id |-> id, size |-> 1 + 3 * Len(entries), refs |-> EntryRefs(entries), rc |-> 2]

IntermediateSubnode(id, refs) ==
  [id |-> id, size |-> 1 + 2 * Len(refs), refs |-> refs, rc |-> 2]

Ids(blocks) == [b \in DOMAIN blocks |-> blocks[b].id]

(* A sequence in pieces of at most n. *)
Chunks(seq, n) ==
  [g \in 1..DivCeil(Len(seq), n) |-> SubSeq(seq, (g - 1) * n + 1, AtMost(g * n, Len(seq)))]

Built(root, blocks, next) == [root |-> root, blocks |-> blocks, next |-> next]

(* Blocks over a run of references, one per piece. *)
Parents(refs, next, Block(_, _)) ==
  LET pieces == Chunks(refs, MaxTreeEntries)
  IN  [g \in DOMAIN pieces |-> Block(next + g - 1, pieces[g])]

(***************************************************************************)
(* A tree over leaves that are in memory: all leaves first, then the       *)
(* XBLOCKs over them, then the XXBLOCK over those.                         *)
(***************************************************************************)
append_data_tree_pages(sizes, next) ==
  LET leaves  == [p \in DOMAIN sizes |-> Data(next + p - 1, sizes[p])]
      above   == next + Len(leaves)
      xblocks == Parents(Ids(leaves), above, DataTree)
      top     == above + Len(xblocks)
  IN  IF Len(leaves) = 1 THEN Built(next, leaves, above)
      ELSE IF Len(xblocks) = 1 THEN Built(above, leaves \o xblocks, top)
      ELSE Built(top, leaves \o xblocks \o <<DataTree(top, Ids(xblocks))>>, top + 1)

(* The leaves of a value: all of them full but the last. *)
LeafSizes(size, chunk) ==
  [p \in 1..DivCeil(size, chunk) |-> AtMost(chunk, size - (p - 1) * chunk)]

append_data_tree(size, next) == append_data_tree_pages(LeafSizes(size, MaxPayload), next)

(* The rows of a matrix do not cross blocks; all but the last are padded. *)
append_row_matrix_data_tree(rows, next) ==
  LET perBlock == MaxPayload \div RowUnits
      blocks   == DivCeil(rows, perBlock)
  IN  append_data_tree_pages(
        [p \in 1..blocks |-> IF p < blocks THEN MaxPayload
                             ELSE (rows - (p - 1) * perBlock) * RowUnits], next)

(***************************************************************************)
(* A tree over a payload that is streamed: an XBLOCK is emitted as soon as *)
(* its leaves are full and more bytes follow, so that identifiers of       *)
(* leaves and XBLOCKs alternate.                                           *)
(***************************************************************************)
StreamedTree(sizes, next) ==
  LET groups  == Chunks(sizes, MaxTreeEntries)
      Start(g) == next + (g - 1) * (MaxTreeEntries + 1)
      Leaves(g) == [p \in DOMAIN groups[g] |-> Data(Start(g) + p - 1, groups[g][p])]
      XBlock(g) == DataTree(Start(g) + Len(groups[g]), Ids(Leaves(g)))
      streamed == FlattenSeq([g \in DOMAIN groups |-> Leaves(g) \o <<XBlock(g)>>])
      end      == next + Len(streamed)
  IN  IF Len(sizes) = 1 THEN Built(next, Leaves(1), next + 1)
      ELSE IF Len(groups) = 1 THEN Built(XBlock(1).id, streamed, end)
      ELSE Built(end, streamed \o <<DataTree(end, [g \in DOMAIN groups |-> XBlock(g).id])>>,
                 end + 1)

(* Block by block as they are read; an empty payload is one empty block. *)
append_reader_data_tree(size, next) ==
  StreamedTree(IF size = 0 THEN <<0>> ELSE LeafSizes(size, MaxPayload), next)

(***************************************************************************)
(* The code repeats that loop for a length that is only declared, which is *)
(* not zero.  One definition stands for both copies, so that nothing is    *)
(* shown here about their agreement.                                       *)
(***************************************************************************)
append_declared_data_tree(size, next) == StreamedTree(LeafSizes(size, MaxPayload), next)

StreamRefused(size, declared) ==
  \/ declared /\ size = 0
  \/ DivCeil(DivCeil(size, MaxPayload), MaxTreeEntries) > MaxTreeEntries

(* A subnode tree with an identifier of its own: leaves, then branches. *)
append_subnode_tree(entries, next) ==
  LET groups == Chunks(entries, SubnodeLeafCapacity)
      leaves == [g \in DOMAIN groups |-> Subnode(next + g - 1, groups[g])]
      top    == next + Len(leaves)
  IN  IF Len(leaves) = 1
      THEN Built(next, leaves, top)
      ELSE Built(top, leaves \o <<IntermediateSubnode(top, Ids(leaves))>>, top + 1)

(* A subnode tree whose root identifier was taken before. *)
append_subnode_tree_at(entries, root, next) ==
  IF Len(entries) <= SubnodeLeafCapacity
  THEN Built(root, <<Subnode(root, entries)>>, next)
  ELSE LET groups == Chunks(entries, SubnodeLeafCapacity)
           leaves == [g \in DOMAIN groups |-> Subnode(next + g - 1, groups[g])]
       IN  Built(root, leaves \o <<IntermediateSubnode(root, Ids(leaves))>>,
                 next + Len(leaves))

(* A property context on its preferred block, or on a tree of heap pages. *)
build_property_context(size, preferred, next) ==
  IF size <= MaxPayload
  THEN Built(preferred, <<Data(preferred, size)>>, next)
  ELSE append_data_tree_pages(<<MaxPayload>> \o LeafSizes(size, MaxPayload), next)

LargeRows(rows) == rows \div LargeEvery

table_context(rows) == TableHead + rows * (RowUnits + ValueUnits) + LargeRows(rows) * LargeUnits

Compact(rows) == table_context(rows) <= MaxPayload

(***************************************************************************)
(* A table with its row matrix and its large values in subnodes and its    *)
(* other values on heap pages behind the page of its header.  `sub` is the *)
(* root of its subnodes.                                                   *)
(***************************************************************************)
LargeValues(rows, next) == [v \in 1..LargeRows(rows) |-> Data(next + v - 1, LargeUnits)]

TableSubnodes(values, matrix) ==
  <<Entry(<<"matrix", 0>>, matrix.root, NoBlock)>>
    \o [v \in DOMAIN values |-> Entry(<<"value", v>>, values[v].id, NoBlock)]

MatrixUnder(values, matrix, sub) ==
  [sub |-> sub.root, next |-> sub.next, blocks |-> values \o matrix.blocks \o sub.blocks]

RowMatrix(values, matrix) ==
  MatrixUnder(values, matrix, append_subnode_tree(TableSubnodes(values, matrix), matrix.next))

HeapBehind(rows, heap) ==
  [root |-> heap.root, sub |-> rows.sub, next |-> heap.next,
   blocks |-> rows.blocks \o heap.blocks]

table_context_external(rows, next) ==
  LET matrix == RowMatrix(LargeValues(rows, next),
                          append_row_matrix_data_tree(rows, next + LargeRows(rows)))
      pages  == <<MaxPayload>> \o LeafSizes(rows * ValueUnits, MaxPayload)
  IN  HeapBehind(matrix, append_data_tree_pages(pages, matrix.next))

(* The compact form if it fits; it needs a new identifier if it has none. *)
build_table_context(rows, next, compact) ==
  IF ~Compact(rows)
  THEN table_context_external(rows, next)
  ELSE LET id == IF compact = NoBlock THEN next ELSE compact
       IN  [root |-> id, sub |-> NoBlock, blocks |-> <<Data(id, table_context(rows))>>,
            next |-> IF compact = NoBlock THEN next + 1 ELSE next]

(***************************************************************************)
(* Where a run of extents ends up, and where the cursor is behind it.      *)
(***************************************************************************)
PlacedAt(cursor, sizes, alignment) ==
  LET At[n \in 1..Len(sizes)] ==
        IF n = 1 THEN <<allocate_extent(cursor, sizes[1], alignment)>>
        ELSE LET before == At[n - 1]
             IN  Append(before, allocate_extent(before[n - 1] + sizes[n - 1], sizes[n], alignment))
  IN  IF sizes = <<>> THEN <<>> ELSE At[Len(sizes)]

PlacedEnd(cursor, sizes, alignment) ==
  LET at == PlacedAt(cursor, sizes, alignment)
  IN  IF sizes = <<>> THEN cursor ELSE at[Len(sizes)] + sizes[Len(sizes)]
=============================================================================
