----------------------------- MODULE HeapPages -----------------------------
(***************************************************************************)
(* The heap of a property context or of a table (heap_page,                *)
(* push_heap_allocation, fill_heap_page and their callers in               *)
(* pstforge-pst/src/writer.rs): one page if everything fits, otherwise     *)
(* values on continuation pages, the tree of records over them, padding    *)
(* that makes every page but the last exactly full, and fill levels kept   *)
(* in the first page and in every bitmap page.                             *)
(*                                                                         *)
(* A record is a property of the context or a row of the table with one    *)
(* variable value.  An allocation is what it holds and its bytes; the      *)
(* bytes themselves do not matter.                                         *)
(***************************************************************************)
EXTENDS Integers, Sequences, FiniteSets, SequencesExt

CONSTANTS
  Kinds,            \* "properties", "table"
  Sizes,            \* sizes of values; 0 is an empty or inline one
  MaxRecords,       \* bound: records of a heap
  MaxPage,          \* MAX_DATA_BLOCK_PAYLOAD, 8176
  MaxAllocation,    \* MAX_HEAP_ALLOCATION, 3580
  MaxProperty,      \* the largest property that stays on the heap, 2048
  HeadBytes,        \* the header of a tree, 8, and the columns of a table
  MaxIndex,         \* allocations that a heap id can name in a page, 2047
  MaxPages,         \* continuation pages that a heap id can name, 65535
  RootHeader, PageHeader, BitmapHeader,     \* 12, 2 and 66 bytes
  RootLevels, BitmapLevels,                 \* fill levels they hold: 8 and 128
  LeafRecord, BranchRecord,                 \* bytes of an entry of the tree: 8 and 6
  RowBytes                                  \* a row in a compact table

ASSUME HeapAssumption ==
  /\ Kinds \subseteq {"properties", "table"} /\ Sizes \subseteq Nat
  /\ {MaxRecords, MaxIndex, MaxPages, MaxPage, HeadBytes, RootLevels, BitmapLevels,
       LeafRecord, BranchRecord, RowBytes} \subseteq Nat \ {0}
  /\ {RootHeader, PageHeader, BitmapHeader, MaxAllocation, MaxProperty} \subseteq Nat
  /\ MaxProperty <= MaxAllocation /\ HeadBytes <= MaxAllocation /\ RootLevels < BitmapLevels
  /\ MaxAllocation >= 3 /\ MaxAllocation >= 2 * LeafRecord /\ MaxAllocation >= 2 * BranchRecord
  /\ PageHeader <= BitmapHeader /\ BitmapHeader + MaxAllocation + 12 <= MaxPage
  /\ RootHeader + 2 * HeadBytes + 14 <= MaxPage /\ MaxPage % 2 = 0 /\ MaxIndex >= 4

VARIABLES
  kind, values,     \* what the heap is for, and the size of each value
  pages,            \* continuation pages, each a sequence of allocations
  ids,              \* the reference stored in each record
  tree,             \* the finished levels of the tree of records, leaves first
  above,            \* the nodes of the level under construction
  level,            \* its number; levels above the leaves at the end
  built,            \* the finished pages
  phase

vars == <<kind, values, pages, ids, tree, above, level, built, phase>>

Alloc(what, l, n, size) == [what |-> what, level |-> l, n |-> n, size |-> size]
HeapId(page, index) == [page |-> page, index |-> index]
NoId == HeapId(0, 0)        \* an empty value
InNode(n) == HeapId(-1, n)  \* a value in a node of its own

Even(n) == n + (n % 2)
MapBytes(count) == 4 + 2 * (count + 1)

-----------------------------------------------------------------------------
(* A page: where its allocations begin and end, where its map is, how long.*)

HeaderBytes(p) ==
  CASE p = 0 -> RootHeader
    [] p > 0 /\ p % BitmapLevels = RootLevels -> BitmapHeader
    [] OTHER -> PageHeader

Ends(p, allocs) ==
  LET ends[n \in 0..Len(allocs)] ==
        IF n = 0 THEN HeaderBytes(p) ELSE ends[n - 1] + allocs[n].size
  IN ends

Laid(p, allocs) ==
  LET ends  == Ends(p, allocs)
      mapAt == Even(ends[Len(allocs)])
  IN [allocs |-> allocs, ends |-> ends, mapAt |-> mapAt,
      length |-> mapAt + MapBytes(Len(allocs)), levels |-> <<>>]

PageLength(p, allocs) == Laid(p, allocs).length

\* The head of the heap: the header of the tree, after the columns of a table.
HeadAllocs == IF kind = "table" THEN <<Alloc("columns", 0, 0, HeadBytes), Alloc("tree", 0, 0, HeadBytes)>>
              ELSE <<Alloc("tree", 0, 0, HeadBytes)>>

-----------------------------------------------------------------------------
(* The compact form.                                                       *)

\* A large property got a node of its own before (externalize_large_properties);
\* a compact table keeps values of any size.
OnHeap(n) == values[n] > 0 /\ (kind = "properties" => values[n] <= MaxProperty)
\* The values on the heap among the first n, in the order they are pushed.
Filled ==
  LET filled[n \in 0..Len(values)] ==
        IF n = 0 THEN <<>>
        ELSE IF OnHeap(n) THEN Append(filled[n - 1], n) ELSE filled[n - 1]
  IN filled
CompactAllocs ==
  LET filled == Filled[Len(values)] IN
  HeadAllocs \o <<Alloc("node", 0, 1, LeafRecord * Len(values))>>
    \o (IF kind = "table" THEN <<Alloc("matrix", 0, 0, RowBytes * Len(values))>> ELSE <<>>)
    \o [k \in 1..Len(filled) |-> Alloc("value", 0, filled[k], values[filled[k]])]
\* write_table_value and property_context count the allocations before a value
\* and give each its heap id before anything is measured.
CompactId(n) ==
  CASE values[n] = 0 -> NoId
    [] values[n] > 0 /\ ~OnHeap(n) -> InNode(n)
    [] OTHER -> HeapId(0, (IF kind = "table" THEN 4 ELSE 2) + Len(Filled[n]))
\* HeapId::new of the last value.
Nameable == Len(CompactAllocs) <= MaxIndex
Compact == Nameable /\ PageLength(0, CompactAllocs) <= MaxPage
\* property_context reports an index it cannot name as a heap that is too
\* large, and the context goes external; for a table it is an error of its own,
\* which build_table_context passes on.
TableRefused == kind = "table" /\ ~Nameable

-----------------------------------------------------------------------------
(* The external form.                                                      *)

\* Mutant: a page may be so full that no padding allocation fits.
RoomFor_exactly(p, allocs) == PageLength(p, allocs) <= MaxPage
\* Three bytes are left for one padding allocation and its entry in the map.
RoomFor(p, allocs) == PageLength(p, allocs) + 3 <= MaxPage

\* push_heap_allocation: on the last page, or on a new one.
OnLastPage(a) ==
  /\ pages # <<>>
  /\ RoomFor(Len(pages), Append(Last(pages), a))
PushedPages(a) ==
  IF OnLastPage(a) THEN Append(Front(pages), Append(Last(pages), a)) ELSE Append(pages, <<a>>)
PushedId(a) ==
  IF OnLastPage(a) THEN HeapId(Len(pages), Len(Last(pages)) + 1) ELSE HeapId(Len(pages) + 1, 1)
\* HeapId::new refuses an index of more than eleven bits; a page has sixteen.
PushRefused(a) == PushedId(a).index > MaxIndex \/ PushedId(a).page > MaxPages

\* What is left to pad after each of `need` padding allocations: each takes
\* all it may, and leaves a byte for every one behind it.
LeftToPad(need, bytes) ==
  LET left[k \in 0..need] ==
        IF k = 0 THEN bytes
        ELSE left[k - 1] - (IF left[k - 1] - (need - k) < MaxAllocation
                            THEN left[k - 1] - (need - k) ELSE MaxAllocation)
  IN left

\* fill_heap_page: as few padding allocations as their maximum allows, each
\* with an entry in the map; none is empty.
PaddingAfter(count, end) ==
  LET room(k) == MaxPage - MapBytes(count + k) - end
      enough  == {k \in 1..MaxPage : room(k) <= k * MaxAllocation}
      need    == CHOOSE k \in enough : \A j \in enough : k <= j
      left    == LeftToPad(need, room(need))
  IN IF room(need) < need THEN <<>>
     ELSE [k \in 1..need |-> Alloc("padding", 0, 0, left[k - 1] - left[k])]
Padding(page) == PaddingAfter(Len(page.allocs), page.ends[Len(page.allocs)])

FillFails(page) == page.length # MaxPage /\ Padding(page) = <<>>
fill_heap_page(p, page) ==
  IF page.length = MaxPage THEN page ELSE Laid(p, page.allocs \o Padding(page))

\* heap_fill_level: sixteen bands of free space, a unit of the level here.
heap_fill_level(length) == MaxPage - length

\* update_heap_fill_levels.
update_heap_fill_levels(all) ==
  LET slots(p) == IF p = 0 THEN RootLevels
                  ELSE IF p % BitmapLevels = RootLevels THEN BitmapLevels ELSE 0
      level_of(q) == IF q < Len(all) THEN heap_fill_level(all[q + 1].length) ELSE MaxPage
  IN [i \in DOMAIN all |->
        [all[i] EXCEPT !.levels = [s \in 1..slots(i - 1) |-> level_of(i - 1 + s - 1)]]]

RootPage == Laid(0, HeadAllocs)
RawPages == <<RootPage>> \o [p \in DOMAIN pages |-> Laid(p, pages[p])]
FilledPages == [i \in DOMAIN RawPages |->
                  IF i < Len(RawPages) THEN fill_heap_page(i - 1, RawPages[i]) ELSE RawPages[i]]

-----------------------------------------------------------------------------
Init ==
  /\ kind \in Kinds /\ values = <<>>
  /\ pages = <<>> /\ ids = <<>> /\ tree = <<>> /\ above = <<>> /\ level = 0
  /\ built = <<>> /\ phase = "input"

AddRecord(size) ==
  /\ phase = "input" /\ Len(values) < MaxRecords
  /\ values' = Append(values, size)
  /\ UNCHANGED <<kind, pages, ids, tree, above, level, built, phase>>

BuildCompact ==
  /\ phase = "input" /\ values # <<>> /\ Compact
  /\ ids' = [n \in DOMAIN values |-> CompactId(n)]
  /\ tree' = <<<<[from |-> 1, to |-> Len(values), id |-> HeapId(0, Len(HeadAllocs) + 1)]>>>>
  /\ built' = <<Laid(0, CompactAllocs)>> /\ phase' = "built"
  /\ UNCHANGED <<kind, values, pages, above, level>>

BeginExternal ==
  /\ phase = "input" /\ values # <<>> /\ ~Compact
  /\ phase' = IF TableRefused THEN "refused" ELSE "values"
  /\ UNCHANGED <<kind, values, pages, ids, tree, above, level, built>>

\* The next value: empty, on the heap, or in a node of its own.
PushValue ==
  /\ phase = "values" /\ Len(ids) < Len(values)
  /\ LET n == Len(ids) + 1
         a == Alloc("value", 0, n, values[n])
     IN CASE a.size = 0 -> ids' = Append(ids, NoId) /\ UNCHANGED <<pages, phase>>
          [] a.size > MaxAllocation \/ (a.size > 0 /\ ~OnHeap(n)) ->
               ids' = Append(ids, InNode(n)) /\ UNCHANGED <<pages, phase>>
          [] a.size \in 1..MaxAllocation /\ OnHeap(n) /\ PushRefused(a) ->
               phase' = "refused" /\ UNCHANGED <<pages, ids>>
          [] OTHER -> /\ pages' = PushedPages(a) /\ ids' = Append(ids, PushedId(a))
                      /\ UNCHANGED phase
  /\ UNCHANGED <<kind, values, tree, above, level, built>>

\* Records that an allocation of the tree holds.
EntryBytes(l) == IF l = 0 \/ kind = "table" THEN LeafRecord ELSE BranchRecord
PerNode(l) == MaxAllocation \div EntryBytes(l)

\* The next node of the level under construction, over `below` entries.
NextNode(below) ==
  LET from == Len(above) * PerNode(level) + 1
      to   == IF from + PerNode(level) - 1 < below THEN from + PerNode(level) - 1 ELSE below
  IN [from |-> from, to |-> to]
NodeAlloc(node) ==
  Alloc("node", level, Len(above) + 1, (node.to - node.from + 1) * EntryBytes(level))

PushNode(node) ==
  /\ IF PushRefused(NodeAlloc(node))
     THEN phase' = "refused" /\ UNCHANGED <<pages, above>>
     ELSE /\ pages' = PushedPages(NodeAlloc(node))
          /\ above' = Append(above, [from |-> node.from, to |-> node.to,
                                     id |-> PushedId(NodeAlloc(node))])
          /\ UNCHANGED phase
  /\ UNCHANGED <<tree, level>>

\* Leaves over the records, then branches until one node is left.
PushTree ==
  /\ phase = "values" /\ Len(ids) = Len(values)
  /\ LET below == IF level = 0 THEN Len(values) ELSE Len(tree[level])
     IN CASE NextNode(below).from <= below -> PushNode(NextNode(below))
          [] NextNode(below).from > below /\ Len(above) > 1 ->
               /\ tree' = Append(tree, above) /\ above' = <<>> /\ level' = level + 1
               /\ UNCHANGED <<pages, phase>>
          [] OTHER -> /\ tree' = Append(tree, above) /\ above' = <<>> /\ phase' = "pages"
                      /\ UNCHANGED <<pages, level>>
  /\ UNCHANGED <<kind, values, ids, built>>

BuildExternal ==
  /\ phase = "pages"
  /\ IF \E i \in 1..(Len(RawPages) - 1) : FillFails(RawPages[i])
     THEN phase' = "failed" /\ UNCHANGED built
     ELSE built' = update_heap_fill_levels(FilledPages) /\ phase' = "built"
  /\ UNCHANGED <<kind, values, pages, ids, tree, above, level>>

Over == phase \in {"built", "failed", "refused"} /\ UNCHANGED vars

Next ==
  \/ \E size \in Sizes : AddRecord(size)
  \/ BuildCompact \/ BeginExternal \/ PushValue \/ PushTree \/ BuildExternal \/ Over
Spec == Init /\ [][Next]_vars

-----------------------------------------------------------------------------
(* Properties.                                                             *)

\* find_entry: the allocation that a heap id names.
Found(id) == built[id.page + 1].allocs[id.index]
Resolves(id, what, l, n) ==
  /\ id.page + 1 \in DOMAIN built /\ id.index \in DOMAIN built[id.page + 1].allocs
  /\ Found(id).what = what /\ Found(id).level = l /\ Found(id).n = n

\* A heap id keeps its index in eleven bits and its page in sixteen.
Fits(id) == id.index <= MaxIndex /\ id.page <= MaxPages

\* Allocations lie one after the other between the header and the map, none
\* is empty, and a page that is not the last is full.
PageSound(p) ==
  LET page == built[p + 1]
  IN /\ \A k \in DOMAIN page.allocs :
          /\ page.ends[k - 1] < page.ends[k]
          /\ Len(built) > 1 => page.allocs[k].size <= MaxAllocation
     /\ page.ends[Len(page.allocs)] <= page.mapAt
     /\ page.length <= MaxPage /\ (p + 1 < Len(built) => page.length = MaxPage)

\* The page with the fill level of page p: the last bitmap page so far, or the first.
LevelsAt(p) ==
  LET bitmaps == {q \in 1..p : q % BitmapLevels = RootLevels}
  IN IF bitmaps = {} THEN 0 ELSE CHOOSE x \in bitmaps : \A y \in bitmaps : y <= x

\* The fill level of a page is where a reader looks for it.
LevelSound(p) ==
  built[LevelsAt(p) + 1].levels[p - LevelsAt(p) + 1] = heap_fill_level(built[p + 1].length)

\* The tree: every level covers the one below from end to end in order.
TreeSound ==
  /\ Len(tree) = level + 1 /\ Len(Last(tree)) = 1
  /\ \A l \in DOMAIN tree : \A k \in DOMAIN tree[l] :
       /\ Resolves(tree[l][k].id, "node", l - 1, k)
       /\ tree[l][k].from = (IF k = 1 THEN 1 ELSE tree[l][k - 1].to + 1)
       /\ k = Len(tree[l]) => tree[l][k].to = (IF l = 1 THEN Len(values) ELSE Len(tree[l - 1]))

\* What the writer stores is what a reader finds: every record is reached
\* through the tree, every heap id in it has bits enough and leads to its own
\* value, pages and fill levels are consistent, and padding a page never fails,
\* whatever the sizes of the values; a heap is refused only when a page holds as many
\* allocations, or the heap as many pages, as a heap id can count, or when it
\* is a table with more values than a heap id can count on one page, although
\* the external form could have held it.
HeapSound ==
  /\ phase # "failed"
  /\ phase = "refused" =>
       \/ Len(pages) = MaxPages \/ \E p \in DOMAIN pages : Len(pages[p]) = MaxIndex
       \/ TableRefused
  /\ phase = "built" =>
       /\ \A n \in DOMAIN values : ids[n].index > 0 /\ ids[n].page >= 0 =>
            Fits(ids[n]) /\ Resolves(ids[n], "value", 0, n)
       /\ \A n \in DOMAIN values :
            values[n] \in 1..MaxAllocation /\ OnHeap(n) => ids[n].page >= 0 /\ ids[n] # NoId
       /\ \A p \in 0..(Len(built) - 1) : PageSound(p)
       /\ Len(built) > 1 => \A p \in 0..(Len(built) - 1) : LevelSound(p)
       /\ TreeSound
=============================================================================
