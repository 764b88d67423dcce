--------------------------- MODULE PstAllocation ---------------------------
(***************************************************************************)
(* Where the writer of pstforge-pst puts the blocks and pages of a PST.    *)
(*                                                                         *)
(* From FirstAmap on the file is divided into regions of AmapData bytes.   *)
(* Each begins with an allocation map page, some of them with further map  *)
(* pages; the rest of the region is handed out by a cursor that only moves *)
(* forward.  Nothing here has state: these are the pure functions that     *)
(* the writer calls while it writes, and again when it projects the size   *)
(* of a file that it has not written.                                      *)
(***************************************************************************)
EXTENDS Integers, Sequences

CONSTANTS
  Slot,           \* SLOT_SIZE: what one bit of an allocation map stands for
  Page,           \* PAGE_SIZE
  SlotsPerAmap,   \* SLOTS_PER_AMAP
  FirstAmap,      \* FIRST_AMAP
  PmapEvery,      \* a page map follows every 8th allocation map
  FmapFirst, FmapEvery,     \* FMAP_FIRST_AMAP, FMAP_AMAP_COUNT
  FpmapFirst, FpmapEvery,   \* FPMAP_FIRST_AMAP, FPMAP_AMAP_COUNT
  MaxExtent       \* the largest block, rounded up to slots

AmapData == SlotsPerAmap * Slot

(***************************************************************************)
(* The geometry of the format, as weak as allocate_extent needs it: a      *)
(* region holds its map pages and any one extent, and everything is a      *)
(* whole number of slots and pages.                                        *)
(***************************************************************************)
ASSUME GeometryAssumption ==
  /\ Slot \in Nat \ {0} /\ Page \in Nat \ {0} /\ SlotsPerAmap \in Nat \ {0}
  /\ FirstAmap \in Nat /\ MaxExtent \in Nat \ {0}
  /\ PmapEvery \in Nat \ {0} /\ FmapEvery \in Nat \ {0} /\ FpmapEvery \in Nat \ {0}
  /\ FmapFirst \in Nat /\ FpmapFirst \in Nat
  /\ Page % Slot = 0 /\ AmapData % Page = 0 /\ FirstAmap % Page = 0
  /\ 4 * Page + MaxExtent <= AmapData
  /\ Page <= MaxExtent

DivCeil(a, b) == (a + b - 1) \div b

align_up(value, alignment) == DivCeil(value, alignment) * alignment

AtLeast(a, b) == IF a < b THEN b ELSE a

AtMost(a, b) == IF a < b THEN a ELSE b

(* A free map (a free page map) belongs to this allocation map. *)
Hosts(amap, first, every) == amap >= first /\ (amap - first) % every = 0

(***************************************************************************)
(* The map pages at the head of a region.  The free maps are only looked   *)
(* for where a page map is, so the tables of the format have to agree.     *)
(***************************************************************************)
reserved_map_page_count(amap) ==
  IF amap % PmapEvery # 0
  THEN 1
  ELSE 2 + (IF Hosts(amap, FmapFirst, FmapEvery) THEN 1 ELSE 0)
         + (IF Hosts(amap, FpmapFirst, FpmapEvery) THEN 1 ELSE 0)

Region(offset) == (offset - FirstAmap) \div AmapData

RegionStart(amap) == FirstAmap + amap * AmapData

ReservedEnd(amap) == RegionStart(amap) + reserved_map_page_count(amap) * Page

(* Mutant of PastMaps: only the allocation map itself is stepped over. *)
PastAmap(offset, alignment) ==
  IF offset < RegionStart(Region(offset)) + Page
  THEN align_up(RegionStart(Region(offset)) + Page, alignment)
  ELSE offset

(* Behind the map pages of its region. *)
PastMaps(offset, alignment) ==
  IF offset < ReservedEnd(Region(offset))
  THEN align_up(ReservedEnd(Region(offset)), alignment)
  ELSE offset

(***************************************************************************)
(* The offset of the next extent.  The loop of the source runs at most     *)
(* twice: what does not fit in a region is the first thing in the next.    *)
(***************************************************************************)
allocate_extent(cursor, size, alignment) ==
  LET first == align_up(cursor, alignment)
      next  == RegionStart(Region(first) + 1)
      here  == PastMaps(first, alignment)
  IN  IF here + size <= next THEN here ELSE PastMaps(next, alignment)

(* The regions a file needs for what was allocated up to this offset. *)
AmapCount(allocatedEnd) == AtLeast(DivCeil(allocatedEnd - FirstAmap, AmapData), 1)

allocation_file_eof(allocatedEnd) == RegionStart(AmapCount(allocatedEnd))

(* The balanced leaves of a B-tree over so many entries: their sizes. *)
plan_leaf_pages(entries, capacity) ==
  LET pages == DivCeil(entries, capacity)
  IN  [p \in 1..pages |-> (entries \div pages)
                            + (IF p <= entries % pages THEN 1 ELSE 0)]

(* Mutant of btree_page_count: the levels above the leaves are not counted. *)
LeavesOnly(entries, leafCapacity, capacity) == DivCeil(entries, leafCapacity)

(***************************************************************************)
(* The pages of a B-tree, level by level up to a single root.  Written as  *)
(* a function on the size of a level; a level is never as large again.     *)
(***************************************************************************)
btree_page_count(entries, leafCapacity, capacity) ==
  LET level == DivCeil(entries, leafCapacity)
      Above[n \in 1..level] ==
        IF n = 1 THEN 1 ELSE n + Above[DivCeil(n, capacity)]
  IN  Above[level]

(* The pages that are written: the leaves, then each level of parents. *)
WrittenPages(entries, leafCapacity, capacity) ==
  LET Above[n \in 1..entries] ==
        IF n = 1 THEN <<>>
        ELSE LET level == plan_leaf_pages(n, capacity)
             IN  level \o Above[Len(level)]
      leaves == plan_leaf_pages(entries, leafCapacity)
  IN  leaves \o Above[Len(leaves)]

(* The first slots of a region up to the end of what was allocated. *)
AllocatedSlots(amap, allocatedEnd) ==
  DivCeil(AtLeast(AtMost(allocatedEnd, RegionStart(amap + 1)), RegionStart(amap))
            - RegionStart(amap), Slot)

(* The slots whose bit write_allocation_pages sets. *)
AmapBits(amap, allocatedEnd) == 0..AllocatedSlots(amap, allocatedEnd) - 1

(* Where write_allocation_pages puts the map pages of a region. *)
MapPages(amap) ==
  {RegionStart(amap)} \cup
  {RegionStart(amap) + k * Page :
     k \in IF amap % PmapEvery # 0 THEN {}
           ELSE {1} \cup (IF Hosts(amap, FmapFirst, FmapEvery) THEN {2} ELSE {})
                    \cup (IF Hosts(amap, FpmapFirst, FpmapEvery)
                          THEN {IF Hosts(amap, FmapFirst, FmapEvery) THEN 3 ELSE 2}
                          ELSE {})}
=============================================================================
