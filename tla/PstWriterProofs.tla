-------------------------- MODULE PstWriterProofs --------------------------
(***************************************************************************)
(* Five facts about the writer, for every set of messages and folders and  *)
(* every geometry of the file that GeometryAssumption allows.              *)
(*                                                                         *)
(* What allocate_extent returns: an aligned extent behind the cursor,      *)
(* inside one region and behind all of its map pages.                      *)
(*                                                                         *)
(* A part is published whole or not at all: PublishedWhole is an           *)
(* invariant.  It is not inductive.  What a step of publication may rely   *)
(* on depends on the step it is: OutputInv says which checks a phase has   *)
(* behind it, what became of the temporary file, and that only a phase of  *)
(* a reader has a reader.  HandedOver says that nothing happens to the     *)
(* output before the writer hands it over.                                 *)
(*                                                                         *)
(* Extents never overlap: ExtentsSound is an invariant, with SpaceInv as   *)
(* the inductive one.  A call that fails, a measure and a batch that is    *)
(* taken back set the cursor back over what was written; SpaceInv says     *)
(* what a checkpoint has to do with the file for that to be harmless.      *)
(*                                                                         *)
(* The rows follow their folders: RowsFollowFolders is an invariant, with  *)
(* RowsInv as the inductive one.  The rows name a folder by a node that is *)
(* computed from the folders observed so far: it never changes as folders  *)
(* are observed, and no two folders have the same.                         *)
(*                                                                         *)
(* Finalization agrees with itself: FinalizationAgrees is an invariant.    *)
(* The rows are those that the plan looks for, by RowsInv and because the  *)
(* plan lists every path once; the file ends where the projection had it,  *)
(* because both count the same pages of the indexes.                       *)
(***************************************************************************)
EXTENDS PstWriter, FiniteSetTheorems, TLAPS

(***************************************************************************)
(* Division and multiples.                                                 *)
(***************************************************************************)
LEMMA DivBounds ==
  ASSUME NEW a \in Nat, NEW d \in Nat \ {0}
  PROVE  a \div d \in Nat /\ (a \div d) * d <= a /\ a < (a \div d) * d + d
  OBVIOUS

(* A quotient is determined by its bounds. *)
LEMMA DivUnique ==
  ASSUME NEW a \in Nat, NEW d \in Nat \ {0}, NEW q \in Nat, q * d <= a, a < q * d + d
  PROVE  a \div d = q
  OBVIOUS

(* A multiple has no remainder, and what has none is a multiple. *)
LEMMA MultipleMod ==
  ASSUME NEW k \in Nat, NEW d \in Nat \ {0}
  PROVE  (k * d) % d = 0
  OBVIOUS

LEMMA ModMultiple ==
  ASSUME NEW a \in Nat, NEW d \in Nat \ {0}, a % d = 0
  PROVE  \E k \in Nat : a = k * d
<1>1. a = (a \div d) * d /\ a \div d \in Nat
  OBVIOUS
<1> QED
  BY <1>1

(* Sums and products of multiples are multiples. *)
LEMMA SumOfMultiples ==
  ASSUME NEW a \in Nat, NEW b \in Nat, NEW d \in Nat \ {0}, a % d = 0, b % d = 0
  PROVE  (a + b) % d = 0
<1>1. PICK i \in Nat : a = i * d
  BY ModMultiple
<1>2. PICK j \in Nat : b = j * d
  BY ModMultiple
<1>3. a + b = (i + j) * d /\ i + j \in Nat
  BY <1>1, <1>2
<1> QED
  BY <1>3, MultipleMod

LEMMA ScaledMultiple ==
  ASSUME NEW a \in Nat, NEW k \in Nat, NEW d \in Nat \ {0}, a % d = 0
  PROVE  (k * a) % d = 0
<1>1. PICK i \in Nat : a = i * d
  BY ModMultiple
<1>2. k * a = (k * i) * d /\ k * i \in Nat
  BY <1>1
<1> QED
  BY <1>2, MultipleMod

(* A multiple of the page is a multiple of the slot. *)
LEMMA ModTransitive ==
  ASSUME NEW a \in Nat, NEW d \in Nat \ {0}, NEW e \in Nat \ {0}, a % d = 0, d % e = 0
  PROVE  a % e = 0
<1>1. PICK k \in Nat : a = k * d
  BY ModMultiple
<1> QED
  BY <1>1, ScaledMultiple

(***************************************************************************)
(* align_up rounds up to the next multiple, and leaves a multiple alone.   *)
(***************************************************************************)
LEMMA AlignUp ==
  ASSUME NEW v \in Nat, NEW a \in Nat \ {0}
  PROVE  /\ align_up(v, a) \in Nat /\ align_up(v, a) % a = 0
         /\ v <= align_up(v, a) /\ align_up(v, a) < v + a
         /\ v % a = 0 => align_up(v, a) = v
<1> DEFINE q == (v + a - 1) \div a
<1>1. q \in Nat /\ q * a <= v + a - 1 /\ v + a - 1 < q * a + a
  <2>1. v + a - 1 \in Nat
    OBVIOUS
  <2> QED
    BY <2>1, DivBounds
<1>2. align_up(v, a) = q * a
  BY DEF align_up, DivCeil
<1>3. q * a \in Nat /\ (q * a) % a = 0
  BY <1>1, MultipleMod
<1>4. v <= q * a /\ q * a < v + a
  <2> HIDE DEF q
  <2> QED
    BY <1>1, <1>3
<1>5. ASSUME v % a = 0 PROVE q * a = v
  <2>1. PICK k \in Nat : v = k * a
    BY <1>5, ModMultiple
  <2>2. k * a <= v + a - 1 /\ v + a - 1 < k * a + a
    BY <2>1
  <2>3. v + a - 1 \in Nat
    OBVIOUS
  <2>4. q = k
    BY <2>2, <2>3, DivUnique
  <2> QED
    BY <2>1, <2>4
<1> HIDE DEF q
<1> QED
  BY <1>2, <1>3, <1>4, <1>5

(***************************************************************************)
(* Regions.                                                                *)
(***************************************************************************)
LEMMA AmapDataPositive == AmapData \in Nat \ {0}
  BY GeometryAssumption DEF AmapData

LEMMA RegionStarts ==
  ASSUME NEW k \in Nat
  PROVE  RegionStart(k) \in Nat /\ RegionStart(k + 1) = RegionStart(k) + AmapData
         /\ FirstAmap <= RegionStart(k)
<1>1. k * AmapData \in Nat /\ (k + 1) * AmapData = k * AmapData + AmapData
  BY AmapDataPositive
<1> QED
  BY <1>1, AmapDataPositive, GeometryAssumption DEF RegionStart

(* Region finds the region an offset lies in, and there is only one. *)
LEMMA RegionBounds ==
  ASSUME NEW x \in Nat, FirstAmap <= x
  PROVE  /\ Region(x) \in Nat
         /\ RegionStart(Region(x)) <= x
         /\ x < RegionStart(Region(x) + 1)
<1>1. x - FirstAmap \in Nat
  BY GeometryAssumption
<1>2. /\ Region(x) \in Nat
      /\ Region(x) * AmapData <= x - FirstAmap
      /\ x - FirstAmap < Region(x) * AmapData + AmapData
  BY <1>1, AmapDataPositive, DivBounds DEF Region
<1>3. Region(x) * AmapData \in Nat
  BY <1>2, AmapDataPositive
<1>4. RegionStart(Region(x)) <= x
  BY <1>2, <1>3, GeometryAssumption DEF RegionStart
<1>5. x < RegionStart(Region(x)) + AmapData
  BY <1>2, <1>3, AmapDataPositive, GeometryAssumption DEF RegionStart
<1> QED
  BY <1>2, <1>4, <1>5, RegionStarts

LEMMA RegionUnique ==
  ASSUME NEW x \in Nat, NEW k \in Nat, RegionStart(k) <= x, x < RegionStart(k + 1)
  PROVE  Region(x) = k
<1>1. k * AmapData \in Nat
  BY AmapDataPositive
<1>2. k * AmapData <= x - FirstAmap /\ x - FirstAmap < k * AmapData + AmapData
      /\ x - FirstAmap \in Nat
  BY <1>1, RegionStarts, AmapDataPositive, GeometryAssumption DEF RegionStart
<1> QED
  BY <1>2, AmapDataPositive, DivUnique DEF Region

(* A region begins on a page of the file. *)
LEMMA RegionAligned ==
  ASSUME NEW k \in Nat
  PROVE  RegionStart(k) % Page = 0
<1>1. AmapData \in Nat /\ Page \in Nat \ {0} /\ AmapData % Page = 0
      /\ FirstAmap \in Nat /\ FirstAmap % Page = 0
  BY AmapDataPositive, GeometryAssumption
<1>2. (k * AmapData) % Page = 0
  BY ONLY <1>1, k \in Nat, ScaledMultiple
<1>3. k * AmapData \in Nat
  BY <1>1
<1>4. (FirstAmap + k * AmapData) % Page = 0
  <2> DEFINE m == k * AmapData
  <2>1. m \in Nat /\ m % Page = 0
    BY <1>2, <1>3
  <2> HIDE DEF m
  <2>2. (FirstAmap + m) % Page = 0
    BY ONLY <1>1, <2>1, SumOfMultiples
  <2> QED
    BY <2>2 DEF m
<1> QED
  BY <1>4 DEF RegionStart

(* Between one and four map pages; they end on a page of the file. *)
LEMMA ReservedEnds ==
  ASSUME NEW k \in Nat, NEW alignment \in {Slot, Page}
  PROVE  /\ reserved_map_page_count(k) \in 1..4
         /\ ReservedEnd(k) \in Nat /\ ReservedEnd(k) % alignment = 0
         /\ RegionStart(k) + Page <= ReservedEnd(k)
         /\ ReservedEnd(k) <= RegionStart(k) + 4 * Page
<1> DEFINE c == reserved_map_page_count(k)
<1>1. c \in 1..4
  BY DEF reserved_map_page_count
<1>2. c * Page \in Nat /\ Page <= c * Page /\ c * Page <= 4 * Page
  <2> HIDE DEF c
  <2>1. c = 1 \/ c = 2 \/ c = 3 \/ c = 4
    BY <1>1
  <2> QED
    BY <2>1, GeometryAssumption
<1>3. ReservedEnd(k) = RegionStart(k) + c * Page
  BY DEF ReservedEnd
<1>4. RegionStart(k) % Page = 0
  BY RegionAligned
<1>5. (c * Page) % Page = 0
  BY <1>1, GeometryAssumption, MultipleMod
<1> HIDE DEF c
<1>6. ReservedEnd(k) \in Nat /\ ReservedEnd(k) % Page = 0
  <2> DEFINE a == RegionStart(k)
             b == c * Page
  <2>1. a \in Nat /\ b \in Nat /\ a % Page = 0 /\ b % Page = 0 /\ Page \in Nat \ {0}
    BY <1>2, <1>4, <1>5, RegionStarts, GeometryAssumption
  <2>2. ReservedEnd(k) = a + b
    BY <1>3
  <2> HIDE DEF a, b
  <2>3. (a + b) % Page = 0
    BY <2>1, SumOfMultiples
  <2>4. a + b \in Nat
    BY <2>1
  <2> QED
    BY <2>2, <2>3, <2>4
<1>7. ReservedEnd(k) % alignment = 0
  <2>1. CASE alignment = Page
    BY <1>6, <2>1
  <2>2. CASE alignment = Slot
    BY <1>6, <2>2, GeometryAssumption, ModTransitive
  <2> QED
    BY <2>1, <2>2
<1> QED
  BY <1>1, <1>2, <1>3, <1>6, <1>7, RegionStarts, GeometryAssumption DEF c

(* The map pages of a region are where allocate_extent reserves them. *)
LEMMA MapPagesReserved ==
  ASSUME NEW k \in Nat, NEW page \in MapPages(k)
  PROVE  page + Page <= ReservedEnd(k)
<1>1. PICK j \in 0..(reserved_map_page_count(k) - 1) : page = RegionStart(k) + j * Page
  <2> DEFINE ks == IF k % PmapEvery # 0 THEN {}
                   ELSE {1} \cup (IF Hosts(k, FmapFirst, FmapEvery) THEN {2} ELSE {})
                            \cup (IF Hosts(k, FpmapFirst, FpmapEvery)
                                  THEN {IF Hosts(k, FmapFirst, FmapEvery) THEN 3 ELSE 2}
                                  ELSE {})
  <2>1. page = RegionStart(k) \/ \E i \in ks : page = RegionStart(k) + i * Page
    BY DEF MapPages
  <2>2. \A i \in ks : i \in 0..(reserved_map_page_count(k) - 1)
    BY DEF reserved_map_page_count
  <2>3. 0 \in 0..(reserved_map_page_count(k) - 1)
    BY DEF reserved_map_page_count
  <2>4. RegionStart(k) = RegionStart(k) + 0 * Page
    BY RegionStarts, GeometryAssumption
  <2> HIDE DEF ks
  <2> QED
    BY <2>1, <2>2, <2>3, <2>4
<1>2. reserved_map_page_count(k) \in 1..4
  BY DEF reserved_map_page_count
<1>3. j * Page + Page <= reserved_map_page_count(k) * Page
  <2>1. \A c \in 1..4 : \A i \in 0..(c - 1) : i * Page + Page <= c * Page
    BY GeometryAssumption
  <2> QED
    BY <1>2, <2>1
<1> QED
  BY <1>1, <1>2, <1>3, RegionStarts, GeometryAssumption DEF ReservedEnd

(***************************************************************************)
(* Behind the map pages, and not further than needed.                      *)
(***************************************************************************)
LEMMA PastMapsBounds ==
  ASSUME NEW x \in Nat, FirstAmap <= x, NEW alignment \in {Slot, Page}, x % alignment = 0
  PROVE  LET k == Region(x)
             p == PastMaps(x, alignment)
         IN  /\ k \in Nat /\ p \in Nat /\ p % alignment = 0 /\ x <= p
             /\ RegionStart(k) <= p /\ ReservedEnd(k) <= p
             /\ p = x \/ p = ReservedEnd(k)
<1>1. Region(x) \in Nat /\ RegionStart(Region(x)) <= x
  BY RegionBounds
<1>2. ReservedEnd(Region(x)) \in Nat /\ ReservedEnd(Region(x)) % alignment = 0
      /\ RegionStart(Region(x)) <= ReservedEnd(Region(x))
  <2> DEFINE k == Region(x)
  <2>1. k \in Nat
    BY <1>1
  <2> HIDE DEF k
  <2>2. /\ ReservedEnd(k) \in Nat /\ ReservedEnd(k) % alignment = 0
        /\ RegionStart(k) + Page <= ReservedEnd(k)
    BY <2>1, ReservedEnds
  <2>3. RegionStart(k) \in Nat /\ Page \in Nat
    BY <2>1, RegionStarts, GeometryAssumption
  <2>4. RegionStart(k) <= ReservedEnd(k)
    BY ONLY <2>2, <2>3
  <2> QED
    BY <2>2, <2>4 DEF k
<1>3. alignment \in Nat \ {0}
  BY GeometryAssumption
<1>4. align_up(ReservedEnd(Region(x)), alignment) = ReservedEnd(Region(x))
  BY <1>2, <1>3, AlignUp
<1> QED
  BY <1>1, <1>2, <1>4, RegionStarts DEF PastMaps

(***************************************************************************)
(* The extent that allocate_extent returns for a block or a page is        *)
(* aligned and behind the cursor, so it overlaps nothing allocated before; *)
(* it lies in one region, behind every map page of that region, and ends   *)
(* before the next region begins.  The loop of the source therefore ends   *)
(* after its second round.                                                 *)
(***************************************************************************)
THEOREM ExtentPlaced ==
  ASSUME NEW cursor \in Nat, FirstAmap <= cursor, NEW size \in 1..MaxExtent,
         NEW alignment \in {Slot, Page}
  PROVE  LET offset == allocate_extent(cursor, size, alignment)
             region == Region(offset)
         IN  /\ offset \in Nat /\ offset % alignment = 0 /\ cursor <= offset
             /\ \A page \in MapPages(region) : page + Page <= offset
             /\ offset + size <= RegionStart(region + 1)
<1> DEFINE first  == align_up(cursor, alignment)
           k      == Region(first)
           next   == RegionStart(k + 1)
           here   == PastMaps(first, alignment)
           offset == allocate_extent(cursor, size, alignment)
<1>1. first \in Nat /\ first % alignment = 0 /\ cursor <= first
  BY AlignUp, GeometryAssumption
<1>2. k \in Nat /\ RegionStart(k) <= first /\ first < next
  BY <1>1, RegionBounds, GeometryAssumption
<1>3. /\ here \in Nat /\ here % alignment = 0 /\ first <= here
      /\ RegionStart(k) <= here /\ ReservedEnd(k) <= here
  BY <1>1, PastMapsBounds, GeometryAssumption
<1>4. offset = IF here + size <= next THEN here ELSE PastMaps(next, alignment)
  BY DEF allocate_extent
<1>5. next \in Nat /\ k + 1 \in Nat /\ FirstAmap <= next /\ RegionStart(k + 2) = next + AmapData
  BY <1>2, RegionStarts
<1>6. ASSUME NEW r \in Nat, offset \in Nat, RegionStart(r) <= offset, ReservedEnd(r) <= offset,
             offset + size <= RegionStart(r + 1)
      PROVE  /\ \A page \in MapPages(Region(offset)) : page + Page <= offset
             /\ offset + size <= RegionStart(Region(offset) + 1)
  <2>1. Region(offset) = r
    BY <1>6, RegionUnique, RegionStarts, GeometryAssumption
  <2>2. ASSUME NEW page \in MapPages(r) PROVE page + Page <= offset
    <3>1. page + Page <= ReservedEnd(r)
      BY MapPagesReserved
    <3>2. page \in Int
      BY RegionStarts, GeometryAssumption DEF MapPages
    <3>3. ReservedEnd(r) \in Nat
      BY ReservedEnds
    <3> QED
      BY <1>6, <3>1, <3>2, <3>3, GeometryAssumption
  <2> QED
    BY <1>6, <2>1, <2>2
<1>7. CASE here + size <= next
  BY <1>1, <1>2, <1>3, <1>4, <1>6, <1>7
<1>8. CASE ~(here + size <= next)
  <2>1. offset = PastMaps(next, alignment)
    BY <1>4, <1>8
  <2>2. Region(next) = k + 1
    <3> DEFINE n == k + 1
    <3>1. n \in Nat /\ RegionStart(n) = next /\ next \in Nat
      BY <1>5
    <3> HIDE DEF n, next
    <3>2. RegionStart(n + 1) = next + AmapData
      BY <3>1, RegionStarts
    <3>3. RegionStart(n) <= next /\ next < RegionStart(n + 1)
      BY <3>1, <3>2, AmapDataPositive
    <3>4. Region(next) = n
      BY <3>1, <3>3, RegionUnique
    <3> QED
      BY <3>4 DEF n
  <2>3. next % alignment = 0
    <3>2. next % Page = 0
      BY <1>5, RegionAligned
    <3> QED
      BY <1>5, <3>2, GeometryAssumption, ModTransitive
  <2>4. /\ offset \in Nat /\ offset % alignment = 0 /\ next <= offset
        /\ ReservedEnd(k + 1) <= offset
        /\ offset = next \/ offset = ReservedEnd(k + 1)
    BY <1>5, <2>1, <2>2, <2>3, PastMapsBounds
  <2>5. ReservedEnd(k + 1) \in Nat /\ ReservedEnd(k + 1) <= next + 4 * Page
        /\ next + Page <= ReservedEnd(k + 1)
    BY <1>5, ReservedEnds
  <2>6. offset + size <= RegionStart(k + 2)
    BY <1>5, <2>4, <2>5, AmapDataPositive, GeometryAssumption
  <2>7. cursor <= offset
    BY <1>1, <1>2, <1>5, <2>4
  <2> HIDE DEF k, next, offset, first, here
  <2>8. RegionStart((k + 1) + 1) = RegionStart(k + 2) /\ RegionStart(k + 1) <= offset
    <3>1. (k + 1) + 1 = k + 2
      BY <1>2 DEF k
    <3> QED
      BY <2>4, <3>1 DEF next
  <2> QED
    BY <1>5, <1>6, <2>4, <2>6, <2>7, <2>8 DEF offset
<1> QED
  BY <1>7, <1>8

-----------------------------------------------------------------------------
(* Publication.                                                            *)

Phases == {"private", "sync", "indexes", "store", "folders", "pffinfo", "readpst",
           "rename", "directory", "verify", "done"}
Results == {"none", "ok", "durability", "changed", "invalid", "failed", "interrupted", "exists"}

Outputs ==
  [phase : Phases, result : Results, dest : {"absent", "ours", "foreign"},
   temp : {"held", "removed", "retained", "published"},
   renamed : BOOLEAN, interrupted : BOOLEAN, associated : BOOLEAN,
   passed : SUBSET Phases, child : {"none", "running", "ok", "bad"},
   pipes : BOOLEAN, expired : BOOLEAN]

OutputType == output \in Outputs

Late == {"rename", "directory", "verify"}

(* In one of these phases, or past the readers when they ran. *)
Behind(phases) ==
  \/ output.phase \in phases
  \/ output.phase \in Late /\ ValidateOutput

Progress ==
  /\ output.phase \in {"indexes", "store", "folders", "pffinfo", "readpst"} \cup Late
       => "sync" \in output.passed
  /\ output.phase \in {"store", "folders", "pffinfo", "readpst"} \cup Late
       => "indexes" \in output.passed
  /\ Behind({"folders", "pffinfo", "readpst"}) => output.associated \/ "store" \in output.passed
  /\ Behind({"pffinfo", "readpst"}) => "folders" \in output.passed
  /\ Behind({"readpst"}) => "pffinfo" \in output.passed
  /\ Behind({}) => "readpst" \in output.passed

Public ==
  /\ output.renamed <=> \/ output.phase \in {"directory", "verify"}
                        \/ output.phase = "done"
                             /\ output.result \in {"ok", "durability", "changed"}
  /\ output.renamed => Required \subseteq output.passed

Temporary ==
  /\ output.renamed => output.temp = "published"
  /\ ~output.renamed /\ output.phase # "done" => output.temp = "held"
  /\ ~output.renamed /\ output.phase = "done" =>
       /\ output.temp \in {"removed", "retained"}
       /\ output.temp = "retained" <=> output.result = "invalid"

Reader == output.child # "none" => output.phase \in Validators

OutputInv == OutputType /\ Progress /\ Public /\ Temporary /\ Reader

HandedOver ==
  /\ "phase" \in DOMAIN final
  /\ final.phase \in {"open", "writing", "sealed"} => output = Private

Inv == OutputInv /\ HandedOver

(* The invariant is strong enough. *)
LEMMA InvImpliesWhole == OutputInv => PublishedWhole
  BY DEF OutputInv, OutputType, Outputs, Public, Temporary, Reader, PublishedWhole, Phases, Results

-----------------------------------------------------------------------------
(* The ways in which a step changes the output.                            *)

(* What Ended leaves of an output. *)
LEMMA EndedFields ==
  ASSUME NEW o \in Outputs, NEW r \in Results
  PROVE  /\ Ended(o, r) \in Outputs
         /\ Ended(o, r).phase = "done" /\ Ended(o, r).result = r
         /\ Ended(o, r).child = "none"
         /\ Ended(o, r).temp = IF o.temp = "held" THEN "removed" ELSE o.temp
         /\ Ended(o, r).renamed = o.renamed /\ Ended(o, r).passed = o.passed
         /\ Ended(o, r).associated = o.associated
  BY DEF Outputs, Ended, Phases

(* A step that ends the work keeps the invariant if its result says whether *)
(* the file is public, and is not the verdict of a reader.                  *)
LEMMA EndedInv ==
  ASSUME OutputInv, output.phase # "done", NEW r \in Results \ {"invalid"},
         output.renamed <=> r \in {"ok", "durability", "changed"},
         output' = Ended(output, r)
  PROVE  OutputInv'
<1>1. /\ OutputType'
      /\ output'.phase = "done" /\ output'.result = r /\ output'.child = "none"
      /\ output'.temp = IF output.temp = "held" THEN "removed" ELSE output.temp
      /\ output'.renamed = output.renamed /\ output'.passed = output.passed
      /\ output'.associated = output.associated
  BY EndedFields DEF OutputInv, OutputType
<1>2. Progress'
  BY <1>1 DEF Progress, Behind, Late
<1>3. Public'
  BY <1>1 DEF OutputInv, Public, Required
<1>4. Temporary'
  BY <1>1 DEF OutputInv, OutputType, Outputs, Temporary
<1>5. Reader'
  BY <1>1 DEF Reader
<1> QED
  BY <1>1, <1>2, <1>3, <1>4, <1>5 DEF OutputInv

(* What Advanced leaves of an output. *)
LEMMA AdvancedFields ==
  ASSUME NEW o \in Outputs, o.phase \notin {"private", "done"}
  PROVE  /\ Advanced(o) \in Outputs
         /\ Advanced(o).phase = After(o.phase, o.associated)
         /\ Advanced(o).result = o.result /\ Advanced(o).child = "none"
         /\ Advanced(o).temp = o.temp /\ Advanced(o).renamed = o.renamed
         /\ Advanced(o).passed = o.passed \cup {o.phase}
         /\ Advanced(o).associated = o.associated
<1>1. After(o.phase, o.associated) \in Phases
  BY DEF Outputs, Phases, After
<1> QED
  BY <1>1 DEF Outputs, Advanced

(* Going on before the rename keeps the invariant. *)
LEMMA AdvancedInv ==
  ASSUME OutputInv, output' = Advanced(output),
         output.phase \in {"sync", "indexes", "store", "folders", "pffinfo", "readpst", "directory"}
  PROVE  OutputInv'
<1>1. /\ OutputType'
      /\ output'.phase = After(output.phase, output.associated)
      /\ output'.result = output.result /\ output'.child = "none"
      /\ output'.temp = output.temp /\ output'.renamed = output.renamed
      /\ output'.passed = output.passed \cup {output.phase}
      /\ output'.associated = output.associated
  BY AdvancedFields DEF OutputInv, OutputType
<1>2. Progress'
  BY <1>1 DEF OutputInv, OutputType, Outputs, Progress, Behind, Late, After
<1>3. Public'
  BY <1>1 DEF OutputInv, Public, Required, After
<1>4. Temporary'
  BY <1>1 DEF OutputInv, Temporary, After
<1>5. Reader'
  BY <1>1 DEF Reader
<1> QED
  BY <1>1, <1>2, <1>3, <1>4, <1>5 DEF OutputInv

(* The verdict of a reader: the file is kept, or nothing is. *)
LEMMA RetainInv ==
  ASSUME OutputInv, output.phase \in Validators, retain_validation_failure
  PROVE  OutputInv'
<1>1. ~output.renamed /\ output.temp = "held"
  BY DEF OutputInv, Public, Temporary, Validators
<1>2. CASE output' = Ended(output, "failed")
  BY <1>1, <1>2, EndedInv DEF Validators, Results
<1>3. CASE output' = Ended([output EXCEPT !.temp = "retained"], "invalid")
  <2>1. /\ OutputType'
        /\ output'.phase = "done" /\ output'.result = "invalid" /\ output'.child = "none"
        /\ output'.temp = "retained" /\ ~output'.renamed
    BY <1>1, <1>3 DEF OutputInv, OutputType, Outputs, Ended, Phases, Results
  <2> QED
    BY <2>1 DEF OutputInv, Progress, Behind, Late, Public, Temporary, Reader
<1> QED
  BY <1>2, <1>3 DEF retain_validation_failure

(* An interrupt that is noticed after a step before the rename. *)
LEMMA CheckedInv ==
  ASSUME OutputInv, output' = check_interrupted(Advanced(output)),
         output.phase \in {"sync", "indexes", "store", "folders", "readpst"}
  PROVE  OutputInv'
<1>1. CASE ~Advanced(output).interrupted
  BY <1>1, AdvancedInv DEF check_interrupted
<1>2. CASE Advanced(output).interrupted
  <2>1. output' = Ended(Advanced(output), "interrupted")
    BY <1>2 DEF check_interrupted
  <2>2. ~output.renamed /\ output.temp = "held"
    BY DEF OutputInv, Public, Temporary
  <2>3. Advanced(output) \in Outputs /\ Advanced(output).temp = "held"
        /\ ~Advanced(output).renamed
    BY <2>2, AdvancedFields DEF OutputInv, OutputType
  <2>4. /\ OutputType'
        /\ output'.phase = "done" /\ output'.result = "interrupted"
        /\ output'.child = "none" /\ output'.temp = "removed" /\ ~output'.renamed
    BY <2>1, <2>3, EndedFields DEF OutputType, Results
  <2> QED
    BY <2>4 DEF OutputInv, Progress, Behind, Late, Public, Temporary, Reader
<1> QED
  BY <1>1, <1>2

-----------------------------------------------------------------------------
(* Every step of publication, and of what goes on around it.               *)

LEMMA PublishingInv == OutputInv /\ Publishing => OutputInv'
<1> SUFFICES ASSUME OutputInv, Publishing PROVE OutputInv'
  OBVIOUS
<1>1. CASE ReadBack
  <2>1. CASE output' = Ended(output, "failed")
    <3>1. ~output.renamed /\ output.phase # "done"
      BY <1>1 DEF ReadBack, OutputInv, Public
    <3> QED
      BY <2>1, <3>1, EndedInv DEF Results
  <2>2. CASE output' = check_interrupted(Advanced(output))
    BY <1>1, <2>2, CheckedInv DEF ReadBack
  <2> QED
    BY <1>1, <2>1, <2>2 DEF ReadBack
<1>2. CASE SpawnValidator
  <2>1. ~output.renamed /\ output.phase # "done"
    BY <1>2 DEF SpawnValidator, OutputInv, Public, Validators
  <2>2. CASE output' = Ended(output, "failed")
    BY <2>1, <2>2, EndedInv DEF Results
  <2>3. CASE output' = [output EXCEPT !.child = "running", !.pipes = TRUE]
    BY <1>2, <2>3 DEF SpawnValidator, OutputInv, OutputType, Outputs, Progress, Behind, Public, Required,
                      Temporary, Reader
  <2> QED
    BY <1>2, <2>2, <2>3 DEF SpawnValidator
<1>3. CASE ValidatorFinished
  <2>1. CASE output.child = "bad"
    BY <1>3, <2>1, RetainInv DEF ValidatorFinished
  <2>2. CASE output.child # "bad" /\ output.phase = "readpst"
    BY <1>3, <2>2, CheckedInv DEF ValidatorFinished
  <2>3. CASE output.child # "bad" /\ output.phase # "readpst"
    BY <1>3, <2>3, AdvancedInv DEF ValidatorFinished, Validators
  <2> QED
    BY <2>1, <2>2, <2>3
<1>4. CASE ValidatorKilled
  <2>1. ~output.renamed /\ output.phase # "done"
    BY <1>4 DEF ValidatorKilled, OutputInv, Public, Validators
  <2>2. CASE output.interrupted
    BY <1>4, <2>1, <2>2, EndedInv DEF ValidatorKilled, Results
  <2>3. CASE ~output.interrupted
    BY <1>4, <2>3, RetainInv DEF ValidatorKilled
  <2> QED
    BY <2>2, <2>3
<1>5. CASE publish_noclobber
  <2>1. ~output.renamed /\ output.phase = "rename" /\ output.temp = "held"
    BY <1>5 DEF publish_noclobber, OutputInv, Public, Temporary
  <2>2. CASE output' = Ended(output, "exists")
    BY <2>1, <2>2, EndedInv DEF Results
  <2>3. CASE output' = Ended(output, "failed")
    BY <2>1, <2>3, EndedInv DEF Results
  <2>4. CASE output' = Advanced([output EXCEPT !.dest = "ours", !.renamed = TRUE,
                                               !.temp = "published"])
    <3>1. After("rename", output.associated) = "directory"
      BY DEF After
    <3>2. /\ OutputType'
          /\ output'.phase = "directory" /\ output'.child = "none"
          /\ output'.temp = "published" /\ output'.renamed
          /\ output'.passed = output.passed \cup {"rename"}
          /\ output'.associated = output.associated
      BY <2>1, <2>4, <3>1 DEF OutputInv, OutputType, Outputs, Advanced, Phases
    <3>3. Required' \subseteq output'.passed
      BY <2>1, <3>2 DEF OutputInv, OutputType, Outputs, Progress, Behind, Late, Required
    <3>4. Progress'
      BY <2>1, <3>2 DEF OutputInv, Progress, Behind, Late
    <3> QED
      BY <3>2, <3>3, <3>4 DEF OutputInv, Public, Temporary, Reader
  <2> QED
    BY <1>5, <2>2, <2>3, <2>4 DEF publish_noclobber
<1>6. CASE sync_published_directory
  <2>1. output.renamed /\ output.phase = "directory"
    BY <1>6 DEF sync_published_directory, OutputInv, Public
  <2>2. CASE output' = Ended(output, "durability")
    BY <2>1, <2>2, EndedInv DEF Results
  <2>3. CASE output' = Advanced(output)
    BY <2>1, <2>3, AdvancedInv
  <2> QED
    BY <1>6, <2>2, <2>3 DEF sync_published_directory
<1>7. CASE verify_published_destination
  <2>1. output.renamed /\ output.phase # "done"
    BY <1>7 DEF verify_published_destination, OutputInv, Public
  <2> QED
    BY <1>7, <2>1, EndedInv DEF verify_published_destination, Results
<1> QED
  BY <1>1, <1>2, <1>3, <1>4, <1>5, <1>6, <1>7 DEF Publishing

LEMMA AroundInv == OutputInv /\ Around => OutputInv'
<1> SUFFICES ASSUME OutputInv, Around PROVE OutputInv'
  OBVIOUS
<1> USE DEF OutputInv, OutputType, Outputs, Progress, Behind, Public, Required, Temporary, Reader
<1>1. ASSUME NEW status \in {"ok", "bad"}, ValidatorExits(status) PROVE OutputInv'
  BY <1>1 DEF ValidatorExits
<1>2. CASE PipesClose
  BY <1>2 DEF PipesClose
<1>3. CASE DeadlinePasses
  BY <1>3 DEF DeadlinePasses
<1>4. CASE Meddle
  BY <1>4 DEF Meddle
<1>5. CASE Interrupt
  BY <1>5 DEF Interrupt
<1> QED
  BY <1>1, <1>2, <1>3, <1>4, <1>5 DEF Around
-----------------------------------------------------------------------------
(* The writer around it.                                                   *)

LEMMA PrivateInv == output = Private => OutputInv
  BY DEF Private, OutputInv, OutputType, Outputs, Phases, Results, Progress, Behind, Late,
         Public, Temporary, Reader

LEMMA InitInv == Init => Inv
<1> SUFFICES ASSUME Init PROVE Inv
  OBVIOUS
<1>1. output = Private /\ "phase" \in DOMAIN final
  BY DEF Init, Open
<1> QED
  BY <1>1, PrivateInv DEF Inv, HandedOver

(* Steps that touch neither the output nor the finalization. *)
LEMMA StutterInv ==
  ASSUME Inv, UNCHANGED <<final, output>>
  PROVE  Inv'
  BY DEF Inv, OutputInv, OutputType, Progress, Behind, Public, Required, Temporary, Reader,
         HandedOver

(* The plan of finalization, whatever is in it. *)
LEMMA PlannedPhase ==
  ASSUME NEW plan
  PROVE  "phase" \in DOMAIN Planned(plan) /\ "phase" \in DOMAIN TooLarge
  BY DEF Planned, TooLarge

LEMMA CallInv == Inv /\ Call /\ UNCHANGED output => Inv'
<1> SUFFICES ASSUME Inv, Call, UNCHANGED output PROVE Inv'
  OBVIOUS
<1>1. CASE Finalize
  <2>1. output = Private
    BY <1>1 DEF Inv, HandedOver, Finalize, CanCall
  <2>2. "phase" \in DOMAIN final'
    BY <1>1, PlannedPhase DEF Finalize
  <2>3. output' = Private
    BY <2>1 DEF Private
  <2>4. OutputInv'
    BY <2>1 DEF Inv, OutputInv, OutputType, Progress, Behind, Public, Required, Temporary, Reader
  <2> QED
    BY <2>2, <2>3, <2>4 DEF Inv, HandedOver, Private
<1>2. CASE ~Finalize
  <2>1. UNCHANGED final
    BY <1>2 DEF Call, BeginAppend, observe_folder, BeginBatch, rollback_batch
  <2> QED
    BY <2>1, StutterInv
<1> QED
  BY <1>1, <1>2

LEMMA WorkInv == Inv /\ (Work \/ AppendFails) /\ UNCHANGED output => Inv'
<1> SUFFICES ASSUME Inv, Work \/ AppendFails, UNCHANGED output PROVE Inv'
  OBVIOUS
<1>1. CASE write_blocks
  <2>1. "phase" \in DOMAIN final' /\ final'.phase = final.phase
    BY <1>1 DEF Inv, HandedOver, write_blocks
  <2> QED
    BY <2>1 DEF Inv, OutputInv, OutputType, Progress, Behind, Public, Required, Temporary,
                Reader, HandedOver
<1>2. CASE ~write_blocks
  <2>1. UNCHANGED final
    BY <1>2 DEF Work, AppendFails, BuildRecipients, BeginAttachment, append_direct_properties,
                externalize_large_properties, BeginEmbedded, EndEmbedded, EndAttachment,
                EndMessage, PlaceMessage, emit, ReturnAppend, ReturnLimited, ReturnProjection,
                ReturnPreflighted
  <2> QED
    BY <2>1, StutterInv
<1> QED
  BY <1>1, <1>2

(* Before the file is sealed a failure only removes the temporary file. *)
LEMMA FailedInv ==
  ASSUME Inv, output = Private, output' = Ended(output, "failed"),
         "phase" \in DOMAIN final', final'.phase \in {"refused", "failed"}
  PROVE  Inv'
<1>1. ~output.renamed /\ output.phase # "done"
  BY DEF Private
<1>2. OutputInv'
  BY <1>1, EndedInv DEF Inv, Results
<1> QED
  BY <1>2 DEF Inv, HandedOver

LEMMA SealInv == Inv /\ WriteIndexes => Inv'
<1> SUFFICES ASSUME Inv, WriteIndexes PROVE Inv'
  OBVIOUS
<1>1. output = Private
  BY DEF Inv, HandedOver, WriteIndexes
<1>2. PICK agree \in BOOLEAN :
        /\ "phase" \in DOMAIN final'
        /\ final'.phase = IF agree THEN "sealed" ELSE "refused"
        /\ output' = IF agree THEN output ELSE Ended(output, "failed")
  BY DEF WriteIndexes
<1>3. CASE agree
  <2>1. output' = Private
    BY <1>1, <1>2, <1>3 DEF Private
  <2>2. OutputInv'
    BY <1>1, <1>2, <1>3 DEF Inv, OutputInv, OutputType, Progress, Behind, Public, Required,
                            Temporary, Reader
  <2> QED
    BY <1>2, <2>1, <2>2 DEF Inv, HandedOver, Private
<1>4. CASE ~agree
  BY <1>1, <1>2, <1>4, FailedInv
<1> QED
  BY <1>3, <1>4

LEMMA HandOverInv == Inv /\ HandOver => Inv'
<1> SUFFICES ASSUME Inv, HandOver PROVE Inv'
  OBVIOUS
<1>1. output = Private
  BY DEF Inv, HandedOver, HandOver
<1>2. FirstAssociated \in BOOLEAN
  BY DEF FirstAssociated
<1>3. /\ OutputType'
      /\ output'.phase = "sync" /\ ~output'.renamed /\ output'.child = "none"
      /\ output'.temp = "held"
  BY <1>1, <1>2 DEF HandOver, Private, OutputType, Outputs, Phases, Results
<1>4. "phase" \in DOMAIN final' /\ final'.phase = "published"
  BY DEF HandOver
<1> QED
  BY <1>3, <1>4 DEF Inv, OutputInv, Progress, Behind, Late, Public, Temporary, Reader, HandedOver

LEMMA NextInv == Inv /\ [Next]_vars => Inv'
<1> SUFFICES ASSUME Inv, [Next]_vars PROVE Inv'
  OBVIOUS
<1>1. CASE (Call \/ Work \/ AppendFails) /\ UNCHANGED output
  BY <1>1, CallInv, WorkInv
<1>2. CASE WriteIndexes
  BY <1>2, SealInv
<1>3. CASE FinalizeFails
  <2>1. output = Private
    BY <1>3 DEF Inv, HandedOver, FinalizeFails
  <2> QED
    BY <1>3, <2>1, FailedInv DEF FinalizeFails
<1>4. CASE HandOver
  BY <1>4, HandOverInv
<1>5. CASE (Publishing \/ Around) /\ final.phase = "published" /\ UNCHANGED writer
  <2>1. OutputInv'
    BY <1>5, PublishingInv, AroundInv DEF Inv
  <2>2. final' = final
    BY <1>5 DEF writer
  <2> QED
    BY <1>5, <2>1, <2>2 DEF Inv, HandedOver
<1>6. CASE UNCHANGED vars
  BY <1>6, StutterInv DEF vars, writer
<1> QED
  BY <1>1, <1>2, <1>3, <1>4, <1>5, <1>6 DEF Next

(***************************************************************************)
(* finalize_with_policy makes a file public only after every check it      *)
(* promises, a refusal before the rename leaves nothing public, and the    *)
(* temporary file is gone, public or evidence: in every reachable state of *)
(* the writer, for every instance.                                         *)
(***************************************************************************)
THEOREM StorePublishedWhole == Spec => []PublishedWhole
<1>1. Inv => PublishedWhole
  BY InvImpliesWhole DEF Inv
<1> QED
  BY InitInv, NextInv, <1>1, PTL DEF Spec
-----------------------------------------------------------------------------
(***************************************************************************)
(* The space of the file.  The rest of this module is about ExtentsSound.  *)
(* Sequences first: the records and blocks of the writer have no type of   *)
(* their own, so a sequence is a sequence of whatever it holds.            *)
(***************************************************************************)
IsSeq(s) == s \in Seq(ToSet(s))

(* A sequence of a known set is one. *)
LEMMA SeqIsSeq ==
  ASSUME NEW S, NEW s \in Seq(S)
  PROVE  IsSeq(s)
  BY DEF IsSeq, ToSet

(* A sequence is a function on the numbers up to its length. *)
LEMMA SeqFacts ==
  ASSUME NEW s, IsSeq(s)
  PROVE  Len(s) \in Nat /\ DOMAIN s = 1..Len(s) /\ s = [i \in 1..Len(s) |-> s[i]]
  BY DEF IsSeq

(* Such a function is a sequence. *)
LEMMA FunctionIsSeq ==
  ASSUME NEW f, NEW n \in Nat, f = [i \in 1..n |-> f[i]]
  PROVE  IsSeq(f) /\ Len(f) = n
<1>1. f \in [1..n -> ToSet(f)]
  BY DEF ToSet
<1> QED
  BY <1>1 DEF IsSeq

(* What the operators of Sequences return, element by element. *)
LEMMA ConcatIsSeq ==
  ASSUME NEW s, NEW t, IsSeq(s), IsSeq(t)
  PROVE  /\ IsSeq(s \o t) /\ Len(s \o t) = Len(s) + Len(t)
         /\ \A i \in 1..Len(s) : (s \o t)[i] = s[i]
         /\ \A i \in 1..Len(t) : (s \o t)[Len(s) + i] = t[i]
<1> DEFINE S == ToSet(s) \cup ToSet(t)
<1>1. s \in Seq(S) /\ t \in Seq(S)
  BY DEF IsSeq
<1> HIDE DEF S
<1>2. s \o t \in Seq(S)
  BY <1>1
<1>3. IsSeq(s \o t)
  BY <1>2, SeqIsSeq
<1>4. Len(s \o t) = Len(s) + Len(t)
  BY <1>1
<1>5. \A i \in 1..Len(s) : (s \o t)[i] = s[i]
  BY <1>1
<1>6. \A i \in 1..Len(t) : (s \o t)[Len(s) + i] = t[i]
  BY <1>1
<1> QED
  BY <1>3, <1>4, <1>5, <1>6

(* One element more. *)
LEMMA AppendIsSeq ==
  ASSUME NEW s, NEW x, IsSeq(s)
  PROVE  /\ IsSeq(Append(s, x)) /\ Len(Append(s, x)) = Len(s) + 1
         /\ \A i \in 1..Len(s) : Append(s, x)[i] = s[i]
         /\ Append(s, x)[Len(s) + 1] = x
<1> DEFINE S == ToSet(s) \cup {x}
<1>1. s \in Seq(S) /\ x \in S
  BY DEF IsSeq
<1> HIDE DEF S
<1>2. Append(s, x) \in Seq(S)
  BY <1>1
<1>3. IsSeq(Append(s, x))
  BY <1>2, SeqIsSeq
<1>4. Len(Append(s, x)) = Len(s) + 1 /\ Append(s, x)[Len(s) + 1] = x
  BY <1>1
<1>5. \A i \in 1..Len(s) : Append(s, x)[i] = s[i]
  BY <1>1
<1> QED
  BY <1>3, <1>4, <1>5

(* A part of a sequence is one, whatever its bounds. *)
LEMMA SubSeqIsSeq ==
  ASSUME NEW s, IsSeq(s), NEW m \in Int, NEW n \in Int
  PROVE  IsSeq(SubSeq(s, m, n))
<1>1. SubSeq(s, m, n) = [i \in 1..(1 + n - m) |-> s[i + m - 1]]
  OBVIOUS
<1>2. CASE 1 + n - m \in Nat
  BY <1>1, <1>2, FunctionIsSeq
<1>3. CASE 1 + n - m < 0
  <2>1. SubSeq(s, m, n) = <<>>
    BY <1>1, <1>3
  <2> QED BY <2>1 DEF IsSeq, ToSet
<1> QED BY <1>2, <1>3

(* A prefix; truncation keeps it element by element. *)
LEMMA SubSeqIsSeq1 ==
  ASSUME NEW s, IsSeq(s), NEW n \in Nat
  PROVE  /\ IsSeq(SubSeq(s, 1, n)) /\ Len(SubSeq(s, 1, n)) = n
         /\ \A i \in 1..n : SubSeq(s, 1, n)[i] = s[i]
<1>1. SubSeq(s, 1, n) = [i \in 1..n |-> s[i]]
  OBVIOUS
<1> QED BY <1>1, FunctionIsSeq

(* All but the first. *)
LEMMA TailIsSeq ==
  ASSUME NEW s, IsSeq(s), s # <<>>
  PROVE  /\ IsSeq(Tail(s)) /\ Len(Tail(s)) = Len(s) - 1
         /\ \A i \in 1..(Len(s) - 1) : Tail(s)[i] = s[i + 1]
         /\ Len(s) > 0 /\ Head(s) = s[1]
<1>1. Tail(s) \in Seq(ToSet(s)) /\ Len(s) > 0
  BY DEF IsSeq
<1>2. IsSeq(Tail(s))
  BY <1>1, SeqIsSeq
<1>3. Len(Tail(s)) = Len(s) - 1 /\ Head(s) = s[1]
  BY <1>1 DEF IsSeq
<1>4. \A i \in 1..(Len(s) - 1) : Tail(s)[i] = s[i + 1]
  BY <1>1 DEF IsSeq
<1> QED
  BY <1>1, <1>2, <1>3, <1>4

(* None, and one. *)
LEMMA TupleIsSeq ==
  /\ IsSeq(<<>>)
  /\ \A x : IsSeq(<<x>>) /\ Len(<<x>>) = 1
<1>1. <<>> \in Seq({}) OBVIOUS
<1>2. ASSUME NEW x PROVE IsSeq(<<x>>) /\ Len(<<x>>) = 1
  <2>1. <<x>> \in Seq({x}) OBVIOUS
  <2> QED BY <2>1, SeqIsSeq
<1> QED BY <1>1, <1>2, SeqIsSeq

(* Induction, with the set of the numbers for which it holds. *)
LEMMA SetInduction ==
  ASSUME NEW S, 0 \in S, \A n \in Nat : n \in S => n + 1 \in S
  PROVE  \A n \in Nat : n \in S
<1> SUFFICES ASSUME NEW n \in Nat, n \notin S PROVE FALSE
  OBVIOUS
<1> DEFINE A == {m \in 0..n : m \in S}
           f == [m \in A |-> m + 1]
<1>1. IsFiniteSet(A)
  BY FS_BoundedSetOfNaturals
<1>2. 0 \in A /\ \A m \in A : m + 1 \in A \ {0}
  OBVIOUS
<1>3. f \in Injection(A, A \ {0})
  BY <1>2 DEF Injection, IsInjective
<1>4. /\ IsFiniteSet(A \ {0}) /\ Cardinality(A) \in Nat
      /\ Cardinality(A \ {0}) = Cardinality(A) - 1
  BY <1>1, <1>2, FS_RemoveElement, FS_CardinalityType
<1>5. Cardinality(A) <= Cardinality(A \ {0})
  BY <1>3, <1>4, FS_Injection
<1> QED
  BY <1>4, <1>5

(* Induction from a number a on, up to b. *)
LEMMA RangeInduction ==
  ASSUME NEW a \in Nat, NEW b \in Nat, NEW S, a \in S,
         \A n \in a..(b - 1) : n \in S => n + 1 \in S
  PROVE  \A n \in a..b : n \in S
<1> DEFINE T == {k \in Nat : a + k > b \/ a + k \in S}
<1>1. 0 \in T
  OBVIOUS
<1>2. ASSUME NEW k \in Nat, k \in T PROVE k + 1 \in T
  <2>1. CASE a + k >= b
    BY <2>1
  <2>2. CASE a + k < b
    <3>1. a + k \in a..(b - 1) /\ a + k \in S
      BY <1>2, <2>2
    <3>2. (a + k) + 1 \in S
      BY <3>1
    <3> QED
      BY <3>2
  <2> QED
    BY <2>1, <2>2
<1> HIDE DEF T
<1>3. \A k \in Nat : k \in T
  BY <1>1, <1>2, SetInduction
<1> QED
  <2> SUFFICES ASSUME NEW n \in a..b PROVE n \in S
    OBVIOUS
  <2>1. n - a \in Nat /\ n - a \in T
    BY <1>3
  <2> QED
    BY <2>1 DEF T


(* What is flattened holds what the parts hold. *)
LEMMA FlattenTyped ==
  ASSUME NEW S, NEW seqs, IsSeq(seqs), \A i \in 1..Len(seqs) : seqs[i] \in Seq(S)
  PROVE  FlattenSeq(seqs) \in Seq(S)
<1> DEFINE N == Len(seqs)
           Good(n, g) == g = [i \in 1..n |-> IF i = 1 THEN seqs[i] ELSE g[i - 1] \o seqs[i]]
           flatten == CHOOSE g : Good(N, g)
<1>1. N \in Nat
  BY SeqFacts
<1>2. CASE N = 0
  <2>1. seqs = <<>>
    BY <1>2, SeqFacts
  <2> QED
    BY <1>2, <2>1 DEF FlattenSeq
<1>3. CASE N # 0
  <2> DEFINE T == {n \in Nat : \E g : Good(n, g)}
  <2>1. 1 \in T
    <3>1. Good(1, [i \in 1..1 |-> seqs[1]])
      OBVIOUS
    <3> QED
      BY <3>1
  <2>2. ASSUME NEW n \in 1..(N - 1), n \in T PROVE n + 1 \in T
    <3>1. PICK g : Good(n, g)
      BY <2>2
    <3> DEFINE h == [i \in 1..(n + 1) |-> IF i <= n THEN g[i] ELSE g[n] \o seqs[n + 1]]
    <3>2. ASSUME NEW i \in 1..(n + 1)
          PROVE  h[i] = IF i = 1 THEN seqs[i] ELSE h[i - 1] \o seqs[i]
      <4>1. CASE i <= n
        <5>1. i \in 1..n
          BY <4>1
        <5>2. g[i] = IF i = 1 THEN seqs[i] ELSE g[i - 1] \o seqs[i]
          BY ONLY <3>1, <5>1
        <5>3. h[i] = g[i] /\ (i # 1 => h[i - 1] = g[i - 1])
          BY <4>1
        <5> QED
          BY <5>2, <5>3
      <4>2. CASE i = n + 1
        BY <3>1, <4>2
      <4> QED
        BY <4>1, <4>2
    <3>3. Good(n + 1, h)
      BY <3>2
    <3> HIDE DEF Good, h
    <3> QED
      BY <3>3
  <2>3. N \in T
    <3> HIDE DEF T
    <3>1. \A n \in 1..N : n \in T
      BY <1>1, <1>3, <2>1, <2>2, RangeInduction
    <3> QED
      BY <1>1, <1>3, <3>1
  <2>4. Good(N, flatten)
    BY <2>3
  <2>5. FlattenSeq(seqs) = flatten[N]
    BY <1>3 DEF FlattenSeq
  <2> DEFINE U == {n \in Nat : flatten[n] \in Seq(S)}
  <2> HIDE DEF flatten
  <2>6. 1 \in U
    BY <1>1, <1>3, <2>4
  <2>7. ASSUME NEW n \in 1..(N - 1), n \in U PROVE n + 1 \in U
    <3>1. n + 1 \in 1..N /\ n + 1 # 1 /\ (n + 1) - 1 = n
      BY <1>1
    <3> HIDE DEF N
    <3>2. flatten[n + 1] = flatten[n] \o seqs[n + 1]
      BY <2>4, <3>1
    <3>3. flatten[n] \in Seq(S) /\ seqs[n + 1] \in Seq(S)
      BY <2>7, <3>1 DEF N
    <3>4. flatten[n + 1] \in Seq(S)
      BY <3>2, <3>3
    <3> QED
      BY <3>4
  <2> HIDE DEF U, Good, N
  <2>8. \A n \in 1..N : n \in U
    BY <1>1, <1>3, <2>6, <2>7, RangeInduction
  <2>9. N \in U
    BY <1>1, <1>3, <2>8
  <2> QED
    BY <2>5, <2>9 DEF U
<1> QED
  BY <1>2, <1>3

(* Sequences that are flattened are one. *)
LEMMA FlattenIsSeq ==
  ASSUME NEW seqs, IsSeq(seqs), \A i \in 1..Len(seqs) : IsSeq(seqs[i])
  PROVE  IsSeq(FlattenSeq(seqs))
<1> DEFINE S == UNION {ToSet(seqs[i]) : i \in 1..Len(seqs)}
<1>1. ASSUME NEW i \in 1..Len(seqs) PROVE seqs[i] \in Seq(S)
  BY DEF IsSeq
<1> HIDE DEF S
<1> QED
  BY <1>1, FlattenTyped, SeqIsSeq

-----------------------------------------------------------------------------
(***************************************************************************)
(* What the writer builds is a list of blocks, whatever the sizes are.     *)
(***************************************************************************)
(* A function on a range is a sequence, also on an empty one. *)
LEMMA RangeIsSeq ==
  ASSUME NEW f, NEW n \in Int, f = [i \in 1..n |-> f[i]]
  PROVE  IsSeq(f)
<1>1. CASE n \in Nat
  BY <1>1, FunctionIsSeq
<1>2. CASE n < 0
  <2>1. f = [i \in 1..0 |-> f[i]]
    BY <1>2
  <2> QED
    BY <2>1, FunctionIsSeq
<1> QED
  BY <1>1, <1>2

(* What is built element by element from a sequence is one. *)
LEMMA MapIsSeq ==
  ASSUME NEW s, IsSeq(s), NEW f, f = [i \in DOMAIN s |-> f[i]]
  PROVE  IsSeq(f) /\ Len(f) = Len(s)
  BY SeqFacts, FunctionIsSeq

(* A quotient is a number. *)
LEMMA Quotients ==
  ASSUME NEW a \in Int, NEW b \in Nat \ {0}
  PROVE  DivCeil(a, b) \in Int
  BY DEF DivCeil

(* Every capacity of the format is positive. *)
LEMMA Capacities ==
  /\ MaxPayload \in Nat \ {0} /\ MaxTreeEntries \in Nat \ {0}
  /\ SubnodeLeafCapacity \in Nat \ {0}
  /\ MaxPayload \div RowUnits \in Nat \ {0}
<1>1. MaxPayload \in Nat /\ 4 <= MaxPayload /\ RowUnits \in 1..MaxPayload
  BY StructureAssumption
<1>2. (MaxPayload - 1) \div 3 \in Nat \ {0}
  BY <1>1
<1>3. MaxPayload \div RowUnits \in Nat \ {0}
  <2>1. RowUnits \in Nat \ {0} /\ RowUnits <= MaxPayload
    BY <1>1
  <2> DEFINE q == MaxPayload \div RowUnits
  <2>2. q \in Nat /\ q * RowUnits <= MaxPayload /\ MaxPayload < q * RowUnits + RowUnits
    BY <1>1, <2>1, DivBounds
  <2>3. q # 0
    <3> HIDE DEF q
    <3> SUFFICES ASSUME q = 0 PROVE FALSE
      OBVIOUS
    <3>1. q * RowUnits = 0
      BY <2>1
    <3> QED
      BY <1>1, <2>1, <2>2, <3>1
  <2> QED
    BY <2>2, <2>3
<1> QED
  BY <1>1, <1>2, <1>3 DEF MaxTreeEntries, SubnodeLeafCapacity

(* The groups of a chunked sequence. *)
LEMMA ChunksAreSeqs ==
  ASSUME NEW s, IsSeq(s), NEW n \in Nat \ {0}
  PROVE  IsSeq(Chunks(s, n)) /\ \A g \in 1..Len(Chunks(s, n)) : IsSeq(Chunks(s, n)[g])
<1> DEFINE c == DivCeil(Len(s), n)
           piece(g) == SubSeq(s, (g - 1) * n + 1, AtMost(g * n, Len(s)))
<1>1. Len(s) \in Nat
  BY SeqFacts
<1>2. c \in Int
  BY <1>1, Quotients
<1>3. Chunks(s, n) = [g \in 1..c |-> piece(g)]
  BY DEF Chunks
<1>4. ASSUME NEW g \in 1..c PROVE IsSeq(piece(g))
  <2>1. g \in Int /\ (g - 1) * n + 1 \in Int /\ g * n \in Int
    BY <1>2
  <2>2. AtMost(g * n, Len(s)) \in Int
    BY <1>1, <2>1 DEF AtMost
  <2> QED
    BY <2>1, <2>2, SubSeqIsSeq
<1> HIDE DEF c, piece
<1>5. IsSeq(Chunks(s, n))
  BY <1>2, <1>3, RangeIsSeq
<1>6. DOMAIN Chunks(s, n) = 1..Len(Chunks(s, n)) /\ DOMAIN Chunks(s, n) = 1..c
  BY <1>3, <1>5, SeqFacts
<1> QED
  BY <1>3, <1>4, <1>5, <1>6

(* The identifiers of blocks. *)
LEMMA IdsAreSeq ==
  ASSUME NEW blocks, IsSeq(blocks)
  PROVE  IsSeq(Ids(blocks))
  BY MapIsSeq DEF Ids

(* As many blocks after the sort as before. *)
LEMMA SortedIsSeq ==
  ASSUME NEW blocks, IsSeq(blocks)
  PROVE  IsSeq(SortedById(blocks)) /\ Len(SortedById(blocks)) = Len(blocks)
<1>1. Len(blocks) \in Nat
  BY SeqFacts
<1> QED
  BY <1>1, FunctionIsSeq DEF SortedById

(* The leaves of a data tree. *)
LEMMA LeafSizesAreSeq ==
  ASSUME NEW size \in Int, NEW chunk \in Nat \ {0}
  PROVE  IsSeq(LeafSizes(size, chunk))
<1>1. DivCeil(size, chunk) \in Int
  BY Quotients
<1> QED
  BY <1>1, RangeIsSeq DEF LeafSizes

(* A data tree of whatever size is a list of blocks. *)
LEMMA DataTreeBlocks ==
  ASSUME NEW sizes, IsSeq(sizes), NEW next
  PROVE  IsSeq(append_data_tree_pages(sizes, next).blocks)
<1> DEFINE leaves  == [p \in DOMAIN sizes |-> Data(next + p - 1, sizes[p])]
           above   == next + Len(leaves)
           pieces  == Chunks(Ids(leaves), MaxTreeEntries)
           xblocks == [g \in DOMAIN pieces |-> DataTree(above + g - 1, pieces[g])]
           top     == above + Len(xblocks)
           last    == <<DataTree(top, Ids(xblocks))>>
<1>1. IsSeq(leaves)
  BY MapIsSeq
<1>2. IsSeq(pieces)
  <2> HIDE DEF leaves
  <2> QED
    BY <1>1, IdsAreSeq, ChunksAreSeqs, Capacities
<1>3. IsSeq(xblocks)
  <2> HIDE DEF pieces
  <2> QED
    BY <1>2, MapIsSeq
<1>4. append_data_tree_pages(sizes, next) =
        IF Len(leaves) = 1 THEN Built(next, leaves, above)
        ELSE IF Len(xblocks) = 1 THEN Built(above, leaves \o xblocks, top)
        ELSE Built(top, leaves \o xblocks \o last, top + 1)
  BY DEF append_data_tree_pages, Parents
<1>5. IsSeq(last)
  BY TupleIsSeq
<1> HIDE DEF leaves, above, pieces, xblocks, top, last
<1>6. IsSeq(leaves \o xblocks) /\ IsSeq(leaves \o xblocks \o last)
  BY <1>1, <1>3, <1>5, ConcatIsSeq
<1> QED
  BY <1>1, <1>4, <1>6 DEF Built

(* So is one that is built while it is read. *)
LEMMA StreamedTreeBlocks ==
  ASSUME NEW sizes, IsSeq(sizes), NEW next
  PROVE  IsSeq(StreamedTree(sizes, next).blocks)
<1> DEFINE groups  == Chunks(sizes, MaxTreeEntries)
           Start(g) == next + (g - 1) * (MaxTreeEntries + 1)
           Leaves(g) == [p \in DOMAIN groups[g] |-> Data(Start(g) + p - 1, groups[g][p])]
           XBlock(g) == DataTree(Start(g) + Len(groups[g]), Ids(Leaves(g)))
           runs     == [g \in DOMAIN groups |-> Leaves(g) \o <<XBlock(g)>>]
           streamed == FlattenSeq(runs)
           end      == next + Len(streamed)
           last     == <<DataTree(end, [g \in DOMAIN groups |-> XBlock(g).id])>>
<1>1. IsSeq(groups) /\ \A g \in 1..Len(groups) : IsSeq(groups[g])
  BY ChunksAreSeqs, Capacities
<1>2. ASSUME NEW g \in 1..Len(groups) PROVE IsSeq(Leaves(g))
  <2> DEFINE group == groups[g]
  <2>1. IsSeq(group)
    BY <1>1
  <2>2. Leaves(g) = [p \in DOMAIN group |-> Data(Start(g) + p - 1, group[p])]
    OBVIOUS
  <2> HIDE DEF group, Leaves
  <2> QED
    BY <2>1, <2>2, MapIsSeq
<1>3. ASSUME NEW g \in 1..Len(groups) PROVE IsSeq(Leaves(g) \o <<XBlock(g)>>)
  <2> HIDE DEF Leaves, XBlock
  <2> QED
    BY <1>2, TupleIsSeq, ConcatIsSeq
<1>4. IsSeq(runs) /\ Len(runs) = Len(groups) /\ DOMAIN groups = 1..Len(groups)
  <2> HIDE DEF groups, Leaves, XBlock
  <2> QED
    BY <1>1, SeqFacts, MapIsSeq
<1>5. IsSeq(streamed)
  <2>1. \A g \in 1..Len(runs) : runs[g] = Leaves(g) \o <<XBlock(g)>>
    BY <1>4
  <2> HIDE DEF runs, groups, Leaves, XBlock
  <2> QED
    BY <1>3, <1>4, <2>1, FlattenIsSeq
<1>6. IsSeq(last)
  BY TupleIsSeq
<1>7. IsSeq(streamed \o last)
  <2> HIDE DEF streamed, last
  <2> QED
    BY <1>5, <1>6, ConcatIsSeq
<1>8. StreamedTree(sizes, next) =
        IF Len(sizes) = 1 THEN Built(next, Leaves(1), next + 1)
        ELSE IF Len(groups) = 1 THEN Built(XBlock(1).id, streamed, end)
        ELSE Built(end, streamed \o last, end + 1)
  BY DEF StreamedTree
<1>9. Len(sizes) = 1 => Len(groups) = 1
  <2> SUFFICES ASSUME Len(sizes) = 1 PROVE Len(groups) = 1
    OBVIOUS
  <2>1. MaxTreeEntries \in Nat \ {0}
    BY Capacities
  <2>2. DivCeil(1, MaxTreeEntries) = 1
    BY <2>1 DEF DivCeil
  <2>3. groups = [g \in 1..1 |-> groups[g]]
    BY <2>2 DEF Chunks
  <2> HIDE DEF groups
  <2> QED
    BY <2>3, FunctionIsSeq
<1>10. Len(sizes) = 1 => IsSeq(Leaves(1))
  BY <1>2, <1>9
<1> HIDE DEF groups, Leaves, XBlock, streamed, last, end
<1> QED
  BY <1>5, <1>7, <1>8, <1>10 DEF Built

(* The three ways in which a value becomes a tree. *)
LEMMA ValueBlocks ==
  ASSUME NEW size \in Nat, NEW next
  PROVE  /\ IsSeq(append_data_tree(size, next).blocks)
         /\ IsSeq(append_reader_data_tree(size, next).blocks)
         /\ IsSeq(append_declared_data_tree(size, next).blocks)
<1>1. IsSeq(LeafSizes(size, MaxPayload)) /\ IsSeq(<<0>>)
  BY LeafSizesAreSeq, TupleIsSeq, Capacities
<1>2. IsSeq(append_data_tree(size, next).blocks)
  BY <1>1, DataTreeBlocks DEF append_data_tree
<1>3. IsSeq(append_reader_data_tree(size, next).blocks)
  BY <1>1, StreamedTreeBlocks DEF append_reader_data_tree
<1>4. IsSeq(append_declared_data_tree(size, next).blocks)
  BY <1>1, StreamedTreeBlocks DEF append_declared_data_tree
<1> QED
  BY <1>2, <1>3, <1>4

(* The rows of an external table. *)
LEMMA RowMatrixBlocks ==
  ASSUME NEW rows \in Nat, NEW next
  PROVE  IsSeq(append_row_matrix_data_tree(rows, next).blocks)
<1> DEFINE perBlock == MaxPayload \div RowUnits
           count == DivCeil(rows, perBlock)
           sizes == [p \in 1..count |-> IF p < count THEN MaxPayload
                                        ELSE (rows - (p - 1) * perBlock) * RowUnits]
<1>1. count \in Int
  BY Quotients, Capacities
<1>2. IsSeq(sizes)
  <2> HIDE DEF count, perBlock
  <2> QED
    BY <1>1, RangeIsSeq
<1>3. append_row_matrix_data_tree(rows, next) = append_data_tree_pages(sizes, next)
  BY DEF append_row_matrix_data_tree
<1> HIDE DEF sizes
<1> QED
  BY <1>2, <1>3, DataTreeBlocks

(* The leaves of a subnode tree. *)
LEMMA SubnodeLeaves ==
  ASSUME NEW entries, IsSeq(entries), NEW next
  PROVE  LET groups == Chunks(entries, SubnodeLeafCapacity)
         IN  IsSeq([g \in DOMAIN groups |-> Subnode(next + g - 1, groups[g])])
<1> DEFINE groups == Chunks(entries, SubnodeLeafCapacity)
<1>1. IsSeq(groups)
  BY ChunksAreSeqs, Capacities
<1> HIDE DEF groups
<1>2. IsSeq([g \in DOMAIN groups |-> Subnode(next + g - 1, groups[g])])
  BY <1>1, MapIsSeq
<1> QED
  BY <1>2 DEF groups

(* Both forms of a subnode tree. *)
LEMMA SubnodeTreeBlocks ==
  ASSUME NEW entries, IsSeq(entries), NEW root, NEW next
  PROVE  /\ IsSeq(append_subnode_tree(entries, next).blocks)
         /\ IsSeq(append_subnode_tree_at(entries, root, next).blocks)
<1> DEFINE groups == Chunks(entries, SubnodeLeafCapacity)
           leaves == [g \in DOMAIN groups |-> Subnode(next + g - 1, groups[g])]
           top    == next + Len(leaves)
<1>1. IsSeq(leaves)
  BY SubnodeLeaves
<1>2. append_subnode_tree(entries, next) =
        IF Len(leaves) = 1 THEN Built(next, leaves, top)
        ELSE Built(top, leaves \o <<IntermediateSubnode(top, Ids(leaves))>>, top + 1)
  BY DEF append_subnode_tree
<1>3. append_subnode_tree_at(entries, root, next) =
        IF Len(entries) <= SubnodeLeafCapacity THEN Built(root, <<Subnode(root, entries)>>, next)
        ELSE Built(root, leaves \o <<IntermediateSubnode(root, Ids(leaves))>>,
                   next + Len(leaves))
  BY DEF append_subnode_tree_at
<1> HIDE DEF leaves, top
<1>4. /\ IsSeq(leaves \o <<IntermediateSubnode(top, Ids(leaves))>>)
      /\ IsSeq(leaves \o <<IntermediateSubnode(root, Ids(leaves))>>)
      /\ IsSeq(<<Subnode(root, entries)>>)
  BY <1>1, TupleIsSeq, ConcatIsSeq
<1>5. IsSeq(append_subnode_tree(entries, next).blocks)
  BY <1>1, <1>2, <1>4 DEF Built
<1>6. IsSeq(append_subnode_tree_at(entries, root, next).blocks)
  BY <1>3, <1>4 DEF Built
<1> QED
  BY <1>5, <1>6

(* A property context, in one block or in a tree. *)
LEMMA PropertyContextBlocks ==
  ASSUME NEW size \in Nat, NEW preferred, NEW next
  PROVE  IsSeq(build_property_context(size, preferred, next).blocks)
<1>1. IsSeq(<<Data(preferred, size)>>)
  BY TupleIsSeq
<1>2. IsSeq(<<MaxPayload>> \o LeafSizes(size, MaxPayload))
  BY LeafSizesAreSeq, TupleIsSeq, ConcatIsSeq, Capacities
<1>3. IsSeq(append_data_tree_pages(<<MaxPayload>> \o LeafSizes(size, MaxPayload), next).blocks)
  BY <1>2, DataTreeBlocks
<1> QED
  BY <1>1, <1>3 DEF build_property_context, Built

(* A table whose rows are outside of its heap. *)
LEMMA ExternalTableBlocks ==
  ASSUME NEW rows \in Nat, NEW next
  PROVE  IsSeq(table_context_external(rows, next).blocks)
<1> DEFINE large  == LargeValues(rows, next)
           tree   == append_row_matrix_data_tree(rows, next + LargeRows(rows))
           sub    == append_subnode_tree(TableSubnodes(large, tree), tree.next)
           matrix == RowMatrix(large, tree)
           pages  == <<MaxPayload>> \o LeafSizes(rows * ValueUnits, MaxPayload)
           heap   == append_data_tree_pages(pages, matrix.next)
<1>1. IsSeq(tree.blocks)
  BY RowMatrixBlocks
<1>0. IsSeq(large)
  <2>1. LargeRows(rows) \in Int
    BY StructureAssumption DEF LargeRows
  <2> QED
    BY <2>1, RangeIsSeq DEF LargeValues
<1>2. IsSeq(sub.blocks)
  <2> HIDE DEF large, tree
  <2>1. IsSeq([v \in DOMAIN large |-> Entry(<<"value", v>>, large[v].id, NoBlock)])
    BY <1>0, MapIsSeq
  <2>2. IsSeq(TableSubnodes(large, tree))
    BY <2>1, TupleIsSeq, ConcatIsSeq DEF TableSubnodes
  <2> QED
    BY <2>2, SubnodeTreeBlocks
<1>3. IsSeq(matrix.blocks)
  <2>1. matrix.blocks = large \o tree.blocks \o sub.blocks
    BY DEF RowMatrix, MatrixUnder
  <2> HIDE DEF large, tree, sub, matrix
  <2> QED
    BY <1>0, <1>1, <1>2, <2>1, ConcatIsSeq
<1>4. IsSeq(heap.blocks)
  <2>1. rows * ValueUnits \in Int
    BY StructureAssumption
  <2>2. IsSeq(pages)
    BY <2>1, LeafSizesAreSeq, TupleIsSeq, ConcatIsSeq, Capacities
  <2> HIDE DEF pages, matrix
  <2> QED
    BY <2>2, DataTreeBlocks
<1>5. table_context_external(rows, next).blocks = matrix.blocks \o heap.blocks
  BY DEF table_context_external, HeapBehind
<1> HIDE DEF matrix, heap
<1> QED
  BY <1>3, <1>4, <1>5, ConcatIsSeq

(* A table in either form. *)
LEMMA TableBlocks ==
  ASSUME NEW rows \in Nat, NEW next, NEW preferred
  PROVE  /\ IsSeq(build_table_context(rows, next, preferred).blocks)
         /\ IsSeq(ContentsTable(rows, preferred, next).blocks)
<1>1. \A r \in Nat : \A n, p : IsSeq(build_table_context(r, n, p).blocks)
  <2> SUFFICES ASSUME NEW r \in Nat, NEW n, NEW p
               PROVE  IsSeq(build_table_context(r, n, p).blocks)
    OBVIOUS
  <2>1. IsSeq(table_context_external(r, n).blocks)
    BY ExternalTableBlocks
  <2>2. \A id : IsSeq(<<Data(id, table_context(r))>>)
    BY TupleIsSeq
  <2> QED
    BY <2>1, <2>2 DEF build_table_context
<1>2. IsSeq(ContentsTable(rows, preferred, next).blocks)
  BY <1>1, ExternalTableBlocks DEF ContentsTable
<1> QED
  BY <1>1, <1>2

(* The named-property map. *)
LEMMA NamedBlocks ==
  ASSUME NEW count \in Nat, NEW next
  PROVE  IsSeq(build_named_property_context(count, next).blocks)
<1> DEFINE buckets == TableHead + count * BucketUnits
           size == buckets + count * NameUnits
           tree == append_data_tree(count * NameUnits, next)
           context == build_property_context(buckets, 2, tree.next)
           sub  == append_subnode_tree(<<Entry(<<"value", 0>>, tree.root, NoBlock)>>, context.next)
<1>1. count * NameUnits \in Nat /\ buckets \in Nat
  BY WriterAssumption, StructureAssumption
<1>2. IsSeq(tree.blocks)
  BY <1>1, ValueBlocks
<1>3. IsSeq(sub.blocks)
  BY SubnodeTreeBlocks, TupleIsSeq
<1>4. build_named_property_context(count, next).blocks =
        IF size <= MaxPayload THEN <<Data(2, size)>>
        ELSE tree.blocks \o context.blocks \o sub.blocks
  BY DEF build_named_property_context
<1>5. IsSeq(context.blocks)
  <2> HIDE DEF buckets, tree
  <2> QED
    BY <1>1, PropertyContextBlocks
<1> HIDE DEF buckets, tree, sub, size, context
<1> QED
  BY <1>2, <1>3, <1>4, <1>5, TupleIsSeq, ConcatIsSeq

(* A want is built from a number of rows. *)
Wants == [form : {"shared", "property", "hierarchy", "contents", "names"},
          rows : Nat, preferred : Nat]

(* Whatever is wanted is built as a list of blocks. *)
LEMMA WantedIsBuilt ==
  ASSUME NEW want \in Wants, NEW next
  PROVE  IsSeq(BuildWanted(want, next).blocks)
<1> USE DEF Wants
<1>1. CASE want.form = "shared"
  BY <1>1, TupleIsSeq DEF BuildWanted, Shared
<1>2. CASE want.form = "property"
  BY <1>2, TupleIsSeq DEF BuildWanted, Shared
<1>3. CASE want.form = "hierarchy"
  BY <1>3, TableBlocks DEF BuildWanted
<1>4. CASE want.form = "contents"
  BY <1>4, TableBlocks DEF BuildWanted
<1>5. CASE want.form = "names"
  BY <1>5, NamedBlocks DEF BuildWanted
<1> QED
  BY <1>1, <1>2, <1>3, <1>4, <1>5

-----------------------------------------------------------------------------
(***************************************************************************)
(* The plan of finalization: blocks and nodes, whatever the folders are.   *)
(***************************************************************************)
(* What is taken from the elements of a sequence is finite. *)
LEMMA ToSetFinite ==
  ASSUME NEW s, IsSeq(s)
  PROVE  IsFiniteSet(ToSet(s))
<1>1. DOMAIN s = 1..Len(s) /\ Len(s) \in Nat
  BY SeqFacts
<1>2. IsFiniteSet(1..Len(s))
  BY <1>1, FS_Interval
<1>3. s \in Surjection(1..Len(s), ToSet(s))
  BY <1>1, SeqFacts DEF Surjection, ToSet
<1> QED
  BY <1>2, <1>3, FS_Surjection

(* A part of what a sequence holds is finite. *)
LEMMA SubsetOfSeqFinite ==
  ASSUME NEW s, IsSeq(s), NEW T, T \subseteq ToSet(s)
  PROVE  IsFiniteSet(T) /\ Cardinality(T) \in Nat
  BY ToSetFinite, FS_Subset, FS_CardinalityType

(* So is a part of its indices. *)
LEMMA IndicesFinite ==
  ASSUME NEW s, IsSeq(s), NEW T, T \subseteq DOMAIN s
  PROVE  IsFiniteSet(T) /\ Cardinality(T) \in Nat
<1>1. DOMAIN s = 1..Len(s) /\ Len(s) \in Nat
  BY SeqFacts
<1>2. IsFiniteSet(DOMAIN s)
  BY <1>1, FS_Interval
<1> QED
  BY <1>2, FS_Subset, FS_CardinalityType

(* The fields of a folder. *)
FolderFields == {"key", "role", "messages", "associated"}

(* A folder has a path and two lists of messages. *)
FolderOK(folder) ==
  /\ folder = [x \in FolderFields |-> folder[x]]
  /\ folder.key \in Seq(Nat) /\ IsSeq(folder.messages) /\ IsSeq(folder.associated)

(* A layout is a list of folders. *)
LayoutOK(folders) == IsSeq(folders) /\ \A f \in DOMAIN folders : FolderOK(folders[f])

(* A plan counts what a folder holds. *)
PlansOK(plans) ==
  /\ IsSeq(plans)
  /\ \A p \in DOMAIN plans :
       plans[p].children \in Nat /\ plans[p].messages \in Nat /\ plans[p].associated \in Nat

(* The folders above one. *)
LEMMA PrefixesAreSeq ==
  ASSUME NEW key \in Seq(Nat)
  PROVE  IsSeq(PathPrefixes(key))
<1>1. Len(key) - 1 \in Int
  OBVIOUS
<1> QED
  BY <1>1, RangeIsSeq DEF PathPrefixes

(* The folders of the finished store. *)
LEMMA PlannedKeysAreSeq ==
  ASSUME NEW folders, LayoutOK(folders)
  PROVE  IsSeq(PlannedKeys(folders))
<1> DEFINE kept == {g \in DOMAIN folders : PreserveEmpty \/ ~Empty(folders[g])}
           paths(f) == ToSet(PathPrefixes(folders[f].key))
           K == {paths(f) : f \in kept}
           keys == UNION K
           Rank(key) == Cardinality({k \in keys : KeyLess(k, key)})
<1>1. IsFiniteSet(kept)
  BY IndicesFinite DEF LayoutOK
<1>2. \A f \in kept : IsFiniteSet(paths(f))
  BY PrefixesAreSeq, ToSetFinite DEF LayoutOK, FolderOK
<1>3. IsFiniteSet(K)
  <2> DEFINE h == [f \in kept |-> paths(f)]
  <2> HIDE DEF paths, kept
  <2>1. h \in Surjection(kept, K)
    BY DEF Surjection
  <2> QED
    BY <1>1, <2>1, FS_Surjection
<1>4. IsFiniteSet(keys)
  <2> HIDE DEF paths, kept
  <2>1. \A A \in K : IsFiniteSet(A)
    BY <1>2
  <2> HIDE DEF K
  <2> QED
    BY <1>3, <2>1, FS_UNION
<1>5. Cardinality(keys) \in Nat
  BY <1>4, FS_CardinalityType
<1>6. PlannedKeys(folders) =
        [n \in 1..Cardinality(keys) |-> CHOOSE key \in keys : Rank(key) = n - 1]
  BY DEF PlannedKeys
<1> HIDE DEF keys, Rank
<1> QED
  BY <1>5, <1>6, FunctionIsSeq

(* The plan of a layout counts. *)
LEMMA PlansTyped ==
  ASSUME NEW folders, LayoutOK(folders)
  PROVE  PlansOK(plan_transaction_folders(folders))
<1> DEFINE keys == PlannedKeys(folders)
           Children(key) == {k \in ToSet(keys) : Len(k) = Len(key) + 1 /\ IsPrefix(key, k)}
           Here(key, field) ==
             IF key \in Keys(folders) THEN Len(folders[FolderAt(folders, key)][field]) ELSE 0
           plans == plan_transaction_folders(folders)
<1>1. IsSeq(keys)
  BY PlannedKeysAreSeq
<1>2. plans = [p \in DOMAIN keys |->
                 [key |-> keys[p], node |-> transaction_folder_node(folders, keys[p]),
                  children |-> Cardinality(Children(keys[p])),
                  messages |-> Here(keys[p], "messages"),
                  associated |-> Here(keys[p], "associated")]]
  BY DEF plan_transaction_folders
<1>3. \A key : Cardinality(Children(key)) \in Nat
  <2> HIDE DEF keys
  <2> SUFFICES ASSUME NEW key PROVE Cardinality(Children(key)) \in Nat
    OBVIOUS
  <2>1. Children(key) \subseteq ToSet(keys)
    OBVIOUS
  <2> HIDE DEF Children
  <2> QED
    BY <1>1, <2>1, SubsetOfSeqFinite
<1>4. \A key : Here(key, "messages") \in Nat /\ Here(key, "associated") \in Nat
  <2> SUFFICES ASSUME NEW key, key \in Keys(folders)
               PROVE  /\ Len(folders[FolderAt(folders, key)].messages) \in Nat
                      /\ Len(folders[FolderAt(folders, key)].associated) \in Nat
    OBVIOUS
  <2>1. FolderAt(folders, key) \in DOMAIN folders
    BY DEF Keys, FolderAt
  <2>2. FolderOK(folders[FolderAt(folders, key)])
    BY <2>1 DEF LayoutOK
  <2> QED
    BY <2>2, SeqFacts DEF FolderOK
<1> HIDE DEF keys, Children, Here, plans
<1>5. IsSeq(plans)
  BY <1>1, <1>2, MapIsSeq
<1>6. DOMAIN plans = DOMAIN keys
  BY <1>2
<1>7. ASSUME NEW p \in DOMAIN plans
      PROVE  plans[p].children \in Nat /\ plans[p].messages \in Nat /\ plans[p].associated \in Nat
  BY <1>2, <1>3, <1>4, <1>6
<1>8. PlansOK(plans)
  BY <1>5, <1>7 DEF PlansOK
<1> QED
  BY <1>8 DEF plans

(* What a folder needs. *)
LEMMA FolderWants ==
  ASSUME NEW folder, folder.children \in Nat, folder.messages \in Nat,
         folder.associated \in Nat, NEW isFirst
  PROVE  FolderBlocks(folder, isFirst) \in Seq(Wants)
<1>1. \A form \in {"hierarchy", "contents"}, rows \in Nat, preferred \in Nat, shared \in Nat :
        WantTable(form, rows, preferred, shared) \in Wants
  BY DEF WantTable, Want, Wants
<1>2. \A form \in {"shared", "property"}, preferred \in Nat : Want(form, 0, preferred) \in Wants
  BY DEF Want, Wants
<1>3. \A a, b, c, d \in Wants : <<a, b, c, d>> \in Seq(Wants)
  OBVIOUS
<1>4. /\ (IF folder.node = DeletedFolder THEN Want("shared", 0, 8)
          ELSE Want("property", 0, IF isFirst THEN 10 ELSE NoBlock)) \in Wants
      /\ WantTable("hierarchy", folder.children, NoBlock, 9) \in Wants
      /\ WantTable("contents", folder.messages, IF isFirst THEN 11 ELSE NoBlock, 5) \in Wants
      /\ WantTable("contents", folder.associated, NoBlock, 13) \in Wants
  BY <1>1, <1>2 DEF NoBlock
<1> QED
  BY <1>3, <1>4 DEF FolderBlocks

(* What a plan needs. *)
LEMMA WantsTyped ==
  ASSUME NEW plans, PlansOK(plans), NEW named \in Nat
  PROVE  WantedBlocks(plans, named) \in Seq(Wants)
<1> DEFINE runs == [p \in DOMAIN plans |-> FolderBlocks(plans[p], p = 1)]
           Top(location) == Count(plans, LAMBDA p : p.key[1] = location /\ Len(p.key) = 2
                                                      /\ p.node # DeletedFolder)
           last == <<Want("hierarchy", 3 + Top(0), 4), Want("hierarchy", 1 + Top(1), 7),
                     Want("names", named, NoBlock)>>
<1>1. IsSeq(runs) /\ Len(runs) = Len(plans) /\ DOMAIN plans = 1..Len(plans)
  BY MapIsSeq, SeqFacts DEF PlansOK
<1>2. \A p \in 1..Len(runs) : runs[p] \in Seq(Wants)
  BY <1>1, FolderWants DEF PlansOK
<1>3. FlattenSeq(runs) \in Seq(Wants)
  <2> HIDE DEF runs
  <2> QED
    BY <1>1, <1>2, FlattenTyped
<1>4. \A location : Top(location) \in Nat
  BY IndicesFinite DEF Count, PlansOK
<1>5. last \in Seq(Wants)
  <2> HIDE DEF Top
  <2>1. /\ Want("hierarchy", 3 + Top(0), 4) \in Wants
        /\ Want("hierarchy", 1 + Top(1), 7) \in Wants
        /\ Want("names", named, NoBlock) \in Wants
    BY <1>4 DEF Want, Wants, NoBlock
  <2> QED
    BY <2>1
<1>6. WantedBlocks(plans, named) = FlattenSeq(runs) \o last
  BY DEF WantedBlocks
<1> HIDE DEF runs, last
<1> QED
  BY <1>3, <1>5, <1>6

(* Everything that is wanted is built, each as a list of blocks. *)
LEMMA BuiltInOrder ==
  ASSUME NEW wanted \in Seq(Wants), NEW start
  PROVE  LET built == BuildInOrder(wanted, start)
         IN  IsSeq(built) /\ \A b \in DOMAIN built : IsSeq(built[b].blocks)
<1> DEFINE from == FoldLeft(LAMBDA nexts, want :
                              Append(nexts, BuildWanted(want, Last(nexts)).next), <<start>>, wanted)
           built == BuildInOrder(wanted, start)
<1>1. built = [n \in 1..Len(wanted) |-> BuildWanted(wanted[n], from[n])]
  BY DEF BuildInOrder
<1>2. Len(wanted) \in Nat /\ \A n \in 1..Len(wanted) : wanted[n] \in Wants
  OBVIOUS
<1> HIDE DEF from, built
<1>3. IsSeq(built)
  BY <1>1, <1>2, FunctionIsSeq
<1>4. \A b \in DOMAIN built : IsSeq(built[b].blocks)
  BY <1>1, <1>2, WantedIsBuilt
<1> QED
  BY <1>3, <1>4 DEF built

(* The three table nodes of a folder. *)
LEMMA TableNodesAreSeq ==
  ASSUME NEW folder, NEW tables
  PROVE  IsSeq(TableNodes(folder, tables))
  BY FunctionIsSeq DEF TableNodes

(* A store has nodes, whatever its folders. *)
LEMMA FixedNodesAreSeq ==
  ASSUME NEW named, NEW rootTable, NEW ipmTable, NEW deleted
  PROVE  IsSeq(FixedNodes(named, rootTable, ipmTable, deleted))
         /\ Len(FixedNodes(named, rootTable, ipmTable, deleted)) > 0
<1> DEFINE always ==
  <<Node(<<"store", 1>>, 1, NoBlock), Node(<<"names", 3>>, named.root, named.sub),
    Node(<<"queue", 15>>, NoBlock, NoBlock), Node(<<"activity", 16>>, 19, NoBlock),
    Node(<<"template", 1547>>, 20, NoBlock), Node(<<"template", 1548>>, 21, NoBlock),
    Node(<<"template", 1549>>, 9, NoBlock), Node(<<"template", 1550>>, 5, NoBlock),
    Node(<<"template", 1551>>, 13, NoBlock), Node(<<"template", 1552>>, 16, NoBlock),
    Node(<<"recipients", 1682>>, 17, NoBlock), Node(<<"attachments", 1649>>, 18, NoBlock),
    Node(<<"template", 1718>>, 22, NoBlock), Node(<<"template", 1751>>, 23, NoBlock),
    Node(<<"template", 1784>>, 24, NoBlock), Node(<<"map", 3073>>, 26, NoBlock),
    Node(<<"template", 3777>>, NoBlock, NoBlock),
    Node(RootFolder, 3, NoBlock), Node(IpmFolder, 6, NoBlock),
    Node(SearchRoot, 14, NoBlock), Node(SpamSearch, 15, NoBlock),
    Node(<<"updates", 273>>, NoBlock, NoBlock), Node(<<"criteria", 273>>, 25, NoBlock),
    Node(<<"found", 273>>, 16, NoBlock)>>
           rootNodes == TableNodes(RootFolder, <<rootTable, Shared(5, 0), Shared(13, 0)>>)
           ipmNodes == TableNodes(IpmFolder, <<ipmTable, Shared(5, 0), Shared(13, 0)>>)
           searchNodes == TableNodes(SearchRoot, <<Shared(9, 0), Shared(5, 0), Shared(13, 0)>>)
           deletedNodes ==
             IF deleted THEN <<>>
             ELSE <<Node(DeletedFolder, 8, NoBlock)>>
                    \o TableNodes(DeletedFolder, <<Shared(9, 0), Shared(5, 0), Shared(13, 0)>>)
<1>1. IsSeq(always) /\ Len(always) > 0
  <2> DEFINE count == 24
  <2>1. always = [n \in 1..count |-> always[n]] /\ count \in Nat /\ count > 0
    OBVIOUS
  <2> HIDE DEF always, count
  <2>2. IsSeq(always) /\ Len(always) = count
    BY <2>1, FunctionIsSeq
  <2> QED
    BY <2>1, <2>2
<1>2. IsSeq(rootNodes) /\ IsSeq(ipmNodes) /\ IsSeq(searchNodes)
  BY TableNodesAreSeq
<1>3. IsSeq(deletedNodes)
  BY TableNodesAreSeq, TupleIsSeq, ConcatIsSeq
<1>4. FixedNodes(named, rootTable, ipmTable, deleted) =
        always \o rootNodes \o ipmNodes \o searchNodes \o deletedNodes
  BY DEF FixedNodes
<1> HIDE DEF always, rootNodes, ipmNodes, searchNodes, deletedNodes
<1>5. IsSeq(always \o rootNodes) /\ Len(always \o rootNodes) > 0
  BY <1>1, <1>2, ConcatIsSeq, SeqFacts
<1>6. IsSeq(always \o rootNodes \o ipmNodes) /\ Len(always \o rootNodes \o ipmNodes) > 0
  BY <1>2, <1>5, ConcatIsSeq, SeqFacts
<1>7. /\ IsSeq(always \o rootNodes \o ipmNodes \o searchNodes)
      /\ Len(always \o rootNodes \o ipmNodes \o searchNodes) > 0
  BY <1>2, <1>6, ConcatIsSeq, SeqFacts
<1> QED
  BY <1>3, <1>4, <1>7, ConcatIsSeq, SeqFacts

(* The entries of the node B-tree. *)
LEMMA NodeEntriesAreSeq ==
  ASSUME NEW fixed, IsSeq(fixed), Len(fixed) > 0, NEW folders, IsSeq(folders),
         NEW tops, IsSeq(tops)
  PROVE  IsSeq(node_entries(fixed, folders, tops)) /\ Len(node_entries(fixed, folders, tops)) > 0
<1> DEFINE runs == [f \in DOMAIN folders |-> FolderNodes(folders[f])]
           messages == [t \in DOMAIN tops |-> Node(tops[t].node, tops[t].property, tops[t].subnode)]
<1>1. IsSeq(runs) /\ Len(runs) = Len(folders) /\ DOMAIN folders = 1..Len(folders)
  BY MapIsSeq, SeqFacts
<1>2. \A f \in 1..Len(runs) : IsSeq(runs[f])
  BY <1>1, TableNodesAreSeq, TupleIsSeq, ConcatIsSeq DEF FolderNodes
<1>3. IsSeq(FlattenSeq(runs))
  <2> HIDE DEF runs
  <2> QED
    BY <1>1, <1>2, FlattenIsSeq
<1>4. IsSeq(messages)
  BY MapIsSeq
<1>5. node_entries(fixed, folders, tops) = fixed \o FlattenSeq(runs) \o messages
  BY DEF node_entries
<1> HIDE DEF runs, messages
<1>6. IsSeq(fixed \o FlattenSeq(runs)) /\ Len(fixed \o FlattenSeq(runs)) > 0
  BY <1>3, ConcatIsSeq, SeqFacts
<1> QED
  BY <1>4, <1>5, <1>6, ConcatIsSeq, SeqFacts

(* A store has blocks, whatever its folders. *)
LEMMA FixedBlocksAreSeq ==
  ASSUME NEW plans
  PROVE  IsSeq(FixedBlocks(plans)) /\ Len(FixedBlocks(plans)) > 0
<1> DEFINE ids == <<1, 3, 6, 8, 14, 15, 19, 20, 21, 22, 23, 24, 25>>
           plain == [n \in 1..13 |-> Data(ids[n], TableHead)]
           counted == <<Data(26, 2), Counted(16, 3),
                        Counted(5, SharedRefCount(5, plans, "messages")),
                        Counted(9, SharedRefCount(3, plans, "children")),
                        Counted(13, SharedRefCount(5, plans, "associated"))>>
<1>1. IsSeq(plain) /\ Len(plain) = 13
  <2> DEFINE count == 13
  <2>1. plain = [n \in 1..count |-> plain[n]] /\ count \in Nat
    OBVIOUS
  <2> HIDE DEF plain, count
  <2>2. IsSeq(plain) /\ Len(plain) = count
    BY <2>1, FunctionIsSeq
  <2> QED
    BY <2>2 DEF count
<1>2. IsSeq(counted)
  <2>1. counted = [n \in 1..5 |-> counted[n]]
    OBVIOUS
  <2> HIDE DEF counted
  <2> QED
    BY <2>1, FunctionIsSeq
<1>3. FixedBlocks(plans) = plain \o counted
  BY DEF FixedBlocks
<1> HIDE DEF plain, counted
<1> QED
  BY <1>1, <1>2, <1>3, ConcatIsSeq, SeqFacts

(* The property blocks of the folders. *)
LEMMA PropertyBlocksAreSeq ==
  ASSUME NEW folders, IsSeq(folders)
  PROVE  IsSeq(PropertyBlocks(folders))
<1> DEFINE runs == [f \in DOMAIN folders |->
                      IF folders[f].node = DeletedFolder THEN <<>>
                      ELSE <<Data(folders[f].property, TableHead)>>]
<1>1. IsSeq(runs) /\ Len(runs) = Len(folders) /\ DOMAIN folders = 1..Len(folders)
  BY MapIsSeq, SeqFacts
<1>2. \A f \in 1..Len(runs) : IsSeq(runs[f])
  BY <1>1, TupleIsSeq
<1>3. PropertyBlocks(folders) = FlattenSeq(runs)
  BY DEF PropertyBlocks
<1> HIDE DEF runs
<1> QED
  BY <1>1, <1>2, <1>3, FlattenIsSeq

(* The plan has blocks and nodes. *)
LEMMA PlanTyped ==
  ASSUME NEW folders, LayoutOK(folders), NEW s, IsSeq(s.tops), NEW named \in Nat
  PROVE  LET plan == build_finalization_plan(folders, s, named)
         IN  /\ IsSeq(plan.blocks) /\ Len(plan.blocks) > 0
             /\ IsSeq(plan.nodes) /\ Len(plan.nodes) > 0
<1> DEFINE plans == plan_transaction_folders(folders)
           built == BuildInOrder(WantedBlocks(plans, named), s.next)
           planned == PlannedFolders(plans, built)
           always  == SubSeq(built, 4 * Len(plans) + 1, Len(built))
           deleted == \E f \in DOMAIN planned : planned[f].node = DeletedFolder
           runs == [b \in DOMAIN built |-> built[b].blocks]
           fixed == FixedNodes(always[3], always[1], always[2], deleted)
           plan == build_finalization_plan(folders, s, named)
<1>1. PlansOK(plans)
  BY PlansTyped
<1>2. IsSeq(built) /\ \A b \in DOMAIN built : IsSeq(built[b].blocks)
  <2> HIDE DEF plans
  <2> QED
    BY <1>1, WantsTyped, BuiltInOrder
<1>3. IsSeq(planned)
  <2> HIDE DEF plans, built
  <2> QED
    BY <1>1, MapIsSeq DEF PlannedFolders, PlansOK
<1>4. IsSeq(FlattenSeq(runs))
  <2> HIDE DEF built
  <2>1. IsSeq(runs) /\ Len(runs) = Len(built) /\ DOMAIN built = 1..Len(built)
    BY <1>2, MapIsSeq, SeqFacts
  <2>2. \A b \in 1..Len(runs) : IsSeq(runs[b])
    BY <1>2, <2>1
  <2> HIDE DEF runs
  <2> QED
    BY <2>1, <2>2, FlattenIsSeq
<1>5. /\ plan.blocks = SortedById(FixedBlocks(plans) \o PropertyBlocks(planned) \o FlattenSeq(runs))
      /\ plan.nodes = node_entries(fixed, planned, s.tops)
  BY DEF build_finalization_plan, FinalizationPlan
<1> HIDE DEF plans, built, planned, always, deleted, runs, plan
<1>6. /\ IsSeq(FixedBlocks(plans) \o PropertyBlocks(planned))
      /\ Len(FixedBlocks(plans) \o PropertyBlocks(planned)) > 0
  BY <1>3, FixedBlocksAreSeq, PropertyBlocksAreSeq, ConcatIsSeq, SeqFacts
<1>7. IsSeq(plan.blocks) /\ Len(plan.blocks) > 0
  <2> DEFINE all == FixedBlocks(plans) \o PropertyBlocks(planned) \o FlattenSeq(runs)
  <2>1. IsSeq(all) /\ Len(all) > 0
    BY <1>4, <1>6, ConcatIsSeq, SeqFacts
  <2>2. plan.blocks = SortedById(all)
    BY <1>5
  <2> HIDE DEF all
  <2> QED
    BY <2>1, <2>2, SortedIsSeq
<1>8. IsSeq(plan.nodes) /\ Len(plan.nodes) > 0
  BY <1>3, <1>5, FixedNodesAreSeq, NodeEntriesAreSeq
<1> QED
  BY <1>7, <1>8 DEF plan

-----------------------------------------------------------------------------
(***************************************************************************)
(* The steps in which a message is built.                                  *)
(***************************************************************************)
(* The steps of a message: with a number, with a message, and the return. *)
Values == [op : {"recipients", "attachment", "stream", "large", "close", "finish"},
           arg : Nat, local : BOOLEAN]
Embeds == [op : {"embed"}, arg : Bodies, local : BOOLEAN]
BodySteps == Values \cup Embeds
Returns == [op : {"embedded"}, arg : Nat \ {0}, local : BOOLEAN]

(* Sequences of a set stay in it. *)
LEMMA TypedSequences ==
  ASSUME NEW S
  PROVE  /\ <<>> \in Seq(S) /\ \A x \in S : <<x>> \in Seq(S)
         /\ \A s, t \in Seq(S) : s \o t \in Seq(S)
  OBVIOUS

(* A sequence built element by element from another. *)
LEMMA MapTyped ==
  ASSUME NEW S, NEW s, IsSeq(s), NEW f, f = [i \in DOMAIN s |-> f[i]],
         \A i \in DOMAIN s : f[i] \in S
  PROVE  f \in Seq(S)
<1>1. DOMAIN s = 1..Len(s) /\ Len(s) \in Nat
  BY SeqFacts
<1>2. f \in [1..Len(s) -> S]
  BY <1>1
<1> QED
  BY <1>1, <1>2

(* The steps that stream and externalize payloads. *)
LEMMA PayloadStepsTyped ==
  ASSUME NEW m, m.streams \in Seq(Nat), m.large \in Seq(Nat), NEW local \in BOOLEAN
  PROVE  PayloadSteps(m, local) \in Seq(BodySteps)
<1>1. \A op \in {"stream", "large"}, size \in Nat : Step(op, size, local) \in BodySteps
  BY DEF Step, Values, BodySteps
<1>2. [s \in DOMAIN m.streams |-> Step("stream", m.streams[s], local)] \in Seq(BodySteps)
  <2> DEFINE f == [s \in DOMAIN m.streams |-> Step("stream", m.streams[s], local)]
  <2>1. IsSeq(m.streams) /\ \A s \in DOMAIN m.streams : m.streams[s] \in Nat
    BY SeqIsSeq
  <2>2. f = [s \in DOMAIN m.streams |-> f[s]] /\ \A s \in DOMAIN m.streams : f[s] \in BodySteps
    BY <1>1, <2>1
  <2> HIDE DEF f
  <2>3. f \in Seq(BodySteps)
    BY <2>1, <2>2, MapTyped
  <2> QED
    BY <2>3 DEF f
<1>3. [p \in DOMAIN m.large |-> Step("large", m.large[p], local)] \in Seq(BodySteps)
  <2> DEFINE f == [p \in DOMAIN m.large |-> Step("large", m.large[p], local)]
  <2>1. IsSeq(m.large) /\ \A p \in DOMAIN m.large : m.large[p] \in Nat
    BY SeqIsSeq
  <2>2. f = [p \in DOMAIN m.large |-> f[p]] /\ \A p \in DOMAIN m.large : f[p] \in BodySteps
    BY <1>1, <2>1
  <2> HIDE DEF f
  <2>3. f \in Seq(BodySteps)
    BY <2>1, <2>2, MapTyped
  <2> QED
    BY <2>3 DEF f
<1> QED
  BY <1>2, <1>3, TypedSequences DEF PayloadSteps

(* The steps of an attachment. *)
LEMMA AttachmentStepsTyped ==
  ASSUME NEW a \in Files \cup Carriers, a.kind = "embedded" => a \in Carriers
  PROVE  AttachmentSteps(a) \in Seq(BodySteps)
<1>1. a.streams \in Seq(Nat) /\ a.large \in Seq(Nat) /\ a.pc \in Nat
  BY DEF Files, Carriers
<1>2. ContentSteps(a) \in Seq(BodySteps)
  <2>1. CASE a.kind = "embedded"
    <3>1. Step("embed", a.message, TRUE) \in BodySteps
      BY <2>1 DEF Step, Embeds, BodySteps, Carriers
    <3> QED
      BY <2>1, <3>1, TypedSequences DEF ContentSteps
  <2>2. CASE a.kind # "embedded"
    <3>1. a.size \in Nat
      BY <2>2 DEF Files, Carriers
    <3>2. Step("stream", a.size, TRUE) \in BodySteps
      BY <3>1 DEF Step, Values, BodySteps
    <3> QED
      BY <2>2, <3>2, TypedSequences DEF ContentSteps
  <2> QED
    BY <2>1, <2>2
<1>3. PayloadSteps(a, TRUE) \in Seq(BodySteps)
  BY <1>1, PayloadStepsTyped
<1>4. Step("attachment", 0, TRUE) \in BodySteps /\ Step("close", a.pc, TRUE) \in BodySteps
  BY <1>1 DEF Step, Values, BodySteps
<1> QED
  BY <1>2, <1>3, <1>4, TypedSequences DEF AttachmentSteps

(* The steps of a message. *)
LEMMA StepsTyped ==
  ASSUME NEW m \in Messages \cup Bodies
  PROVE  StepsOf(m) \in Seq(BodySteps)
<1> DEFINE runs == [a \in DOMAIN m.attachments |-> AttachmentSteps(m.attachments[a])]
           first == <<Step("recipients", m.recipients, FALSE)>>
           last == <<Step("finish", m.pc, FALSE)>>
<1>1. /\ m.recipients \in Nat /\ m.streams \in Seq(Nat) /\ m.large \in Seq(Nat) /\ m.pc \in Nat
      /\ m.attachments \in Seq(Files \cup Carriers)
      /\ \A a \in DOMAIN m.attachments :
           m.attachments[a].kind = "embedded" => m.attachments[a] \in Carriers
  BY MessageAssumption
<1>2. \A a \in DOMAIN m.attachments : runs[a] \in Seq(BodySteps)
  BY <1>1, AttachmentStepsTyped
<1>3. IsSeq(runs) /\ Len(runs) = Len(m.attachments)
      /\ DOMAIN m.attachments = 1..Len(m.attachments)
  <2>1. IsSeq(m.attachments)
    BY <1>1, SeqIsSeq
  <2> QED
    BY <2>1, MapIsSeq, SeqFacts
<1>4. FlattenSeq(runs) \in Seq(BodySteps)
  <2> HIDE DEF runs
  <2> QED
    BY <1>2, <1>3, FlattenTyped
<1>5. first \in Seq(BodySteps) /\ last \in Seq(BodySteps)
  <2>1. Step("recipients", m.recipients, FALSE) \in BodySteps
        /\ Step("finish", m.pc, FALSE) \in BodySteps
    BY <1>1 DEF Step, Values, BodySteps
  <2> QED
    BY <2>1, TypedSequences
<1>6. PayloadSteps(m, FALSE) \in Seq(BodySteps)
  BY <1>1, PayloadStepsTyped
<1>7. StepsOf(m) = first \o FlattenSeq(runs) \o PayloadSteps(m, FALSE) \o last
  BY DEF StepsOf
<1> HIDE DEF runs, first, last
<1>8. first \o FlattenSeq(runs) \in Seq(BodySteps)
  BY <1>4, <1>5, TypedSequences
<1>9. first \o FlattenSeq(runs) \o PayloadSteps(m, FALSE) \in Seq(BodySteps)
  BY <1>6, <1>8, TypedSequences
<1> QED
  BY <1>5, <1>7, <1>9, TypedSequences

(***************************************************************************)
(* An extent of this size at this offset is clear of the map pages and of  *)
(* the border of its region.                                               *)
(***************************************************************************)
Clear(offset, size) ==
  /\ offset \in Nat /\ FirstAmap <= offset /\ size \in 1..MaxExtent
  /\ \A page \in MapPages(Region(offset)) : page + Page <= offset
  /\ offset + size <= RegionStart(Region(offset) + 1)

(* A run of extents from the cursor on, each behind the one before. *)
Run(at, cursor, sizes, n) ==
  /\ IsSeq(at) /\ Len(at) = n
  /\ \A i \in 1..n : Clear(at[i], sizes[i]) /\ cursor <= at[i]
  /\ \A i \in 1..n : at[i] + sizes[i] <= at[n] + sizes[n]
  /\ \A i \in 2..n : at[i - 1] + sizes[i - 1] <= at[i]

(* allocate_extent, by ExtentPlaced, keeps clear. *)
LEMMA AllocatedClear ==
  ASSUME NEW cursor \in Nat, FirstAmap <= cursor, NEW size \in 1..MaxExtent,
         NEW alignment \in {Slot, Page}
  PROVE  Clear(allocate_extent(cursor, size, alignment), size)
         /\ cursor <= allocate_extent(cursor, size, alignment)
<1> DEFINE offset == allocate_extent(cursor, size, alignment)
<1>1. /\ offset \in Nat /\ cursor <= offset
      /\ \A page \in MapPages(Region(offset)) : page + Page <= offset
      /\ offset + size <= RegionStart(Region(offset) + 1)
  BY ExtentPlaced
<1>2. FirstAmap <= offset
  <2> HIDE DEF offset
  <2> QED
    BY <1>1, GeometryAssumption
<1> QED
  BY <1>1, <1>2 DEF Clear

(* One extent more. *)
LEMMA RunGrows ==
  ASSUME NEW cursor \in Nat, FirstAmap <= cursor, NEW sizes, NEW n \in Nat \ {0},
         \A i \in 1..(n + 1) : sizes[i] \in 1..MaxExtent, NEW alignment \in {Slot, Page},
         NEW at, Run(at, cursor, sizes, n)
  PROVE  Run(Append(at, allocate_extent(at[n] + sizes[n], sizes[n + 1], alignment)),
             cursor, sizes, n + 1)
<1> DEFINE new == allocate_extent(at[n] + sizes[n], sizes[n + 1], alignment)
           more == Append(at, new)
<1>1. /\ at[n] + sizes[n] \in Nat /\ FirstAmap <= at[n] + sizes[n] /\ cursor <= at[n] + sizes[n]
      /\ sizes[n + 1] \in 1..MaxExtent
  BY GeometryAssumption DEF Run, Clear
<1>2. Clear(new, sizes[n + 1]) /\ at[n] + sizes[n] <= new
  BY <1>1, AllocatedClear
<1> HIDE DEF new
<1>3. /\ IsSeq(more) /\ Len(more) = n + 1 /\ more[n + 1] = new
      /\ \A i \in 1..n : more[i] = at[i]
  BY AppendIsSeq DEF Run
<1> HIDE DEF more
<1>4. ASSUME NEW i \in 1..(n + 1) PROVE Clear(more[i], sizes[i]) /\ cursor <= more[i]
  <2>1. CASE i \in 1..n
    BY <1>3, <2>1 DEF Run
  <2>2. CASE i = n + 1
    BY <1>1, <1>2, <1>3, <2>2 DEF Clear
  <2> QED
    BY <2>1, <2>2
<1>5. ASSUME NEW i \in 1..(n + 1) PROVE more[i] + sizes[i] <= more[n + 1] + sizes[n + 1]
  <2>1. CASE i \in 1..n
    <3>1. more[i] = at[i] /\ at[i] + sizes[i] <= at[n] + sizes[n] /\ at[i] + sizes[i] \in Nat
      BY <1>3, <2>1 DEF Run, Clear
    <3>2. new \in Nat /\ sizes[n + 1] \in Nat
      BY <1>1, <1>2 DEF Clear
    <3> QED
      BY <1>1, <1>2, <1>3, <3>1, <3>2
  <2>2. CASE i = n + 1
    BY <1>2, <1>3, <2>2 DEF Clear
  <2> QED
    BY <2>1, <2>2
<1>6. ASSUME NEW i \in 2..(n + 1) PROVE more[i - 1] + sizes[i - 1] <= more[i]
  <2>1. CASE i \in 2..n
    BY <1>3, <2>1 DEF Run
  <2>2. CASE i = n + 1
    BY <1>2, <1>3, <2>2
  <2> QED
    BY <2>1, <2>2
<1>7. Run(more, cursor, sizes, n + 1)
  BY <1>3, <1>4, <1>5, <1>6 DEF Run
<1> QED
  BY <1>7 DEF more, new

(* Extents that are placed one after the other are a run. *)
LEMMA PlacedRun ==
  ASSUME NEW cursor \in Nat, FirstAmap <= cursor, NEW sizes, IsSeq(sizes), sizes # <<>>,
         \A i \in 1..Len(sizes) : sizes[i] \in 1..MaxExtent, NEW alignment \in {Slot, Page}
  PROVE  Run(PlacedAt(cursor, sizes, alignment), cursor, sizes, Len(sizes))
<1> DEFINE N == Len(sizes)
           Body(g, n) ==
             IF n = 1 THEN <<allocate_extent(cursor, sizes[1], alignment)>>
             ELSE Append(g[n - 1], allocate_extent(g[n - 1][n - 1] + sizes[n - 1], sizes[n],
                                                   alignment))
           Good(n, g) == g = [i \in 1..n |-> Body(g, i)]
           At == CHOOSE g : Good(N, g)
<1>1. N \in Nat \ {0}
  BY SeqFacts
<1>2. PlacedAt(cursor, sizes, alignment) = At[N]
  BY DEF PlacedAt
<1>3. Good(N, At)
  <2> DEFINE T == {n \in Nat : \E g : Good(n, g)}
  <2>1. 1 \in T
    <3>1. Good(1, [i \in 1..1 |-> <<allocate_extent(cursor, sizes[1], alignment)>>])
      OBVIOUS
    <3> HIDE DEF Good
    <3> QED
      BY <3>1
  <2>2. ASSUME NEW n \in 1..(N - 1), n \in T PROVE n + 1 \in T
    <3>1. PICK g : Good(n, g)
      BY <2>2
    <3> DEFINE h == [i \in 1..(n + 1) |-> IF i <= n THEN g[i] ELSE Body(g, n + 1)]
    <3>2. ASSUME NEW i \in 1..(n + 1) PROVE h[i] = Body(h, i)
      <4>1. i = 1 \/ h[i - 1] = g[i - 1]
        OBVIOUS
      <4>2. Body(h, i) = Body(g, i)
        <5> HIDE DEF h
        <5> QED
          BY <4>1
      <4>3. CASE i <= n
        <5>1. i \in 1..n
          BY <4>3
        <5>2. g[i] = Body(g, i)
          <6> HIDE DEF Body
          <6> QED
            BY ONLY <3>1, <5>1
        <5>3. h[i] = g[i]
          BY <4>3
        <5> HIDE DEF h, Body
        <5> QED
          BY <4>2, <5>2, <5>3
      <4>4. CASE i = n + 1
        <5> HIDE DEF Body
        <5>1. h[i] = Body(g, n + 1)
          BY <4>4
        <5> HIDE DEF h
        <5> QED
          BY <4>2, <4>4, <5>1
      <4> QED
        BY <4>3, <4>4
    <3>3. Good(n + 1, h)
      <4> HIDE DEF Body
      <4>1. h = [i \in 1..(n + 1) |-> h[i]]
        OBVIOUS
      <4> HIDE DEF h
      <4> QED
        BY <3>2, <4>1
    <3> HIDE DEF Good, h
    <3> QED
      BY <3>3
  <2> HIDE DEF Good
  <2>3. N \in T
    <3> HIDE DEF T, N
    <3>1. \A n \in 1..N : n \in T
      BY <1>1, <2>1, <2>2, RangeInduction
    <3> QED
      BY <1>1, <3>1
  <2> QED
    BY <2>3
<1> HIDE DEF At
<1>4. \A n \in 1..N : At[n] = Body(At, n)
  <2> HIDE DEF Body
  <2> QED
    BY <1>3
<1> HIDE DEF Good
<1> DEFINE U == {n \in Nat : Run(At[n], cursor, sizes, n)}
<1>5. 1 \in U
  <2> DEFINE a == allocate_extent(cursor, sizes[1], alignment)
  <2>1. At[1] = <<a>>
    BY <1>1, <1>4
  <2>2. Clear(a, sizes[1]) /\ cursor <= a
    BY <1>1, AllocatedClear
  <2> HIDE DEF a
  <2>3. IsSeq(<<a>>) /\ Len(<<a>>) = 1 /\ <<a>>[1] = a
    BY TupleIsSeq
  <2>4. Run(<<a>>, cursor, sizes, 1)
    BY <2>2, <2>3 DEF Run, Clear
  <2> QED
    BY <2>1, <2>4
<1>6. ASSUME NEW n \in 1..(N - 1), n \in U PROVE n + 1 \in U
  <2>1. n + 1 \in 1..N /\ n \in Nat \ {0} /\ n + 1 # 1 /\ (n + 1) - 1 = n
    BY <1>1
  <2>2. At[n + 1] = Append(At[n], allocate_extent(At[n][n] + sizes[n], sizes[n + 1], alignment))
    BY <1>4, <2>1
  <2>3. Run(At[n], cursor, sizes, n)
    BY <1>6
  <2>4. \A i \in 1..(n + 1) : sizes[i] \in 1..MaxExtent
    BY <1>1, <2>1
  <2>5. Run(At[n + 1], cursor, sizes, n + 1)
    <3> DEFINE before == At[n]
    <3>1. Run(before, cursor, sizes, n)
      BY <2>3
    <3>2. At[n + 1] = Append(before, allocate_extent(before[n] + sizes[n], sizes[n + 1], alignment))
      BY <2>2
    <3> HIDE DEF before
    <3> QED
      BY <2>1, <2>4, <3>1, <3>2, RunGrows
  <2> QED
    BY <2>1, <2>5
<1>7. N \in U
  <2> HIDE DEF U, N
  <2>1. \A n \in 1..N : n \in U
    BY <1>1, <1>5, <1>6, RangeInduction
  <2> QED
    BY <1>1, <2>1
<1> QED
  BY <1>2, <1>7

(* The cursor behind a run is behind every extent of it. *)
LEMMA PlacedBounds ==
  ASSUME NEW cursor \in Nat, FirstAmap <= cursor, NEW sizes, IsSeq(sizes),
         \A i \in 1..Len(sizes) : sizes[i] \in 1..MaxExtent, NEW alignment \in {Slot, Page}
  PROVE  LET at  == PlacedAt(cursor, sizes, alignment)
             end == PlacedEnd(cursor, sizes, alignment)
         IN  /\ IsSeq(at) /\ Len(at) = Len(sizes)
             /\ end \in Nat /\ cursor <= end
             /\ \A i \in 1..Len(sizes) :
                  Clear(at[i], sizes[i]) /\ cursor <= at[i] /\ at[i] + sizes[i] <= end
             /\ \A i \in 2..Len(sizes) : at[i - 1] + sizes[i - 1] <= at[i]
<1>1. CASE sizes = <<>>
  BY <1>1, TupleIsSeq DEF PlacedAt, PlacedEnd
<1>2. CASE sizes # <<>>
  <2> DEFINE at == PlacedAt(cursor, sizes, alignment)
             end == PlacedEnd(cursor, sizes, alignment)
             N == Len(sizes)
  <2>1. Run(at, cursor, sizes, N) /\ N \in Nat \ {0}
    BY <1>2, PlacedRun, SeqFacts
  <2>2. end = at[N] + sizes[N]
    BY <1>2 DEF PlacedEnd
  <2> HIDE DEF at, end, N
  <2>3. Clear(at[N], sizes[N]) /\ cursor <= at[N]
    BY <2>1 DEF Run
  <2>4. end \in Nat /\ cursor <= end
    BY <2>2, <2>3 DEF Clear
  <2>5. /\ IsSeq(at) /\ Len(at) = N
        /\ \A i \in 1..N : Clear(at[i], sizes[i]) /\ cursor <= at[i] /\ at[i] + sizes[i] <= end
        /\ \A i \in 2..N : at[i - 1] + sizes[i - 1] <= at[i]
    BY <2>1, <2>2 DEF Run
  <2> QED
    BY <2>4, <2>5 DEF at, end, N
<1> QED
  BY <1>1, <1>2

-----------------------------------------------------------------------------
(***************************************************************************)
(* The pages of the B-trees.                                               *)
(***************************************************************************)
(* A level of a B-tree has pages, and fewer than the level below. *)
LEMMA LevelBounds ==
  ASSUME NEW n \in Nat \ {0}, NEW c \in Nat \ {0}
  PROVE  /\ DivCeil(n, c) \in 1..n
         /\ n # 1 /\ c # 1 => DivCeil(n, c) < n
<1> DEFINE q == (n + c - 1) \div c
<1>1. q \in Nat /\ q * c <= n + c - 1 /\ n + c - 1 < q * c + c
  <2>1. n + c - 1 \in Nat
    OBVIOUS
  <2> QED
    BY <2>1, DivBounds
<1>2. DivCeil(n, c) = q
  BY DEF DivCeil
<1> HIDE DEF q
<1>3. q # 0
  BY <1>1
<1>4. q <= n
  <2> SUFFICES ASSUME q >= n + 1 PROVE FALSE
    BY <1>1
  <2>1. q * c >= (n + 1) * c
    BY <1>1
  <2>2. (n + 1) * c = n * c + c /\ n * c >= n
    OBVIOUS
  <2> QED
    BY <1>1, <2>1, <2>2
<1>5. ASSUME n # 1, c # 1 PROVE q # n
  <2> SUFFICES ASSUME q = n PROVE FALSE
    OBVIOUS
  <2>1. n * c <= n + c - 1
    BY <1>1
  <2>2. (n - 1) * (c - 1) = n * c - n - c + 1
    OBVIOUS
  <2>3. (n - 1) * (c - 1) >= 1
    BY <1>5
  <2> QED
    BY <2>1, <2>2, <2>3
<1> QED
  BY <1>1, <1>2, <1>3, <1>4, <1>5

(* The leaves of a B-tree. *)
LEMMA LevelIsSeq ==
  ASSUME NEW n \in Nat \ {0}, NEW c \in Nat \ {0}
  PROVE  IsSeq(plan_leaf_pages(n, c)) /\ Len(plan_leaf_pages(n, c)) = DivCeil(n, c)
<1>1. DivCeil(n, c) \in Nat
  BY LevelBounds
<1> QED
  BY <1>1, FunctionIsSeq DEF plan_leaf_pages

(* The levels above a level of n entries, of the B-tree that is written. *)
WritesLevels(above, entries, leaf, branch) ==
  /\ WrittenPages(entries, leaf, branch)
       = plan_leaf_pages(entries, leaf) \o above[Len(plan_leaf_pages(entries, leaf))]
  /\ \A n \in 1..entries :
       above[n] = IF n = 1 THEN <<>>
                  ELSE plan_leaf_pages(n, branch) \o above[Len(plan_leaf_pages(n, branch))]

(* The recursion has a solution. *)
LEMMA WrittenLevels ==
  ASSUME NEW entries \in Nat \ {0}, NEW leaf \in Nat \ {0}, NEW branch \in Nat \ {0, 1}
  PROVE  \E above : WritesLevels(above, entries, leaf, branch)
<1> DEFINE Body(g, n) == IF n = 1 THEN <<>>
                         ELSE plan_leaf_pages(n, branch) \o g[Len(plan_leaf_pages(n, branch))]
           Good(n, g) == g = [i \in 1..n |-> Body(g, i)]
           Above == CHOOSE g : Good(entries, g)
           leaves == plan_leaf_pages(entries, leaf)
<1>1. WrittenPages(entries, leaf, branch) = leaves \o Above[Len(leaves)]
  BY DEF WrittenPages
<1>2. \A n \in Nat \ {0} : n # 1 => Len(plan_leaf_pages(n, branch)) \in 1..(n - 1)
  BY LevelBounds, LevelIsSeq
<1>3. Good(entries, Above)
  <2> DEFINE T == {n \in Nat : \E g : Good(n, g)}
  <2>1. 1 \in T
    <3>1. Good(1, [i \in 1..1 |-> <<>>])
      OBVIOUS
    <3> HIDE DEF Good
    <3> QED
      BY <3>1
  <2>2. ASSUME NEW n \in 1..(entries - 1), n \in T PROVE n + 1 \in T
    <3>1. PICK g : Good(n, g)
      BY <2>2
    <3> DEFINE h == [i \in 1..(n + 1) |-> IF i <= n THEN g[i] ELSE Body(g, n + 1)]
    <3>2. ASSUME NEW i \in 1..(n + 1) PROVE h[i] = Body(h, i)
      <4>1. i = 1 \/ h[Len(plan_leaf_pages(i, branch))] = g[Len(plan_leaf_pages(i, branch))]
        <5> HIDE DEF Body
        <5>1. i = 1 \/ Len(plan_leaf_pages(i, branch)) \in 1..n
          BY <1>2
        <5> QED
          BY <5>1
      <4>2. Body(h, i) = Body(g, i)
        <5> HIDE DEF h
        <5> QED
          BY <4>1
      <4>3. CASE i <= n
        <5>1. i \in 1..n
          BY <4>3
        <5>2. g[i] = Body(g, i)
          <6> HIDE DEF Body
          <6> QED
            BY ONLY <3>1, <5>1
        <5>3. h[i] = g[i]
          BY <4>3
        <5> HIDE DEF h, Body
        <5> QED
          BY <4>2, <5>2, <5>3
      <4>4. CASE i = n + 1
        <5> HIDE DEF Body
        <5>1. h[i] = Body(g, n + 1)
          BY <4>4
        <5> HIDE DEF h
        <5> QED
          BY <4>2, <4>4, <5>1
      <4> QED
        BY <4>3, <4>4
    <3>3. Good(n + 1, h)
      <4> HIDE DEF Body
      <4>1. h = [i \in 1..(n + 1) |-> h[i]]
        OBVIOUS
      <4> HIDE DEF h
      <4> QED
        BY <3>2, <4>1
    <3> HIDE DEF Good, h
    <3> QED
      BY <3>3
  <2> HIDE DEF Good
  <2>3. entries \in T
    <3> HIDE DEF T
    <3>1. \A n \in 1..entries : n \in T
      BY <2>1, <2>2, RangeInduction
    <3> QED
      BY <3>1
  <2> QED
    BY <2>3
<1> HIDE DEF Above
<1>4. \A n \in 1..entries : Above[n] = Body(Above, n)
  <2> HIDE DEF Body
  <2> QED
    BY <1>3
<1> HIDE DEF Good
<1>5. WritesLevels(Above, entries, leaf, branch)
  BY <1>1, <1>4 DEF WritesLevels
<1> QED
  BY <1>5

(* The pages of a B-tree, by induction on the size of a level. *)
LEMMA WrittenPagesAreSeq ==
  ASSUME NEW entries \in Nat \ {0}, NEW leaf \in Nat \ {0}, NEW branch \in Nat \ {0, 1}
  PROVE  IsSeq(WrittenPages(entries, leaf, branch)) /\ Len(WrittenPages(entries, leaf, branch)) > 0
<1> DEFINE leaves == plan_leaf_pages(entries, leaf)
           Body(g, n) == IF n = 1 THEN <<>>
                         ELSE plan_leaf_pages(n, branch) \o g[Len(plan_leaf_pages(n, branch))]
<1>2. \A n \in Nat \ {0} : n # 1 => Len(plan_leaf_pages(n, branch)) \in 1..(n - 1)
  BY LevelBounds, LevelIsSeq
<1>3. PICK Above : WritesLevels(Above, entries, leaf, branch)
  BY WrittenLevels
<1>1. WrittenPages(entries, leaf, branch) = leaves \o Above[Len(leaves)]
  BY <1>3 DEF WritesLevels
<1>4. \A n \in 1..entries : Above[n] = Body(Above, n)
  BY <1>3 DEF WritesLevels
<1> DEFINE U == {n \in Nat : \A i \in 1..n : IsSeq(Above[i])}
<1>5. 1 \in U
  <2>1. Above[1] = <<>>
    <3>1. Above[1] = Body(Above, 1)
      <4> HIDE DEF Body
      <4> QED
        BY <1>4
    <3> QED
      BY <3>1
  <2>2. IsSeq(Above[1])
    BY <2>1, TupleIsSeq
  <2>3. \A i \in 1..1 : i = 1
    OBVIOUS
  <2> QED
    BY <2>2, <2>3
<1>6. ASSUME NEW n \in 1..(entries - 1), n \in U PROVE n + 1 \in U
  <2> DEFINE level == plan_leaf_pages(n + 1, branch)
  <2>a. n + 1 \in 1..entries /\ n + 1 # 1 /\ n + 1 \in Nat \ {0} /\ (n + 1) - 1 = n
    OBVIOUS
  <2>1. Above[n + 1] = level \o Above[Len(level)]
    <3>1. Above[n + 1] = Body(Above, n + 1)
      BY <1>4, <2>a
    <3> QED
      BY <2>a, <3>1
  <2>2. IsSeq(level) /\ Len(level) \in 1..n
    <3>1. IsSeq(level)
      BY <2>a, LevelIsSeq
    <3>2. Len(level) \in 1..((n + 1) - 1)
      BY <1>2, <2>a
    <3> QED
      BY <2>a, <3>1, <3>2
  <2> HIDE DEF level
  <2>3. IsSeq(Above[Len(level)])
    BY <1>6, <2>2
  <2>4. IsSeq(Above[n + 1])
    BY <2>1, <2>2, <2>3, ConcatIsSeq
  <2> QED
    BY <1>6, <2>4
<1>7. entries \in U
  <2> HIDE DEF U
  <2>1. \A n \in 1..entries : n \in U
    BY <1>5, <1>6, RangeInduction
  <2> QED
    BY <2>1
<1>8. IsSeq(leaves) /\ Len(leaves) \in 1..entries
  BY LevelIsSeq, LevelBounds
<1> HIDE DEF leaves
<1>9. IsSeq(Above[Len(leaves)])
  BY <1>7, <1>8
<1> QED
  BY <1>1, <1>8, <1>9, ConcatIsSeq, SeqFacts

-----------------------------------------------------------------------------
(***************************************************************************)
(* The inductive invariant.  ExtentsSound says nothing of the cursor, of   *)
(* checkpoints and of what waits to be written, and a rollback sets the    *)
(* cursor back: SpaceInv says that a checkpoint names a prefix of what is  *)
(* written with a cursor behind it, that the checkpoint of a call is not   *)
(* before that of the batch, and that what is built and queued are lists   *)
(* of blocks that a step may place.                                        *)
(***************************************************************************)
(* The fields of the records of the writer. *)
StreamFields == {"fileLen", "cursor", "next", "node", "written", "rows", "associated", "tops"}
CallFields == {"kind", "message", "project", "saved", "parent", "node", "subnode", "frames",
               "todo", "queue", "stage"}
FrameFields == {"message", "property", "recipients", "attachments", "subnodes", "dynamic",
                "table", "referenced", "attachment", "local", "closed"}
WritingFields == {"phase", "queue", "nodes", "projected"}

(* Where what was written ends. *)
End(extent) == extent.offset + physical_size(extent.block)

(* What is written: clear of the format, in order, before the cursor. *)
InOrder(written) ==
  /\ IsSeq(written)
  /\ \A w \in DOMAIN written : Clear(written[w].offset, physical_size(written[w].block))
  /\ \A w \in 2..Len(written) : End(written[w - 1]) <= written[w].offset

(* The cursor is behind the first n extents. *)
Before(written, n, cursor) ==
  /\ cursor \in Nat /\ FirstAmap <= cursor
  /\ \A w \in 1..n : End(written[w]) <= cursor

(* The cursor is behind everything that is written. *)
StreamOK(s) ==
  /\ s = [x \in StreamFields |-> s[x]]
  /\ IsSeq(s.tops) /\ InOrder(s.written)
  /\ Before(s.written, Len(s.written), s.cursor)

(* A checkpoint names a prefix of what is written, and a cursor behind it. *)
CheckpointOK(saved, written) ==
  /\ saved.stream.written \in 0..Len(written) /\ saved.stream.tops \in Nat
  /\ Before(written, saved.stream.written, saved.stream.cursor)
  /\ \A f \in DOMAIN saved.lengths : saved.lengths[f][1] \in Nat /\ saved.lengths[f][2] \in Nat

(* The checkpoint of an open batch is one, and only an open file has a batch. *)
BatchOK == batch.open => CheckpointOK(batch, stream.written) /\ final.phase = "open"

(* A frame collects entries, blocks and rows. *)
FrameOK(frame) ==
  /\ frame = [x \in FrameFields |-> frame[x]]
  /\ IsSeq(frame.subnodes) /\ IsSeq(frame.dynamic) /\ IsSeq(frame.table)

(* Every embedded message ends in a frame below the one it is built in. *)
Nesting(todo, depth) ==
  /\ \A j \in DOMAIN todo : todo[j].op = "embedded" => todo[j].arg < depth
  /\ \A j, k \in DOMAIN todo :
       j < k /\ todo[j].op = "embedded" /\ todo[k].op = "embedded" => todo[k].arg < todo[j].arg

(* What is being built: frames, the steps to come, blocks to emit. *)
WorkOK(c) ==
  /\ c = [x \in CallFields |-> c[x]]
  /\ IsSeq(c.frames) /\ c.frames # <<>> /\ \A f \in DOMAIN c.frames : FrameOK(c.frames[f])
  /\ c.todo \in Seq(BodySteps \cup Returns) /\ Nesting(c.todo, Len(c.frames))
  /\ IsSeq(c.queue)

(* A call has a checkpoint of its own, not before that of the batch. *)
SavedOK ==
  /\ CheckpointOK(call.saved, stream.written) /\ DOMAIN call.saved.lengths = DOMAIN layout
  /\ batch.open => batch.stream.written <= call.saved.stream.written

(* A call builds, and only an open file has a call. *)
CallOK == call.kind # "none" => WorkOK(call) /\ SavedOK /\ final.phase = "open"

(* What finalization is about to write fits, and is not nothing. *)
WritingOK ==
  final.phase = "writing" =>
    /\ final = [x \in WritingFields |-> final[x]]
    /\ IsSeq(final.queue) /\ ~Oversized(final.queue)
    /\ final.queue # <<>> \/ stream.written # <<>>
    /\ IsSeq(final.nodes) /\ final.nodes # <<>>

(* The pages of the indexes: behind the cursor, clear, in order, before the end. *)
SealedOK ==
  final.phase = "sealed" =>
    /\ IsSeq(final.pages) /\ final.end \in Nat
    /\ \A p \in DOMAIN final.pages :
         /\ Clear(final.pages[p], Page) /\ stream.cursor <= final.pages[p]
         /\ final.pages[p] + Page <= final.end
    /\ \A p \in 2..Len(final.pages) : final.pages[p - 1] + Page <= final.pages[p]
    /\ stream.cursor <= final.end

(* All of it. *)
SpaceInv ==
  /\ StreamOK(stream) /\ LayoutOK(layout) /\ IsSeq(names) /\ BatchOK /\ CallOK
  /\ WritingOK /\ SealedOK

-----------------------------------------------------------------------------
(***************************************************************************)
(* What is placed.                                                         *)
(***************************************************************************)
(* Alignment keeps the order. *)
LEMMA AlignMonotone ==
  ASSUME NEW u \in Nat, NEW v \in Nat, u <= v, NEW a \in Nat \ {0}
  PROVE  align_up(u, a) <= align_up(v, a)
<1> DEFINE p == (u + a - 1) \div a
           q == (v + a - 1) \div a
<1>1. p \in Nat /\ p * a <= u + a - 1 /\ u + a - 1 < p * a + a
  <2>1. u + a - 1 \in Nat
    OBVIOUS
  <2> QED
    BY <2>1, DivBounds
<1>2. q \in Nat /\ q * a <= v + a - 1 /\ v + a - 1 < q * a + a
  <2>1. v + a - 1 \in Nat
    OBVIOUS
  <2> QED
    BY <2>1, DivBounds
<1>3. align_up(u, a) = p * a /\ align_up(v, a) = q * a
  BY DEF align_up, DivCeil
<1> HIDE DEF p, q
<1>4. p <= q
  <2> SUFFICES ASSUME p >= q + 1 PROVE FALSE
    BY <1>1, <1>2
  <2>1. p * a >= (q + 1) * a
    BY <1>1, <1>2
  <2>2. (q + 1) * a = q * a + a /\ p * a \in Nat /\ q * a \in Nat
    BY <1>1, <1>2
  <2> QED
    BY <1>1, <1>2, <2>1, <2>2
<1>5. p * a <= q * a
  BY <1>1, <1>2, <1>4
<1> QED
  BY <1>3, <1>5

(* A block that is not refused fits in an extent. *)
LEMMA BlockFits ==
  ASSUME NEW block, block.size \in 0..MaxPayload
  PROVE  physical_size(block) \in 1..MaxExtent
<1>1. block.size + BlockTrailer \in Nat /\ MaxPayload + BlockTrailer \in Nat
      /\ block.size + BlockTrailer <= MaxPayload + BlockTrailer /\ Slot \in Nat \ {0}
      /\ block.size + BlockTrailer > 0
  BY StructureAssumption, GeometryAssumption DEF BlockTrailer
<1> DEFINE u == block.size + BlockTrailer
           v == MaxPayload + BlockTrailer
<1>2. u \in Nat /\ v \in Nat /\ u <= v /\ Slot \in Nat \ {0} /\ u > 0
  BY <1>1
<1>3. align_up(v, Slot) <= MaxExtent
  BY StructureAssumption
<1> HIDE DEF u, v
<1>4. align_up(u, Slot) <= align_up(v, Slot)
  BY <1>2, AlignMonotone
<1>5. align_up(u, Slot) \in Nat /\ u <= align_up(u, Slot) /\ align_up(v, Slot) \in Nat
  BY <1>2, AlignUp
<1>6. align_up(u, Slot) \in 1..MaxExtent
  BY <1>2, <1>3, <1>4, <1>5, GeometryAssumption
<1> QED
  BY <1>6 DEF physical_size, u

(* What is placed comes behind everything that was written. *)
LEMMA PlacedStream ==
  ASSUME NEW s, StreamOK(s), NEW blocks, IsSeq(blocks), ~Oversized(blocks)
  PROVE  LET t == Placed(s, blocks)
         IN  /\ StreamOK(t)
             /\ Len(t.written) = Len(s.written) + Len(blocks)
             /\ \A w \in 1..Len(s.written) : t.written[w] = s.written[w]
<1> DEFINE sizes == [b \in DOMAIN blocks |-> physical_size(blocks[b])]
           at    == PlacedAt(s.cursor, sizes, Slot)
           end   == PlacedEnd(s.cursor, sizes, Slot)
           added == [b \in DOMAIN blocks |-> [block |-> blocks[b], offset |-> at[b]]]
           all   == s.written \o added
           t     == Placed(s, blocks)
           N     == Len(s.written)
<1>1. Len(blocks) \in Nat /\ DOMAIN blocks = 1..Len(blocks)
  BY SeqFacts
<1>2. IsSeq(sizes) /\ Len(sizes) = Len(blocks)
  BY MapIsSeq
<1>3. \A b \in 1..Len(blocks) : sizes[b] = physical_size(blocks[b]) /\ sizes[b] \in 1..MaxExtent
  BY <1>1, BlockFits DEF Oversized
<1>4. /\ s.cursor \in Nat /\ FirstAmap <= s.cursor /\ N \in Nat /\ IsSeq(s.written)
      /\ DOMAIN s.written = 1..N
  BY SeqFacts DEF StreamOK, InOrder, Before
<1>5. /\ end \in Nat /\ s.cursor <= end
      /\ \A i \in 1..Len(blocks) :
           Clear(at[i], sizes[i]) /\ s.cursor <= at[i] /\ at[i] + sizes[i] <= end
      /\ \A i \in 2..Len(blocks) : at[i - 1] + sizes[i - 1] <= at[i]
  <2> HIDE DEF sizes
  <2> QED
    BY <1>2, <1>3, <1>4, PlacedBounds
<1>6. t = [s EXCEPT !.cursor = end, !.written = all]
  BY DEF Placed
<1>7. IsSeq(added) /\ Len(added) = Len(blocks)
      /\ \A b \in 1..Len(blocks) : added[b].block = blocks[b] /\ added[b].offset = at[b]
  <2> HIDE DEF at
  <2> QED
    BY <1>1, MapIsSeq
<1> HIDE DEF sizes, at, end, added
<1>8. /\ IsSeq(all) /\ Len(all) = N + Len(blocks) /\ DOMAIN all = 1..Len(all)
      /\ \A w \in 1..N : all[w] = s.written[w]
      /\ \A b \in 1..Len(blocks) : all[N + b] = added[b]
  <2> DEFINE old == s.written
  <2>1. /\ IsSeq(all) /\ Len(all) = N + Len(added)
        /\ \A w \in 1..N : all[w] = s.written[w]
        /\ \A b \in 1..Len(added) : all[N + b] = added[b]
    <3>1. IsSeq(old) /\ IsSeq(added)
      BY <1>4, <1>7
    <3> HIDE DEF old
    <3>2. /\ IsSeq(old \o added) /\ Len(old \o added) = Len(old) + Len(added)
          /\ \A w \in 1..Len(old) : (old \o added)[w] = old[w]
          /\ \A b \in 1..Len(added) : (old \o added)[Len(old) + b] = added[b]
      BY <3>1, ConcatIsSeq
    <3> QED
      BY <3>2 DEF old
  <2>2. DOMAIN all = 1..Len(all)
    BY <2>1, SeqFacts
  <2> QED
    BY <1>7, <2>1, <2>2
<1> HIDE DEF all, t, N
<1>9. \A w \in 1..Len(all) : w \in 1..N \/ \E b \in 1..Len(blocks) : w = N + b
  <2> SUFFICES ASSUME NEW w \in 1..Len(all), w > N PROVE \E b \in 1..Len(blocks) : w = N + b
    BY <1>4
  <2>1. w - N \in 1..Len(blocks) /\ w = N + (w - N)
    BY <1>1, <1>4, <1>8
  <2> QED
    BY <2>1
<1>10. \A w \in 1..N : Clear(all[w].offset, physical_size(all[w].block)) /\ End(all[w]) <= s.cursor
  BY <1>4, <1>8 DEF StreamOK, InOrder, Before, N
<1>11. \A b \in 1..Len(blocks) :
         /\ Clear(all[N + b].offset, physical_size(all[N + b].block))
         /\ s.cursor <= all[N + b].offset /\ End(all[N + b]) <= end
         /\ all[N + b].offset = at[b] /\ End(all[N + b]) = at[b] + sizes[b]
  BY <1>3, <1>5, <1>7, <1>8 DEF End
<1>12. ASSUME NEW w \in 2..Len(all) PROVE End(all[w - 1]) <= all[w].offset
  <2>1. CASE w <= N
    <3>1. w \in 2..N /\ w - 1 \in 1..N
      BY <1>4, <2>1
    <3>2. End(s.written[w - 1]) <= s.written[w].offset
      BY <3>1 DEF StreamOK, InOrder, N
    <3>3. all[w - 1] = s.written[w - 1] /\ all[w] = s.written[w]
      BY <1>4, <1>8, <3>1
    <3> QED
      BY <3>2, <3>3
  <2>2. CASE w = N + 1
    <3>1. N \in 1..N /\ 1 \in 1..Len(blocks) /\ w - 1 = N
      BY <1>1, <1>4, <1>8, <2>2
    <3>2. End(all[N]) <= s.cursor /\ s.cursor <= all[N + 1].offset
          /\ End(all[N]) \in Nat /\ all[N + 1].offset \in Nat
      BY <1>10, <1>11, <3>1 DEF Clear, End
    <3> QED
      BY <1>4, <2>2, <3>1, <3>2
  <2>3. CASE w > N + 1
    <3> DEFINE b == w - N
    <3>1. b \in 2..Len(blocks) /\ b - 1 \in 1..Len(blocks) /\ b \in 1..Len(blocks)
          /\ w = N + b /\ w - 1 = N + (b - 1)
      BY <1>1, <1>4, <1>8, <2>3
    <3> HIDE DEF b
    <3>2. End(all[N + (b - 1)]) = at[b - 1] + sizes[b - 1] /\ all[N + b].offset = at[b]
      BY <1>11, <3>1
    <3>3. at[b - 1] + sizes[b - 1] <= at[b]
      BY <1>5, <3>1
    <3> QED
      BY <3>1, <3>2, <3>3
  <2> QED
    BY <1>4, <1>8, <2>1, <2>2, <2>3
<1>13. InOrder(all)
  BY <1>8, <1>9, <1>10, <1>11, <1>12 DEF InOrder
<1>14. Before(all, Len(all), end)
  <2>1. ASSUME NEW w \in 1..Len(all) PROVE End(all[w]) <= end
    <3>1. CASE w \in 1..N
      <4>1. End(all[w]) <= s.cursor /\ End(all[w]) \in Nat
        BY <1>10, <3>1 DEF Clear, End
      <4> QED
        BY <1>4, <1>5, <4>1
    <3>2. CASE \E b \in 1..Len(blocks) : w = N + b
      BY <1>11, <3>2
    <3> QED
      BY <1>9, <3>1, <3>2
  <2>2. FirstAmap <= end
    BY <1>4, <1>5, GeometryAssumption
  <2> QED
    BY <1>5, <2>1, <2>2 DEF Before
<1>15. /\ t = [x \in StreamFields |-> t[x]] /\ t.written = all /\ t.cursor = end
       /\ t.tops = s.tops
  BY <1>6 DEF StreamOK, StreamFields
<1>16. StreamOK(t)
  BY <1>13, <1>14, <1>15 DEF StreamOK
<1> QED
  BY <1>8, <1>15, <1>16 DEF t, N

-----------------------------------------------------------------------------
(***************************************************************************)
(* Checkpoints, and what they restore.                                     *)
(***************************************************************************)
(* A checkpoint stays one while more is written. *)
LEMMA CheckpointKept ==
  ASSUME NEW saved, NEW written, NEW more, CheckpointOK(saved, written),
         Len(written) \in Nat, Len(more) \in Nat, Len(written) <= Len(more),
         \A w \in 1..Len(written) : more[w] = written[w]
  PROVE  CheckpointOK(saved, more)
<1>1. saved.stream.written \in 0..Len(more) /\ saved.stream.written \in 0..Len(written)
  BY DEF CheckpointOK
<1>2. \A w \in 1..saved.stream.written : w \in 1..Len(written)
  BY <1>1
<1>3. Before(more, saved.stream.written, saved.stream.cursor)
  BY <1>2 DEF CheckpointOK, Before
<1> QED
  BY <1>1, <1>3 DEF CheckpointOK

(* The order does not depend on what else a stream says. *)
LEMMA StreamKept ==
  ASSUME NEW s, StreamOK(s), NEW t, t = [x \in StreamFields |-> t[x]],
         t.written = s.written, t.cursor = s.cursor, IsSeq(t.tops)
  PROVE  StreamOK(t)
  BY DEF StreamOK

(* What is cut off leaves a prefix. *)
LEMMA PrefixInOrder ==
  ASSUME NEW written, InOrder(written), NEW n \in 0..Len(written)
  PROVE  LET cut == SubSeq(written, 1, n)
         IN  /\ InOrder(cut) /\ Len(cut) = n
             /\ \A w \in 1..n : cut[w] = written[w]
<1> DEFINE cut == SubSeq(written, 1, n)
<1>1. IsSeq(written) /\ Len(written) \in Nat /\ DOMAIN written = 1..Len(written) /\ n \in Nat
  BY SeqFacts DEF InOrder
<1>2. IsSeq(cut) /\ Len(cut) = n /\ \A w \in 1..n : cut[w] = written[w]
  BY <1>1, SubSeqIsSeq1
<1> HIDE DEF cut
<1>3. DOMAIN cut = 1..n
  BY <1>2, SeqFacts
<1>4. \A w \in 1..n : w \in DOMAIN written
  BY <1>1
<1>5. ASSUME NEW w \in 2..n PROVE End(cut[w - 1]) <= cut[w].offset
  <2>1. w \in 2..Len(written) /\ w - 1 \in 1..n /\ w \in 1..n
    BY <1>1
  <2>2. End(written[w - 1]) <= written[w].offset
    BY <2>1 DEF InOrder
  <2> QED
    BY <1>2, <2>1, <2>2
<1>6. \A w \in DOMAIN cut : Clear(cut[w].offset, physical_size(cut[w].block))
  BY <1>2, <1>3, <1>4 DEF InOrder
<1>7. InOrder(cut)
  BY <1>2, <1>5, <1>6 DEF InOrder
<1> QED
  BY <1>2, <1>7 DEF cut

(* restore leaves what was written before the checkpoint. *)
LEMMA RestoredStream ==
  ASSUME NEW saved, StreamOK(stream), CheckpointOK(saved, stream.written)
  PROVE  LET r == restore(saved.stream)
         IN  /\ StreamOK(r) /\ Len(r.written) = saved.stream.written
             /\ \A w \in 1..Len(r.written) : r.written[w] = stream.written[w]
<1> DEFINE r == restore(saved.stream)
           n == saved.stream.written
<1>1. /\ r.written = SubSeq(stream.written, 1, n) /\ r.cursor = saved.stream.cursor
      /\ r.tops = SubSeq(stream.tops, 1, saved.stream.tops)
      /\ r = [x \in StreamFields |-> r[x]]
  BY DEF restore, Truncated, StreamFields
<1>2. n \in 0..Len(stream.written) /\ InOrder(stream.written) /\ saved.stream.tops \in Nat
      /\ IsSeq(stream.tops)
  BY DEF StreamOK, CheckpointOK
<1> HIDE DEF r
<1>3. InOrder(r.written) /\ Len(r.written) = n
      /\ \A w \in 1..n : r.written[w] = stream.written[w]
  BY <1>1, <1>2, PrefixInOrder
<1>4. IsSeq(r.tops)
  BY <1>1, <1>2, SubSeqIsSeq1
<1>5. Before(r.written, Len(r.written), r.cursor)
  BY <1>1, <1>3 DEF CheckpointOK, Before
<1>6. StreamOK(r)
  BY <1>1, <1>3, <1>4, <1>5 DEF StreamOK
<1> QED
  BY <1>3, <1>6 DEF r

(* The folders stay, with fewer messages. *)
LEMMA TruncatedLayout ==
  ASSUME LayoutOK(layout), NEW lengths, DOMAIN lengths = DOMAIN layout,
         \A f \in DOMAIN lengths : lengths[f][1] \in Nat /\ lengths[f][2] \in Nat
  PROVE  LayoutOK(TruncatedFolders(lengths)) /\ DOMAIN TruncatedFolders(lengths) = DOMAIN layout
<1> DEFINE cut == TruncatedFolders(lengths)
<1>1. cut = [f \in DOMAIN layout |->
               [layout[f] EXCEPT !.messages = SubSeq(@, 1, lengths[f][1]),
                                 !.associated = SubSeq(@, 1, lengths[f][2])]]
  BY DEF TruncatedFolders, Truncated
<1>2. cut = [f \in DOMAIN layout |-> cut[f]] /\ DOMAIN cut = DOMAIN layout
  BY <1>1
<1> HIDE DEF cut
<1>3. IsSeq(cut)
  BY <1>2, MapIsSeq DEF LayoutOK
<1>4. ASSUME NEW f \in DOMAIN layout PROVE FolderOK(cut[f])
  <2>1. FolderOK(layout[f]) /\ lengths[f][1] \in Nat /\ lengths[f][2] \in Nat
    BY DEF LayoutOK
  <2>2. cut[f] = [layout[f] EXCEPT !.messages = SubSeq(@, 1, lengths[f][1]),
                                   !.associated = SubSeq(@, 1, lengths[f][2])]
    BY <1>1
  <2>3. /\ cut[f] = [x \in FolderFields |-> cut[f][x]] /\ cut[f].key = layout[f].key
        /\ cut[f].messages = SubSeq(layout[f].messages, 1, lengths[f][1])
        /\ cut[f].associated = SubSeq(layout[f].associated, 1, lengths[f][2])
    BY <2>1, <2>2 DEF FolderOK, FolderFields
  <2>4. IsSeq(cut[f].messages) /\ IsSeq(cut[f].associated)
    <3>1. IsSeq(layout[f].messages) /\ IsSeq(layout[f].associated)
      BY <2>1 DEF FolderOK
    <3>2. /\ IsSeq(SubSeq(layout[f].messages, 1, lengths[f][1]))
          /\ IsSeq(SubSeq(layout[f].associated, 1, lengths[f][2]))
      BY <2>1, <3>1, SubSeqIsSeq1
    <3> QED
      BY <2>3, <3>2
  <2> QED
    BY <2>1, <2>3, <2>4 DEF FolderOK
<1> QED
  BY <1>2, <1>3, <1>4 DEF LayoutOK, cut

(***************************************************************************)
(* A step of a call: it builds and writes, and keeps its checkpoint.       *)
(***************************************************************************)
LEMMA CallStep ==
  ASSUME SpaceInv, call.kind # "none", UNCHANGED <<layout, names, batch, final>>,
         StreamOK(stream'), Len(stream.written) <= Len(stream'.written),
         \A w \in 1..Len(stream.written) : stream'.written[w] = stream.written[w],
         WorkOK(call'), call'.saved = call.saved
  PROVE  SpaceInv'
<1>1. Len(stream.written) \in Nat /\ Len(stream'.written) \in Nat
  BY SeqFacts DEF SpaceInv, StreamOK, InOrder
<1>2. BatchOK'
  <2> SUFFICES ASSUME batch.open
               PROVE  CheckpointOK(batch, stream'.written) /\ final.phase = "open"
    BY DEF BatchOK
  <2>1. CheckpointOK(batch, stream.written) /\ final.phase = "open"
    BY DEF SpaceInv, BatchOK
  <2> QED
    BY <1>1, <2>1, CheckpointKept
<1>3. SavedOK /\ final.phase = "open"
  BY DEF SpaceInv, CallOK
<1>4. CheckpointOK(call.saved, stream'.written)
  BY <1>1, <1>3, CheckpointKept DEF SavedOK
<1>5. SavedOK'
  BY <1>3, <1>4 DEF SavedOK
<1>6. CallOK'
  BY <1>3, <1>5 DEF CallOK
<1>7. WritingOK' /\ SealedOK'
  BY <1>3 DEF WritingOK, SealedOK
<1> QED
  BY <1>2, <1>6, <1>7 DEF SpaceInv

(* A step that writes nothing. *)
LEMMA QuietStep ==
  ASSUME SpaceInv, call.kind # "none", UNCHANGED <<layout, names, batch, final>>,
         stream' = [x \in StreamFields |-> stream'[x]], stream'.written = stream.written,
         stream'.cursor = stream.cursor, IsSeq(stream'.tops),
         WorkOK(call'), call'.saved = call.saved
  PROVE  SpaceInv'
<1>1. StreamOK(stream')
  BY StreamKept DEF SpaceInv
<1>2. Len(stream.written) \in Nat
  BY SeqFacts DEF SpaceInv, StreamOK, InOrder
<1> QED
  BY <1>1, <1>2, CallStep

(* Done with the first step. *)
LEMMA NestingTail ==
  ASSUME NEW todo, IsSeq(todo), todo # <<>>, NEW depth, Nesting(todo, depth)
  PROVE  Nesting(Tail(todo), depth)
<1> DEFINE rest == Tail(todo)
<1>1. /\ IsSeq(rest) /\ Len(rest) = Len(todo) - 1
      /\ \A i \in 1..(Len(todo) - 1) : rest[i] = todo[i + 1]
  BY TailIsSeq
<1> HIDE DEF rest
<1>2. DOMAIN rest = 1..(Len(todo) - 1) /\ DOMAIN todo = 1..Len(todo) /\ Len(todo) \in Nat
  BY <1>1, SeqFacts
<1>3. \A j \in DOMAIN rest : j \in Nat /\ j + 1 \in DOMAIN todo /\ rest[j] = todo[j + 1]
  BY <1>1, <1>2
<1>4. ASSUME NEW j \in DOMAIN rest, NEW k \in DOMAIN rest, j < k, rest[j].op = "embedded",
             rest[k].op = "embedded"
      PROVE  rest[k].arg < rest[j].arg
  <2>1. j + 1 < k + 1
    BY <1>3, <1>4
  <2> QED
    BY <1>3, <1>4, <2>1 DEF Nesting
<1>5. \A j \in DOMAIN rest : rest[j].op = "embedded" => rest[j].arg < depth
  BY <1>3 DEF Nesting
<1> QED
  BY <1>4, <1>5 DEF Nesting, rest

(* The steps that are left are steps. *)
LEMMA StepsLeft ==
  ASSUME NEW c, WorkOK(c), c.todo # <<>>
  PROVE  /\ Tail(c.todo) \in Seq(BodySteps \cup Returns) /\ IsSeq(c.todo)
         /\ Nesting(Tail(c.todo), Len(c.frames))
         /\ Head(c.todo) \in BodySteps \cup Returns /\ 1 \in DOMAIN c.todo
         /\ Head(c.todo) = c.todo[1]
<1>1. c.todo \in Seq(BodySteps \cup Returns) /\ Nesting(c.todo, Len(c.frames))
  BY DEF WorkOK
<1>2. IsSeq(c.todo)
  BY <1>1, SeqIsSeq
<1>3. Tail(c.todo) \in Seq(BodySteps \cup Returns) /\ Head(c.todo) \in BodySteps \cup Returns
      /\ 1 \in DOMAIN c.todo /\ Head(c.todo) = c.todo[1]
  BY <1>1
<1>4. Nesting(Tail(c.todo), Len(c.frames))
  BY <1>1, <1>2, NestingTail
<1> QED
  BY <1>2, <1>3, <1>4

(* The frame that is worked on. *)
LEMMA NowOK ==
  ASSUME WorkOK(call)
  PROVE  FrameOK(Now) /\ Len(call.frames) \in Nat \ {0} /\ DOMAIN call.frames = 1..Len(call.frames)
<1>1. IsSeq(call.frames) /\ call.frames # <<>>
  BY DEF WorkOK
<1>2. Len(call.frames) \in Nat /\ DOMAIN call.frames = 1..Len(call.frames)
      /\ call.frames = [i \in 1..Len(call.frames) |-> call.frames[i]]
  BY <1>1, SeqFacts
<1>3. Len(call.frames) # 0
  BY <1>1, <1>2 DEF IsSeq
<1>4. Len(call.frames) \in DOMAIN call.frames
  BY <1>2, <1>3
<1>5. FrameOK(call.frames[Len(call.frames)])
  BY <1>4 DEF WorkOK
<1> QED
  BY <1>2, <1>3, <1>5 DEF Now

(* Continue keeps the frames and takes the step. *)
LEMMA ContinueOK ==
  ASSUME WorkOK(call), call.todo # <<>>, NEW frame, FrameOK(frame), NEW queue, IsSeq(queue),
         Continue(frame, queue)
  PROVE  WorkOK(call') /\ call'.saved = call.saved
<1>1. call' = [call EXCEPT !.frames = Changed(frame), !.queue = queue, !.todo = Tail(@)]
  BY DEF Continue
<1>2. /\ call' = [x \in CallFields |-> call'[x]] /\ call'.frames = Changed(frame)
      /\ call'.queue = queue /\ call'.todo = Tail(call.todo) /\ call'.saved = call.saved
  BY <1>1 DEF WorkOK, CallFields
<1>3. Len(call.frames) \in Nat \ {0} /\ DOMAIN call.frames = 1..Len(call.frames)
      /\ IsSeq(call.frames)
  BY NowOK DEF WorkOK
<1>4. /\ Changed(frame) = [i \in 1..Len(call.frames) |-> Changed(frame)[i]]
      /\ \A i \in 1..Len(call.frames) :
           Changed(frame)[i] = IF i = Len(call.frames) THEN frame ELSE call.frames[i]
  BY <1>3 DEF Changed
<1>5. IsSeq(Changed(frame)) /\ Len(Changed(frame)) = Len(call.frames)
  BY <1>3, <1>4, FunctionIsSeq
<1>6. DOMAIN Changed(frame) = 1..Len(call.frames)
  BY <1>4
<1>7. Changed(frame) # <<>>
  BY <1>3, <1>6
<1>8. \A f \in 1..Len(call.frames) : FrameOK(Changed(frame)[f])
  BY <1>3, <1>4 DEF WorkOK
<1>9. Tail(call.todo) \in Seq(BodySteps \cup Returns) /\ Nesting(Tail(call.todo), Len(call.frames))
  BY StepsLeft
<1> QED
  BY <1>2, <1>5, <1>6, <1>7, <1>8, <1>9 DEF WorkOK

(* What a step of building relies on. *)
LEMMA BuildingFacts ==
  ASSUME SpaceInv, NEW op, Doing(op)
  PROVE  /\ call.kind # "none" /\ WorkOK(call) /\ call.todo # <<>> /\ FrameOK(Now)
         /\ Head(call.todo) \in BodySteps \cup Returns /\ Head(call.todo).op = op
         /\ stream = [x \in StreamFields |-> stream[x]] /\ IsSeq(stream.tops)
         /\ final.phase = "open"
<1>1. call.kind # "none" /\ call.todo # <<>> /\ Head(call.todo).op = op
  BY DEF Doing, Building
<1>2. WorkOK(call) /\ final.phase = "open"
  BY <1>1 DEF SpaceInv, CallOK
<1>3. Head(call.todo) \in BodySteps \cup Returns
  BY <1>1, <1>2, StepsLeft
<1> QED
  BY <1>1, <1>2, <1>3, NowOK DEF SpaceInv, StreamOK

-----------------------------------------------------------------------------
(***************************************************************************)
(* The steps that build a message.                                         *)
(***************************************************************************)
(* The numbers that a step carries. *)
LEMMA StepArguments ==
  ASSUME NEW step \in BodySteps \cup Returns
  PROVE  /\ step.op \in {"recipients", "stream", "large", "close", "finish"} => step.arg \in Nat
         /\ step.op = "embed" => step.arg \in Bodies
         /\ step.op = "embedded" => step.arg \in Nat \ {0}
  BY DEF BodySteps, Values, Embeds, Returns

(* The recipient table is built. *)
LEMMA RecipientsSpace == SpaceInv /\ BuildRecipients => SpaceInv'
<1> SUFFICES ASSUME SpaceInv, BuildRecipients PROVE SpaceInv'
  OBVIOUS
<1> DEFINE rows  == Head(call.todo).arg
           table == table_context_external(rows, stream.next)
           data  == IF Compact(rows) THEN Now.recipients ELSE table.root
           sub   == IF Compact(rows) THEN NoBlock ELSE table.sub
           first == Entry(<<"recipients", 1682>>, data, sub)
           other == Entry(<<"attachments", 1649>>, Now.attachments, NoBlock)
           built == IF Compact(rows) THEN <<>> ELSE table.blocks
           kept  == IF Compact(rows) THEN <<rows>>
                    ELSE IF Now.recipients = 17 THEN <<0>> ELSE <<>>
           frame == [Now EXCEPT !.subnodes = <<first, other>>, !.dynamic = built,
                                !.referenced = Compact(rows), !.table = kept]
<1>1. /\ Doing("recipients") /\ Continue(frame, <<>>)
      /\ stream' = [stream EXCEPT !.next = IF Compact(rows) THEN @ ELSE table.next]
      /\ UNCHANGED <<layout, names, batch, final>>
  BY DEF BuildRecipients
<1>2. /\ call.kind # "none" /\ WorkOK(call) /\ call.todo # <<>> /\ FrameOK(Now)
      /\ rows \in Nat /\ stream = [x \in StreamFields |-> stream[x]] /\ IsSeq(stream.tops)
  BY <1>1, BuildingFacts, StepArguments
<1>3. IsSeq(built)
  BY <1>2, ExternalTableBlocks, TupleIsSeq
<1>4. IsSeq(kept)
  BY TupleIsSeq
<1>5. IsSeq(<<first, other>>)
  <2> HIDE DEF first, other
  <2>1. <<first, other>> \in Seq({first, other})
    OBVIOUS
  <2> QED
    BY <2>1, SeqIsSeq
<1> HIDE DEF first, other, built, kept
<1>6. FrameOK(frame)
  <2> DEFINE f == frame
  <2>1. /\ f = [x \in FrameFields |-> f[x]] /\ f.subnodes = <<first, other>>
        /\ f.dynamic = built /\ f.table = kept
    BY <1>2 DEF FrameOK, FrameFields
  <2> HIDE DEF f
  <2>2. FrameOK(f)
    BY <1>3, <1>4, <1>5, <2>1 DEF FrameOK
  <2> QED
    BY <2>2 DEF f
<1> HIDE DEF frame
<1>7. WorkOK(call') /\ call'.saved = call.saved
  BY <1>1, <1>2, <1>6, TupleIsSeq, ContinueOK
<1>8. /\ stream' = [x \in StreamFields |-> stream'[x]] /\ stream'.written = stream.written
      /\ stream'.cursor = stream.cursor /\ stream'.tops = stream.tops
  BY <1>1, <1>2 DEF StreamFields
<1> QED
  BY <1>1, <1>2, <1>7, <1>8, QuietStep

(* An attachment is begun. *)
LEMMA AttachmentSpace == SpaceInv /\ BeginAttachment => SpaceInv'
<1> SUFFICES ASSUME SpaceInv, BeginAttachment PROVE SpaceInv'
  OBVIOUS
<1> DEFINE frame == [Now EXCEPT !.attachment = stream.next, !.local = <<>>]
<1>1. /\ Doing("attachment") /\ Continue(frame, <<>>)
      /\ stream' = [stream EXCEPT !.next = @ + 1]
      /\ UNCHANGED <<layout, names, batch, final>>
  BY DEF BeginAttachment
<1>2. /\ call.kind # "none" /\ WorkOK(call) /\ call.todo # <<>> /\ FrameOK(Now)
      /\ stream = [x \in StreamFields |-> stream[x]] /\ IsSeq(stream.tops)
  BY <1>1, BuildingFacts
<1>3. FrameOK(frame)
  BY <1>2 DEF FrameOK, FrameFields
<1> HIDE DEF frame
<1>4. WorkOK(call') /\ call'.saved = call.saved
  BY <1>1, <1>2, <1>3, TupleIsSeq, ContinueOK
<1>5. /\ stream' = [x \in StreamFields |-> stream'[x]] /\ stream'.written = stream.written
      /\ stream'.cursor = stream.cursor /\ stream'.tops = stream.tops
  BY <1>1, <1>2 DEF StreamFields
<1> QED
  BY <1>1, <1>2, <1>4, <1>5, QuietStep

(* An entry more, in the attachment or in the message. *)
LEMMA WithEntryOK ==
  ASSUME NEW frame, FrameOK(frame), NEW local, NEW entry
  PROVE  FrameOK(WithEntry(frame, local, entry))
<1>1. CASE local
  BY <1>1 DEF FrameOK, FrameFields, WithEntry
<1>2. CASE ~local
  <2>1. IsSeq(Append(frame.subnodes, entry))
    BY AppendIsSeq DEF FrameOK
  <2> DEFINE f == [frame EXCEPT !.subnodes = Append(frame.subnodes, entry)]
  <2>2. /\ f = [x \in FrameFields |-> f[x]] /\ f.subnodes = Append(frame.subnodes, entry)
        /\ f.dynamic = frame.dynamic /\ f.table = frame.table
    BY DEF FrameOK, FrameFields
  <2>3. WithEntry(frame, local, entry) = f
    BY <1>2 DEF WithEntry
  <2> HIDE DEF f
  <2>4. FrameOK(f)
    BY <2>1, <2>2 DEF FrameOK
  <2> QED
    BY <2>3, <2>4
<1> QED
  BY <1>1, <1>2

(* More blocks for a frame. *)
LEMMA WithBlocksOK ==
  ASSUME NEW frame, FrameOK(frame), NEW blocks, IsSeq(blocks)
  PROVE  FrameOK([frame EXCEPT !.dynamic = @ \o blocks])
<1> DEFINE f == [frame EXCEPT !.dynamic = frame.dynamic \o blocks]
<1>1. IsSeq(frame.dynamic)
  BY DEF FrameOK
<1>2. IsSeq(frame.dynamic \o blocks)
  BY <1>1, ConcatIsSeq
<1>3. /\ f = [x \in FrameFields |-> f[x]] /\ f.dynamic = frame.dynamic \o blocks
      /\ f.subnodes = frame.subnodes /\ f.table = frame.table
  BY DEF FrameOK, FrameFields
<1>4. f = [frame EXCEPT !.dynamic = @ \o blocks]
  OBVIOUS
<1> HIDE DEF f
<1>5. FrameOK(f)
  BY <1>2, <1>3 DEF FrameOK
<1> QED
  BY <1>4, <1>5

(* A payload is streamed. *)
LEMMA PayloadSpace == SpaceInv /\ append_direct_properties => SpaceInv'
<1> SUFFICES ASSUME SpaceInv, append_direct_properties PROVE SpaceInv'
  OBVIOUS
<1> DEFINE size  == Head(call.todo).arg
           tree  == IF call.project THEN append_declared_data_tree(size, stream.next)
                                    ELSE append_reader_data_tree(size, stream.next)
           frame == WithEntry(Now, Head(call.todo).local,
                              Entry(<<"value", stream.node>>, tree.root, NoBlock))
<1>1. /\ Doing("stream") /\ Continue(frame, tree.blocks)
      /\ stream' = [stream EXCEPT !.next = tree.next, !.node = @ + 1]
      /\ UNCHANGED <<layout, names, batch, final>>
  BY DEF append_direct_properties
<1>2. /\ call.kind # "none" /\ WorkOK(call) /\ call.todo # <<>> /\ FrameOK(Now)
      /\ size \in Nat /\ stream = [x \in StreamFields |-> stream[x]] /\ IsSeq(stream.tops)
  BY <1>1, BuildingFacts, StepArguments
<1>3. IsSeq(tree.blocks)
  BY <1>2, ValueBlocks
<1> HIDE DEF tree
<1>4. FrameOK(frame)
  BY <1>2, WithEntryOK
<1> HIDE DEF frame
<1>5. WorkOK(call') /\ call'.saved = call.saved
  BY <1>1, <1>2, <1>3, <1>4, ContinueOK
<1>6. /\ stream' = [x \in StreamFields |-> stream'[x]] /\ stream'.written = stream.written
      /\ stream'.cursor = stream.cursor /\ stream'.tops = stream.tops
  BY <1>1, <1>2 DEF StreamFields
<1> QED
  BY <1>1, <1>2, <1>5, <1>6, QuietStep

(* A large property gets a tree. *)
LEMMA LargeSpace == SpaceInv /\ externalize_large_properties => SpaceInv'
<1> SUFFICES ASSUME SpaceInv, externalize_large_properties PROVE SpaceInv'
  OBVIOUS
<1> DEFINE tree  == append_data_tree(Head(call.todo).arg, stream.next)
           more  == [Now EXCEPT !.dynamic = @ \o tree.blocks]
           frame == WithEntry(more, Head(call.todo).local,
                              Entry(<<"value", stream.node>>, tree.root, NoBlock))
<1>1. /\ Doing("large") /\ Continue(frame, <<>>)
      /\ stream' = [stream EXCEPT !.next = tree.next, !.node = @ + 1]
      /\ UNCHANGED <<layout, names, batch, final>>
  BY DEF externalize_large_properties
<1>2. /\ call.kind # "none" /\ WorkOK(call) /\ call.todo # <<>> /\ FrameOK(Now)
      /\ Head(call.todo).arg \in Nat
      /\ stream = [x \in StreamFields |-> stream[x]] /\ IsSeq(stream.tops)
  BY <1>1, BuildingFacts, StepArguments
<1>3. IsSeq(tree.blocks)
  BY <1>2, ValueBlocks
<1> HIDE DEF tree
<1>4. FrameOK(more)
  BY <1>2, <1>3, WithBlocksOK
<1> HIDE DEF more
<1>5. FrameOK(frame)
  BY <1>4, WithEntryOK
<1> HIDE DEF frame
<1>6. WorkOK(call') /\ call'.saved = call.saved
  BY <1>1, <1>2, <1>5, TupleIsSeq, ContinueOK
<1>7. /\ stream' = [x \in StreamFields |-> stream'[x]] /\ stream'.written = stream.written
      /\ stream'.cursor = stream.cursor /\ stream'.tops = stream.tops
  BY <1>1, <1>2 DEF StreamFields
<1> QED
  BY <1>1, <1>2, <1>6, <1>7, QuietStep

(* The steps of an embedded message come first, and its return. *)
LEMMA NestingEmbedded ==
  ASSUME NEW body \in Seq(BodySteps), NEW rest \in Seq(BodySteps \cup Returns),
         NEW depth \in Nat, Nesting(rest, depth), NEW ret \in Returns, ret.arg = depth
  PROVE  Nesting(body \o <<ret>> \o rest, depth + 1)
<1> DEFINE n     == Len(body)
           front == body \o <<ret>>
           all   == front \o rest
<1>1. n \in Nat /\ DOMAIN body = 1..n /\ Len(rest) \in Nat /\ DOMAIN rest = 1..Len(rest)
  OBVIOUS
<1>2. IsSeq(body) /\ IsSeq(rest) /\ IsSeq(<<ret>>) /\ Len(<<ret>>) = 1
  BY SeqIsSeq, TupleIsSeq
<1>3. /\ IsSeq(front) /\ Len(front) = n + 1 /\ \A i \in 1..n : front[i] = body[i]
      /\ front[n + 1] = ret
  <2>1. /\ IsSeq(front) /\ Len(front) = n + 1 /\ \A i \in 1..n : front[i] = body[i]
        /\ \A i \in 1..1 : front[n + i] = <<ret>>[i]
    BY <1>2, ConcatIsSeq
  <2> HIDE DEF front
  <2> QED
    BY <2>1
<1> HIDE DEF front
<1>4. /\ IsSeq(all) /\ Len(all) = n + 1 + Len(rest)
      /\ \A i \in 1..(n + 1) : all[i] = front[i]
      /\ \A i \in 1..Len(rest) : all[n + 1 + i] = rest[i]
  BY <1>2, <1>3, ConcatIsSeq
<1> HIDE DEF all
<1>5. DOMAIN all = 1..(n + 1 + Len(rest))
  BY <1>4, SeqFacts
<1>6. \A i \in 1..n : all[i].op # "embedded"
  BY <1>1, <1>3, <1>4 DEF BodySteps, Values, Embeds
<1>7. all[n + 1] = ret /\ ret.op = "embedded"
  BY <1>1, <1>3, <1>4 DEF Returns
<1>8. \A i \in 1..Len(rest) : rest[i].op = "embedded" => rest[i].arg \in Nat /\ rest[i].arg < depth
  <2>1. \A i \in 1..Len(rest) : rest[i] \in BodySteps \cup Returns
    OBVIOUS
  <2>2. \A i \in 1..Len(rest) : rest[i].op = "embedded" => rest[i].arg \in Nat
    BY <2>1, StepArguments
  <2> QED
    BY <1>1, <2>2 DEF Nesting
<1>9. \A j \in DOMAIN all : all[j].op = "embedded" =>
        j = n + 1 \/ \E i \in 1..Len(rest) : j = n + 1 + i
  <2> SUFFICES ASSUME NEW j \in DOMAIN all, all[j].op = "embedded", j # n + 1
               PROVE  \E i \in 1..Len(rest) : j = n + 1 + i
    OBVIOUS
  <2>1. j \notin 1..n
    BY <1>6
  <2>2. j - n - 1 \in 1..Len(rest) /\ j = n + 1 + (j - n - 1)
    BY <1>1, <1>5, <2>1
  <2> QED
    BY <2>2
<1>10. ASSUME NEW j \in DOMAIN all, all[j].op = "embedded" PROVE all[j].arg < depth + 1
  <2>1. CASE j = n + 1
    BY <1>7, <2>1
  <2>2. CASE \E i \in 1..Len(rest) : j = n + 1 + i
    <3>1. PICK i \in 1..Len(rest) : j = n + 1 + i
      BY <2>2
    <3>2. all[j] = rest[i]
      BY <1>4, <3>1
    <3>3. rest[i].arg \in Nat /\ rest[i].arg < depth
      BY <1>8, <1>10, <3>2
    <3> QED
      BY <3>2, <3>3
  <2> QED
    BY <1>9, <1>10, <2>1, <2>2
<1>11. ASSUME NEW j \in DOMAIN all, NEW k \in DOMAIN all, j < k,
              all[j].op = "embedded", all[k].op = "embedded"
       PROVE  all[k].arg < all[j].arg
  <2>1. k # n + 1 /\ j \in Int /\ k \in Int
    <3>1. j = n + 1 \/ \E i \in 1..Len(rest) : j = n + 1 + i
      BY <1>9, <1>11
    <3> QED
      BY <1>1, <1>5, <1>11, <3>1
  <2>2. PICK i \in 1..Len(rest) : k = n + 1 + i
    BY <1>9, <1>11, <2>1
  <2>3. all[k] = rest[i]
    BY <1>4, <2>2
  <2>4. rest[i].arg < depth
    BY <1>8, <1>11, <2>3
  <2>5. CASE j = n + 1
    BY <1>7, <2>3, <2>4, <2>5
  <2>6. CASE \E h \in 1..Len(rest) : j = n + 1 + h
    <3>1. PICK h \in 1..Len(rest) : j = n + 1 + h
      BY <2>6
    <3>2. all[j] = rest[h] /\ h < i /\ h \in DOMAIN rest /\ i \in DOMAIN rest
      BY <1>1, <1>4, <1>11, <2>2, <3>1
    <3> QED
      BY <1>11, <2>3, <3>2 DEF Nesting
  <2> QED
    BY <1>9, <1>11, <2>5, <2>6
<1>12. Nesting(all, depth + 1)
  BY <1>10, <1>11 DEF Nesting
<1> QED
  BY <1>12 DEF all, front

(* After a return the frames are those below. *)
LEMMA NestingReturn ==
  ASSUME NEW todo, IsSeq(todo), todo # <<>>, NEW depth, Nesting(todo, depth),
         todo[1].op = "embedded"
  PROVE  Nesting(Tail(todo), todo[1].arg) /\ todo[1].arg < depth
<1> DEFINE rest == Tail(todo)
<1>1. /\ IsSeq(rest) /\ Len(rest) = Len(todo) - 1 /\ Len(todo) > 0
      /\ \A i \in 1..(Len(todo) - 1) : rest[i] = todo[i + 1]
  BY TailIsSeq
<1>2. Nesting(rest, depth)
  BY NestingTail
<1> HIDE DEF rest
<1>3. DOMAIN rest = 1..(Len(todo) - 1) /\ DOMAIN todo = 1..Len(todo) /\ Len(todo) \in Nat
  BY <1>1, SeqFacts
<1>4. \A j \in DOMAIN rest : j + 1 \in DOMAIN todo /\ 1 < j + 1 /\ rest[j] = todo[j + 1]
  BY <1>1, <1>3
<1>5. 1 \in DOMAIN todo
  BY <1>1, <1>3
<1>6. \A j \in DOMAIN rest : rest[j].op = "embedded" => rest[j].arg < todo[1].arg
  BY <1>4, <1>5 DEF Nesting
<1>7. todo[1].arg < depth
  BY <1>5 DEF Nesting
<1> QED
  BY <1>2, <1>6, <1>7 DEF Nesting, rest

(* A new frame is one. *)
LEMMA FrameIsOK ==
  ASSUME NEW m, NEW property, NEW recipients, NEW attachments
  PROVE  FrameOK(Frame(m, property, recipients, attachments))
<1> DEFINE f == Frame(m, property, recipients, attachments)
<1>1. f = [x \in FrameFields |-> f[x]] /\ f.subnodes = <<>> /\ f.dynamic = <<>> /\ f.table = <<>>
  BY DEF Frame, FrameFields
<1> HIDE DEF f
<1>2. FrameOK(f)
  BY <1>1, TupleIsSeq DEF FrameOK
<1> QED
  BY <1>2 DEF f

(* An embedded message is begun. *)
LEMMA EmbeddedSpace == SpaceInv /\ BeginEmbedded => SpaceInv'
<1> SUFFICES ASSUME SpaceInv, BeginEmbedded PROVE SpaceInv'
  OBVIOUS
<1> DEFINE m     == Head(call.todo).arg
           frame == Frame(m, stream.next, stream.next + 1, stream.next + 2)
           depth == Len(call.frames)
           ret   == Step("embedded", depth, TRUE)
           steps == StepsOf(m) \o <<ret>> \o Tail(call.todo)
<1>1. /\ Doing("embed") /\ stream' = [stream EXCEPT !.next = @ + 3]
      /\ call' = [call EXCEPT !.frames = Append(@, frame), !.todo = steps]
      /\ UNCHANGED <<layout, names, batch, final>>
  BY DEF BeginEmbedded
<1>2. /\ call.kind # "none" /\ WorkOK(call) /\ call.todo # <<>>
      /\ m \in Bodies /\ stream = [x \in StreamFields |-> stream[x]] /\ IsSeq(stream.tops)
  BY <1>1, BuildingFacts, StepArguments
<1>3. depth \in Nat \ {0} /\ IsSeq(call.frames) /\ IsSeq(call.queue)
      /\ DOMAIN call.frames = 1..depth
  BY <1>2, NowOK DEF WorkOK
<1>4. ret \in Returns /\ ret.arg = depth
  BY <1>3 DEF Step, Returns
<1>5. StepsOf(m) \in Seq(BodySteps)
  BY <1>2, StepsTyped
<1>6. Tail(call.todo) \in Seq(BodySteps \cup Returns) /\ Nesting(Tail(call.todo), depth)
  BY <1>2, StepsLeft
<1>7. Nesting(steps, depth + 1)
  <2> HIDE DEF ret, m, depth
  <2> QED
    BY <1>3, <1>4, <1>5, <1>6, NestingEmbedded
<1>8. steps \in Seq(BodySteps \cup Returns)
  <2> HIDE DEF ret, m
  <2>1. StepsOf(m) \in Seq(BodySteps \cup Returns) /\ <<ret>> \in Seq(BodySteps \cup Returns)
    BY <1>4, <1>5
  <2>2. StepsOf(m) \o <<ret>> \in Seq(BodySteps \cup Returns)
    BY <2>1, TypedSequences
  <2> QED
    BY <1>6, <2>2, TypedSequences
<1>9. FrameOK(frame)
  BY FrameIsOK
<1> HIDE DEF frame, steps
<1>10. /\ call' = [x \in CallFields |-> call'[x]] /\ call'.frames = Append(call.frames, frame)
       /\ call'.todo = steps /\ call'.queue = call.queue /\ call'.saved = call.saved
  BY <1>1, <1>2 DEF WorkOK, CallFields
<1>11. /\ IsSeq(Append(call.frames, frame)) /\ Len(Append(call.frames, frame)) = depth + 1
       /\ \A i \in 1..depth : Append(call.frames, frame)[i] = call.frames[i]
       /\ Append(call.frames, frame)[depth + 1] = frame
  BY <1>3, AppendIsSeq
<1> DEFINE frames == Append(call.frames, frame)
<1> HIDE DEF frames
<1>12. IsSeq(frames) /\ Len(frames) = depth + 1
       /\ (\A i \in 1..depth : frames[i] = call.frames[i]) /\ frames[depth + 1] = frame
       /\ call'.frames = frames
  BY <1>10, <1>11 DEF frames
<1>13. \A f \in DOMAIN frames : FrameOK(frames[f])
  <2>1. DOMAIN frames = 1..(depth + 1)
    BY <1>12, SeqFacts
  <2>2. \A f \in 1..depth : FrameOK(frames[f])
    BY <1>2, <1>3, <1>12 DEF WorkOK
  <2> QED
    BY <1>3, <1>9, <1>12, <2>1, <2>2
<1>14. frames # <<>>
  <2>1. DOMAIN frames = 1..(depth + 1)
    BY <1>12, SeqFacts
  <2> QED
    BY <1>3, <2>1
<1>15. WorkOK(call')
  <2> HIDE DEF depth
  <2> QED
    BY <1>3, <1>7, <1>8, <1>10, <1>12, <1>13, <1>14 DEF WorkOK
<1>16. /\ stream' = [x \in StreamFields |-> stream'[x]] /\ stream'.written = stream.written
       /\ stream'.cursor = stream.cursor /\ stream'.tops = stream.tops
  BY <1>1, <1>2 DEF StreamFields
<1> QED
  BY <1>1, <1>2, <1>10, <1>15, <1>16, QuietStep

(* What an embedded message built goes to the frame it was begun in. *)
LEMMA ReturnSpace == SpaceInv /\ EndEmbedded => SpaceInv'
<1> SUFFICES ASSUME SpaceInv, EndEmbedded PROVE SpaceInv'
  OBVIOUS
<1> DEFINE inner == Now
           depth == Head(call.todo).arg
           outer == call.frames[depth]
           tree  == append_subnode_tree_at(inner.subnodes, stream.next, stream.next + 1)
           table == [t \in DOMAIN inner.table |->
                       Data(inner.recipients, table_context(inner.table[t]))]
           other == <<Data(inner.attachments, table_context(inner.closed))>>
           built == outer.dynamic \o table \o other \o tree.blocks \o inner.dynamic
           locals == Append(outer.local, Entry(<<"embedded", outer.closed>>,
                                               inner.property, tree.root))
           frame == [outer EXCEPT !.dynamic = built, !.local = locals]
           below == SubSeq(call.frames, 1, depth - 1)
<1>1. /\ Doing("embedded") /\ stream' = [stream EXCEPT !.next = tree.next]
      /\ call' = [call EXCEPT !.frames = Append(below, frame), !.todo = Tail(@)]
      /\ UNCHANGED <<layout, names, batch, final>>
  BY DEF EndEmbedded
<1>2. /\ call.kind # "none" /\ WorkOK(call) /\ call.todo # <<>> /\ FrameOK(inner)
      /\ depth \in Nat \ {0} /\ Head(call.todo).op = "embedded"
      /\ stream = [x \in StreamFields |-> stream[x]] /\ IsSeq(stream.tops)
  BY <1>1, BuildingFacts, StepArguments
<1>3. Len(call.frames) \in Nat \ {0} /\ IsSeq(call.frames) /\ IsSeq(call.queue)
      /\ DOMAIN call.frames = 1..Len(call.frames)
  BY <1>2, NowOK DEF WorkOK
<1>4. /\ Tail(call.todo) \in Seq(BodySteps \cup Returns) /\ IsSeq(call.todo)
      /\ depth = call.todo[1].arg /\ call.todo[1].op = "embedded"
  BY <1>2, StepsLeft
<1>5. Nesting(Tail(call.todo), depth) /\ depth < Len(call.frames)
  BY <1>2, <1>4, NestingReturn DEF WorkOK
<1>6. FrameOK(outer)
  <2>1. depth \in DOMAIN call.frames
    BY <1>2, <1>3, <1>5
  <2> HIDE DEF depth
  <2> QED
    BY <1>2, <2>1 DEF WorkOK
<1>7. IsSeq(outer.dynamic) /\ IsSeq(inner.dynamic) /\ IsSeq(inner.table) /\ IsSeq(inner.subnodes)
  BY <1>2, <1>6 DEF FrameOK
<1>8. IsSeq(table)
  BY <1>7, MapIsSeq
<1>9. IsSeq(other)
  BY TupleIsSeq
<1>10. IsSeq(tree.blocks)
  BY <1>7, SubnodeTreeBlocks
<1> HIDE DEF inner, outer, tree, table, other, locals
<1>11. IsSeq(built)
  <2>1. IsSeq(outer.dynamic \o table)
    BY <1>7, <1>8, ConcatIsSeq
  <2>2. IsSeq(outer.dynamic \o table \o other)
    BY <1>9, <2>1, ConcatIsSeq
  <2>3. IsSeq(outer.dynamic \o table \o other \o tree.blocks)
    BY <1>10, <2>2, ConcatIsSeq
  <2> QED
    BY <1>7, <2>3, ConcatIsSeq
<1> HIDE DEF built
<1>12. FrameOK(frame)
  <2> DEFINE f == frame
  <2>1. /\ f = [x \in FrameFields |-> f[x]] /\ f.subnodes = outer.subnodes
        /\ f.dynamic = built /\ f.table = outer.table
    BY <1>6 DEF FrameOK, FrameFields
  <2> HIDE DEF f
  <2>2. FrameOK(f)
    BY <1>6, <1>11, <2>1 DEF FrameOK
  <2> QED
    BY <2>2 DEF f
<1> HIDE DEF frame
<1>13. /\ call' = [x \in CallFields |-> call'[x]] /\ call'.frames = Append(below, frame)
       /\ call'.todo = Tail(call.todo) /\ call'.queue = call.queue /\ call'.saved = call.saved
  BY <1>1, <1>2 DEF WorkOK, CallFields
<1>14. depth - 1 \in Nat
  BY <1>2
<1>15. IsSeq(below) /\ Len(below) = depth - 1 /\ \A i \in 1..(depth - 1) : below[i] = call.frames[i]
  BY <1>3, <1>14, SubSeqIsSeq1
<1> HIDE DEF below
<1> DEFINE frames == Append(below, frame)
<1>16. /\ IsSeq(frames) /\ Len(frames) = depth - 1 + 1
       /\ \A i \in 1..(depth - 1) : frames[i] = below[i]
       /\ frames[depth - 1 + 1] = frame
  BY <1>15, AppendIsSeq
<1> HIDE DEF frames, depth
<1>17. DOMAIN frames = 1..depth /\ Len(frames) = depth /\ frames[depth] = frame
  BY <1>2, <1>16, SeqFacts
<1>18. \A f \in DOMAIN frames : FrameOK(frames[f])
  <2>1. \A f \in 1..(depth - 1) : FrameOK(frames[f])
    <3>1. \A f \in 1..(depth - 1) : f \in DOMAIN call.frames
      BY <1>2, <1>3, <1>5
    <3> QED
      BY <1>2, <1>15, <1>16, <3>1 DEF WorkOK
  <2> QED
    BY <1>2, <1>12, <1>17, <2>1
<1>19. frames # <<>>
  BY <1>2, <1>17
<1>20. call'.frames = frames
  BY <1>13 DEF frames
<1>21. WorkOK(call')
  BY <1>3, <1>4, <1>5, <1>13, <1>16, <1>17, <1>18, <1>19, <1>20 DEF WorkOK
<1>22. /\ stream' = [x \in StreamFields |-> stream'[x]] /\ stream'.written = stream.written
       /\ stream'.cursor = stream.cursor /\ stream'.tops = stream.tops
  BY <1>1, <1>2 DEF StreamFields
<1> QED
  BY <1>1, <1>2, <1>13, <1>21, <1>22, QuietStep

(* An attachment ends. *)
LEMMA CloseSpace == SpaceInv /\ EndAttachment => SpaceInv'
<1> SUFFICES ASSUME SpaceInv, EndAttachment PROVE SpaceInv'
  OBVIOUS
<1> DEFINE context == build_property_context(Head(call.todo).arg, Now.attachment, stream.next)
           sub     == IF Now.local = <<>> THEN NoBlock ELSE context.next
           one     == IF sub = NoBlock THEN <<>> ELSE <<Subnode(sub, Now.local)>>
           built   == Now.dynamic \o context.blocks \o one
           entries == Append(Now.subnodes, Entry(<<"attachment", Now.closed>>, context.root, sub))
           frame   == [Now EXCEPT !.dynamic = built, !.subnodes = entries, !.closed = @ + 1]
<1>1. /\ Doing("close") /\ Continue(frame, <<>>)
      /\ stream' = [stream EXCEPT !.next = IF sub = NoBlock THEN context.next ELSE context.next + 1]
      /\ UNCHANGED <<layout, names, batch, final>>
  BY DEF EndAttachment
<1>2. /\ call.kind # "none" /\ WorkOK(call) /\ call.todo # <<>> /\ FrameOK(Now)
      /\ Head(call.todo).arg \in Nat
      /\ stream = [x \in StreamFields |-> stream[x]] /\ IsSeq(stream.tops)
  BY <1>1, BuildingFacts, StepArguments
<1>3. IsSeq(Now.dynamic) /\ IsSeq(Now.subnodes)
  BY <1>2 DEF FrameOK
<1>4. IsSeq(context.blocks)
  BY <1>2, PropertyContextBlocks
<1> HIDE DEF context, sub
<1>5. IsSeq(one)
  BY TupleIsSeq
<1> HIDE DEF one
<1>6. IsSeq(built)
  <2>1. IsSeq(Now.dynamic \o context.blocks)
    BY <1>3, <1>4, ConcatIsSeq
  <2> QED
    BY <1>5, <2>1, ConcatIsSeq
<1>7. IsSeq(entries)
  BY <1>3, AppendIsSeq
<1> HIDE DEF built, entries
<1>8. FrameOK(frame)
  <2> DEFINE f == frame
  <2>1. /\ f = [x \in FrameFields |-> f[x]] /\ f.subnodes = entries
        /\ f.dynamic = built /\ f.table = Now.table
    BY <1>2 DEF FrameOK, FrameFields
  <2> HIDE DEF f
  <2>2. FrameOK(f)
    BY <1>2, <1>6, <1>7, <2>1 DEF FrameOK
  <2> QED
    BY <2>2 DEF f
<1> HIDE DEF frame
<1>9. WorkOK(call') /\ call'.saved = call.saved
  BY <1>1, <1>2, <1>8, TupleIsSeq, ContinueOK
<1>10. /\ stream' = [x \in StreamFields |-> stream'[x]] /\ stream'.written = stream.written
       /\ stream'.cursor = stream.cursor /\ stream'.tops = stream.tops
  BY <1>1, <1>2 DEF StreamFields
<1> QED
  BY <1>1, <1>2, <1>9, <1>10, QuietStep

(* The message ends. *)
LEMMA FinishSpace == SpaceInv /\ EndMessage => SpaceInv'
<1> SUFFICES ASSUME SpaceInv, EndMessage PROVE SpaceInv'
  OBVIOUS
<1> DEFINE context == build_property_context(Head(call.todo).arg, Now.property, stream.next)
           built   == Now.dynamic \o context.blocks
           frame   == [Now EXCEPT !.dynamic = built, !.property = context.root]
<1>1. /\ Doing("finish") /\ Continue(frame, <<>>)
      /\ stream' = [stream EXCEPT !.next = context.next]
      /\ UNCHANGED <<layout, names, batch, final>>
  BY DEF EndMessage
<1>2. /\ call.kind # "none" /\ WorkOK(call) /\ call.todo # <<>> /\ FrameOK(Now)
      /\ Head(call.todo).arg \in Nat
      /\ stream = [x \in StreamFields |-> stream[x]] /\ IsSeq(stream.tops)
  BY <1>1, BuildingFacts, StepArguments
<1>3. IsSeq(Now.dynamic)
  BY <1>2 DEF FrameOK
<1>4. IsSeq(context.blocks)
  BY <1>2, PropertyContextBlocks
<1> HIDE DEF context
<1>5. IsSeq(built)
  BY <1>3, <1>4, ConcatIsSeq
<1> HIDE DEF built
<1>6. FrameOK(frame)
  <2> DEFINE f == frame
  <2>1. /\ f = [x \in FrameFields |-> f[x]] /\ f.subnodes = Now.subnodes
        /\ f.dynamic = built /\ f.table = Now.table
    BY <1>2 DEF FrameOK, FrameFields
  <2> HIDE DEF f
  <2>2. FrameOK(f)
    BY <1>2, <1>5, <2>1 DEF FrameOK
  <2> QED
    BY <2>2 DEF f
<1> HIDE DEF frame
<1>7. WorkOK(call') /\ call'.saved = call.saved
  BY <1>1, <1>2, <1>6, TupleIsSeq, ContinueOK
<1>8. /\ stream' = [x \in StreamFields |-> stream'[x]] /\ stream'.written = stream.written
       /\ stream'.cursor = stream.cursor /\ stream'.tops = stream.tops
  BY <1>1, <1>2 DEF StreamFields
<1> QED
  BY <1>1, <1>2, <1>7, <1>8, QuietStep

(* The blocks of a message are as many as were built. *)
LEMMA MessageBlocks ==
  ASSUME NEW frame, FrameOK(frame), NEW subnode, NEW isFirst, NEW next
  PROVE  IsSeq(built_message_block_specs(frame, subnode, isFirst, next).blocks)
<1> DEFINE tree == append_subnode_tree_at(frame.subnodes, subnode, next)
           recipients == [t \in DOMAIN frame.table |->
                            [Data(frame.recipients, table_context(frame.table[t]))
                               EXCEPT !.rc = IF isFirst /\ frame.referenced THEN 3 ELSE 2]]
           attachments == [Data(frame.attachments, table_context(frame.closed))
                             EXCEPT !.rc = IF isFirst THEN 3 ELSE 2]
           blocks == recipients \o <<attachments>> \o tree.blocks \o frame.dynamic
<1>1. IsSeq(frame.subnodes) /\ IsSeq(frame.table) /\ IsSeq(frame.dynamic)
  BY DEF FrameOK
<1>2. IsSeq(tree.blocks)
  BY <1>1, SubnodeTreeBlocks
<1>3. IsSeq(recipients)
  BY <1>1, MapIsSeq
<1>4. IsSeq(<<attachments>>)
  BY TupleIsSeq
<1>5. built_message_block_specs(frame, subnode, isFirst, next).blocks = SortedById(blocks)
  BY DEF built_message_block_specs
<1> HIDE DEF tree, recipients, attachments
<1>6. IsSeq(recipients \o <<attachments>>)
  BY <1>3, <1>4, ConcatIsSeq
<1>7. IsSeq(recipients \o <<attachments>> \o tree.blocks)
  BY <1>2, <1>6, ConcatIsSeq
<1>8. IsSeq(blocks)
  BY <1>1, <1>7, ConcatIsSeq
<1> HIDE DEF blocks
<1> QED
  BY <1>5, <1>8, SortedIsSeq

(* The rest of the message is queued. *)
LEMMA PlaceSpace == SpaceInv /\ PlaceMessage => SpaceInv'
<1> SUFFICES ASSUME SpaceInv, PlaceMessage PROVE SpaceInv'
  OBVIOUS
<1> DEFINE built == built_message_block_specs(Now, call.subnode, stream.tops = <<>>, stream.next)
           top == [node |-> call.node, property |-> Now.property,
                   subnode |-> call.subnode, parent |-> call.parent]
<1>1. /\ call.kind # "none" /\ UNCHANGED <<layout, names, batch, final>>
      /\ call' = [call EXCEPT !.queue = built.blocks, !.stage = "emit"]
  BY DEF PlaceMessage
<1>2. WorkOK(call) /\ stream = [x \in StreamFields |-> stream[x]] /\ IsSeq(stream.tops)
  BY <1>1 DEF SpaceInv, CallOK, StreamOK
<1>3. IsSeq(built.blocks)
  BY <1>2, NowOK, MessageBlocks
<1> HIDE DEF built
<1>4. WorkOK(call') /\ call'.saved = call.saved
  BY <1>1, <1>2, <1>3 DEF WorkOK, CallFields
<1>5. /\ stream' = [x \in StreamFields |-> stream'[x]] /\ stream'.written = stream.written
      /\ stream'.cursor = stream.cursor /\ stream'.tops = Append(stream.tops, top)
  BY <1>2 DEF PlaceMessage, StreamFields
<1>6. IsSeq(stream'.tops)
  BY <1>2, <1>5, AppendIsSeq
<1> QED
  BY <1>1, <1>4, <1>5, <1>6, QuietStep

(* The blocks that wait are written. *)
LEMMA EmitSpace == SpaceInv /\ emit => SpaceInv'
<1> SUFFICES ASSUME SpaceInv, emit PROVE SpaceInv'
  OBVIOUS
<1>1. /\ call.kind # "none" /\ UNCHANGED <<layout, names, batch, final>>
      /\ ~Oversized(call.queue) /\ stream' = Placed(stream, call.queue)
      /\ call' = [call EXCEPT !.queue = <<>>]
  BY DEF emit
<1>2. WorkOK(call) /\ StreamOK(stream)
  BY <1>1 DEF SpaceInv, CallOK
<1>3. IsSeq(call.queue) /\ Len(call.queue) \in Nat /\ Len(stream.written) \in Nat
  BY <1>2, SeqFacts DEF WorkOK, StreamOK, InOrder
<1>4. WorkOK(call') /\ call'.saved = call.saved
  BY <1>1, <1>2, TupleIsSeq DEF WorkOK, CallFields
<1>5. /\ StreamOK(stream') /\ Len(stream'.written) = Len(stream.written) + Len(call.queue)
      /\ \A w \in 1..Len(stream.written) : stream'.written[w] = stream.written[w]
  BY <1>1, <1>2, <1>3, PlacedStream
<1>6. Len(stream.written) <= Len(stream'.written)
  <2> DEFINE a == Len(stream.written)
             b == Len(call.queue)
             c == Len(stream'.written)
  <2>1. a \in Nat /\ b \in Nat /\ c = a + b
    BY <1>3, <1>5
  <2> HIDE DEF a, b, c
  <2>2. a <= c
    BY <2>1
  <2> QED
    BY <2>2 DEF a, c
<1> QED
  BY <1>1, <1>4, <1>5, <1>6, CallStep

-----------------------------------------------------------------------------
(***************************************************************************)
(* How a call ends, folders and batches.                                   *)
(***************************************************************************)
(* A checkpoint stays one when less is cut off than came after it. *)
LEMMA CheckpointCut ==
  ASSUME NEW saved, NEW written, NEW cut, CheckpointOK(saved, written), Len(cut) \in Nat,
         saved.stream.written <= Len(cut),
         \A w \in 1..Len(cut) : cut[w] = written[w]
  PROVE  CheckpointOK(saved, cut)
<1>1. saved.stream.written \in Nat
  BY DEF CheckpointOK
<1>2. \A w \in 1..saved.stream.written : w \in 1..Len(cut)
  BY <1>1
<1>3. Before(cut, saved.stream.written, saved.stream.cursor)
  BY <1>2 DEF CheckpointOK, Before
<1> QED
  BY <1>1, <1>3 DEF CheckpointOK

(* What TakeBack leaves. *)
LEMMA TakenBack ==
  ASSUME SpaceInv, NEW saved, CheckpointOK(saved, stream.written),
         DOMAIN saved.lengths = DOMAIN layout, TakeBack(saved)
  PROVE  /\ StreamOK(stream') /\ LayoutOK(layout') /\ Len(stream'.written) = saved.stream.written
         /\ Len(stream'.written) \in Nat
         /\ \A w \in 1..Len(stream'.written) : stream'.written[w] = stream.written[w]
<1>1. stream' = restore(saved.stream) /\ layout' = TruncatedFolders(saved.lengths)
  BY DEF TakeBack
<1>2. StreamOK(stream) /\ LayoutOK(layout)
  BY DEF SpaceInv
<1>3. /\ StreamOK(stream') /\ Len(stream'.written) = saved.stream.written
      /\ \A w \in 1..Len(stream'.written) : stream'.written[w] = stream.written[w]
  BY <1>1, <1>2, RestoredStream
<1>4. LayoutOK(layout')
  BY <1>1, <1>2, TruncatedLayout DEF CheckpointOK
<1>5. Len(stream'.written) \in Nat
  BY <1>3 DEF CheckpointOK
<1> QED
  BY <1>3, <1>4, <1>5

(* A call that is taken back leaves the batch as it was. *)
LEMMA CallTakenBack ==
  ASSUME SpaceInv, call.kind # "none", TakeBack(call.saved), call' = NoCall,
         UNCHANGED <<names, batch, final>>
  PROVE  SpaceInv'
<1>1. SavedOK /\ final.phase = "open"
  BY DEF SpaceInv, CallOK
<1>2. /\ StreamOK(stream') /\ LayoutOK(layout')
      /\ Len(stream'.written) = call.saved.stream.written /\ Len(stream'.written) \in Nat
      /\ \A w \in 1..Len(stream'.written) : stream'.written[w] = stream.written[w]
  BY <1>1, TakenBack DEF SavedOK
<1>3. BatchOK'
  <2> SUFFICES ASSUME batch.open PROVE CheckpointOK(batch, stream'.written)
    BY <1>1 DEF BatchOK
  <2>1. CheckpointOK(batch, stream.written)
    BY DEF SpaceInv, BatchOK
  <2>2. batch.stream.written <= Len(stream'.written)
    BY <1>1, <1>2 DEF SavedOK
  <2> QED
    BY <1>2, <2>1, <2>2, CheckpointCut
<1>4. CallOK' /\ WritingOK' /\ SealedOK'
  BY <1>1 DEF CallOK, WritingOK, SealedOK, NoCall
<1> QED
  BY <1>2, <1>3, <1>4 DEF SpaceInv

(* A call that returns keeps what it wrote. *)
LEMMA CallKept ==
  ASSUME SpaceInv, call.kind # "none", stream' = AfterEmit, call' = NoCall,
         UNCHANGED <<layout, names, batch, final>>
  PROVE  SpaceInv'
<1>1. final.phase = "open" /\ StreamOK(stream)
  BY DEF SpaceInv, CallOK
<1>2. /\ stream' = [x \in StreamFields |-> stream'[x]] /\ stream'.written = stream.written
      /\ stream'.cursor = stream.cursor /\ stream'.tops = stream.tops
  BY <1>1 DEF StreamOK, AfterEmit, StreamFields
<1>3. StreamOK(stream')
  BY <1>1, <1>2, StreamKept DEF StreamOK
<1>4. BatchOK'
  BY <1>2 DEF SpaceInv, BatchOK
<1>5. CallOK' /\ WritingOK' /\ SealedOK'
  BY <1>1 DEF CallOK, WritingOK, SealedOK, NoCall
<1> QED
  BY <1>3, <1>4, <1>5 DEF SpaceInv

(* Every way in which a call ends. *)
LEMMA ReturnsSpace ==
  SpaceInv /\ (ReturnAppend \/ ReturnLimited \/ ReturnProjection \/ ReturnPreflighted
               \/ AppendFails) => SpaceInv'
<1> SUFFICES ASSUME SpaceInv, ReturnAppend \/ ReturnLimited \/ ReturnProjection
                              \/ ReturnPreflighted \/ AppendFails
             PROVE  SpaceInv'
  OBVIOUS
<1>1. call.kind # "none" /\ call' = NoCall /\ UNCHANGED <<names, batch, final>>
  BY DEF ReturnAppend, ReturnLimited, ReturnProjection, ReturnPreflighted, AppendFails, Emitted
<1>2. TakeBack(call.saved) \/ (stream' = AfterEmit /\ UNCHANGED layout)
  BY DEF ReturnAppend, ReturnLimited, ReturnProjection, ReturnPreflighted, AppendFails
<1> QED
  BY <1>1, <1>2, CallTakenBack, CallKept

(* A folder more. *)
LEMMA ObserveSpace ==
  ASSUME NEW spec \in FolderSpecs
  PROVE  SpaceInv /\ observe_folder(spec) => SpaceInv'
<1> SUFFICES ASSUME SpaceInv, observe_folder(spec) PROVE SpaceInv'
  OBVIOUS
<1> DEFINE folder == [key |-> spec.key, role |-> spec.role,
                      messages |-> <<>>, associated |-> <<>>]
<1>1. /\ call.kind = "none" /\ layout' = Append(layout, folder)
      /\ UNCHANGED <<names, stream, call, batch, final>>
  BY DEF observe_folder, CanCall
<1>2. FolderOK(folder)
  <2> DEFINE f == folder
  <2>1. f = [x \in FolderFields |-> f[x]] /\ f.key = spec.key /\ f.messages = <<>>
        /\ f.associated = <<>>
    BY DEF FolderFields
  <2> HIDE DEF f
  <2>2. FolderOK(f)
    BY <2>1, FolderAssumption, TupleIsSeq DEF FolderOK
  <2> QED
    BY <2>2 DEF f
<1> HIDE DEF folder
<1>3. IsSeq(layout) /\ \A f \in DOMAIN layout : FolderOK(layout[f])
  BY DEF SpaceInv, LayoutOK
<1>4. /\ IsSeq(layout') /\ Len(layout') = Len(layout) + 1
      /\ \A i \in 1..Len(layout) : layout'[i] = layout[i]
      /\ layout'[Len(layout) + 1] = folder
  BY <1>1, <1>3, AppendIsSeq
<1>5. DOMAIN layout = 1..Len(layout) /\ Len(layout) \in Nat /\ DOMAIN layout' = 1..Len(layout')
  BY <1>3, <1>4, SeqFacts
<1>6. \A f \in DOMAIN layout' : FolderOK(layout'[f])
  <2> SUFFICES ASSUME NEW f \in DOMAIN layout' PROVE FolderOK(layout'[f])
    OBVIOUS
  <2>1. f \in 1..Len(layout) \/ f = Len(layout) + 1
    BY <1>4, <1>5
  <2> QED
    BY <1>2, <1>3, <1>4, <1>5, <2>1
<1>7. LayoutOK(layout')
  BY <1>4, <1>6 DEF LayoutOK
<1>8. BatchOK' /\ CallOK' /\ WritingOK' /\ SealedOK'
  BY <1>1 DEF SpaceInv, BatchOK, CallOK, WritingOK, SealedOK
<1> QED
  BY <1>1, <1>7, <1>8 DEF SpaceInv

(* A checkpoint of the stream as it is. *)
LEMMA CheckpointTaken ==
  ASSUME StreamOK(stream), LayoutOK(layout)
  PROVE  /\ CheckpointOK(begin_batch, stream.written)
         /\ begin_batch.stream.written = Len(stream.written)
         /\ DOMAIN begin_batch.lengths = DOMAIN layout
<1>1. /\ begin_batch.stream.written = Len(stream.written)
      /\ begin_batch.stream.tops = Len(stream.tops)
      /\ begin_batch.stream.cursor = stream.cursor
      /\ begin_batch.lengths = Lengths(layout)
  BY DEF begin_batch, checkpoint
<1>2. Len(stream.written) \in Nat /\ Len(stream.tops) \in Nat
      /\ Before(stream.written, Len(stream.written), stream.cursor)
  BY SeqFacts DEF StreamOK, InOrder
<1>3. DOMAIN Lengths(layout) = DOMAIN layout
      /\ \A f \in DOMAIN layout :
           /\ Lengths(layout)[f][1] = Len(layout[f].messages)
           /\ Lengths(layout)[f][2] = Len(layout[f].associated)
  BY DEF Lengths
<1>4. ASSUME NEW f \in DOMAIN layout
      PROVE  Lengths(layout)[f][1] \in Nat /\ Lengths(layout)[f][2] \in Nat
  <2>1. IsSeq(layout[f].messages) /\ IsSeq(layout[f].associated)
    BY DEF LayoutOK, FolderOK
  <2>2. Len(layout[f].messages) \in Nat /\ Len(layout[f].associated) \in Nat
    BY <2>1, SeqFacts
  <2> QED
    BY <1>3, <2>2
<1>5. Len(stream.written) \in 0..Len(stream.written)
  BY <1>2
<1> QED
  BY <1>1, <1>2, <1>3, <1>4, <1>5 DEF CheckpointOK

(* A batch is begun or taken back. *)
LEMMA BatchSpace == SpaceInv /\ (BeginBatch \/ rollback_batch) => SpaceInv'
<1> SUFFICES ASSUME SpaceInv, BeginBatch \/ rollback_batch PROVE SpaceInv'
  OBVIOUS
<1>1. StreamOK(stream) /\ LayoutOK(layout) /\ IsSeq(names)
  BY DEF SpaceInv
<1>2. /\ call.kind = "none" /\ final.phase = "open" /\ UNCHANGED <<names, call, final>>
  BY DEF BeginBatch, rollback_batch, CanCall
<1>3. CallOK' /\ WritingOK' /\ SealedOK'
  BY <1>2 DEF CallOK, WritingOK, SealedOK
<1>4. CASE BeginBatch
  <2>1. batch' = begin_batch /\ UNCHANGED <<layout, stream>>
    BY <1>4 DEF BeginBatch
  <2>2. BatchOK'
    BY <1>1, <1>2, <2>1, CheckpointTaken DEF BatchOK
  <2> QED
    BY <1>1, <1>2, <1>3, <2>1, <2>2 DEF SpaceInv
<1>5. CASE rollback_batch
  <2>1. batch.open /\ DOMAIN batch.lengths = DOMAIN layout /\ TakeBack(batch) /\ batch' = NoBatch
    BY <1>5 DEF rollback_batch
  <2>2. CheckpointOK(batch, stream.written)
    BY <2>1 DEF SpaceInv, BatchOK
  <2>3. StreamOK(stream') /\ LayoutOK(layout')
    BY <2>1, <2>2, TakenBack
  <2>4. BatchOK'
    BY <2>1 DEF BatchOK, NoBatch
  <2> QED
    BY <1>1, <1>2, <1>3, <2>3, <2>4 DEF SpaceInv
<1> QED
  BY <1>4, <1>5

-----------------------------------------------------------------------------
(***************************************************************************)
(* How a call begins, and finalization.                                    *)
(***************************************************************************)
(* The names stay a list. *)
LEMMA NamesAreSeq ==
  ASSUME IsSeq(names), NEW m \in Messages
  PROVE  IsSeq(prepare_named_identities(m))
<1> DEFINE Known(n) == ToSet(names) \cup {m.names[k] : k \in 1..n - 1}
           new == [n \in DOMAIN m.names |->
                     IF m.names[n] \in Known(n) THEN <<>> ELSE <<m.names[n]>>]
<1>1. prepare_named_identities(m) = names \o FlattenSeq(new)
  BY DEF prepare_named_identities
<1>2. IsSeq(m.names)
  BY MessageAssumption, SeqIsSeq
<1>3. IsSeq(new) /\ Len(new) = Len(m.names) /\ DOMAIN m.names = 1..Len(m.names)
  BY <1>2, MapIsSeq, SeqFacts
<1>4. \A n \in DOMAIN m.names : new[n] = <<>> \/ new[n] = <<m.names[n]>>
  OBVIOUS
<1> HIDE DEF new
<1>5. \A n \in 1..Len(new) : IsSeq(new[n])
  BY <1>3, <1>4, TupleIsSeq
<1>6. IsSeq(FlattenSeq(new))
  BY <1>3, <1>5, FlattenIsSeq
<1> QED
  BY <1>1, <1>6, ConcatIsSeq

(* A message more in a folder. *)
LEMMA AppendedLayout ==
  ASSUME LayoutOK(layout), NEW f \in DOMAIN layout, NEW x, NEW more,
         \/ more = [layout EXCEPT ![f].associated = Append(@, x)]
         \/ more = [layout EXCEPT ![f].messages = Append(@, x)]
  PROVE  LayoutOK(more) /\ DOMAIN more = DOMAIN layout
<1>1. DOMAIN more = DOMAIN layout /\ more = [g \in DOMAIN layout |-> more[g]]
  OBVIOUS
<1>2. IsSeq(more)
  BY <1>1, MapIsSeq DEF LayoutOK
<1>3. FolderOK(layout[f])
  BY DEF LayoutOK
<1>4. IsSeq(Append(layout[f].messages, x)) /\ IsSeq(Append(layout[f].associated, x))
  BY <1>3, AppendIsSeq DEF FolderOK
<1>5. FolderOK(more[f])
  <2>1. \/ more[f] = [layout[f] EXCEPT !.associated = Append(layout[f].associated, x)]
        \/ more[f] = [layout[f] EXCEPT !.messages = Append(layout[f].messages, x)]
    OBVIOUS
  <2>2. CASE more[f] = [layout[f] EXCEPT !.associated = Append(layout[f].associated, x)]
    <3>1. /\ more[f] = [y \in FolderFields |-> more[f][y]] /\ more[f].key = layout[f].key
          /\ more[f].messages = layout[f].messages
          /\ more[f].associated = Append(layout[f].associated, x)
      BY <1>3, <2>2 DEF FolderOK, FolderFields
    <3> QED
      BY <1>3, <1>4, <3>1 DEF FolderOK
  <2>3. CASE more[f] = [layout[f] EXCEPT !.messages = Append(layout[f].messages, x)]
    <3>1. /\ more[f] = [y \in FolderFields |-> more[f][y]] /\ more[f].key = layout[f].key
          /\ more[f].messages = Append(layout[f].messages, x)
          /\ more[f].associated = layout[f].associated
      BY <1>3, <2>3 DEF FolderOK, FolderFields
    <3> QED
      BY <1>3, <1>4, <3>1 DEF FolderOK
  <2> QED
    BY <2>1, <2>2, <2>3
<1>6. \A g \in DOMAIN layout : g # f => more[g] = layout[g]
  OBVIOUS
<1>7. \A g \in DOMAIN more : FolderOK(more[g])
  BY <1>1, <1>5, <1>6 DEF LayoutOK
<1> QED
  BY <1>1, <1>2, <1>7 DEF LayoutOK

(* A message has no return of its own. *)
LEMMA BodyNesting ==
  ASSUME NEW steps \in Seq(BodySteps), NEW depth
  PROVE  Nesting(steps, depth) /\ steps \in Seq(BodySteps \cup Returns)
<1>1. \A j \in DOMAIN steps : steps[j].op # "embedded"
  BY DEF BodySteps, Values, Embeds
<1> QED
  BY <1>1 DEF Nesting

(* A call begins with a checkpoint. *)
LEMMA AppendSpace ==
  ASSUME NEW m \in Messages, NEW kind
  PROVE  SpaceInv /\ BeginAppend(kind, m) => SpaceInv'
<1> SUFFICES ASSUME SpaceInv, BeginAppend(kind, m) PROVE SpaceInv'
  OBVIOUS
<1> DEFINE isFirst == stream.tops = <<>>
           ids == IF isFirst THEN <<12, 17, 18, 27>> ELSE [k \in 1..4 |-> stream.next + k - 1]
           f == FolderAt(layout, m.folder)
           frame == Frame(m, ids[1], ids[2], ids[3])
<1>1. StreamOK(stream) /\ LayoutOK(layout) /\ IsSeq(names) /\ BatchOK
  BY DEF SpaceInv
<1>2. /\ call.kind = "none" /\ final.phase = "open" /\ m.folder \in Keys(layout)
      /\ UNCHANGED <<batch, final>>
  BY DEF BeginAppend, CanCall
<1>3. names' = prepare_named_identities(m)
  BY DEF BeginAppend
<1>4. \/ layout' = [layout EXCEPT ![f].associated = Append(@, m.id)]
      \/ layout' = [layout EXCEPT ![f].messages = Append(@, m.id)]
  BY DEF BeginAppend
<1>5. stream' = [stream EXCEPT !.next = IF isFirst THEN @ ELSE @ + 4]
  BY DEF BeginAppend
<1>6. /\ call' = [x \in CallFields |-> call'[x]] /\ call'.saved = begin_batch
      /\ call'.frames = <<frame>> /\ call'.todo = StepsOf(m) /\ call'.queue = <<>>
  <2>1. call' = [kind |-> kind, message |-> m, project |-> kind = "project",
                 saved |-> begin_batch,
                 parent |-> transaction_folder_node(layout, m.folder),
                 node |-> <<IF m.associated THEN "assoc" ELSE "message",
                            MessageIndex + Len(stream.tops)>>,
                 subnode |-> ids[4], frames |-> <<frame>>,
                 todo |-> StepsOf(m), queue |-> <<>>, stage |-> "build"]
    BY DEF BeginAppend
  <2> HIDE DEF ids, frame
  <2> QED
    BY <2>1 DEF CallFields
<1>7. FrameOK(frame)
  BY FrameIsOK
<1> HIDE DEF frame
<1>8. f \in DOMAIN layout
  BY <1>2 DEF Keys, FolderAt
<1> HIDE DEF f
<1>9. LayoutOK(layout') /\ DOMAIN layout' = DOMAIN layout
  BY <1>1, <1>4, <1>8, AppendedLayout
<1>10. IsSeq(names')
  BY <1>1, <1>3, NamesAreSeq
<1>11. /\ stream' = [x \in StreamFields |-> stream'[x]] /\ stream'.written = stream.written
       /\ stream'.cursor = stream.cursor /\ stream'.tops = stream.tops
  BY <1>1, <1>5 DEF StreamOK, StreamFields
<1>12. StreamOK(stream')
  BY <1>1, <1>11, StreamKept DEF StreamOK
<1>13. WorkOK(call')
  <2>1. StepsOf(m) \in Seq(BodySteps \cup Returns) /\ Nesting(StepsOf(m), 1)
    BY StepsTyped, BodyNesting
  <2>2. IsSeq(<<frame>>) /\ Len(<<frame>>) = 1 /\ IsSeq(<<>>)
    BY TupleIsSeq
  <2>3. <<frame>> # <<>> /\ \A i \in DOMAIN <<frame>> : <<frame>>[i] = frame
    OBVIOUS
  <2> DEFINE frames == <<frame>>
  <2>4. call'.frames = frames /\ IsSeq(frames) /\ Len(frames) = 1 /\ frames # <<>>
        /\ \A i \in DOMAIN frames : FrameOK(frames[i])
    BY <1>6, <1>7, <2>2, <2>3
  <2> HIDE DEF frames
  <2> QED
    BY <1>6, <2>1, <2>2, <2>4 DEF WorkOK
<1>14. /\ CheckpointOK(begin_batch, stream.written) /\ DOMAIN begin_batch.lengths = DOMAIN layout
       /\ begin_batch.stream.written = Len(stream.written)
  BY <1>1, CheckpointTaken
<1>15. batch.open => batch.stream.written <= Len(stream.written)
  <2>1. Len(stream.written) \in Nat
    BY <1>1, SeqFacts DEF StreamOK, InOrder
  <2> QED
    BY <1>1, <2>1 DEF BatchOK, CheckpointOK
<1>16. SavedOK'
  BY <1>2, <1>6, <1>9, <1>11, <1>14, <1>15 DEF SavedOK
<1>17. BatchOK' /\ CallOK' /\ WritingOK' /\ SealedOK'
  BY <1>1, <1>2, <1>11, <1>13, <1>16 DEF BatchOK, CallOK, WritingOK, SealedOK
<1> QED
  BY <1>9, <1>10, <1>12, <1>17 DEF SpaceInv

(* The plan is one that can be written. *)
LEMMA FinalizeSpace == SpaceInv /\ Finalize => SpaceInv'
<1> SUFFICES ASSUME SpaceInv, Finalize PROVE SpaceInv'
  OBVIOUS
<1> DEFINE plan == build_finalization_plan(layout, stream, Len(names))
<1>1. StreamOK(stream) /\ LayoutOK(layout) /\ IsSeq(names)
  BY DEF SpaceInv
<1>2. /\ call.kind = "none" /\ final.phase = "open" /\ final' \in {Planned(plan), TooLarge}
      /\ batch' = NoBatch /\ UNCHANGED <<layout, names, stream, call>>
  BY DEF Finalize, CanCall
<1>3. IsSeq(plan.blocks) /\ Len(plan.blocks) > 0 /\ IsSeq(plan.nodes) /\ Len(plan.nodes) > 0
  <2>1. Len(names) \in Nat /\ IsSeq(stream.tops)
    BY <1>1, SeqFacts DEF StreamOK
  <2> QED
    BY <1>1, <2>1, PlanTyped
<1> HIDE DEF plan
<1>4. plan.blocks # <<>> /\ plan.nodes # <<>>
  BY <1>3
<1> DEFINE fails == \/ PlanRefused(plan.plans, stream) \/ Oversized(plan.blocks)
                    \/ final' = TooLarge
<1>5. CASE fails
  <2>1. final'.phase \in {"refused", "oversized"}
    BY <1>2, <1>5 DEF Planned, TooLarge
  <2>2. WritingOK' /\ SealedOK' /\ CallOK' /\ BatchOK'
    BY <1>2, <2>1 DEF WritingOK, SealedOK, CallOK, BatchOK, NoBatch
  <2> QED
    BY <1>1, <1>2, <2>2 DEF SpaceInv
<1>6. CASE ~fails
  <2> DEFINE eof == projected_finalized_file_eof(stream.cursor, Len(stream.written), plan)
  <2>1. final' = [phase |-> "writing", queue |-> plan.blocks, nodes |-> plan.nodes,
                  projected |-> eof]
    BY <1>2, <1>6 DEF Planned
  <2> HIDE DEF eof
  <2>2. /\ final'.phase = "writing" /\ final' = [x \in WritingFields |-> final'[x]]
        /\ final'.queue = plan.blocks /\ final'.nodes = plan.nodes
    BY <2>1 DEF WritingFields
  <2>3. WritingOK'
    BY <1>3, <1>4, <1>6, <2>2 DEF WritingOK
  <2>4. SealedOK' /\ CallOK' /\ BatchOK'
    BY <1>2, <2>2 DEF SealedOK, CallOK, BatchOK, NoBatch
  <2> QED
    BY <1>1, <1>2, <2>3, <2>4 DEF SpaceInv
<1> QED
  BY <1>5, <1>6

(* The blocks of the plan are written. *)
LEMMA BlocksSpace == SpaceInv /\ write_blocks => SpaceInv'
<1> SUFFICES ASSUME SpaceInv, write_blocks PROVE SpaceInv'
  OBVIOUS
<1>1. /\ final.phase = "writing" /\ final.queue # <<>>
      /\ stream' = Placed(stream, final.queue) /\ final' = [final EXCEPT !.queue = <<>>]
      /\ UNCHANGED <<layout, names, call, batch>>
  BY DEF write_blocks
<1>2. /\ StreamOK(stream) /\ final = [x \in WritingFields |-> final[x]]
      /\ IsSeq(final.queue) /\ ~Oversized(final.queue)
      /\ IsSeq(final.nodes) /\ final.nodes # <<>>
  BY <1>1 DEF SpaceInv, WritingOK
<1>3. Len(final.queue) \in Nat /\ Len(stream.written) \in Nat /\ Len(final.queue) > 0
  BY <1>1, <1>2, SeqFacts, TailIsSeq DEF StreamOK, InOrder
<1>4. StreamOK(stream') /\ Len(stream'.written) = Len(stream.written) + Len(final.queue)
  BY <1>2, PlacedStream, <1>1
<1>5. stream'.written # <<>>
  <2> DEFINE a == Len(stream.written)
             b == Len(final.queue)
             c == Len(stream'.written)
  <2>1. a \in Nat /\ b \in Nat /\ b > 0 /\ c = a + b
    BY <1>3, <1>4
  <2>2. stream'.written = <<>> => c = 0
    OBVIOUS
  <2> HIDE DEF a, b, c
  <2> QED
    BY <2>1, <2>2
<1>6. /\ final'.phase = "writing" /\ final' = [x \in WritingFields |-> final'[x]]
      /\ final'.queue = <<>> /\ final'.nodes = final.nodes
  BY <1>1, <1>2 DEF WritingFields
<1>7. ~Oversized(<<>>)
  BY DEF Oversized
<1>8. WritingOK'
  BY <1>2, <1>5, <1>6, <1>7, TupleIsSeq DEF WritingOK
<1>9. SealedOK' /\ CallOK' /\ BatchOK'
  BY <1>1, <1>6 DEF SpaceInv, SealedOK, CallOK, BatchOK
<1> QED
  BY <1>1, <1>4, <1>8, <1>9 DEF SpaceInv

(* The pages of the indexes come behind the blocks, and the file ends behind them. *)
LEMMA IndexesSpace == SpaceInv /\ WriteIndexes => SpaceInv'
<1> SUFFICES ASSUME SpaceInv, WriteIndexes PROVE SpaceInv'
  OBVIOUS
<1> DEFINE both  == write_bbt \o write_nbt
           start == align_up(stream.cursor, Page)
           sizes == [p \in 1..Len(both) |-> Page]
           pages == PlacedAt(start, sizes, Page)
           end   == pages[Len(pages)] + Page
<1>1. /\ final.phase = "writing" /\ final.queue = <<>>
      /\ UNCHANGED <<layout, names, stream, call, batch>>
      /\ \E phase \in {"sealed", "refused"} :
           final' = [phase |-> phase, nodes |-> final.nodes, pages |-> pages, end |-> end]
  BY DEF WriteIndexes
<1>2. /\ StreamOK(stream) /\ LayoutOK(layout) /\ IsSeq(names)
      /\ IsSeq(final.nodes) /\ final.nodes # <<>> /\ stream.written # <<>>
  BY <1>1 DEF SpaceInv, WritingOK
<1>3. IsSeq(stream.written) /\ stream.cursor \in Nat /\ FirstAmap <= stream.cursor
  BY <1>2 DEF StreamOK, InOrder, Before
<1>4. Len(stream.written) \in Nat \ {0} /\ Len(final.nodes) \in Nat \ {0}
  BY <1>2, <1>3, SeqFacts, TailIsSeq
<1>5. IsSeq(write_bbt) /\ Len(write_bbt) > 0
  BY <1>4, WriterAssumption, WrittenPagesAreSeq DEF write_bbt
<1>6. IsSeq(write_nbt) /\ Len(write_nbt) > 0
  BY <1>4, WriterAssumption, WrittenPagesAreSeq DEF write_nbt
<1>7. IsSeq(both) /\ Len(both) = Len(write_bbt) + Len(write_nbt)
      /\ Len(write_bbt) \in Nat /\ Len(write_nbt) \in Nat
  BY <1>5, <1>6, ConcatIsSeq, SeqFacts
<1> HIDE DEF both
<1>8. Len(both) \in Nat \ {0}
  BY <1>5, <1>6, <1>7
<1>9. /\ IsSeq(sizes) /\ Len(sizes) = Len(both) /\ sizes # <<>>
      /\ \A p \in 1..Len(both) : sizes[p] = Page
  <2>1. sizes = [p \in 1..Len(both) |-> sizes[p]] /\ \A p \in 1..Len(both) : sizes[p] = Page
    OBVIOUS
  <2> HIDE DEF sizes
  <2>2. IsSeq(sizes) /\ Len(sizes) = Len(both)
    BY <1>8, <2>1, FunctionIsSeq
  <2>3. sizes # <<>>
    BY <1>8, <2>2
  <2> QED
    BY <2>1, <2>2, <2>3
<1> HIDE DEF sizes
<1>10. Page \in Nat \ {0} /\ Page \in 1..MaxExtent /\ FirstAmap \in Nat
  BY GeometryAssumption
<1>11. start \in Nat /\ stream.cursor <= start /\ FirstAmap <= start
  <2>1. start \in Nat /\ stream.cursor <= start
    BY <1>3, <1>10, AlignUp
  <2> HIDE DEF start
  <2> QED
    BY <1>3, <1>10, <2>1
<1> HIDE DEF start
<1>12. Run(pages, start, sizes, Len(both))
  BY <1>8, <1>9, <1>10, <1>11, PlacedRun
<1> HIDE DEF pages
<1> DEFINE n == Len(both)
<1>13. n \in Nat \ {0} /\ IsSeq(pages) /\ Len(pages) = n /\ DOMAIN pages = 1..n
  BY <1>8, <1>12, SeqFacts DEF Run
<1>14. /\ \A i \in 1..n : Clear(pages[i], Page) /\ start <= pages[i]
       /\ \A i \in 1..n : pages[i] + Page <= pages[n] + Page
       /\ \A i \in 2..n : pages[i - 1] + Page <= pages[i]
  <2>1. \A i \in 1..n : sizes[i] = Page
    BY <1>9
  <2>2. n \in 1..n /\ \A i \in 2..n : i - 1 \in 1..n
    BY <1>13
  <2> HIDE DEF n
  <2>3. Run(pages, start, sizes, n)
    BY <1>12 DEF n
  <2> QED
    BY <2>1, <2>2, <2>3 DEF Run
<1>15. \A i \in 1..n : pages[i] \in Nat
  BY <1>14 DEF Clear
<1> HIDE DEF n
<1>16. end = pages[n] + Page /\ end \in Nat /\ pages[n] \in Nat /\ start <= pages[n]
  BY <1>10, <1>13, <1>14, <1>15
<1>17. stream.cursor <= end
  BY <1>3, <1>10, <1>11, <1>16
<1>18. \A i \in 1..n : stream.cursor <= pages[i]
  BY <1>3, <1>11, <1>14, <1>15
<1> HIDE DEF end
<1>19. PICK phase \in {"sealed", "refused"} :
         final' = [phase |-> phase, nodes |-> final.nodes, pages |-> pages, end |-> end]
  BY <1>1
<1>20. final'.phase \in {"sealed", "refused"} /\ final'.pages = pages /\ final'.end = end
  BY <1>19
<1>21. SealedOK'
  <2>1. /\ IsSeq(pages) /\ end \in Nat /\ stream.cursor <= end
        /\ \A p \in DOMAIN pages :
             Clear(pages[p], Page) /\ stream.cursor <= pages[p] /\ pages[p] + Page <= end
        /\ \A p \in 2..Len(pages) : pages[p - 1] + Page <= pages[p]
    BY <1>13, <1>14, <1>16, <1>17, <1>18
  <2> QED
    BY <1>1, <1>20, <2>1 DEF SealedOK
<1>22. WritingOK' /\ CallOK' /\ BatchOK'
  BY <1>1, <1>20 DEF SpaceInv, WritingOK, CallOK, BatchOK
<1> QED
  BY <1>1, <1>2, <1>21, <1>22 DEF SpaceInv

(* A new file. *)
LEMMA NewStreamOK == StreamOK(NewStream)
<1> DEFINE s == NewStream
<1>1. /\ s = [x \in StreamFields |-> s[x]] /\ s.written = <<>> /\ s.tops = <<>>
      /\ s.cursor = FirstData
  BY DEF NewStream, StreamFields
<1>2. FirstData \in Nat /\ FirstAmap <= FirstData
  <2>1. ReservedEnd(0) \in Nat /\ RegionStart(0) + Page <= ReservedEnd(0)
        /\ FirstAmap <= RegionStart(0) /\ RegionStart(0) \in Nat
    BY ReservedEnds, RegionStarts
  <2> QED
    BY <2>1, GeometryAssumption DEF FirstData
<1> HIDE DEF s
<1>3. InOrder(<<>>) /\ Before(<<>>, Len(<<>>), FirstData)
  BY <1>2, TupleIsSeq DEF InOrder, Before
<1>4. StreamOK(s)
  BY <1>1, <1>3, TupleIsSeq DEF StreamOK
<1> QED
  BY <1>4 DEF s

(* The file goes on and the writer is gone. *)
LEMMA HandOverSpace == SpaceInv /\ HandOver => SpaceInv'
<1> SUFFICES ASSUME SpaceInv, HandOver PROVE SpaceInv'
  OBVIOUS
<1>1. /\ final.phase = "sealed" /\ final' = [phase |-> "published"] /\ layout' = <<>>
      /\ names' = <<>> /\ stream' = NewStream /\ UNCHANGED <<call, batch>>
  BY DEF HandOver
<1>2. call.kind = "none" /\ ~batch.open
  BY <1>1 DEF SpaceInv, CallOK, BatchOK
<1>3. CallOK' /\ BatchOK' /\ WritingOK' /\ SealedOK'
  BY <1>1, <1>2 DEF CallOK, BatchOK, WritingOK, SealedOK
<1>4. LayoutOK(<<>>) /\ IsSeq(<<>>)
  BY TupleIsSeq DEF LayoutOK
<1> QED
  BY <1>1, <1>3, <1>4, NewStreamOK DEF SpaceInv

(* Finalization fails. *)
LEMMA FailureSpace == SpaceInv /\ FinalizeFails => SpaceInv'
<1> SUFFICES ASSUME SpaceInv, FinalizeFails PROVE SpaceInv'
  OBVIOUS
<1>1. /\ final.phase = "writing" /\ final' = [phase |-> "failed"]
      /\ UNCHANGED <<layout, names, stream, call, batch>>
  BY DEF FinalizeFails
<1>2. CallOK' /\ BatchOK' /\ WritingOK' /\ SealedOK'
  BY <1>1 DEF SpaceInv, CallOK, BatchOK, WritingOK, SealedOK
<1> QED
  BY <1>1, <1>2 DEF SpaceInv

(* The invariant holds at first, *)
LEMMA InitSpace == Init => SpaceInv
<1> SUFFICES ASSUME Init PROVE SpaceInv
  OBVIOUS
<1>1. /\ layout = <<>> /\ names = <<>> /\ stream = NewStream /\ call.kind = "none"
      /\ ~batch.open /\ final.phase = "open"
  BY DEF Init, NoCall, NoBatch, Open
<1>2. CallOK /\ BatchOK /\ WritingOK /\ SealedOK
  BY <1>1 DEF CallOK, BatchOK, WritingOK, SealedOK
<1>3. LayoutOK(<<>>) /\ IsSeq(<<>>)
  BY TupleIsSeq DEF LayoutOK
<1> QED
  BY <1>1, <1>2, <1>3, NewStreamOK DEF SpaceInv

(* and is about the writer only, *)
LEMMA UnchangedSpace == SpaceInv /\ UNCHANGED writer => SpaceInv'
  BY DEF writer, SpaceInv, CallOK, SavedOK, BatchOK, WritingOK, SealedOK

(* and every step keeps it. *)
LEMMA NextSpace == SpaceInv /\ [Next]_vars => SpaceInv'
<1> SUFFICES ASSUME SpaceInv, [Next]_vars PROVE SpaceInv'
  OBVIOUS
<1>1. CASE Call
  BY <1>1, AppendSpace, ObserveSpace, BatchSpace, FinalizeSpace DEF Call
<1>2. CASE Work
  BY <1>2, RecipientsSpace, AttachmentSpace, PayloadSpace, LargeSpace, EmbeddedSpace,
     ReturnSpace, CloseSpace, FinishSpace, PlaceSpace, EmitSpace, ReturnsSpace,
     BlocksSpace DEF Work
<1>3. CASE AppendFails
  BY <1>3, ReturnsSpace
<1>4. CASE WriteIndexes \/ FinalizeFails \/ HandOver
  BY <1>4, IndexesSpace, FailureSpace, HandOverSpace
<1>5. CASE UNCHANGED writer
  BY <1>5, UnchangedSpace
<1>6. CASE UNCHANGED vars
  BY <1>6, UnchangedSpace DEF vars
<1> QED
  BY <1>1, <1>2, <1>3, <1>4, <1>5, <1>6 DEF Next

-----------------------------------------------------------------------------
(***************************************************************************)
(* What the invariant says of the extents.                                 *)
(***************************************************************************)
(* Rounding up to slots covers the slot of every byte before the end. *)
LEMMA SlotCovered ==
  ASSUME NEW v \in Nat, NEW u \in Nat, v < u, NEW d \in Nat \ {0}
  PROVE  v \div d \in 0..(DivCeil(u, d) - 1)
<1> DEFINE p == v \div d
           q == (u + d - 1) \div d
<1>1. p \in Nat /\ p * d <= v
  BY DivBounds
<1>2. q \in Nat /\ u + d - 1 < q * d + d
  <2>1. u + d - 1 \in Nat
    OBVIOUS
  <2> QED
    BY <2>1, DivBounds
<1>3. DivCeil(u, d) = q
  BY DEF DivCeil
<1> HIDE DEF p, q
<1>4. p < q
  <2> SUFFICES ASSUME q <= p PROVE FALSE
    BY <1>1, <1>2
  <2>1. q * d <= p * d /\ q * d \in Nat /\ p * d \in Nat
    BY <1>1, <1>2
  <2> QED
    BY <1>1, <1>2, <2>1
<1>5. p \in 0..(q - 1)
  BY <1>1, <1>2, <1>4
<1> QED
  BY <1>3, <1>5 DEF p

(* The file reaches behind what was allocated. *)
LEMMA FileCovers ==
  ASSUME NEW x \in Nat, FirstAmap <= x
  PROVE  x <= allocation_file_eof(x)
<1> DEFINE d == x - FirstAmap
           q == DivCeil(d, AmapData)
           c == AmapCount(x)
<1>1. AmapData \in Nat \ {0} /\ FirstAmap \in Nat /\ d \in Nat
  BY AmapDataPositive, GeometryAssumption
<1>2. d <= q * AmapData /\ q \in Int
  <2> HIDE DEF d
  <2>1. d <= align_up(d, AmapData)
    BY <1>1, AlignUp
  <2> QED
    BY <1>1, <2>1, Quotients DEF align_up
<1>3. c = AtLeast(q, 1)
  BY DEF AmapCount
<1> HIDE DEF q, c
<1>4. c \in Int /\ q <= c
  BY <1>2, <1>3 DEF AtLeast
<1>5. q * AmapData <= c * AmapData /\ q * AmapData \in Int /\ c * AmapData \in Int
  BY <1>1, <1>2, <1>4
<1>6. d <= c * AmapData
  BY <1>1, <1>2, <1>5
<1>7. x <= FirstAmap + c * AmapData
  BY <1>1, <1>5, <1>6
<1> QED
  BY <1>7 DEF allocation_file_eof, RegionStart, c

(* One extent is where it may be, and in use in the map of a sealed file. *)
SoundExtent(e) ==
  LET region == Region(e.offset)
  IN  /\ e.end <= RegionStart(region + 1)
      /\ \A page \in MapPages(region) : e.offset >= page + Page
      /\ final.phase = "sealed" =>
           /\ (e.end - RegionStart(region) - 1) \div Slot \in AmapBits(region, final.end)
           /\ e.end <= allocation_file_eof(final.end)

(* What is clear is sound. *)
LEMMA ClearIsSound ==
  ASSUME NEW x, NEW size, Clear(x, size),
         final.phase = "sealed" => final.end \in Nat /\ x + size <= final.end
  PROVE  SoundExtent([offset |-> x, end |-> x + size])
<1> DEFINE region == Region(x)
           start  == RegionStart(region)
           next   == RegionStart(region + 1)
           end    == x + size
<1>1. /\ x \in Nat /\ FirstAmap <= x /\ size \in Nat \ {0} /\ end <= next
      /\ \A page \in MapPages(region) : page + Page <= x
  BY GeometryAssumption DEF Clear
<1>2. region \in Nat /\ start <= x /\ start \in Nat /\ next \in Nat
  BY <1>1, RegionBounds, RegionStarts
<1>3. \A page \in MapPages(region) : x >= page + Page
  <2>1. \A page \in MapPages(region) : page \in Nat
    BY <1>2, GeometryAssumption DEF MapPages
  <2> HIDE DEF region
  <2> QED
    BY <1>1, <2>1, GeometryAssumption
<1>4. ASSUME final.phase = "sealed"
      PROVE  /\ (end - start - 1) \div Slot \in AmapBits(region, final.end)
             /\ end <= allocation_file_eof(final.end)
  <2> DEFINE E == final.end
             y == AtLeast(AtMost(E, next), start)
  <2>1. E \in Nat /\ end <= E
    BY <1>4
  <2> HIDE DEF E, region, start, next
  <2>2. end \in Nat /\ start < end
    BY <1>1, <1>2
  <2> HIDE DEF end
  <2>3. y \in Nat /\ end <= y
    BY <1>1, <1>2, <2>1, <2>2 DEF AtLeast, AtMost
  <2> HIDE DEF y
  <2>4. end - start - 1 \in Nat /\ y - start \in Nat /\ end - start - 1 < y - start
    BY <1>2, <2>2, <2>3
  <2>5. (end - start - 1) \div Slot \in 0..(DivCeil(y - start, Slot) - 1)
    BY <2>4, SlotCovered, GeometryAssumption
  <2>6. AmapBits(region, E) = 0..(DivCeil(y - start, Slot) - 1)
    BY DEF AmapBits, AllocatedSlots, y, start, next
  <2>7. FirstAmap <= E
    BY <1>1, <2>1, GeometryAssumption DEF end
  <2>8. E <= allocation_file_eof(E)
    BY <2>1, <2>7, FileCovers
  <2>9. allocation_file_eof(E) \in Int
    <3>1. AmapCount(E) \in Int /\ AmapData \in Int /\ FirstAmap \in Int
      <4>1. E - FirstAmap \in Int /\ AmapData \in Nat \ {0} /\ FirstAmap \in Int
        BY <2>1, AmapDataPositive, GeometryAssumption
      <4>2. DivCeil(E - FirstAmap, AmapData) \in Int
        BY <4>1, Quotients
      <4> QED
        BY <4>1, <4>2 DEF AmapCount, AtLeast
    <3> QED
      BY <3>1 DEF allocation_file_eof, RegionStart
  <2>10. end <= allocation_file_eof(E)
    BY <2>1, <2>2, <2>8, <2>9
  <2> QED
    BY <2>5, <2>6, <2>10 DEF E
<1> DEFINE e == [offset |-> x, end |-> end]
<1>5. e.offset = x /\ e.end = end
  OBVIOUS
<1> HIDE DEF e
<1>6. SoundExtent(e)
  BY <1>1, <1>3, <1>4, <1>5 DEF SoundExtent
<1> QED
  BY <1>6 DEF e

(* The extents are sound one by one and in order. *)
LEMMA SpaceIsSound == SpaceInv => ExtentsSound
<1> SUFFICES ASSUME SpaceInv PROVE ExtentsSound
  OBVIOUS
<1> DEFINE written == stream.written
           N     == Len(written)
           first == [w \in DOMAIN written |->
                       [offset |-> written[w].offset,
                        end |-> written[w].offset + physical_size(written[w].block)]]
           last  == IF final.phase # "sealed" THEN <<>>
                    ELSE [p \in DOMAIN final.pages |->
                            [offset |-> final.pages[p], end |-> final.pages[p] + Page]]
           all   == first \o last
<1>1. /\ IsSeq(written) /\ N \in Nat /\ DOMAIN written = 1..N /\ InOrder(written)
      /\ Before(written, N, stream.cursor) /\ stream.cursor \in Nat
  BY SeqFacts DEF SpaceInv, StreamOK, InOrder, Before
<1>2. SealedOK
  BY DEF SpaceInv
<1>3. /\ IsSeq(first) /\ Len(first) = N
      /\ \A w \in 1..N : first[w] = [offset |-> written[w].offset, end |-> End(written[w])]
  BY <1>1, MapIsSeq DEF End
<1>4. /\ IsSeq(last)
      /\ Len(last) > 0 => final.phase = "sealed"
      /\ final.phase = "sealed" =>
           /\ IsSeq(final.pages) /\ Len(last) = Len(final.pages)
           /\ DOMAIN final.pages = 1..Len(final.pages)
           /\ \A p \in 1..Len(last) :
                last[p] = [offset |-> final.pages[p], end |-> final.pages[p] + Page]
  <2>1. CASE final.phase # "sealed"
    BY <2>1, TupleIsSeq
  <2>2. CASE final.phase = "sealed"
    <3>1. IsSeq(final.pages)
      BY <1>2, <2>2 DEF SealedOK
    <3>2. DOMAIN final.pages = 1..Len(final.pages)
      BY <3>1, SeqFacts
    <3>3. IsSeq(last) /\ Len(last) = Len(final.pages)
      BY <2>2, <3>1, MapIsSeq
    <3> QED
      BY <2>2, <3>1, <3>2, <3>3
  <2> QED
    BY <2>1, <2>2
<1>5. Extents = all
  BY DEF Extents
<1> HIDE DEF first, last
<1>6. /\ IsSeq(all) /\ Len(all) = N + Len(last) /\ \A w \in 1..N : all[w] = first[w]
      /\ \A p \in 1..Len(last) : all[N + p] = last[p]
  <2>1. /\ IsSeq(first \o last) /\ Len(first \o last) = Len(first) + Len(last)
        /\ \A w \in 1..Len(first) : (first \o last)[w] = first[w]
        /\ \A p \in 1..Len(last) : (first \o last)[Len(first) + p] = last[p]
    BY <1>3, <1>4, ConcatIsSeq
  <2>2. Len(first) = N
    BY <1>3
  <2> HIDE DEF N
  <2> QED
    BY <2>1, <2>2
<1>7. Len(last) \in Nat /\ DOMAIN all = 1..(N + Len(last))
  <2> HIDE DEF all
  <2> QED
    BY <1>4, <1>6, SeqFacts
<1> HIDE DEF all, written, N
<1>8. \A n \in 1..(N + Len(last)) : n \in 1..N \/ \E p \in 1..Len(last) : n = N + p
  <2> SUFFICES ASSUME NEW n \in 1..(N + Len(last)), n > N
               PROVE  \E p \in 1..Len(last) : n = N + p
    BY <1>1
  <2>1. n - N \in 1..Len(last) /\ n = N + (n - N)
    BY <1>1, <1>7
  <2> QED
    BY <2>1
<1>9. ASSUME NEW w \in 1..N
      PROVE  /\ Clear(written[w].offset, physical_size(written[w].block))
             /\ End(written[w]) \in Nat /\ written[w].offset \in Nat
             /\ End(written[w]) <= stream.cursor
  <2>1. Clear(written[w].offset, physical_size(written[w].block))
    BY <1>1 DEF InOrder
  <2>2. End(written[w]) \in Nat /\ written[w].offset \in Nat
    BY <2>1 DEF Clear, End
  <2> QED
    BY <1>1, <2>1, <2>2 DEF Before
<1>10. ASSUME NEW p \in 1..Len(last)
       PROVE  /\ Clear(final.pages[p], Page) /\ stream.cursor <= final.pages[p]
              /\ final.pages[p] + Page <= final.end /\ final.pages[p] \in Nat
  <2>1. final.phase = "sealed"
    BY <1>4, <1>7
  <2>2. p \in DOMAIN final.pages
    BY <1>4, <2>1
  <2> QED
    BY <1>2, <2>1, <2>2 DEF SealedOK, Clear
<1>11. ASSUME NEW n \in 1..(N + Len(last)) PROVE SoundExtent(all[n])
  <2>1. CASE n \in 1..N
    <3> DEFINE x == written[n].offset
               size == physical_size(written[n].block)
    <3>1. Clear(x, size) /\ x + size <= stream.cursor /\ x + size \in Nat
      BY <1>9, <2>1 DEF End
    <3>2. final.phase = "sealed" => final.end \in Nat /\ stream.cursor <= final.end
      BY <1>2 DEF SealedOK
    <3>3. all[n] = [offset |-> x, end |-> x + size]
      BY <1>3, <1>6, <2>1 DEF End
    <3> HIDE DEF x, size
    <3>4. final.phase = "sealed" => final.end \in Nat /\ x + size <= final.end
      BY <1>1, <3>1, <3>2
    <3> QED
      BY <3>1, <3>3, <3>4, ClearIsSound
  <2>2. CASE \E p \in 1..Len(last) : n = N + p
    <3>1. PICK p \in 1..Len(last) : n = N + p
      BY <2>2
    <3>2. final.phase = "sealed"
      BY <1>4, <1>7, <3>1
    <3>3. all[n] = [offset |-> final.pages[p], end |-> final.pages[p] + Page]
      BY <1>4, <1>6, <3>1, <3>2
    <3>4. Clear(final.pages[p], Page) /\ final.pages[p] + Page <= final.end
      BY <1>10
    <3>5. final.end \in Nat
      BY <1>2, <3>2 DEF SealedOK
    <3> QED
      BY <3>3, <3>4, <3>5, ClearIsSound
  <2> QED
    BY <1>8, <2>1, <2>2
<1>12. ASSUME NEW n \in 2..(N + Len(last)) PROVE all[n].offset >= all[n - 1].end
  <2>1. CASE n <= N
    <3>1. n \in 2..N /\ n \in 1..N /\ n - 1 \in 1..N
      BY <1>1, <2>1
    <3>2. End(written[n - 1]) <= written[n].offset
      BY <1>1, <3>1 DEF InOrder, N
    <3>3. all[n].offset = written[n].offset /\ all[n - 1].end = End(written[n - 1])
      BY <1>3, <1>6, <3>1
    <3>4. End(written[n - 1]) \in Nat /\ written[n].offset \in Nat
      BY <1>9, <3>1
    <3> QED
      BY <3>2, <3>3, <3>4
  <2>2. CASE n = N + 1
    <3>1. 1 \in 1..Len(last) /\ N \in 1..N /\ n - 1 = N
      BY <1>1, <1>7, <2>2
    <3>2. final.phase = "sealed"
      BY <1>4, <1>7, <3>1
    <3>3. all[n].offset = final.pages[1] /\ all[n - 1].end = End(written[N])
      <4>1. all[N + 1] = last[1] /\ all[N] = first[N]
        BY <1>6, <3>1
      <4>2. last[1] = [offset |-> final.pages[1], end |-> final.pages[1] + Page]
        BY <1>4, <3>1, <3>2
      <4>3. first[N] = [offset |-> written[N].offset, end |-> End(written[N])]
        BY <1>3, <3>1
      <4> QED
        BY <2>2, <3>1, <4>1, <4>2, <4>3
    <3>4. End(written[N]) <= stream.cursor /\ End(written[N]) \in Nat
      BY <1>9, <3>1
    <3>5. stream.cursor <= final.pages[1] /\ final.pages[1] \in Nat
      BY <1>10, <3>1
    <3> QED
      BY <1>1, <3>3, <3>4, <3>5
  <2>3. CASE n > N + 1
    <3> DEFINE p == n - N
    <3>1. p \in 2..Len(last) /\ p \in 1..Len(last) /\ p - 1 \in 1..Len(last)
          /\ n = N + p /\ n - 1 = N + (p - 1)
      BY <1>1, <1>7, <2>3
    <3> HIDE DEF p
    <3>2. final.phase = "sealed"
      BY <1>4, <1>7, <3>1
    <3>3. all[N + p].offset = final.pages[p]
          /\ all[N + (p - 1)].end = final.pages[p - 1] + Page
      <4>1. all[N + p] = last[p] /\ all[N + (p - 1)] = last[p - 1]
        BY <1>6, <3>1
      <4>2. /\ last[p] = [offset |-> final.pages[p], end |-> final.pages[p] + Page]
            /\ last[p - 1] = [offset |-> final.pages[p - 1], end |-> final.pages[p - 1] + Page]
        BY <1>4, <3>1, <3>2
      <4> QED
        BY <4>1, <4>2
    <3>4. final.pages[p - 1] + Page <= final.pages[p]
      BY <1>2, <1>4, <3>1, <3>2 DEF SealedOK
    <3>5. final.pages[p] \in Nat /\ final.pages[p - 1] + Page \in Nat
      BY <1>10, <3>1, GeometryAssumption
    <3> QED
      BY <3>1, <3>3, <3>4, <3>5
  <2> QED
    BY <1>1, <1>7, <2>1, <2>2, <2>3
<1> QED
  BY <1>5, <1>6, <1>7, <1>11, <1>12 DEF ExtentsSound, SoundExtent

(***************************************************************************)
(* Whatever is appended, measured, taken back and observed, in whatever    *)
(* order: what the writer places never overlaps what it placed before, a   *)
(* map page or the border of a region, and in a sealed file every slot in  *)
(* use has its bit in an allocation map of the file.                       *)
(***************************************************************************)
THEOREM ExtentsNeverOverlap == Spec => []ExtentsSound
  BY InitSpace, NextSpace, SpaceIsSound, PTL DEF Spec

(***************************************************************************)
(* The rows follow their folders.                                          *)
(*                                                                         *)
(* The layout and the rows are kept by different code and taken back by    *)
(* different assignments, and a row names its folder by a node computed    *)
(* from the folders observed so far.  First, what that node is.            *)
(***************************************************************************)

(* The folders of a layout: no path twice, and one Deleted Items at most. *)
Shape(folders) ==
  /\ LayoutOK(folders)
  /\ \A f \in DOMAIN folders : Len(folders[f].key) > 1
  /\ \A f, g \in DOMAIN folders : folders[f].key = folders[g].key => f = g
  /\ \A f, g \in DOMAIN folders :
       folders[f].role = "deleted" /\ folders[g].role = "deleted" => f = g

(* The path of so many names. *)
LEMMA PathsOfKey ==
  ASSUME NEW key \in Seq(Nat), Len(key) > 1
  PROVE  /\ DOMAIN PathPrefixes(key) = 1..(Len(key) - 1)
         /\ \A d \in 1..(Len(key) - 1) :
              /\ PathPrefixes(key)[d] \in Seq(Nat) /\ Len(PathPrefixes(key)[d]) = d + 1
         /\ PathPrefixes(key)[Len(key) - 1] = key
         /\ Len(key) - 1 \in 1..(Len(key) - 1)
<1>1. DOMAIN PathPrefixes(key) = 1..(Len(key) - 1)
      /\ \A d \in 1..(Len(key) - 1) : PathPrefixes(key)[d] = SubSeq(key, 1, d + 1)
  BY DEF PathPrefixes
<1>2. \A d \in 1..(Len(key) - 1) : SubSeq(key, 1, d + 1) \in Seq(Nat) /\ Len(SubSeq(key, 1, d + 1)) = d + 1
  OBVIOUS
<1>3. SubSeq(key, 1, Len(key)) = key /\ Len(key) - 1 \in 1..(Len(key) - 1)
      /\ (Len(key) - 1) + 1 = Len(key)
  OBVIOUS
<1> QED
  BY <1>1, <1>2, <1>3

(* An occurrence of a path among those that are observed. *)
Path(folders, f, d) == PathPrefixes(folders[f].key)[d]

(* The depths of its paths below the root. *)
Depths(folders, f) == 1..(Len(folders[f].key) - 1)

(* The key does not occur up to here. *)
Unseen(folders, key, f, d) ==
  /\ \A g \in 1..(f - 1) : \A e \in Depths(folders, g) : Path(folders, g, e) # key
  /\ \A e \in 1..d : Path(folders, f, e) # key

(* What is observed before a path: the paths of earlier folders, and its own shorter ones. *)
LEMMA BeforeFacts ==
  ASSUME NEW folders, Shape(folders), NEW key
  PROVE  \A q : q \in ObservedBefore(folders, key) <=>
           \E f \in 1..Len(folders) : \E d \in Depths(folders, f) :
             q = Path(folders, f, d) /\ Unseen(folders, key, f, d)
<1> DEFINE paths == [f \in DOMAIN folders |-> PathPrefixes(folders[f].key)]
           Un(f, depth) == /\ \A g \in 1..f - 1 : key \notin ToSet(paths[g])
                           /\ \A d \in 1..depth : paths[f][d] # key
<1>1. IsSeq(folders) /\ DOMAIN folders = 1..Len(folders) /\ Len(folders) \in Nat
  BY SeqFacts DEF Shape, LayoutOK
<1>2. \A f \in 1..Len(folders) :
        /\ paths[f] = PathPrefixes(folders[f].key)
        /\ DOMAIN paths[f] = Depths(folders, f)
  <2> SUFFICES ASSUME NEW f \in 1..Len(folders)
               PROVE  DOMAIN PathPrefixes(folders[f].key) = Depths(folders, f)
    BY <1>1
  <2>1. folders[f].key \in Seq(Nat) /\ Len(folders[f].key) > 1
    BY <1>1 DEF Shape, LayoutOK, FolderOK
  <2> QED
    BY <2>1, PathsOfKey DEF Depths
<1>3. ObservedBefore(folders, key)
        = UNION {{paths[f][d] : d \in {e \in DOMAIN paths[f] : Un(f, e)}} : f \in DOMAIN folders}
  BY DEF ObservedBefore
<1> HIDE DEF paths
<1>4. ASSUME NEW f \in 1..Len(folders), NEW d
      PROVE  Un(f, d) <=> Unseen(folders, key, f, d)
  <2>1. \A g \in 1..f - 1 : g \in 1..Len(folders)
    BY <1>1
  <2>2. \A g \in 1..f - 1 :
          key \notin ToSet(paths[g]) <=> \A e \in Depths(folders, g) : Path(folders, g, e) # key
    BY <1>2, <2>1 DEF ToSet, Path
  <2>3. \A e \in 1..d : paths[f][e] = Path(folders, f, e)
    BY <1>2 DEF Path
  <2> QED
    BY <2>2, <2>3 DEF Unseen
<1> HIDE DEF Un
<1> SUFFICES ASSUME NEW q
             PROVE  q \in ObservedBefore(folders, key) <=>
                      \E f \in 1..Len(folders) : \E d \in Depths(folders, f) :
                        q = Path(folders, f, d) /\ Unseen(folders, key, f, d)
  OBVIOUS
<1>5. q \in ObservedBefore(folders, key) <=>
        \E f \in 1..Len(folders) : \E d \in DOMAIN paths[f] : q = paths[f][d] /\ Un(f, d)
  BY <1>1, <1>3
<1> QED
  BY <1>2, <1>4, <1>5 DEF Path

(* A folder is found by its path. *)
LEMMA FolderFound ==
  ASSUME NEW folders, Shape(folders), NEW f \in DOMAIN folders
  PROVE  /\ folders[f].key \in Keys(folders) /\ FolderAt(folders, folders[f].key) = f
         /\ RoleOf(folders, folders[f].key) = folders[f].role
<1>1. folders[f].key \in Keys(folders)
  BY DEF Keys
<1>2. FolderAt(folders, folders[f].key) = f
  BY DEF FolderAt, Shape
<1> QED
  BY <1>1, <1>2 DEF RoleOf

(* The node that the rows of a folder name. *)
FolderNode(folders, f) == transaction_folder_node(folders, folders[f].key)

(* b is a with more messages, fewer messages, or more folders. *)
Extends(a, b) ==
  /\ Len(a) <= Len(b)
  /\ \A f \in 1..Len(a) : b[f].key = a[f].key /\ b[f].role = a[f].role

(* Where a folder occurs itself. *)
LEMMA OwnPath ==
  ASSUME NEW folders, Shape(folders), NEW f \in DOMAIN folders
  PROVE  /\ folders[f].key \in Seq(Nat) /\ Len(folders[f].key) > 1
         /\ Len(folders[f].key) - 1 \in Depths(folders, f)
         /\ Path(folders, f, Len(folders[f].key) - 1) = folders[f].key
         /\ \A d \in Depths(folders, f) :
              Path(folders, f, d) \in Seq(Nat) /\ Len(Path(folders, f, d)) = d + 1
<1>1. folders[f].key \in Seq(Nat) /\ Len(folders[f].key) > 1
  BY DEF Shape, LayoutOK, FolderOK
<1> QED
  BY <1>1, PathsOfKey DEF Path, Depths

(***************************************************************************)
(* A folder that is observed later, and messages that come and go, never   *)
(* change the node of a folder.                                            *)
(***************************************************************************)
LEMMA NodeStable ==
  ASSUME NEW a, Shape(a), NEW b, Shape(b), Extends(a, b), NEW f \in DOMAIN a
  PROVE  FolderNode(b, f) = FolderNode(a, f)
<1> DEFINE key == a[f].key
<1>1. /\ DOMAIN a = 1..Len(a) /\ DOMAIN b = 1..Len(b) /\ Len(a) \in Nat /\ Len(b) \in Nat
      /\ Len(a) <= Len(b)
  BY SeqFacts DEF Shape, LayoutOK, Extends
<1>2. \A g \in 1..Len(a) : g \in 1..Len(b) /\ b[g].key = a[g].key /\ b[g].role = a[g].role
  BY <1>1 DEF Extends
<1>3. b[f].key = key /\ b[f].role = a[f].role /\ f \in DOMAIN b
  BY <1>1, <1>2
<1>4. \A g \in 1..Len(a) : /\ Depths(b, g) = Depths(a, g)
                           /\ \A d : Path(b, g, d) = Path(a, g, d)
  BY <1>2 DEF Depths, Path
<1>5. \A g \in 1..Len(a) : \A d : Unseen(b, key, g, d) <=> Unseen(a, key, g, d)
  <2> SUFFICES ASSUME NEW g \in 1..Len(a), NEW d
               PROVE  Unseen(b, key, g, d) <=> Unseen(a, key, g, d)
    OBVIOUS
  <2>1. \A h \in 1..(g - 1) : h \in 1..Len(a)
    BY <1>1
  <2> HIDE DEF key
  <2> QED
    BY <1>4, <2>1 DEF Unseen
<1>6. ASSUME NEW g \in 1..Len(b), NEW d, Unseen(b, key, g, d) PROVE g \in 1..Len(a)
  <2> SUFFICES ASSUME g > Len(a) PROVE FALSE
    BY <1>1
  <2>1. f \in 1..(g - 1)
    BY <1>1
  <2>2. Len(key) - 1 \in Depths(b, f) /\ Path(b, f, Len(key) - 1) = key
    BY <1>3, OwnPath
  <2> HIDE DEF key
  <2> QED
    BY <1>6, <2>1, <2>2 DEF Unseen
<1>7. \A q : q \in ObservedBefore(b, key) <=> q \in ObservedBefore(a, key)
  <2> HIDE DEF key
  <2> SUFFICES ASSUME NEW q PROVE q \in ObservedBefore(b, key) <=> q \in ObservedBefore(a, key)
    OBVIOUS
  <2>1. q \in ObservedBefore(b, key) <=>
          \E g \in 1..Len(b) : \E d \in Depths(b, g) : q = Path(b, g, d) /\ Unseen(b, key, g, d)
    BY BeforeFacts
  <2>2. q \in ObservedBefore(a, key) <=>
          \E g \in 1..Len(a) : \E d \in Depths(a, g) : q = Path(a, g, d) /\ Unseen(a, key, g, d)
    BY BeforeFacts
  <2> QED
    BY <1>2, <1>4, <1>5, <1>6, <2>1, <2>2
<1>8. ObservedBefore(b, key) = ObservedBefore(a, key)
  BY <1>7
<1>9. RoleOf(a, key) = a[f].role /\ RoleOf(b, key) = a[f].role
  BY <1>3, FolderFound
<1> QED
  BY <1>3, <1>8, <1>9 DEF FolderNode, transaction_folder_node

(* There are finitely many paths. *)
LEMMA BeforeFinite ==
  ASSUME NEW folders, Shape(folders), NEW key
  PROVE  IsFiniteSet(ObservedBefore(folders, key)) /\ Cardinality(ObservedBefore(folders, key)) \in Nat
<1> DEFINE Of(f) == ToSet(PathPrefixes(folders[f].key))
           sets == [f \in DOMAIN folders |-> Of(f)]
           all  == ToSet(sets)
<1>1. IsSeq(folders) /\ DOMAIN folders = 1..Len(folders) /\ Len(folders) \in Nat
  BY SeqFacts DEF Shape, LayoutOK
<1>2. ASSUME NEW f \in DOMAIN folders PROVE IsFiniteSet(Of(f))
  <2>1. folders[f].key \in Seq(Nat)
    BY DEF Shape, LayoutOK, FolderOK
  <2>2. IsSeq(PathPrefixes(folders[f].key))
    BY <2>1, PrefixesAreSeq
  <2> QED
    BY <2>2, ToSetFinite
<1>3. \A s : s \in all <=> \E f \in DOMAIN folders : s = Of(f)
  BY DEF ToSet
<1>4. IsFiniteSet(all)
  BY <1>1, MapIsSeq, ToSetFinite
<1> HIDE DEF all
<1>5. IsFiniteSet(UNION all)
  BY <1>2, <1>3, <1>4, FS_UNION
<1>6. ObservedBefore(folders, key) \subseteq UNION all
  <2> SUFFICES ASSUME NEW q \in ObservedBefore(folders, key) PROVE q \in UNION all
    OBVIOUS
  <2>1. PICK f \in 1..Len(folders) : \E d \in Depths(folders, f) : q = Path(folders, f, d)
    BY BeforeFacts
  <2>2. PICK d \in Depths(folders, f) : q = Path(folders, f, d)
    BY <2>1
  <2>3. folders[f].key \in Seq(Nat) /\ Len(folders[f].key) > 1
    BY <1>1, OwnPath
  <2>4. d \in DOMAIN PathPrefixes(folders[f].key)
    BY <2>2, <2>3, PathsOfKey DEF Depths
  <2>5. q \in Of(f)
    BY <2>2, <2>4 DEF ToSet, Path
  <2> HIDE DEF Of
  <2> QED
    BY <1>1, <1>3, <2>5
<1> QED
  BY <1>5, <1>6, FS_Subset, FS_CardinalityType

(* Of two folders one is observed first, and the other behind it. *)
LEMMA FirstObserved ==
  ASSUME NEW folders, Shape(folders), NEW k, NEW l, k # l,
         NEW f \in DOMAIN folders, NEW d \in Depths(folders, f), Path(folders, f, d) = k,
         Unseen(folders, l, f, d)
  PROVE  /\ ObservedBefore(folders, k) \subseteq ObservedBefore(folders, l)
         /\ k \in ObservedBefore(folders, l) /\ k \notin ObservedBefore(folders, k)
<1>1. DOMAIN folders = 1..Len(folders) /\ Len(folders) \in Nat
  BY SeqFacts DEF Shape, LayoutOK
<1>2. k \in ObservedBefore(folders, l)
  BY <1>1, BeforeFacts
<1>3. d \in Nat /\ \A g \in 1..Len(folders) : Depths(folders, g) \subseteq Nat
  BY DEF Depths
<1>4. k \notin ObservedBefore(folders, k)
  <2> SUFFICES ASSUME NEW g \in 1..Len(folders), NEW e \in Depths(folders, g),
                      Path(folders, g, e) = k, Unseen(folders, k, g, e)
               PROVE  FALSE
    BY BeforeFacts
  <2>1. e \in 1..e
    BY DEF Depths
  <2> QED
    BY <2>1 DEF Unseen
<1>5. ASSUME NEW q \in ObservedBefore(folders, k) PROVE q \in ObservedBefore(folders, l)
  <2>1. PICK g \in 1..Len(folders) : \E e \in Depths(folders, g) :
          q = Path(folders, g, e) /\ Unseen(folders, k, g, e)
    BY <1>5, BeforeFacts
  <2>2. PICK e \in Depths(folders, g) : q = Path(folders, g, e) /\ Unseen(folders, k, g, e)
    BY <2>1
  <2>3. g <= f
    <3> SUFFICES ASSUME g > f PROVE FALSE
      BY <1>1
    <3>1. f \in 1..(g - 1)
      BY <1>1
    <3> QED
      BY <2>2, <3>1 DEF Unseen
  <2>4. g = f => e < d
    <3> SUFFICES ASSUME g = f, d <= e PROVE FALSE
      BY <1>3
    <3>1. d \in 1..e
      BY <1>3 DEF Depths
    <3> QED
      BY <2>2, <3>1 DEF Unseen
  <2>5. Unseen(folders, l, g, e)
    <3>1. CASE g = f
      <4>1. \A x \in 1..e : x \in 1..d
        BY <1>3, <2>4, <3>1
      <4> QED
        BY <3>1, <4>1 DEF Unseen
    <3>2. CASE g < f
      <4>1. g \in 1..(f - 1) /\ \A x \in 1..(g - 1) : x \in 1..(f - 1)
        BY <1>1, <3>2
      <4>2. \A x \in 1..e : x \in Depths(folders, g)
        BY DEF Depths
      <4> QED
        BY <4>1, <4>2 DEF Unseen
    <3> QED
      BY <1>1, <2>3, <3>1, <3>2
  <2> QED
    BY <2>2, <2>5, BeforeFacts
<1> QED
  BY <1>2, <1>4, <1>5

(* A set of numbers has a least one. *)
LEMMA LeastNumber ==
  ASSUME NEW T, T \subseteq Nat, T # {}
  PROVE  \E m \in T : \A n \in T : m <= n
<1> SUFFICES ASSUME \A m \in T : \E n \in T : n < m PROVE FALSE
  OBVIOUS
<1> DEFINE S == {n \in Nat : \A m \in 0..n : m \notin T}
<1>1. 0 \in S
  OBVIOUS
<1>2. ASSUME NEW n \in Nat, n \in S PROVE n + 1 \in S
  <2>1. ASSUME NEW m \in 0..(n + 1) PROVE m \notin T
    <3>1. CASE m \in 0..n
      BY <1>2, <3>1
    <3>2. CASE m = n + 1
      <4> SUFFICES ASSUME m \in T PROVE FALSE
        OBVIOUS
      <4>1. PICK k \in T : k < m
        OBVIOUS
      <4>2. k \in 0..n
        BY <3>2, <4>1
      <4> QED
        BY <1>2, <4>2
    <3> QED
      BY <3>1, <3>2
  <2> QED
    BY <2>1
<1>3. \A n \in Nat : n \in S
  <2> HIDE DEF S
  <2> QED
    BY <1>1, <1>2, SetInduction
<1>4. PICK n \in T : TRUE
  OBVIOUS
<1>5. n \in S /\ n \in 0..n
  BY <1>3
<1> QED
  BY <1>5

(* The path of a folder, or of one above it. *)
Observed(folders, key) ==
  \E f \in DOMAIN folders : \E d \in Depths(folders, f) : Path(folders, f, d) = key

(* Of two paths one is observed first. *)
LEMMA OneIsFirst ==
  ASSUME NEW folders, Shape(folders), NEW k, NEW l, k # l, Observed(folders, k)
  PROVE  \/ \E h \in DOMAIN folders : \E d \in Depths(folders, h) :
              Path(folders, h, d) = k /\ Unseen(folders, l, h, d)
         \/ \E h \in DOMAIN folders : \E d \in Depths(folders, h) :
              Path(folders, h, d) = l /\ Unseen(folders, k, h, d)
<1> DEFINE Has(h, x) == \E d \in Depths(folders, h) : Path(folders, h, d) = x
           T == {h \in DOMAIN folders : Has(h, k) \/ Has(h, l)}
<1>1. DOMAIN folders = 1..Len(folders) /\ Len(folders) \in Nat
  BY SeqFacts DEF Shape, LayoutOK
<1>2. \E h \in DOMAIN folders : Has(h, k)
  BY DEF Observed
<1>3. PICK h \in T : \A n \in T : h <= n
  <2>1. T \subseteq Nat /\ T # {}
    BY <1>1, <1>2
  <2> HIDE DEF T
  <2> QED
    BY <2>1, LeastNumber
<1>4. h \in DOMAIN folders /\ h \in Nat /\ (Has(h, k) \/ Has(h, l))
  BY <1>1, <1>3
<1>5. ASSUME NEW n \in 1..(h - 1) PROVE ~Has(n, k) /\ ~Has(n, l)
  <2>1. n \in DOMAIN folders /\ ~(h <= n)
    BY <1>1, <1>4
  <2> QED
    BY <1>3, <2>1
<1>6. \A d \in Depths(folders, h) : Len(Path(folders, h, d)) = d + 1 /\ d \in Nat
  BY <1>4, OwnPath DEF Depths
<1>7. ASSUME NEW x, NEW y, x # y, NEW d \in Depths(folders, h), Path(folders, h, d) = x,
             \A e \in Depths(folders, h) : Path(folders, h, e) = y => d < e,
             \A n \in 1..(h - 1) : ~Has(n, y)
      PROVE  Unseen(folders, y, h, d)
  <2>1. ASSUME NEW e \in 1..d PROVE Path(folders, h, e) # y
    <3>1. e \in Depths(folders, h) /\ ~(d < e)
      BY <1>6 DEF Depths
    <3> QED
      BY <1>7, <3>1
  <2> QED
    BY <1>7, <2>1 DEF Unseen
<1>8. CASE Has(h, k) /\ Has(h, l)
  <2>1. PICK d \in Depths(folders, h) : Path(folders, h, d) = k
    BY <1>8
  <2>2. PICK e \in Depths(folders, h) : Path(folders, h, e) = l
    BY <1>8
  <2>3. d \in Nat /\ e \in Nat /\ d # e
    BY <1>6, <2>1, <2>2
  <2>4. \A x \in Depths(folders, h) : Path(folders, h, x) = k => x = d
    BY <1>6, <2>1
  <2>5. \A x \in Depths(folders, h) : Path(folders, h, x) = l => x = e
    BY <1>6, <2>2
  <2>6. CASE d < e
    <3>1. Unseen(folders, l, h, d)
      BY <1>5, <1>7, <2>1, <2>5, <2>6
    <3> QED
      BY <1>4, <2>1, <3>1
  <2>7. CASE e < d
    <3>1. Unseen(folders, k, h, e)
      BY <1>5, <1>7, <2>2, <2>4, <2>7
    <3> QED
      BY <1>4, <2>2, <3>1
  <2> QED
    BY <2>3, <2>6, <2>7
<1>9. CASE Has(h, k) /\ ~Has(h, l)
  <2>1. PICK d \in Depths(folders, h) : Path(folders, h, d) = k
    BY <1>9
  <2>2. Unseen(folders, l, h, d)
    BY <1>5, <1>7, <1>9, <2>1
  <2> QED
    BY <1>4, <2>1, <2>2
<1>10. CASE ~Has(h, k) /\ Has(h, l)
  <2>1. PICK d \in Depths(folders, h) : Path(folders, h, d) = l
    BY <1>10
  <2>2. Unseen(folders, k, h, d)
    BY <1>5, <1>7, <1>10, <2>1
  <2> QED
    BY <1>4, <2>1, <2>2
<1> QED
  BY <1>4, <1>8, <1>9, <1>10

(* A proper subset has fewer elements. *)
LEMMA ProperSubset ==
  ASSUME NEW S, IsFiniteSet(S), NEW T, T \subseteq S, NEW x \in S, x \notin T
  PROVE  Cardinality(T) # Cardinality(S)
<1>1. T \in SUBSET S /\ S # T
  OBVIOUS
<1> QED
  BY <1>1, FS_Subset

(* No two paths have the same node. *)
LEMMA PathNodesDiffer ==
  ASSUME NEW folders, Shape(folders), NEW k, NEW l, k # l,
         Observed(folders, k), Observed(folders, l)
  PROVE  transaction_folder_node(folders, k) # transaction_folder_node(folders, l)
<1> DEFINE B(x) == ObservedBefore(folders, x)
           Gone(x) == RoleOf(folders, x) = "deleted"
<1>2. ASSUME NEW x, Gone(x)
      PROVE  \E f \in DOMAIN folders : folders[f].key = x /\ folders[f].role = "deleted"
  <2>1. x \in Keys(folders) /\ folders[FolderAt(folders, x)].role = "deleted"
    BY <1>2 DEF RoleOf
  <2>2. FolderAt(folders, x) \in DOMAIN folders /\ folders[FolderAt(folders, x)].key = x
    BY <2>1 DEF Keys, FolderAt
  <2> QED
    BY <2>1, <2>2
<1>3. ~(Gone(k) /\ Gone(l))
  BY <1>2 DEF Shape
<1>4. Cardinality(B(k)) \in Nat /\ Cardinality(B(l)) \in Nat
      /\ IsFiniteSet(B(k)) /\ IsFiniteSet(B(l))
  BY BeforeFinite
<1>5. Cardinality(B(k)) # Cardinality(B(l))
  <2>1. CASE \E h \in DOMAIN folders : \E d \in Depths(folders, h) :
               Path(folders, h, d) = k /\ Unseen(folders, l, h, d)
    <3>1. B(k) \subseteq B(l) /\ k \in B(l) /\ k \notin B(k)
      BY <2>1, FirstObserved
    <3> HIDE DEF B
    <3> QED
      BY <1>4, <3>1, ProperSubset
  <2>2. CASE \E h \in DOMAIN folders : \E d \in Depths(folders, h) :
               Path(folders, h, d) = l /\ Unseen(folders, k, h, d)
    <3>1. B(l) \subseteq B(k) /\ l \in B(k) /\ l \notin B(l)
      BY <2>2, FirstObserved
    <3> HIDE DEF B
    <3> QED
      BY <1>4, <3>1, ProperSubset
  <2> QED
    BY <2>1, <2>2, OneIsFirst
<1>6. \A x : transaction_folder_node(folders, x) = IF Gone(x) THEN <<"folder", 1027>>
                                                  ELSE <<"folder", 1028 + Cardinality(B(x))>>
  BY DEF transaction_folder_node, DeletedFolder, MailFolderIndex
<1> HIDE DEF B, Gone
<1> DEFINE x == Cardinality(B(k))
           y == Cardinality(B(l))
<1>7. x \in Nat /\ y \in Nat /\ x # y
  BY <1>4, <1>5
<1> HIDE DEF x, y
<1>8. 1027 # 1028 + x /\ 1027 # 1028 + y /\ 1028 + x # 1028 + y
  BY <1>7
<1> QED
  BY <1>3, <1>6, <1>8 DEF x, y

(* No two folders have the same node. *)
LEMMA NodesDiffer ==
  ASSUME NEW folders, Shape(folders), NEW f \in DOMAIN folders, NEW g \in DOMAIN folders, f # g
  PROVE  FolderNode(folders, f) # FolderNode(folders, g)
<1>1. folders[f].key # folders[g].key
  BY DEF Shape
<1>2. Observed(folders, folders[f].key) /\ Observed(folders, folders[g].key)
  BY OwnPath DEF Observed
<1> QED
  BY <1>1, <1>2, PathNodesDiffer DEF FolderNode

(* Of the first n rows, those under a node. *)
RowsOf(rows, n, node) == {r \in 1..n : rows[r].parent = node}

(* The first n rows are those that the k-th lengths count, folder by folder. *)
Balanced(folders, rows, n, lengths, k) ==
  /\ n \in Nat
  /\ \A f \in DOMAIN lengths :
       Cardinality(RowsOf(rows, n, FolderNode(folders, f))) = lengths[f][k]
  /\ \A r \in 1..n : \E f \in DOMAIN lengths : rows[r].parent = FolderNode(folders, f)

(* Counting rows. *)
LEMMA RowsCounted ==
  ASSUME NEW rows, NEW n \in Nat, NEW node
  PROVE  /\ IsFiniteSet(RowsOf(rows, n, node)) /\ Cardinality(RowsOf(rows, n, node)) \in Nat
         /\ Cardinality(RowsOf(rows, n + 1, node))
              = Cardinality(RowsOf(rows, n, node)) + (IF rows[n + 1].parent = node THEN 1 ELSE 0)
<1>1. RowsOf(rows, n, node) \in SUBSET (1..n) /\ IsFiniteSet(1..n)
  BY FS_Interval DEF RowsOf
<1>2. IsFiniteSet(RowsOf(rows, n, node))
  BY <1>1, FS_Subset
<1>3. Cardinality(RowsOf(rows, n, node)) \in Nat
  BY <1>2, FS_CardinalityType
<1>4. n + 1 \notin RowsOf(rows, n, node)
  BY DEF RowsOf
<1>5. CASE rows[n + 1].parent = node
  <2>1. RowsOf(rows, n + 1, node) = RowsOf(rows, n, node) \cup {n + 1}
    BY <1>5 DEF RowsOf
  <2> QED
    BY <1>2, <1>3, <1>4, <1>5, <2>1, FS_AddElement
<1>6. CASE rows[n + 1].parent # node
  <2>1. RowsOf(rows, n + 1, node) = RowsOf(rows, n, node)
    BY <1>6 DEF RowsOf
  <2> QED
    BY <1>2, <1>3, <1>6, <2>1
<1> QED
  BY <1>2, <1>3, <1>5, <1>6

(* The balance of a prefix stays when folders and rows are added. *)
LEMMA BalancedKept ==
  ASSUME NEW a, Shape(a), NEW b, Shape(b), Extends(a, b), NEW rows, NEW more, NEW n,
         NEW lengths, NEW k, Balanced(a, rows, n, lengths, k),
         DOMAIN lengths \subseteq DOMAIN a, \A r \in 1..n : more[r] = rows[r]
  PROVE  Balanced(b, more, n, lengths, k)
<1>1. \A f \in DOMAIN lengths : FolderNode(b, f) = FolderNode(a, f)
  BY NodeStable
<1>2. \A node : RowsOf(more, n, node) = RowsOf(rows, n, node)
  BY DEF RowsOf
<1> QED
  BY <1>1, <1>2 DEF Balanced

(* The balance is about the numbers. *)
LEMMA BalancedLengths ==
  ASSUME NEW folders, NEW rows, NEW n, NEW lengths, NEW k, Balanced(folders, rows, n, lengths, k),
         NEW counts, DOMAIN counts = DOMAIN lengths,
         \A f \in DOMAIN lengths : counts[f][k] = lengths[f][k]
  PROVE  Balanced(folders, rows, n, counts, k)
  BY DEF Balanced

(* A folder that is new has no rows. *)
LEMMA BalancedObserved ==
  ASSUME NEW a, Shape(a), NEW b, Shape(b), Extends(a, b), Len(b) = Len(a) + 1,
         NEW rows, NEW n, NEW lengths, NEW k, Balanced(a, rows, n, lengths, k),
         DOMAIN lengths = DOMAIN a, NEW counts, DOMAIN counts = DOMAIN b,
         \A f \in DOMAIN a : counts[f][k] = lengths[f][k], counts[Len(b)][k] = 0
  PROVE  Balanced(b, rows, n, counts, k)
<1>1. DOMAIN a = 1..Len(a) /\ DOMAIN b = 1..Len(b) /\ Len(a) \in Nat /\ Len(b) \in Nat
  BY SeqFacts DEF Shape, LayoutOK
<1> DEFINE L == Len(b)
<1>2. L \in DOMAIN b /\ \A f \in DOMAIN b : f \in DOMAIN a \/ f = L
  BY <1>1
<1>3. \A f \in DOMAIN a : f \in DOMAIN b /\ f # L
  BY <1>1
<1> HIDE DEF L
<1>4. \A f \in DOMAIN a : FolderNode(b, f) = FolderNode(a, f)
  BY NodeStable
<1>5. \A f \in DOMAIN a : FolderNode(b, f) # FolderNode(b, L)
  BY <1>2, <1>3, NodesDiffer
<1>6. \A r \in 1..n : \E f \in DOMAIN a : rows[r].parent = FolderNode(b, f)
  BY <1>4 DEF Balanced
<1>7. RowsOf(rows, n, FolderNode(b, L)) = {}
  BY <1>5, <1>6 DEF RowsOf
<1>8. Cardinality(RowsOf(rows, n, FolderNode(b, L))) = 0
  BY <1>7, FS_EmptySet
<1>9. ASSUME NEW f \in DOMAIN b
      PROVE  Cardinality(RowsOf(rows, n, FolderNode(b, f))) = counts[f][k]
  <2>1. CASE f = L
    BY <1>8, <2>1 DEF L
  <2>2. CASE f \in DOMAIN a
    BY <1>4, <2>2 DEF Balanced
  <2> QED
    BY <1>2, <2>1, <2>2
<1>10. \A r \in 1..n : \E f \in DOMAIN b : rows[r].parent = FolderNode(b, f)
  BY <1>3, <1>6
<1> QED
  BY <1>9, <1>10 DEF Balanced

(* One row more under the node of a folder. *)
LEMMA BalancedAppended ==
  ASSUME NEW a, Shape(a), NEW rows, NEW n, NEW lengths, NEW k,
         Balanced(a, rows, n, lengths, k), DOMAIN lengths = DOMAIN a,
         NEW f \in DOMAIN a, rows[n + 1].parent = FolderNode(a, f),
         NEW counts, DOMAIN counts = DOMAIN a,
         \A g \in DOMAIN a : counts[g][k] = lengths[g][k] + (IF g = f THEN 1 ELSE 0)
  PROVE  Balanced(a, rows, n + 1, counts, k)
<1>1. n \in Nat /\ n + 1 \in Nat
  BY DEF Balanced
<1>2. ASSUME NEW g \in DOMAIN a
      PROVE  Cardinality(RowsOf(rows, n + 1, FolderNode(a, g))) = counts[g][k]
  <2>1. Cardinality(RowsOf(rows, n, FolderNode(a, g))) = lengths[g][k]
    BY DEF Balanced
  <2>2. Cardinality(RowsOf(rows, n + 1, FolderNode(a, g)))
          = lengths[g][k] + (IF rows[n + 1].parent = FolderNode(a, g) THEN 1 ELSE 0)
    BY <1>1, <2>1, RowsCounted
  <2>3. rows[n + 1].parent = FolderNode(a, g) <=> g = f
    BY NodesDiffer
  <2> QED
    BY <2>2, <2>3
<1>3. \A r \in 1..(n + 1) : \E g \in DOMAIN a : rows[r].parent = FolderNode(a, g)
  <2> SUFFICES ASSUME NEW r \in 1..(n + 1)
               PROVE  \E g \in DOMAIN a : rows[r].parent = FolderNode(a, g)
    OBVIOUS
  <2>1. r \in 1..n \/ r = n + 1
    BY <1>1
  <2> QED
    BY <2>1 DEF Balanced
<1> QED
  BY <1>1, <1>2, <1>3 DEF Balanced

(* A checkpoint counts the rows that it keeps. *)
Held(folders, s, saved) ==
  /\ DOMAIN saved.lengths \subseteq DOMAIN folders
  /\ saved.stream.rows \in 0..Len(s.rows)
  /\ saved.stream.associated \in 0..Len(s.associated)
  /\ Balanced(folders, s.rows, saved.stream.rows, saved.lengths, 1)
  /\ Balanced(folders, s.associated, saved.stream.associated, saved.lengths, 2)

(* Between two calls every message has its row. *)
Settled ==
  /\ Balanced(layout, stream.rows, Len(stream.rows), Lengths(layout), 1)
  /\ Balanced(layout, stream.associated, Len(stream.associated), Lengths(layout), 2)

(* One if it is so. *)
One(yes) == IF yes THEN 1 ELSE 0

(* A call has one message more than its checkpoint, and its row once it is placed. *)
Pending ==
  LET mail   == ~call.message.associated
      placed == call.stage = "emit"
  IN  \E f \in DOMAIN layout :
        /\ call.parent = FolderNode(layout, f) /\ call.message.associated \in BOOLEAN
        /\ call.stage \in {"build", "emit"}
        /\ \A g \in DOMAIN layout :
             /\ Len(layout[g].messages) = call.saved.lengths[g][1] + One(g = f /\ mail)
             /\ Len(layout[g].associated) = call.saved.lengths[g][2] + One(g = f /\ ~mail)
        /\ Len(stream.rows) = call.saved.stream.rows + One(placed /\ mail)
        /\ Len(stream.associated) = call.saved.stream.associated + One(placed /\ ~mail)
        /\ placed /\ mail => stream.rows[Len(stream.rows)].parent = call.parent
        /\ placed /\ ~mail =>
             stream.associated[Len(stream.associated)].parent = call.parent

(* Inside a call: what it would go back to holds, and so does what it has done. *)
InCall ==
  /\ Held(layout, stream, call.saved) /\ DOMAIN call.saved.lengths = DOMAIN layout
  /\ Pending
  /\ batch.open => /\ batch.stream.rows <= call.saved.stream.rows
                   /\ batch.stream.associated <= call.saved.stream.associated

(***************************************************************************)
(* The invariant.  RowsFollowFolders says nothing of a call under way, nor *)
(* of what a call or a batch that fails goes back to; this one does.       *)
(***************************************************************************)
RowsInv ==
  /\ IsSeq(stream.rows) /\ IsSeq(stream.associated) /\ Shape(layout)
  /\ call.kind = "none" => Settled
  /\ call.kind # "none" => InCall
  /\ batch.open => Held(layout, stream, batch)

(* What the invariant is for. *)
LEMMA RowsAreFollowed == RowsInv => RowsFollowFolders
<1> SUFFICES ASSUME RowsInv, call.kind = "none", NEW f \in DOMAIN layout
             PROVE  LET node == transaction_folder_node(layout, layout[f].key)
                        Rows(rows) == {r \in DOMAIN rows : rows[r].parent = node}
                    IN  /\ Cardinality(Rows(stream.rows)) = Len(layout[f].messages)
                        /\ Cardinality(Rows(stream.associated)) = Len(layout[f].associated)
  BY DEF RowsFollowFolders
<1>1. DOMAIN stream.rows = 1..Len(stream.rows) /\ DOMAIN stream.associated = 1..Len(stream.associated)
  BY SeqFacts DEF RowsInv
<1>2. Settled
  BY DEF RowsInv
<1>3. f \in DOMAIN Lengths(layout) /\ Lengths(layout)[f][1] = Len(layout[f].messages)
      /\ Lengths(layout)[f][2] = Len(layout[f].associated)
  BY DEF Lengths
<1>4. /\ Cardinality(RowsOf(stream.rows, Len(stream.rows), FolderNode(layout, f)))
           = Len(layout[f].messages)
      /\ Cardinality(RowsOf(stream.associated, Len(stream.associated), FolderNode(layout, f)))
           = Len(layout[f].associated)
  BY <1>2, <1>3 DEF Settled, Balanced
<1> QED
  BY <1>1, <1>4 DEF RowsOf, FolderNode

(* What the invariant needs of a call stays. *)
SameCall ==
  /\ call'.kind = call.kind
  /\ call.kind # "none" =>
       /\ call'.saved = call.saved /\ call'.message = call.message
       /\ call'.parent = call.parent /\ call'.stage = call.stage

(* A step that leaves folders, rows and checkpoints alone. *)
LEMMA RowsKept ==
  ASSUME RowsInv, UNCHANGED layout, stream'.rows = stream.rows,
         stream'.associated = stream.associated, batch' = batch \/ ~batch'.open, SameCall
  PROVE  RowsInv'
<1>1. /\ IsSeq(stream.rows) /\ IsSeq(stream.associated) /\ Shape(layout)
      /\ call.kind = "none" => Settled
      /\ call.kind # "none" => InCall
      /\ batch.open => Held(layout, stream, batch)
  BY DEF RowsInv
<1>2. Settled => Settled'
  BY DEF Settled
<1>3. \A saved : Held(layout, stream, saved) => Held(layout', stream', saved)
  BY DEF Held
<1>4. call.kind # "none" /\ Pending => Pending'
  BY DEF Pending, SameCall
<1>5. call.kind # "none" => InCall'
  BY <1>1, <1>3, <1>4 DEF InCall, SameCall
<1>6. batch'.open => Held(layout', stream', batch')
  BY <1>1, <1>3
<1> QED
  BY <1>1, <1>2, <1>5, <1>6 DEF RowsInv, SameCall

(* A step of building changes what is built, and the identifiers. *)
LEMMA BuiltRows ==
  ASSUME SpaceInv, RowsInv, NEW op, Doing(op), UNCHANGED <<layout, batch>>,
         NEW frames, NEW todo, NEW queue,
         \/ call' = [call EXCEPT !.frames = frames, !.queue = queue, !.todo = todo]
         \/ call' = [call EXCEPT !.frames = frames, !.todo = todo],
         NEW next, NEW node,
         \/ stream' = [stream EXCEPT !.next = next, !.node = node]
         \/ stream' = [stream EXCEPT !.next = next]
  PROVE  RowsInv'
<1>1. WorkOK(call) /\ stream = [x \in StreamFields |-> stream[x]]
  BY BuildingFacts
<1>2. SameCall
  BY <1>1 DEF WorkOK, CallFields, SameCall
<1>3. stream'.rows = stream.rows /\ stream'.associated = stream.associated
  BY <1>1 DEF StreamFields
<1> QED
  BY <1>2, <1>3, RowsKept

(* Every step of building is one. *)
LEMMA BuildRows ==
  SpaceInv /\ RowsInv
  /\ (BuildRecipients \/ BeginAttachment \/ append_direct_properties
      \/ externalize_large_properties \/ BeginEmbedded \/ EndEmbedded \/ EndAttachment
      \/ EndMessage)
  => RowsInv'
<1> SUFFICES ASSUME SpaceInv, RowsInv,
                    \/ BuildRecipients \/ BeginAttachment \/ append_direct_properties
                    \/ externalize_large_properties \/ BeginEmbedded \/ EndEmbedded
                    \/ EndAttachment \/ EndMessage
             PROVE  RowsInv'
  OBVIOUS
<1>1. CASE BuildRecipients
  <2>1. Doing("recipients") /\ UNCHANGED <<layout, batch>>
    BY <1>1 DEF BuildRecipients
  <2>2. \E frame : Continue(frame, <<>>)
    BY <1>1 DEF BuildRecipients
  <2>3. \E frames, todo : call' = [call EXCEPT !.frames = frames, !.queue = <<>>, !.todo = todo]
    BY <2>2 DEF Continue
  <2>4. \E next : stream' = [stream EXCEPT !.next = next]
    <3> DEFINE rows == Head(call.todo).arg
               next == IF Compact(rows) THEN stream.next
                       ELSE table_context_external(rows, stream.next).next
    <3>1. stream' = [stream EXCEPT !.next = next]
      BY <1>1 DEF BuildRecipients
    <3> QED
      BY <3>1
  <2> QED
    BY <2>1, <2>3, <2>4, BuiltRows
<1>2. CASE BeginAttachment
  BY <1>2, BuiltRows DEF BeginAttachment, Continue
<1>3. CASE append_direct_properties
  BY <1>3, BuiltRows DEF append_direct_properties, Continue
<1>4. CASE externalize_large_properties
  BY <1>4, BuiltRows DEF externalize_large_properties, Continue
<1>5. CASE BeginEmbedded
  BY <1>5, BuiltRows DEF BeginEmbedded
<1>6. CASE EndEmbedded
  BY <1>6, BuiltRows DEF EndEmbedded
<1>7. CASE EndAttachment
  BY <1>7, BuiltRows DEF EndAttachment, Continue
<1>8. CASE EndMessage
  BY <1>8, BuiltRows DEF EndMessage, Continue
<1> QED
  BY <1>1, <1>2, <1>3, <1>4, <1>5, <1>6, <1>7, <1>8

(* Blocks are placed, the indexes written, the file is finished: no row moves. *)
LEMMA PlacedRows ==
  ASSUME NEW s, StreamOK(s), NEW blocks
  PROVE  Placed(s, blocks).rows = s.rows /\ Placed(s, blocks).associated = s.associated
<1>1. s = [x \in StreamFields |-> s[x]]
  BY DEF StreamOK
<1> QED
  BY <1>1 DEF Placed, StreamFields

(* A step that leaves calls, layout, batch and the lists of rows alone. *)
LEMMA QuietRows ==
  SpaceInv /\ RowsInv
  /\ (emit \/ write_blocks \/ Finalize \/ WriteIndexes \/ FinalizeFails \/ UNCHANGED writer)
  => RowsInv'
<1> SUFFICES ASSUME SpaceInv, RowsInv,
                    \/ emit \/ write_blocks \/ Finalize \/ WriteIndexes \/ FinalizeFails
                    \/ UNCHANGED writer
             PROVE  RowsInv'
  OBVIOUS
<1>1. StreamOK(stream)
  BY DEF SpaceInv
<1>2. CASE emit
  <2>1. /\ call.kind # "none" /\ UNCHANGED <<layout, batch>> /\ stream' = Placed(stream, call.queue)
        /\ call' = [call EXCEPT !.queue = <<>>]
    BY <1>2 DEF emit
  <2>2. WorkOK(call)
    BY <2>1 DEF SpaceInv, CallOK
  <2>3. SameCall
    BY <2>1, <2>2 DEF WorkOK, CallFields, SameCall
  <2>4. stream'.rows = stream.rows /\ stream'.associated = stream.associated
    BY <1>1, <2>1, PlacedRows
  <2> QED
    BY <2>1, <2>3, <2>4, RowsKept
<1>3. CASE write_blocks
  <2>1. UNCHANGED <<layout, batch, call>> /\ stream' = Placed(stream, final.queue)
    BY <1>3 DEF write_blocks
  <2>2. stream'.rows = stream.rows /\ stream'.associated = stream.associated
    BY <1>1, <2>1, PlacedRows
  <2> QED
    BY <2>1, <2>2, RowsKept DEF SameCall
<1>4. CASE Finalize \/ WriteIndexes \/ FinalizeFails \/ UNCHANGED writer
  <2>1. UNCHANGED <<layout, call, stream>> /\ (batch' = batch \/ batch' = NoBatch)
    BY <1>4 DEF Finalize, WriteIndexes, FinalizeFails, writer
  <2> QED
    BY <2>1, RowsKept DEF SameCall, NoBatch
<1> QED
  BY <1>2, <1>3, <1>4

(* A layout extends itself. *)
LEMMA ExtendsItself ==
  ASSUME NEW a, Shape(a)
  PROVE  Extends(a, a)
<1>1. Len(a) \in Nat
  BY SeqFacts DEF Shape, LayoutOK
<1> QED
  BY <1>1 DEF Extends

(* A checkpoint holds as long as its rows are there. *)
LEMMA HeldKept ==
  ASSUME NEW a, Shape(a), NEW b, Shape(b), Extends(a, b), NEW s, NEW t, NEW saved,
         Held(a, s, saved), Len(t.rows) \in Nat, Len(t.associated) \in Nat,
         saved.stream.rows <= Len(t.rows), saved.stream.associated <= Len(t.associated),
         \A r \in 1..saved.stream.rows : t.rows[r] = s.rows[r],
         \A r \in 1..saved.stream.associated : t.associated[r] = s.associated[r]
  PROVE  Held(b, t, saved)
<1>1. /\ DOMAIN saved.lengths \subseteq DOMAIN a
      /\ saved.stream.rows \in Nat /\ saved.stream.associated \in Nat
      /\ Balanced(a, s.rows, saved.stream.rows, saved.lengths, 1)
      /\ Balanced(a, s.associated, saved.stream.associated, saved.lengths, 2)
  BY DEF Held
<1>2. DOMAIN a = 1..Len(a) /\ DOMAIN b = 1..Len(b) /\ Len(a) \in Nat /\ Len(b) \in Nat
      /\ Len(a) <= Len(b)
  BY SeqFacts DEF Shape, LayoutOK, Extends
<1>3. DOMAIN saved.lengths \subseteq DOMAIN b
  BY <1>1, <1>2
<1>4. saved.stream.rows \in 0..Len(t.rows) /\ saved.stream.associated \in 0..Len(t.associated)
  BY <1>1
<1>5. Balanced(b, t.rows, saved.stream.rows, saved.lengths, 1)
  BY <1>1, BalancedKept
<1>6. Balanced(b, t.associated, saved.stream.associated, saved.lengths, 2)
  BY <1>1, BalancedKept
<1> QED
  BY <1>3, <1>4, <1>5, <1>6 DEF Held

(* The row of the message is placed. *)
LEMMA PlaceRows == SpaceInv /\ RowsInv /\ PlaceMessage => RowsInv'
<1> SUFFICES ASSUME SpaceInv, RowsInv, PlaceMessage PROVE RowsInv'
  OBVIOUS
<1> DEFINE built == built_message_block_specs(Now, call.subnode, stream.tops = <<>>, stream.next)
           row == [parent |-> call.parent, node |-> call.node]
           assoc == call.message.associated
<1>1. /\ call.kind # "none" /\ call.stage = "build" /\ UNCHANGED <<layout, batch>>
      /\ call' = [call EXCEPT !.queue = built.blocks, !.stage = "emit"]
  BY DEF PlaceMessage
<1>2. WorkOK(call) /\ stream = [x \in StreamFields |-> stream[x]]
  BY <1>1 DEF SpaceInv, CallOK, StreamOK
<1> HIDE DEF built
<1>3. /\ call'.kind = call.kind /\ call'.saved = call.saved /\ call'.message = call.message
      /\ call'.parent = call.parent /\ call'.stage = "emit"
  BY <1>1, <1>2 DEF WorkOK, CallFields
<1>4. /\ stream'.rows = IF assoc THEN stream.rows ELSE Append(stream.rows, row)
      /\ stream'.associated = IF assoc THEN Append(stream.associated, row) ELSE stream.associated
  BY <1>2 DEF PlaceMessage, StreamFields
<1> HIDE DEF row
<1>5. /\ IsSeq(stream.rows) /\ IsSeq(stream.associated) /\ Shape(layout)
      /\ Held(layout, stream, call.saved) /\ DOMAIN call.saved.lengths = DOMAIN layout /\ Pending
      /\ batch.open => /\ Held(layout, stream, batch)
                       /\ batch.stream.rows <= call.saved.stream.rows
                       /\ batch.stream.associated <= call.saved.stream.associated
  BY <1>1 DEF RowsInv, InCall
<1>14. IsSeq(stream.rows) /\ IsSeq(stream.associated)
  BY <1>5
<1>6. assoc \in BOOLEAN
  BY <1>5 DEF Pending
<1> DEFINE rows == stream'.rows
           others == stream'.associated
<1>7. /\ IsSeq(rows) /\ Len(rows) = Len(stream.rows) + One(~assoc) /\ Len(rows) \in Nat
      /\ \A r \in 1..Len(stream.rows) : rows[r] = stream.rows[r]
      /\ ~assoc => rows[Len(rows)] = row
  <2>1. CASE assoc
    BY <1>4, <1>5, <2>1, SeqFacts DEF One
  <2>2. CASE ~assoc
    <3>1. rows = Append(stream.rows, row)
      BY <1>4, <2>2
    <3> HIDE DEF rows
    <3>2. /\ IsSeq(rows) /\ Len(rows) = Len(stream.rows) + 1 /\ Len(rows) \in Nat
          /\ \A r \in 1..Len(stream.rows) : rows[r] = stream.rows[r]
          /\ rows[Len(rows)] = row
      <4>1. /\ IsSeq(rows) /\ Len(rows) = Len(stream.rows) + 1 /\ rows[Len(stream.rows) + 1] = row
            /\ \A r \in 1..Len(stream.rows) : rows[r] = stream.rows[r]
        BY <1>14, <3>1, AppendIsSeq
      <4>2. Len(stream.rows) \in Nat
        BY <1>14, SeqFacts
      <4>3. rows[Len(rows)] = row
        BY <4>1
      <4> QED
        BY <4>1, <4>2, <4>3
    <3>3. One(~assoc) = 1
      BY <2>2 DEF One
    <3> QED
      BY <3>2, <3>3
  <2> QED
    BY <2>1, <2>2
<1>8. /\ IsSeq(others) /\ Len(others) = Len(stream.associated) + One(assoc) /\ Len(others) \in Nat
      /\ \A r \in 1..Len(stream.associated) : others[r] = stream.associated[r]
      /\ assoc => others[Len(others)] = row
  <2>1. CASE ~assoc
    BY <1>4, <1>5, <2>1, SeqFacts DEF One
  <2>2. CASE assoc
    <3>1. others = Append(stream.associated, row)
      BY <1>4, <2>2
    <3> HIDE DEF others
    <3>2. /\ IsSeq(others) /\ Len(others) = Len(stream.associated) + 1 /\ Len(others) \in Nat
          /\ \A r \in 1..Len(stream.associated) : others[r] = stream.associated[r]
          /\ others[Len(others)] = row
      <4>1. /\ IsSeq(others) /\ Len(others) = Len(stream.associated) + 1 /\ others[Len(stream.associated) + 1] = row
            /\ \A r \in 1..Len(stream.associated) : others[r] = stream.associated[r]
        BY <1>14, <3>1, AppendIsSeq
      <4>2. Len(stream.associated) \in Nat
        BY <1>14, SeqFacts
      <4>3. others[Len(others)] = row
        BY <4>1
      <4> QED
        BY <4>1, <4>2, <4>3
    <3>3. One(assoc) = 1
      BY <2>2 DEF One
    <3> QED
      BY <3>2, <3>3
  <2> QED
    BY <2>1, <2>2
<1>9. row.parent = call.parent
  BY DEF row
<1>10. ASSUME NEW saved, Held(layout, stream, saved)
       PROVE  Held(layout, stream', saved)
  <2>1. /\ saved.stream.rows \in Nat /\ saved.stream.rows <= Len(stream.rows)
        /\ saved.stream.associated \in Nat /\ saved.stream.associated <= Len(stream.associated)
    BY <1>10 DEF Held
  <2>2. Len(stream.rows) \in Nat /\ Len(stream.associated) \in Nat
    BY <1>5, SeqFacts
  <2>3. saved.stream.rows <= Len(rows) /\ saved.stream.associated <= Len(others)
    <3>1. One(assoc) \in Nat /\ One(~assoc) \in Nat
      BY DEF One
    <3> DEFINE a == Len(rows)
               b == Len(others)
    <3>2. a = Len(stream.rows) + One(~assoc) /\ b = Len(stream.associated) + One(assoc)
      BY <1>7, <1>8
    <3> HIDE DEF a, b
    <3>3. saved.stream.rows <= a /\ saved.stream.associated <= b
      BY <2>1, <2>2, <3>1, <3>2
    <3> QED
      BY <3>3 DEF a, b
  <2>4. /\ \A r \in 1..saved.stream.rows : rows[r] = stream.rows[r]
        /\ \A r \in 1..saved.stream.associated : others[r] = stream.associated[r]
    BY <1>7, <1>8, <2>1, <2>2
  <2> QED
    BY <1>5, <1>7, <1>8, <1>10, <2>3, <2>4, ExtendsItself, HeldKept
<1>11. Pending'
  <2>1. PICK f \in DOMAIN layout :
          /\ call.parent = FolderNode(layout, f)
          /\ \A g \in DOMAIN layout :
               /\ Len(layout[g].messages) = call.saved.lengths[g][1] + One(g = f /\ ~assoc)
               /\ Len(layout[g].associated) = call.saved.lengths[g][2] + One(g = f /\ assoc)
          /\ Len(stream.rows) = call.saved.stream.rows
          /\ Len(stream.associated) = call.saved.stream.associated
    <3>1. PICK f \in DOMAIN layout :
          /\ call.parent = FolderNode(layout, f)
          /\ \A g \in DOMAIN layout :
               /\ Len(layout[g].messages) = call.saved.lengths[g][1] + One(g = f /\ ~assoc)
               /\ Len(layout[g].associated) = call.saved.lengths[g][2] + One(g = f /\ ~~assoc)
          /\ Len(stream.rows) = call.saved.stream.rows + One(FALSE)
          /\ Len(stream.associated) = call.saved.stream.associated + One(FALSE)
      BY <1>1, <1>5 DEF Pending
    <3>2. One(FALSE) = 0
      BY DEF One
    <3>3. call.saved.stream.rows + 0 = call.saved.stream.rows
          /\ call.saved.stream.associated + 0 = call.saved.stream.associated
      BY <1>5 DEF Held
    <3> QED
      BY <3>1, <3>2, <3>3
  <2>2. Len(rows) = call.saved.stream.rows + One(~assoc)
        /\ Len(others) = call.saved.stream.associated + One(assoc)
    BY <1>7, <1>8, <2>1
  <2>3. /\ ~assoc => rows[Len(rows)].parent = call.parent
        /\ assoc => others[Len(others)].parent = call.parent
    BY <1>7, <1>8, <1>9
  <2> HIDE DEF rows, others
  <2> QED
    BY <1>1, <1>3, <1>6, <2>1, <2>2, <2>3 DEF Pending, rows, others
<1>12. InCall'
  BY <1>1, <1>3, <1>5, <1>10, <1>11 DEF InCall
<1>13. batch'.open => Held(layout', stream', batch')
  BY <1>1, <1>5, <1>10
<1> QED
  BY <1>1, <1>3, <1>5, <1>7, <1>8, <1>12, <1>13 DEF RowsInv

(* What TakeBack leaves of the folders. *)
LEMMA CutFolders ==
  ASSUME Shape(layout), NEW lengths, DOMAIN lengths = DOMAIN layout,
         \A f \in DOMAIN lengths : lengths[f][1] \in Nat /\ lengths[f][2] \in Nat,
         NEW cut, cut = TruncatedFolders(lengths)
  PROVE  /\ Shape(cut) /\ Extends(layout, cut) /\ DOMAIN cut = DOMAIN layout
         /\ \A f \in DOMAIN layout :
              /\ Len(cut[f].messages) = lengths[f][1] /\ Len(cut[f].associated) = lengths[f][2]
<1>1. LayoutOK(layout)
  BY DEF Shape
<1>2. LayoutOK(cut) /\ DOMAIN cut = DOMAIN layout
  BY <1>1, TruncatedLayout
<1>3. ASSUME NEW f \in DOMAIN layout
      PROVE  /\ cut[f].key = layout[f].key /\ cut[f].role = layout[f].role
             /\ Len(cut[f].messages) = lengths[f][1] /\ Len(cut[f].associated) = lengths[f][2]
  <2>1. FolderOK(layout[f]) /\ lengths[f][1] \in Nat /\ lengths[f][2] \in Nat
    BY <1>1 DEF LayoutOK
  <2>2. cut[f] = [layout[f] EXCEPT !.messages = SubSeq(@, 1, lengths[f][1]),
                                   !.associated = SubSeq(@, 1, lengths[f][2])]
    BY DEF TruncatedFolders, Truncated
  <2>3. /\ cut[f].key = layout[f].key /\ cut[f].role = layout[f].role
        /\ cut[f].messages = SubSeq(layout[f].messages, 1, lengths[f][1])
        /\ cut[f].associated = SubSeq(layout[f].associated, 1, lengths[f][2])
    BY <2>1, <2>2 DEF FolderOK, FolderFields
  <2>4. IsSeq(layout[f].messages) /\ IsSeq(layout[f].associated)
    BY <2>1 DEF FolderOK
  <2>5. /\ Len(SubSeq(layout[f].messages, 1, lengths[f][1])) = lengths[f][1]
        /\ Len(SubSeq(layout[f].associated, 1, lengths[f][2])) = lengths[f][2]
    BY <2>1, <2>4, SubSeqIsSeq1
  <2> QED
    BY <2>3, <2>5
<1>4. DOMAIN layout = 1..Len(layout) /\ DOMAIN cut = 1..Len(cut) /\ Len(layout) \in Nat
      /\ Len(cut) \in Nat
  BY <1>1, <1>2, SeqFacts DEF LayoutOK
<1>5. Len(layout) = Len(cut)
  BY <1>2, <1>4
<1>6. Extends(layout, cut)
  BY <1>3, <1>4, <1>5 DEF Extends
<1>7. Shape(cut)
  BY <1>2, <1>3 DEF Shape
<1> QED
  BY <1>2, <1>3, <1>6, <1>7

(* What it leaves of the rows is what the lengths count. *)
LEMMA RowsTakenBack ==
  ASSUME RowsInv, NEW saved, CheckpointOK(saved, stream.written), Held(layout, stream, saved),
         DOMAIN saved.lengths = DOMAIN layout, TakeBack(saved)
  PROVE  /\ IsSeq(stream'.rows) /\ IsSeq(stream'.associated) /\ Shape(layout')
         /\ Extends(layout, layout') /\ Settled'
         /\ Len(stream'.rows) = saved.stream.rows
         /\ Len(stream'.associated) = saved.stream.associated
         /\ \A r \in 1..saved.stream.rows : stream'.rows[r] = stream.rows[r]
         /\ \A r \in 1..saved.stream.associated : stream'.associated[r] = stream.associated[r]
<1>1. stream' = restore(saved.stream) /\ layout' = TruncatedFolders(saved.lengths)
  BY DEF TakeBack
<1>2. /\ IsSeq(stream.rows) /\ IsSeq(stream.associated) /\ Shape(layout)
  BY DEF RowsInv
<1>3. \A f \in DOMAIN saved.lengths : saved.lengths[f][1] \in Nat /\ saved.lengths[f][2] \in Nat
  BY DEF CheckpointOK
<1>4. /\ Shape(layout') /\ Extends(layout, layout') /\ DOMAIN layout' = DOMAIN layout
      /\ \A f \in DOMAIN layout : /\ Len(layout'[f].messages) = saved.lengths[f][1]
                                  /\ Len(layout'[f].associated) = saved.lengths[f][2]
  BY <1>1, <1>2, <1>3, CutFolders
<1>5. /\ stream'.rows = SubSeq(stream.rows, 1, saved.stream.rows)
      /\ stream'.associated = SubSeq(stream.associated, 1, saved.stream.associated)
  BY <1>1 DEF restore, Truncated
<1>6. saved.stream.rows \in Nat /\ saved.stream.associated \in Nat
  BY DEF Held
<1>7. /\ IsSeq(stream'.rows) /\ Len(stream'.rows) = saved.stream.rows
      /\ \A r \in 1..saved.stream.rows : stream'.rows[r] = stream.rows[r]
  BY <1>2, <1>5, <1>6, SubSeqIsSeq1
<1>8. /\ IsSeq(stream'.associated) /\ Len(stream'.associated) = saved.stream.associated
      /\ \A r \in 1..saved.stream.associated : stream'.associated[r] = stream.associated[r]
  BY <1>2, <1>5, <1>6, SubSeqIsSeq1
<1> DEFINE counts == Lengths(layout')
<1>9. DOMAIN counts = DOMAIN saved.lengths
      /\ \A f \in DOMAIN saved.lengths : /\ counts[f][1] = saved.lengths[f][1]
                                         /\ counts[f][2] = saved.lengths[f][2]
  BY <1>4 DEF Lengths
<1> HIDE DEF counts
<1>10. Balanced(layout', stream'.rows, saved.stream.rows, saved.lengths, 1)
  BY <1>2, <1>4, <1>7, BalancedKept DEF Held
<1>11. Balanced(layout', stream'.associated, saved.stream.associated, saved.lengths, 2)
  BY <1>2, <1>4, <1>8, BalancedKept DEF Held
<1>12. /\ Balanced(layout', stream'.rows, saved.stream.rows, counts, 1)
       /\ Balanced(layout', stream'.associated, saved.stream.associated, counts, 2)
  BY <1>9, <1>10, <1>11, BalancedLengths
<1>13. Settled'
  BY <1>7, <1>8, <1>12 DEF Settled, counts
<1> QED
  BY <1>4, <1>7, <1>8, <1>13

(* A call that is taken back. *)
LEMMA CallBackRows ==
  ASSUME SpaceInv, RowsInv, call.kind # "none", TakeBack(call.saved), call' = NoCall,
         UNCHANGED batch
  PROVE  RowsInv'
<1>1. CheckpointOK(call.saved, stream.written)
  BY DEF SpaceInv, CallOK, SavedOK
<1>2. /\ Held(layout, stream, call.saved) /\ DOMAIN call.saved.lengths = DOMAIN layout
      /\ Shape(layout)
      /\ batch.open => /\ Held(layout, stream, batch)
                       /\ batch.stream.rows <= call.saved.stream.rows
                       /\ batch.stream.associated <= call.saved.stream.associated
  BY DEF RowsInv, InCall
<1> DEFINE saved == call.saved
<1>3. /\ IsSeq(stream'.rows) /\ IsSeq(stream'.associated) /\ Shape(layout')
      /\ Extends(layout, layout') /\ Settled'
      /\ Len(stream'.rows) = saved.stream.rows
      /\ Len(stream'.associated) = saved.stream.associated
      /\ \A r \in 1..saved.stream.rows : stream'.rows[r] = stream.rows[r]
      /\ \A r \in 1..saved.stream.associated : stream'.associated[r] = stream.associated[r]
  BY <1>1, <1>2, RowsTakenBack
<1>4. ASSUME batch.open PROVE Held(layout', stream', batch)
  <2>1. /\ batch.stream.rows \in Nat /\ batch.stream.associated \in Nat
        /\ saved.stream.rows \in Nat /\ saved.stream.associated \in Nat
    BY <1>2, <1>4 DEF Held
  <2>2. /\ \A r \in 1..batch.stream.rows : r \in 1..saved.stream.rows
        /\ \A r \in 1..batch.stream.associated : r \in 1..saved.stream.associated
    BY <1>2, <1>4, <2>1
  <2> QED
    BY <1>2, <1>3, <1>4, <2>1, <2>2, HeldKept
<1>5. call'.kind = "none"
  BY DEF NoCall
<1> QED
  BY <1>3, <1>4, <1>5 DEF RowsInv

(* A call that returns with its message. *)
LEMMA CallKeptRows ==
  ASSUME SpaceInv, RowsInv, Emitted, stream' = AfterEmit, call' = NoCall,
         UNCHANGED <<layout, batch>>
  PROVE  RowsInv'
<1>1. call.kind # "none" /\ call.stage = "emit"
  BY DEF Emitted
<1>2. stream = [x \in StreamFields |-> stream[x]]
  BY DEF SpaceInv, StreamOK
<1>3. stream'.rows = stream.rows /\ stream'.associated = stream.associated
  BY <1>2 DEF AfterEmit, StreamFields
<1> DEFINE assoc == call.message.associated
           saved == call.saved
           counts == Lengths(layout)
<1>4. /\ IsSeq(stream.rows) /\ IsSeq(stream.associated) /\ Shape(layout)
      /\ Held(layout, stream, saved) /\ DOMAIN saved.lengths = DOMAIN layout /\ Pending
      /\ batch.open => Held(layout, stream, batch)
  BY <1>1 DEF RowsInv, InCall
<1>5. /\ Balanced(layout, stream.rows, saved.stream.rows, saved.lengths, 1)
      /\ Balanced(layout, stream.associated, saved.stream.associated, saved.lengths, 2)
      /\ saved.stream.rows \in Nat /\ saved.stream.associated \in Nat
  BY <1>4 DEF Held
<1>6. assoc \in BOOLEAN
  BY <1>4 DEF Pending
<1>7. PICK f \in DOMAIN layout :
        /\ call.parent = FolderNode(layout, f)
        /\ \A g \in DOMAIN layout :
             /\ Len(layout[g].messages) = saved.lengths[g][1] + One(g = f /\ ~assoc)
             /\ Len(layout[g].associated) = saved.lengths[g][2] + One(g = f /\ ~~assoc)
        /\ Len(stream.rows) = saved.stream.rows + One(~assoc)
        /\ Len(stream.associated) = saved.stream.associated + One(~~assoc)
        /\ ~assoc => stream.rows[Len(stream.rows)].parent = call.parent
        /\ assoc => stream.associated[Len(stream.associated)].parent = call.parent
  BY <1>1, <1>4 DEF Pending
<1>8. /\ DOMAIN counts = DOMAIN layout
      /\ \A g \in DOMAIN layout : /\ counts[g][1] = Len(layout[g].messages)
                                  /\ counts[g][2] = Len(layout[g].associated)
  BY DEF Lengths
<1>9. \A g \in DOMAIN layout : saved.lengths[g][1] \in Nat /\ saved.lengths[g][2] \in Nat
  BY <1>1, <1>4 DEF SpaceInv, CallOK, SavedOK, CheckpointOK
<1> HIDE DEF counts, saved, assoc
<1>10. ASSUME assoc PROVE Settled
  <2>1. /\ Len(stream.rows) = saved.stream.rows
        /\ Len(stream.associated) = saved.stream.associated + 1
    BY <1>5, <1>7, <1>10 DEF One
  <2>2. \A g \in DOMAIN layout : /\ counts[g][1] = saved.lengths[g][1]
                                 /\ counts[g][2] = saved.lengths[g][2] + (IF g = f THEN 1 ELSE 0)
    BY <1>7, <1>8, <1>9, <1>10 DEF One
  <2>3. stream.associated[saved.stream.associated + 1].parent = FolderNode(layout, f)
    BY <1>7, <1>10, <2>1
  <2>4. Balanced(layout, stream.rows, saved.stream.rows, counts, 1)
    BY <1>4, <1>5, <1>8, <2>2, BalancedLengths
  <2>5. Balanced(layout, stream.associated, saved.stream.associated + 1, counts, 2)
    BY <1>4, <1>5, <1>8, <2>2, <2>3, BalancedAppended
  <2> QED
    BY <2>1, <2>4, <2>5 DEF Settled, counts
<1>11. ASSUME ~assoc PROVE Settled
  <2>1. /\ Len(stream.rows) = saved.stream.rows + 1
        /\ Len(stream.associated) = saved.stream.associated
    BY <1>5, <1>7, <1>11 DEF One
  <2>2. \A g \in DOMAIN layout : /\ counts[g][1] = saved.lengths[g][1] + (IF g = f THEN 1 ELSE 0)
                                 /\ counts[g][2] = saved.lengths[g][2]
    BY <1>7, <1>8, <1>9, <1>11 DEF One
  <2>3. stream.rows[saved.stream.rows + 1].parent = FolderNode(layout, f)
    BY <1>7, <1>11, <2>1
  <2>4. Balanced(layout, stream.associated, saved.stream.associated, counts, 2)
    BY <1>4, <1>5, <1>8, <2>2, BalancedLengths
  <2>5. Balanced(layout, stream.rows, saved.stream.rows + 1, counts, 1)
    BY <1>4, <1>5, <1>8, <2>2, <2>3, BalancedAppended
  <2> QED
    BY <2>1, <2>4, <2>5 DEF Settled, counts
<1>12. Settled
  BY <1>10, <1>11
<1>13. Settled'
  BY <1>3, <1>12 DEF Settled
<1>14. batch'.open => Held(layout', stream', batch')
  BY <1>3, <1>4 DEF Held
<1>15. call'.kind = "none"
  BY DEF NoCall
<1> QED
  BY <1>3, <1>4, <1>13, <1>14, <1>15 DEF RowsInv

(* Every way in which a call ends. *)
LEMMA ReturnsRows ==
  SpaceInv /\ RowsInv /\ (ReturnAppend \/ ReturnLimited \/ ReturnProjection
                          \/ ReturnPreflighted \/ AppendFails) => RowsInv'
<1> SUFFICES ASSUME SpaceInv, RowsInv, ReturnAppend \/ ReturnLimited \/ ReturnProjection
                              \/ ReturnPreflighted \/ AppendFails
             PROVE  RowsInv'
  OBVIOUS
<1>1. call.kind # "none" /\ call' = NoCall /\ UNCHANGED batch
  BY DEF ReturnAppend, ReturnLimited, ReturnProjection, ReturnPreflighted, AppendFails, Emitted
<1>2. TakeBack(call.saved) \/ (Emitted /\ stream' = AfterEmit /\ UNCHANGED layout)
  BY DEF ReturnAppend, ReturnLimited, ReturnProjection, ReturnPreflighted, AppendFails
<1> QED
  BY <1>1, <1>2, CallBackRows, CallKeptRows

(* A checkpoint of rows that are balanced holds. *)
LEMMA HeldTaken ==
  ASSUME RowsInv, Settled
  PROVE  /\ Held(layout, stream, begin_batch) /\ begin_batch.open
         /\ DOMAIN begin_batch.lengths = DOMAIN layout
         /\ begin_batch.lengths = Lengths(layout)
         /\ begin_batch.stream.rows = Len(stream.rows)
         /\ begin_batch.stream.associated = Len(stream.associated)
<1>1. /\ begin_batch.lengths = Lengths(layout) /\ begin_batch.open
      /\ begin_batch.stream.rows = Len(stream.rows)
      /\ begin_batch.stream.associated = Len(stream.associated)
  BY DEF begin_batch, checkpoint
<1>2. Len(stream.rows) \in Nat /\ Len(stream.associated) \in Nat
  BY SeqFacts DEF RowsInv
<1>3. DOMAIN Lengths(layout) = DOMAIN layout
  BY DEF Lengths
<1>4. Len(stream.rows) \in 0..Len(stream.rows)
      /\ Len(stream.associated) \in 0..Len(stream.associated)
  BY <1>2
<1> QED
  BY <1>1, <1>3, <1>4 DEF Held, Settled

(* A message more, counted. *)
LEMMA FoldersAppended ==
  ASSUME Shape(layout), NEW f \in DOMAIN layout, NEW m \in Messages,
         layout' = IF m.associated THEN [layout EXCEPT ![f].associated = Append(@, m.id)]
                                   ELSE [layout EXCEPT ![f].messages = Append(@, m.id)]
  PROVE  /\ Shape(layout') /\ Extends(layout, layout') /\ DOMAIN layout' = DOMAIN layout
         /\ \A g \in DOMAIN layout :
              /\ Len(layout'[g].messages) = Len(layout[g].messages) + One(g = f /\ ~m.associated)
              /\ Len(layout'[g].associated)
                   = Len(layout[g].associated) + One(g = f /\ m.associated)
<1>1. LayoutOK(layout)
  BY DEF Shape
<1>2. LayoutOK(layout') /\ DOMAIN layout' = DOMAIN layout
  BY <1>1, AppendedLayout
<1>3. \A g \in DOMAIN layout :
        /\ FolderOK(layout[g]) /\ IsSeq(layout[g].messages) /\ IsSeq(layout[g].associated)
  BY <1>1 DEF LayoutOK, FolderOK
<1>4. \A g \in DOMAIN layout :
        Len(layout[g].messages) \in Nat /\ Len(layout[g].associated) \in Nat
  BY <1>3, SeqFacts
<1>5. \A g \in DOMAIN layout : g # f => layout'[g] = layout[g]
  OBVIOUS
<1>6. /\ Len(Append(layout[f].messages, m.id)) = Len(layout[f].messages) + 1
      /\ Len(Append(layout[f].associated, m.id)) = Len(layout[f].associated) + 1
  BY <1>3, AppendIsSeq
<1>7. /\ layout'[f].key = layout[f].key /\ layout'[f].role = layout[f].role
      /\ Len(layout'[f].messages) = Len(layout[f].messages) + One(~m.associated)
      /\ Len(layout'[f].associated) = Len(layout[f].associated) + One(m.associated)
  <2>1. CASE m.associated
    <3>1. layout'[f] = [layout[f] EXCEPT !.associated = Append(layout[f].associated, m.id)]
      BY <2>1
    <3>2. /\ layout'[f].key = layout[f].key /\ layout'[f].role = layout[f].role
          /\ layout'[f].messages = layout[f].messages
          /\ layout'[f].associated = Append(layout[f].associated, m.id)
      BY <1>3, <3>1 DEF FolderOK, FolderFields
    <3>3. One(m.associated) = 1 /\ One(~m.associated) = 0
      BY <2>1 DEF One
    <3> QED
      BY <1>4, <1>6, <3>2, <3>3
  <2>2. CASE ~m.associated
    <3>1. layout'[f] = [layout[f] EXCEPT !.messages = Append(layout[f].messages, m.id)]
      BY <2>2
    <3>2. /\ layout'[f].key = layout[f].key /\ layout'[f].role = layout[f].role
          /\ layout'[f].associated = layout[f].associated
          /\ layout'[f].messages = Append(layout[f].messages, m.id)
      BY <1>3, <3>1 DEF FolderOK, FolderFields
    <3>3. One(m.associated) = 0 /\ One(~m.associated) = 1
      BY <2>2 DEF One
    <3> QED
      BY <1>4, <1>6, <3>2, <3>3
  <2> QED
    BY <2>1, <2>2
<1>8. \A g \in DOMAIN layout : layout'[g].key = layout[g].key /\ layout'[g].role = layout[g].role
  BY <1>5, <1>7
<1>9. DOMAIN layout = 1..Len(layout) /\ DOMAIN layout' = 1..Len(layout') /\ Len(layout) \in Nat
      /\ Len(layout') \in Nat
  BY <1>1, <1>2, SeqFacts DEF LayoutOK
<1>10. Len(layout) = Len(layout')
  BY <1>2, <1>9
<1>11. Extends(layout, layout')
  BY <1>8, <1>9, <1>10 DEF Extends
<1>12. Shape(layout')
  BY <1>2, <1>8 DEF Shape
<1>13. ASSUME NEW g \in DOMAIN layout
       PROVE  /\ Len(layout'[g].messages) = Len(layout[g].messages) + One(g = f /\ ~m.associated)
              /\ Len(layout'[g].associated) = Len(layout[g].associated) + One(g = f /\ m.associated)
  <2>1. CASE g = f
    BY <1>7, <2>1 DEF One
  <2>2. CASE g # f
    BY <1>4, <1>5, <2>2 DEF One
  <2> QED
    BY <2>1, <2>2
<1> QED
  BY <1>2, <1>11, <1>12, <1>13

(* A call begins. *)
LEMMA AppendRows ==
  ASSUME NEW m \in Messages, NEW kind, kind # "none"
  PROVE  SpaceInv /\ RowsInv /\ BeginAppend(kind, m) => RowsInv'
<1> SUFFICES ASSUME SpaceInv, RowsInv, BeginAppend(kind, m) PROVE RowsInv'
  OBVIOUS
<1> DEFINE f == FolderAt(layout, m.folder)
<1>1. /\ call.kind = "none" /\ m.folder \in Keys(layout) /\ UNCHANGED batch
  BY DEF BeginAppend, CanCall
<1>2. layout' = IF m.associated THEN [layout EXCEPT ![f].associated = Append(@, m.id)]
                                ELSE [layout EXCEPT ![f].messages = Append(@, m.id)]
  BY DEF BeginAppend
<1>3. stream = [x \in StreamFields |-> stream[x]]
  BY DEF SpaceInv, StreamOK
<1>4. stream'.rows = stream.rows /\ stream'.associated = stream.associated
  BY <1>3 DEF BeginAppend, StreamFields
<1>5. /\ call'.kind = kind /\ call'.message = m /\ call'.saved = begin_batch
      /\ call'.parent = transaction_folder_node(layout, m.folder) /\ call'.stage = "build"
  BY DEF BeginAppend
<1>6. f \in DOMAIN layout /\ layout[f].key = m.folder
  BY <1>1 DEF Keys, FolderAt
<1> HIDE DEF f
<1>7. m.associated \in BOOLEAN
  BY MessageAssumption
<1>8. /\ IsSeq(stream.rows) /\ IsSeq(stream.associated) /\ Shape(layout) /\ Settled
      /\ batch.open => Held(layout, stream, batch)
  BY <1>1 DEF RowsInv
<1>9. /\ Shape(layout') /\ Extends(layout, layout') /\ DOMAIN layout' = DOMAIN layout
      /\ \A g \in DOMAIN layout :
           /\ Len(layout'[g].messages) = Len(layout[g].messages) + One(g = f /\ ~m.associated)
           /\ Len(layout'[g].associated) = Len(layout[g].associated) + One(g = f /\ m.associated)
  BY <1>2, <1>6, <1>8, FoldersAppended
<1>10. /\ Held(layout, stream, begin_batch) /\ begin_batch.lengths = Lengths(layout)
       /\ DOMAIN begin_batch.lengths = DOMAIN layout
       /\ begin_batch.stream.rows = Len(stream.rows)
       /\ begin_batch.stream.associated = Len(stream.associated)
  BY <1>8, HeldTaken
<1>11. ASSUME NEW saved, Held(layout, stream, saved) PROVE Held(layout', stream', saved)
  <2>1. Len(stream.rows) \in Nat /\ Len(stream.associated) \in Nat
    BY <1>8, SeqFacts
  <2>2. saved.stream.rows <= Len(stream.rows) /\ saved.stream.associated <= Len(stream.associated)
    BY <1>11, <2>1 DEF Held
  <2> QED
    BY <1>4, <1>8, <1>9, <1>11, <2>1, <2>2, HeldKept
<1>12. /\ \A g \in DOMAIN layout : /\ Lengths(layout)[g][1] = Len(layout[g].messages)
                                   /\ Lengths(layout)[g][2] = Len(layout[g].associated)
  BY DEF Lengths
<1>13. call'.parent = FolderNode(layout', f)
  <2>1. FolderNode(layout', f) = FolderNode(layout, f)
    BY <1>6, <1>8, <1>9, NodeStable
  <2> QED
    BY <1>5, <1>6, <2>1 DEF FolderNode
<1>14. Pending'
  <2> DEFINE assoc == m.associated
  <2>1. \A g \in DOMAIN layout' :
          /\ Len(layout'[g].messages) = call'.saved.lengths[g][1] + One(g = f /\ ~assoc)
          /\ Len(layout'[g].associated) = call'.saved.lengths[g][2] + One(g = f /\ ~~assoc)
    BY <1>5, <1>7, <1>9, <1>10, <1>12
  <2>2. /\ Len(stream'.rows) = call'.saved.stream.rows + One(FALSE)
        /\ Len(stream'.associated) = call'.saved.stream.associated + One(FALSE)
    <3>1. Len(stream.rows) \in Nat /\ Len(stream.associated) \in Nat
      BY <1>8, SeqFacts
    <3> QED
      BY <1>4, <1>5, <1>10, <3>1 DEF One
  <2>3. f \in DOMAIN layout'
    BY <1>6, <1>9
  <2> QED
    BY <1>5, <1>7, <1>13, <2>1, <2>2, <2>3 DEF Pending
<1>15. InCall'
  <2>1. batch.open => /\ batch.stream.rows <= Len(stream.rows)
                      /\ batch.stream.associated <= Len(stream.associated)
    <3>1. Len(stream.rows) \in Nat /\ Len(stream.associated) \in Nat
      BY <1>8, SeqFacts
    <3> QED
      BY <1>8, <3>1 DEF Held
  <2> QED
    BY <1>1, <1>5, <1>9, <1>10, <1>11, <1>14, <2>1 DEF InCall
<1>16. batch'.open => Held(layout', stream', batch')
  BY <1>1, <1>8, <1>11
<1> QED
  BY <1>4, <1>5, <1>8, <1>9, <1>15, <1>16 DEF RowsInv

(* A folder is observed: it has no rows, and moves no other. *)
LEMMA ObserveRows ==
  ASSUME NEW spec \in FolderSpecs
  PROVE  SpaceInv /\ RowsInv /\ observe_folder(spec) => RowsInv'
<1> SUFFICES ASSUME SpaceInv, RowsInv, observe_folder(spec) PROVE RowsInv'
  OBVIOUS
<1> DEFINE folder == [key |-> spec.key, role |-> spec.role,
                      messages |-> <<>>, associated |-> <<>>]
<1>1. /\ call.kind = "none" /\ layout' = Append(layout, folder) /\ ~LayoutRefused(layout')
      /\ UNCHANGED <<stream, call, batch>>
  BY DEF observe_folder, CanCall
<1>2. /\ folder.key = spec.key /\ Len(folder.messages) = 0 /\ Len(folder.associated) = 0
  OBVIOUS
<1> HIDE DEF folder
<1>3. /\ IsSeq(stream.rows) /\ IsSeq(stream.associated) /\ Shape(layout) /\ Settled
      /\ batch.open => Held(layout, stream, batch)
  BY <1>1 DEF RowsInv
<1>4. LayoutOK(layout')
  BY ObserveSpace DEF SpaceInv
<1>5. /\ IsSeq(layout) /\ IsSeq(layout')
  BY <1>3, <1>4 DEF Shape, LayoutOK
<1>6. /\ Len(layout') = Len(layout) + 1 /\ layout'[Len(layout) + 1] = folder
      /\ \A i \in 1..Len(layout) : layout'[i] = layout[i]
  BY <1>1, <1>5, AppendIsSeq
<1>7. /\ DOMAIN layout = 1..Len(layout) /\ Len(layout) \in Nat
      /\ DOMAIN layout' = 1..Len(layout') /\ Len(layout') \in Nat
  BY <1>5, SeqFacts
<1>8. \A f \in DOMAIN layout' : Len(layout'[f].key) > 1
  <2> SUFFICES ASSUME NEW f \in DOMAIN layout' PROVE Len(layout'[f].key) > 1
    OBVIOUS
  <2>1. f \in 1..Len(layout) \/ f = Len(layout) + 1
    BY <1>6, <1>7
  <2>2. Len(spec.key) > 1
    BY FolderAssumption
  <2> QED
    BY <1>2, <1>3, <1>6, <1>7, <2>1, <2>2 DEF Shape
<1>9. Shape(layout')
  BY <1>1, <1>4, <1>8 DEF Shape, LayoutRefused
<1>10. Extends(layout, layout')
  BY <1>6, <1>7 DEF Extends
<1> DEFINE counts == Lengths(layout')
<1>11. /\ DOMAIN counts = DOMAIN layout' /\ DOMAIN Lengths(layout) = DOMAIN layout
       /\ \A f \in DOMAIN layout' : /\ counts[f][1] = Len(layout'[f].messages)
                                    /\ counts[f][2] = Len(layout'[f].associated)
       /\ \A f \in DOMAIN layout : /\ Lengths(layout)[f][1] = Len(layout[f].messages)
                                   /\ Lengths(layout)[f][2] = Len(layout[f].associated)
  BY DEF Lengths
<1> HIDE DEF counts
<1>12. /\ \A f \in DOMAIN layout : /\ counts[f][1] = Lengths(layout)[f][1]
                                   /\ counts[f][2] = Lengths(layout)[f][2]
       /\ counts[Len(layout')][1] = 0 /\ counts[Len(layout')][2] = 0
  <2>1. \A f \in DOMAIN layout : f \in DOMAIN layout' /\ layout'[f] = layout[f]
    BY <1>6, <1>7
  <2>2. Len(layout') \in DOMAIN layout' /\ layout'[Len(layout')] = folder
    BY <1>6, <1>7
  <2> QED
    BY <1>2, <1>11, <2>1, <2>2
<1>13. /\ Balanced(layout', stream.rows, Len(stream.rows), counts, 1)
       /\ Balanced(layout', stream.associated, Len(stream.associated), counts, 2)
  <2> DEFINE lengths == Lengths(layout)
             more == layout'
  <2>1. /\ Balanced(layout, stream.rows, Len(stream.rows), lengths, 1)
        /\ Balanced(layout, stream.associated, Len(stream.associated), lengths, 2)
    BY <1>3 DEF Settled
  <2>2. /\ Shape(layout) /\ Shape(more) /\ Extends(layout, more) /\ Len(more) = Len(layout) + 1
        /\ DOMAIN lengths = DOMAIN layout /\ DOMAIN counts = DOMAIN more
    BY <1>3, <1>6, <1>9, <1>10, <1>11
  <2>3. /\ \A f \in DOMAIN layout : counts[f][1] = lengths[f][1] /\ counts[f][2] = lengths[f][2]
        /\ counts[Len(more)][1] = 0 /\ counts[Len(more)][2] = 0
    BY <1>12
  <2> HIDE DEF lengths, more
  <2>4. Balanced(more, stream.rows, Len(stream.rows), counts, 1)
    BY <2>1, <2>2, <2>3, BalancedObserved
  <2>5. Balanced(more, stream.associated, Len(stream.associated), counts, 2)
    BY <2>1, <2>2, <2>3, BalancedObserved
  <2> QED
    BY <2>4, <2>5 DEF more
<1>15. Settled'
  BY <1>1, <1>13 DEF Settled, counts
<1>16. ASSUME batch.open PROVE Held(layout', stream, batch)
  <2>1. Len(stream.rows) \in Nat /\ Len(stream.associated) \in Nat
    BY <1>3, SeqFacts
  <2>2. batch.stream.rows <= Len(stream.rows) /\ batch.stream.associated <= Len(stream.associated)
    BY <1>3, <1>16, <2>1 DEF Held
  <2> QED
    BY <1>3, <1>9, <1>10, <1>16, <2>1, <2>2, HeldKept
<1> QED
  BY <1>1, <1>3, <1>9, <1>15, <1>16 DEF RowsInv

(* A batch is begun, or taken back. *)
LEMMA BatchRows == SpaceInv /\ RowsInv /\ (BeginBatch \/ rollback_batch) => RowsInv'
<1> SUFFICES ASSUME SpaceInv, RowsInv, BeginBatch \/ rollback_batch PROVE RowsInv'
  OBVIOUS
<1>1. call.kind = "none" /\ UNCHANGED call
  BY DEF BeginBatch, rollback_batch, CanCall
<1>2. /\ IsSeq(stream.rows) /\ IsSeq(stream.associated) /\ Shape(layout) /\ Settled
      /\ batch.open => Held(layout, stream, batch)
  BY <1>1 DEF RowsInv
<1>3. CASE BeginBatch
  <2>1. batch' = begin_batch /\ UNCHANGED <<layout, stream>>
    BY <1>3 DEF BeginBatch
  <2>2. Held(layout, stream, begin_batch)
    BY <1>2, HeldTaken
  <2>3. Settled'
    BY <1>2, <2>1 DEF Settled
  <2> QED
    BY <1>1, <1>2, <2>1, <2>2, <2>3 DEF RowsInv
<1>4. CASE rollback_batch
  <2>1. batch.open /\ DOMAIN batch.lengths = DOMAIN layout /\ TakeBack(batch) /\ batch' = NoBatch
    BY <1>4 DEF rollback_batch
  <2>2. CheckpointOK(batch, stream.written)
    BY <2>1 DEF SpaceInv, BatchOK
  <2>3. IsSeq(stream'.rows) /\ IsSeq(stream'.associated) /\ Shape(layout') /\ Settled'
    BY <1>2, <2>1, <2>2, RowsTakenBack
  <2> QED
    BY <1>1, <2>1, <2>3 DEF RowsInv, NoBatch
<1> QED
  BY <1>3, <1>4

(* Nothing is streamed: at first, and when the writer is gone. *)
LEMMA NewRows ==
  ASSUME NEW s, s = NewStream
  PROVE  /\ s.rows = <<>> /\ s.associated = <<>> /\ IsSeq(<<>>) /\ Shape(<<>>)
         /\ \A k : Balanced(<<>>, <<>>, Len(<<>>), Lengths(<<>>), k)
<1>1. s.rows = <<>> /\ s.associated = <<>> /\ IsSeq(<<>>) /\ DOMAIN <<>> = {} /\ Len(<<>>) = 0
  BY TupleIsSeq DEF NewStream
<1>2. Shape(<<>>)
  BY <1>1 DEF Shape, LayoutOK
<1>3. DOMAIN Lengths(<<>>) = {}
  BY DEF Lengths
<1>4. \A k : Balanced(<<>>, <<>>, Len(<<>>), Lengths(<<>>), k)
  BY <1>1, <1>3 DEF Balanced
<1> QED
  BY <1>1, <1>2, <1>4

(* The file goes on and the writer is gone. *)
LEMMA HandOverRows == SpaceInv /\ RowsInv /\ HandOver => RowsInv'
<1> SUFFICES ASSUME SpaceInv, RowsInv, HandOver PROVE RowsInv'
  OBVIOUS
<1>1. /\ final.phase = "sealed" /\ layout' = <<>> /\ stream' = NewStream /\ UNCHANGED <<call, batch>>
  BY DEF HandOver
<1>2. call.kind = "none" /\ ~batch.open
  BY <1>1 DEF SpaceInv, CallOK, BatchOK
<1>3. /\ stream'.rows = <<>> /\ stream'.associated = <<>> /\ IsSeq(<<>>) /\ Shape(<<>>)
      /\ \A k : Balanced(<<>>, <<>>, Len(<<>>), Lengths(<<>>), k)
  BY <1>1, NewRows
<1>4. Settled'
  BY <1>1, <1>3 DEF Settled
<1> QED
  BY <1>1, <1>2, <1>3, <1>4 DEF RowsInv

(* The invariant holds at first, *)
LEMMA InitRows == Init => RowsInv
<1> SUFFICES ASSUME Init PROVE RowsInv
  OBVIOUS
<1>1. layout = <<>> /\ stream = NewStream /\ call.kind = "none" /\ ~batch.open
  BY DEF Init, NoCall, NoBatch
<1>2. /\ stream.rows = <<>> /\ stream.associated = <<>> /\ IsSeq(<<>>) /\ Shape(<<>>)
      /\ \A k : Balanced(<<>>, <<>>, Len(<<>>), Lengths(<<>>), k)
  BY <1>1, NewRows
<1>3. Settled
  BY <1>1, <1>2 DEF Settled
<1> QED
  BY <1>1, <1>2, <1>3 DEF RowsInv

(* and every step keeps it. *)
LEMMA NextRows == SpaceInv /\ RowsInv /\ [Next]_vars => RowsInv'
<1> SUFFICES ASSUME SpaceInv, RowsInv, [Next]_vars PROVE RowsInv'
  OBVIOUS
<1>1. CASE Call
  <2>1. \A kind \in EntryPoints : kind # "none"
    BY WriterAssumption
  <2> QED
    BY <1>1, <2>1, AppendRows, ObserveRows, BatchRows, QuietRows DEF Call
<1>2. CASE Work
  BY <1>2, BuildRows, PlaceRows, ReturnsRows, QuietRows DEF Work
<1>3. CASE AppendFails
  BY <1>3, ReturnsRows
<1>4. CASE WriteIndexes \/ FinalizeFails \/ HandOver
  BY <1>4, QuietRows, HandOverRows
<1>5. CASE UNCHANGED writer
  BY <1>5, QuietRows
<1>6. CASE UNCHANGED vars
  BY <1>6, QuietRows DEF vars
<1> QED
  BY <1>1, <1>2, <1>3, <1>4, <1>5, <1>6 DEF Next

(***************************************************************************)
(* RowsFollowFolders: between two calls, every folder of the layout has as *)
(* many rows of each kind under its node as it has messages of that kind,  *)
(* whatever calls failed, were measured or were taken back with their      *)
(* batch (writer.rs:1891-1969, 2291-2345).                                 *)
(***************************************************************************)
THEOREM RowsAlwaysFollow == Spec => []RowsFollowFolders
  BY InitSpace, NextSpace, InitRows, NextRows, RowsAreFollowed, PTL DEF Spec

-----------------------------------------------------------------------------
(***************************************************************************)
(* Finalization agrees with itself.                                        *)
(*                                                                         *)
(* First, the pages of a B-tree: the projection counts them by one         *)
(* recursion and the writer lays them out by another.                      *)
(***************************************************************************)
(* The levels of a B-tree that is counted: the same recursion has a solution. *)
LEMMA CountedLevels ==
  ASSUME NEW entries \in Nat \ {0}, NEW leaf \in Nat \ {0}, NEW branch \in Nat \ {0, 1}
  PROVE  \E above :
           /\ btree_page_count(entries, leaf, branch) = above[DivCeil(entries, leaf)]
           /\ \A n \in 1..DivCeil(entries, leaf) :
                above[n] = IF n = 1 THEN 1 ELSE n + above[DivCeil(n, branch)]
<1> DEFINE level == DivCeil(entries, leaf)
           Body(g, n) == IF n = 1 THEN 1 ELSE n + g[DivCeil(n, branch)]
           Good(n, g) == g = [i \in 1..n |-> Body(g, i)]
           Above == CHOOSE g : Good(level, g)
<1>1. btree_page_count(entries, leaf, branch) = Above[level]
  BY DEF btree_page_count
<1>2. level \in Nat \ {0} /\ \A n \in Nat \ {0} : n # 1 => DivCeil(n, branch) \in 1..(n - 1)
  BY LevelBounds
<1> HIDE DEF level
<1>3. Good(level, Above)
  <2> DEFINE T == {n \in Nat : \E g : Good(n, g)}
  <2>1. 1 \in T
    <3>1. Good(1, [i \in 1..1 |-> 1])
      OBVIOUS
    <3> HIDE DEF Good
    <3> QED
      BY <3>1
  <2>2. ASSUME NEW n \in 1..(level - 1), n \in T PROVE n + 1 \in T
    <3>1. PICK g : Good(n, g)
      BY <2>2
    <3> DEFINE h == [i \in 1..(n + 1) |-> IF i <= n THEN g[i] ELSE Body(g, n + 1)]
    <3>2. ASSUME NEW i \in 1..(n + 1) PROVE h[i] = Body(h, i)
      <4>1. i = 1 \/ h[DivCeil(i, branch)] = g[DivCeil(i, branch)]
        <5> HIDE DEF Body
        <5>1. i = 1 \/ DivCeil(i, branch) \in 1..n
          BY <1>2
        <5> QED
          BY <5>1
      <4>2. Body(h, i) = Body(g, i)
        <5> HIDE DEF h
        <5> QED
          BY <4>1
      <4>3. CASE i <= n
        <5>1. i \in 1..n
          BY <4>3
        <5>2. g[i] = Body(g, i)
          <6> HIDE DEF Body
          <6> QED
            BY ONLY <3>1, <5>1
        <5>3. h[i] = g[i]
          BY <4>3
        <5> HIDE DEF h, Body
        <5> QED
          BY <4>2, <5>2, <5>3
      <4>4. CASE i = n + 1
        <5> HIDE DEF Body
        <5>1. h[i] = Body(g, n + 1)
          BY <4>4
        <5> HIDE DEF h
        <5> QED
          BY <4>2, <4>4, <5>1
      <4> QED
        BY <4>3, <4>4
    <3>3. Good(n + 1, h)
      <4> HIDE DEF Body
      <4>1. h = [i \in 1..(n + 1) |-> h[i]]
        OBVIOUS
      <4> HIDE DEF h
      <4> QED
        BY <3>2, <4>1
    <3> HIDE DEF Good, h
    <3> QED
      BY <3>3
  <2> HIDE DEF Good
  <2>3. level \in T
    <3> HIDE DEF T
    <3>1. \A n \in 1..level : n \in T
      BY <1>2, <2>1, <2>2, RangeInduction
    <3> QED
      BY <1>2, <3>1
  <2> QED
    BY <2>3
<1> HIDE DEF Above
<1>4. \A n \in 1..level : Above[n] = Body(Above, n)
  <2> HIDE DEF Body
  <2> QED
    BY <1>3
<1> HIDE DEF Good
<1> QED
  BY <1>1, <1>4 DEF level

(***************************************************************************)
(* The pages that the projection counts are those that are written.        *)
(***************************************************************************)
LEMMA PagesCounted ==
  ASSUME NEW entries \in Nat \ {0}, NEW leaf \in Nat \ {0}, NEW branch \in Nat \ {0, 1}
  PROVE  btree_page_count(entries, leaf, branch) = Len(WrittenPages(entries, leaf, branch))
<1> DEFINE leaves == plan_leaf_pages(entries, leaf)
           top == DivCeil(entries, leaf)
           level(n) == plan_leaf_pages(n, branch)
<1>1. PICK A : /\ btree_page_count(entries, leaf, branch) = A[top]
               /\ \A n \in 1..top : A[n] = IF n = 1 THEN 1 ELSE n + A[DivCeil(n, branch)]
  BY CountedLevels
<1>a. PICK B : WritesLevels(B, entries, leaf, branch)
  BY WrittenLevels
<1>2. /\ WrittenPages(entries, leaf, branch) = leaves \o B[Len(leaves)]
      /\ \A n \in 1..entries :
           B[n] = IF n = 1 THEN <<>> ELSE level(n) \o B[Len(level(n))]
  BY <1>a DEF WritesLevels
<1>3. top \in 1..entries /\ IsSeq(leaves) /\ Len(leaves) = top
  BY LevelBounds, LevelIsSeq
<1>4. \A n \in Nat \ {0} : IsSeq(level(n)) /\ Len(level(n)) = DivCeil(n, branch)
                           /\ (n # 1 => DivCeil(n, branch) \in 1..(n - 1))
  BY LevelBounds, LevelIsSeq
<1> HIDE DEF leaves, top, level
<1> DEFINE Same(i) == IsSeq(B[i]) /\ A[i] = i + Len(B[i])
           U == {n \in Nat : \A i \in 1..n : Same(i)}
<1>5. 1 \in U
  <2>1. B[1] = <<>> /\ A[1] = 1
    BY <1>1, <1>2, <1>3
  <2>2. Same(1)
    BY <2>1, TupleIsSeq
  <2> HIDE DEF Same
  <2>3. \A i \in 1..1 : i = 1
    OBVIOUS
  <2> QED
    BY <2>2, <2>3
<1>6. ASSUME NEW n \in 1..(top - 1), n \in U PROVE n + 1 \in U
  <2> DEFINE m == DivCeil(n + 1, branch)
  <2>1. n + 1 \in 1..top /\ n + 1 \in 1..entries /\ n + 1 # 1 /\ n + 1 \in Nat \ {0} /\ (n + 1) - 1 = n
    BY <1>3
  <2>2. IsSeq(level(n + 1)) /\ Len(level(n + 1)) = m /\ m \in 1..((n + 1) - 1)
    BY <1>4, <2>1
  <2>3. A[n + 1] = (n + 1) + A[m]
    BY <1>1, <2>1
  <2>4. B[n + 1] = level(n + 1) \o B[Len(level(n + 1))]
    BY <1>2, <2>1
  <2> HIDE DEF m
  <2>5. m \in 1..n
    BY <2>1, <2>2
  <2>6. Same(m)
    <3> HIDE DEF Same
    <3> QED
      BY <1>6, <2>5
  <2>7. IsSeq(B[n + 1]) /\ Len(B[n + 1]) = m + Len(B[m])
    <3>1. IsSeq(level(n + 1)) /\ IsSeq(B[m]) /\ B[n + 1] = level(n + 1) \o B[m]
      BY <2>2, <2>4, <2>6
    <3>2. IsSeq(B[n + 1]) /\ Len(B[n + 1]) = Len(level(n + 1)) + Len(B[m])
      <4> DEFINE lv == level(n + 1)
                 bm == B[m]
      <4> HIDE DEF lv, bm
      <4>1. IsSeq(lv) /\ IsSeq(bm) /\ B[n + 1] = lv \o bm
        BY <3>1 DEF lv, bm
      <4>2. IsSeq(lv \o bm) /\ Len(lv \o bm) = Len(lv) + Len(bm)
        BY <4>1, ConcatIsSeq
      <4> QED
        BY <4>1, <4>2 DEF lv, bm
    <3> QED
      BY <2>2, <3>2
  <2>8. Same(n + 1)
    BY <2>3, <2>6, <2>7
  <2> HIDE DEF Same
  <2> QED
    BY <1>6, <2>8
<1>7. Same(top)
  <2> HIDE DEF U
  <2>1. \A n \in 1..top : n \in U
    BY <1>3, <1>5, <1>6, RangeInduction
  <2>2. top \in U /\ top \in 1..top
    BY <1>3, <2>1
  <2> HIDE DEF Same
  <2> QED
    BY <2>2 DEF U
<1> DEFINE above == B[top]
<1> HIDE DEF above
<1>8. IsSeq(leaves) /\ IsSeq(above) /\ WrittenPages(entries, leaf, branch) = leaves \o above
  BY <1>2, <1>3, <1>7 DEF above
<1>9. Len(leaves \o above) = Len(leaves) + Len(above)
  BY <1>8, ConcatIsSeq
<1> QED
  BY <1>1, <1>3, <1>7, <1>8, <1>9 DEF above

(* How long the file is once the queue and the indexes are written. *)
FinishedEof(cursor, queue, written, nodes) ==
  LET sizes == [b \in DOMAIN queue |-> physical_size(queue[b])]
      end   == align_up(PlacedEnd(cursor, sizes, Slot), Page)
  IN  allocation_file_eof(PlacedEnd(end, IndexPages(written + Len(queue), nodes), Page))

(* The projection is of what is still to be written, behind what is. *)
Projected ==
  final.phase = "writing" =>
    final.projected =
      FinishedEof(stream.cursor, final.queue, Len(stream.written), Len(final.nodes))

(* Nothing is left in the queue. *)
LEMMA NothingQueued ==
  ASSUME NEW cursor, NEW written \in Nat, NEW nodes
  PROVE  FinishedEof(cursor, <<>>, written, nodes)
           = allocation_file_eof(PlacedEnd(align_up(cursor, Page), IndexPages(written, nodes), Page))
<1> DEFINE sizes == [b \in DOMAIN <<>> |-> physical_size((<<>>)[b])]
<1>1. DOMAIN <<>> = {} /\ Len(<<>>) = 0
  OBVIOUS
<1>2. sizes = <<>>
  BY <1>1
<1> HIDE DEF sizes
<1>3. PlacedEnd(cursor, sizes, Slot) = cursor
  BY <1>2 DEF PlacedEnd
<1>4. written + Len(<<>>) = written
  OBVIOUS
<1> QED
  BY <1>3, <1>4 DEF FinishedEof, sizes

(* The blocks are written where the projection had them. *)
LEMMA BlocksProjected == SpaceInv /\ Projected /\ write_blocks => Projected'
<1> SUFFICES ASSUME SpaceInv, Projected, write_blocks PROVE Projected'
  OBVIOUS
<1> DEFINE sizes == [b \in DOMAIN final.queue |-> physical_size(final.queue[b])]
<1>1. /\ final.phase = "writing" /\ final.queue # <<>>
      /\ stream' = Placed(stream, final.queue) /\ final' = [final EXCEPT !.queue = <<>>]
  BY DEF write_blocks
<1>2. /\ StreamOK(stream) /\ final = [x \in WritingFields |-> final[x]]
      /\ IsSeq(final.queue) /\ ~Oversized(final.queue)
  BY <1>1 DEF SpaceInv, WritingOK
<1>3. StreamOK(stream') /\ Len(stream'.written) = Len(stream.written) + Len(final.queue)
  BY <1>2, PlacedStream, <1>1
<1>4. stream'.cursor = PlacedEnd(stream.cursor, sizes, Slot)
  <2>1. stream = [x \in StreamFields |-> stream[x]]
    BY <1>2 DEF StreamOK
  <2> QED
    BY <1>1, <2>1 DEF Placed, StreamFields
<1>5. final'.queue = <<>> /\ final'.nodes = final.nodes /\ final'.projected = final.projected
  BY <1>1, <1>2 DEF WritingFields
<1>6. Len(stream'.written) \in Nat
  BY <1>3, SeqFacts DEF StreamOK, InOrder
<1>7. final.projected =
        FinishedEof(stream.cursor, final.queue, Len(stream.written), Len(final.nodes))
  BY <1>1 DEF Projected
<1>8. final.projected
        = allocation_file_eof(PlacedEnd(align_up(stream'.cursor, Page),
                                        IndexPages(Len(stream'.written), Len(final.nodes)), Page))
  BY <1>3, <1>4, <1>7 DEF FinishedEof
<1>9. final'.projected =
        FinishedEof(stream'.cursor, final'.queue, Len(stream'.written), Len(final'.nodes))
  BY <1>5, <1>6, <1>8, NothingQueued
<1> QED
  BY <1>9 DEF Projected

(***************************************************************************)
(* The indexes end where the projection said, so finalization goes on.     *)
(***************************************************************************)
LEMMA IndexesProjected == SpaceInv /\ Projected /\ WriteIndexes => final'.phase = "sealed"
<1> SUFFICES ASSUME SpaceInv, Projected, WriteIndexes PROVE final'.phase = "sealed"
  OBVIOUS
<1> DEFINE both  == write_bbt \o write_nbt
           start == align_up(stream.cursor, Page)
           sizes == [p \in 1..Len(both) |-> Page]
           pages == PlacedAt(start, sizes, Page)
           end   == pages[Len(pages)] + Page
           agree == allocation_file_eof(end) = final.projected
<1>1. /\ final.phase = "writing" /\ final.queue = <<>>
      /\ final' = [phase |-> IF agree THEN "sealed" ELSE "refused",
                   nodes |-> final.nodes, pages |-> pages, end |-> end]
  BY DEF WriteIndexes
<1>2. StreamOK(stream) /\ IsSeq(final.nodes) /\ final.nodes # <<>> /\ stream.written # <<>>
  BY <1>1 DEF SpaceInv, WritingOK
<1>3. IsSeq(stream.written) /\ stream.cursor \in Nat /\ FirstAmap <= stream.cursor
  BY <1>2 DEF StreamOK, InOrder, Before
<1>4. Len(stream.written) \in Nat \ {0} /\ Len(final.nodes) \in Nat \ {0}
  BY <1>2, <1>3, SeqFacts, TailIsSeq
<1>5. /\ IsSeq(write_bbt) /\ Len(write_bbt) > 0
      /\ btree_page_count(Len(stream.written), BbtLeaf, BtreeBranch) = Len(write_bbt)
  BY <1>4, WriterAssumption, WrittenPagesAreSeq, PagesCounted DEF write_bbt
<1>6. /\ IsSeq(write_nbt) /\ Len(write_nbt) > 0
      /\ btree_page_count(Len(final.nodes), NbtLeaf, BtreeBranch) = Len(write_nbt)
  BY <1>4, WriterAssumption, WrittenPagesAreSeq, PagesCounted DEF write_nbt
<1>7. /\ Len(both) = Len(write_bbt) + Len(write_nbt)
      /\ Len(write_bbt) \in Nat /\ Len(write_nbt) \in Nat
  BY <1>5, <1>6, ConcatIsSeq, SeqFacts
<1> HIDE DEF both
<1>8. Len(both) \in Nat \ {0}
  BY <1>5, <1>6, <1>7
<1>9. sizes = IndexPages(Len(stream.written), Len(final.nodes))
  BY <1>5, <1>6, <1>7 DEF IndexPages
<1>10. /\ IsSeq(sizes) /\ Len(sizes) = Len(both) /\ sizes # <<>>
       /\ \A p \in 1..Len(both) : sizes[p] = Page
  <2>1. sizes = [p \in 1..Len(both) |-> sizes[p]] /\ \A p \in 1..Len(both) : sizes[p] = Page
    OBVIOUS
  <2> HIDE DEF sizes
  <2>2. IsSeq(sizes) /\ Len(sizes) = Len(both)
    BY <1>8, <2>1, FunctionIsSeq
  <2>3. sizes # <<>>
    BY <1>8, <2>2
  <2> QED
    BY <2>1, <2>2, <2>3
<1> HIDE DEF sizes
<1>11. Page \in Nat \ {0} /\ Page \in 1..MaxExtent /\ FirstAmap \in Nat
  BY GeometryAssumption
<1>12. start \in Nat /\ FirstAmap <= start
  <2>1. start \in Nat /\ stream.cursor <= start
    BY <1>3, <1>11, AlignUp
  <2> HIDE DEF start
  <2> QED
    BY <1>3, <1>11, <2>1
<1> HIDE DEF start
<1>13. Run(pages, start, sizes, Len(both))
  BY <1>8, <1>10, <1>11, <1>12, PlacedRun
<1>14. Len(pages) = Len(sizes)
  BY <1>10, <1>13 DEF Run
<1>15. PlacedEnd(start, sizes, Page) = pages[Len(sizes)] + sizes[Len(sizes)]
  BY <1>10 DEF PlacedEnd
<1> HIDE DEF pages
<1>16. PlacedEnd(start, sizes, Page) = end
  <2>1. Len(both) \in 1..Len(both)
    BY <1>8
  <2>2. sizes[Len(sizes)] = Page
    BY <1>10, <2>1
  <2> QED
    BY <1>14, <1>15, <2>2
<1> HIDE DEF end
<1>17. final.projected
         = FinishedEof(stream.cursor, <<>>, Len(stream.written), Len(final.nodes))
  BY <1>1 DEF Projected
<1>18. final.projected
         = allocation_file_eof(PlacedEnd(start, IndexPages(Len(stream.written), Len(final.nodes)), Page))
  BY <1>4, <1>17, NothingQueued DEF start
<1>19. agree
  BY <1>9, <1>16, <1>18
<1> HIDE DEF agree
<1> QED
  BY <1>1, <1>19

-----------------------------------------------------------------------------
(***************************************************************************)
(* The plan.  It lists the paths in the order of their keys and gives each *)
(* of them the rows under its node.                                        *)
(***************************************************************************)
(* One key is less than another where they first differ. *)
LessAt(a, b, n) ==
  /\ \A k \in 1..(n - 1) : k <= Len(a) /\ a[k] = b[k]
  /\ n = Len(a) + 1 \/ (n <= Len(a) /\ a[n] < b[n])

(* The order of the keys, by the place of the difference. *)
LEMMA LessSomewhere ==
  ASSUME NEW a \in Seq(Nat), NEW b \in Seq(Nat)
  PROVE  KeyLess(a, b) <=> \E n \in 1..Len(b) : LessAt(a, b, n)
<1> DEFINE m == AtMost(Len(a), Len(b))
<1>1. Len(a) \in Nat /\ Len(b) \in Nat /\ DOMAIN a = 1..Len(a)
  OBVIOUS
<1>2. m \in Nat /\ m <= Len(a) /\ m <= Len(b) /\ (m = Len(a) \/ m = Len(b))
  BY <1>1 DEF AtMost
<1> HIDE DEF m
<1>3. ASSUME NEW n \in 1..m, a[n] < b[n], \A k \in 1..n - 1 : a[k] = b[k]
      PROVE  n \in 1..Len(b) /\ LessAt(a, b, n)
  <2>1. n \in Nat /\ n <= m /\ n >= 1
    BY <1>2
  <2>2. n <= Len(a) /\ n <= Len(b) /\ \A k \in 1..(n - 1) : k <= Len(a)
    <3> DEFINE x == Len(a)
               y == Len(b)
    <3>1. x \in Nat /\ y \in Nat /\ m \in Nat /\ m <= x /\ m <= y
      BY <1>1, <1>2
    <3> HIDE DEF x, y
    <3>2. n <= x /\ n <= y /\ \A k \in 1..(n - 1) : k <= x
      BY <2>1, <3>1
    <3> QED
      BY <3>2 DEF x, y
  <2>3. n \in 1..Len(b)
    BY <1>1, <2>1, <2>2
  <2>4. \A k \in 1..(n - 1) : a[k] = b[k]
    BY <1>3
  <2> QED
    BY <1>3, <2>2, <2>3, <2>4 DEF LessAt
<1>4. ASSUME Len(a) < Len(b), \A k \in DOMAIN a : a[k] = b[k]
      PROVE  Len(a) + 1 \in 1..Len(b) /\ LessAt(a, b, Len(a) + 1)
  <2>1. Len(a) + 1 \in 1..Len(b)
    BY <1>1, <1>4
  <2>2. \A k \in 1..((Len(a) + 1) - 1) : k <= Len(a) /\ k \in DOMAIN a
    BY <1>1
  <2> QED
    BY <1>4, <2>1, <2>2 DEF LessAt
<1>5. ASSUME NEW n \in 1..Len(b), LessAt(a, b, n) PROVE KeyLess(a, b)
  <2>1. CASE n = Len(a) + 1
    <3>1. Len(a) < Len(b) /\ \A k \in DOMAIN a : a[k] = b[k]
      BY <1>1, <1>5, <2>1 DEF LessAt
    <3> QED
      BY <3>1 DEF KeyLess
  <2>2. CASE n <= Len(a) /\ a[n] < b[n]
    <3>1. \A k \in 1..n - 1 : a[k] = b[k]
      BY <1>5 DEF LessAt
    <3>2. n \in 1..m
      <4> DEFINE x == Len(a)
                 y == Len(b)
      <4>1. /\ x \in Nat /\ y \in Nat /\ m \in Nat /\ (m = x \/ m = y) /\ n <= x
            /\ n \in 1..y
        BY <1>1, <1>2, <2>2
      <4> HIDE DEF x, y
      <4> QED
        BY <4>1
    <3> QED
      BY <2>2, <3>1, <3>2 DEF KeyLess, m
  <2> QED
    BY <1>5, <2>1, <2>2 DEF LessAt
<1> QED
  BY <1>3, <1>4, <1>5 DEF KeyLess, m

(* No key is less than itself. *)
LEMMA NotLessItself ==
  ASSUME NEW a \in Seq(Nat)
  PROVE  ~KeyLess(a, a)
<1> SUFFICES ASSUME NEW n \in 1..Len(a), LessAt(a, a, n) PROVE FALSE
  BY LessSomewhere
<1>1. Len(a) \in Nat /\ n \in Nat /\ n <= Len(a) /\ a[n] \in Nat
  OBVIOUS
<1> QED
  BY <1>1 DEF LessAt

(* The order is transitive. *)
LEMMA LessTransitive ==
  ASSUME NEW a \in Seq(Nat), NEW b \in Seq(Nat), NEW c \in Seq(Nat), KeyLess(a, b), KeyLess(b, c)
  PROVE  KeyLess(a, c)
<1>1. PICK i \in 1..Len(b) : LessAt(a, b, i)
  BY LessSomewhere
<1>2. PICK j \in 1..Len(c) : LessAt(b, c, j)
  BY LessSomewhere
<1>3. Len(a) \in Nat /\ Len(b) \in Nat /\ Len(c) \in Nat /\ i \in Nat /\ j \in Nat
      /\ i <= Len(b) /\ j <= Len(c)
  OBVIOUS
<1>4. CASE i < j
  <2>1. i \in 1..Len(c) /\ i \in 1..(j - 1)
    BY <1>3, <1>4
  <2>2. b[i] = c[i]
    BY <1>2, <2>1 DEF LessAt
  <2>3. \A k \in 1..(i - 1) : k \in 1..(j - 1)
    BY <1>3, <1>4
  <2>4. LessAt(a, c, i)
    BY <1>1, <1>2, <2>2, <2>3 DEF LessAt
  <2> QED
    BY <2>1, <2>4, LessSomewhere
<1>5. CASE i = j
  <2>1. b[j] < c[j]
    BY <1>2, <1>3, <1>5 DEF LessAt
  <2>2. i <= Len(a) => a[i] \in Nat /\ b[i] \in Nat /\ c[i] \in Nat
    BY <1>3, <1>5
  <2>3. LessAt(a, c, i)
    BY <1>1, <1>2, <1>3, <1>5, <2>1, <2>2 DEF LessAt
  <2> QED
    BY <1>5, <2>3, LessSomewhere
<1>6. CASE j < i
  <2>1. j \in 1..(i - 1) /\ j <= Len(b) /\ j # Len(b) + 1
    BY <1>3, <1>6
  <2>2. j <= Len(a) /\ a[j] = b[j] /\ b[j] < c[j]
    BY <1>1, <1>2, <2>1 DEF LessAt
  <2>3. \A k \in 1..(j - 1) : k \in 1..(i - 1)
    BY <1>3, <1>6
  <2>4. LessAt(a, c, j)
    BY <1>1, <1>2, <2>2, <2>3 DEF LessAt
  <2> QED
    BY <2>4, LessSomewhere
<1> QED
  BY <1>3, <1>4, <1>5, <1>6

(* Of two keys one is less. *)
LEMMA LessTotal ==
  ASSUME NEW a \in Seq(Nat), NEW b \in Seq(Nat), a # b
  PROVE  KeyLess(a, b) \/ KeyLess(b, a)
<1> DEFINE D == {n \in Nat : n \in 1..Len(a) /\ n \in 1..Len(b) /\ a[n] # b[n]}
<1>1. Len(a) \in Nat /\ Len(b) \in Nat
  OBVIOUS
<1>2. CASE D # {}
  <2>1. PICK n \in D : \A k \in D : n <= k
    <3>1. D \subseteq Nat
      OBVIOUS
    <3> HIDE DEF D
    <3> QED
      BY <1>2, <3>1, LeastNumber
  <2>2. n \in Nat /\ n \in 1..Len(a) /\ n \in 1..Len(b) /\ a[n] # b[n]
    BY <2>1
  <2>3. ASSUME NEW k \in 1..(n - 1) PROVE k <= Len(a) /\ k <= Len(b) /\ a[k] = b[k]
    <3>1. k \in Nat /\ k \in 1..Len(a) /\ k \in 1..Len(b) /\ ~(n <= k)
      BY <1>1, <2>2
    <3> QED
      BY <1>1, <2>1, <3>1
  <2>4. a[n] \in Nat /\ b[n] \in Nat
    BY <2>2
  <2>5. LessAt(a, b, n) \/ LessAt(b, a, n)
    BY <1>1, <2>2, <2>3, <2>4 DEF LessAt
  <2> QED
    BY <2>2, <2>5, LessSomewhere
<1>3. CASE D = {}
  <2>1. \A n \in Nat : n \in 1..Len(a) /\ n \in 1..Len(b) => a[n] = b[n]
    BY <1>3
  <2>2. CASE Len(a) < Len(b)
    <3>1. Len(a) + 1 \in 1..Len(b) /\ LessAt(a, b, Len(a) + 1)
      BY <1>1, <2>1, <2>2 DEF LessAt
    <3> QED
      BY <3>1, LessSomewhere
  <2>3. CASE Len(b) < Len(a)
    <3>1. Len(b) + 1 \in 1..Len(a) /\ LessAt(b, a, Len(b) + 1)
      BY <1>1, <2>1, <2>3 DEF LessAt
    <3> QED
      BY <3>1, LessSomewhere
  <2>4. CASE Len(a) = Len(b)
    <3>1. a = [n \in 1..Len(a) |-> a[n]] /\ b = [n \in 1..Len(a) |-> b[n]]
      BY <2>4
    <3>2. \A n \in 1..Len(a) : a[n] = b[n]
      BY <1>1, <2>1, <2>4
    <3> QED
      BY <3>1, <3>2
  <2> QED
    BY <1>1, <2>2, <2>3, <2>4
<1> QED
  BY <1>2, <1>3

(* The rank of a key: how many are less. *)
RankIn(keys, key) == Cardinality({k \in keys : KeyLess(k, key)})

(* No two keys have the same rank, and every rank is that of a key. *)
LEMMA Ranked ==
  ASSUME NEW keys, keys \subseteq Seq(Nat), IsFiniteSet(keys)
  PROVE  /\ \A k, l \in keys : k # l => RankIn(keys, k) # RankIn(keys, l)
         /\ \A k \in keys : RankIn(keys, k) \in 0..(Cardinality(keys) - 1)
         /\ \A n \in 0..(Cardinality(keys) - 1) : \E k \in keys : RankIn(keys, k) = n
<1> DEFINE R(key) == {k \in keys : KeyLess(k, key)}
           N == Cardinality(keys)
<1>1. N \in Nat /\ \A x : IsFiniteSet(R(x)) /\ Cardinality(R(x)) \in Nat
                          /\ Cardinality(R(x)) <= N
  <2>1. \A x : R(x) \subseteq keys
    OBVIOUS
  <2> HIDE DEF R
  <2> QED
    BY <2>1, FS_Subset, FS_CardinalityType
<1>2. \A x : RankIn(keys, x) = Cardinality(R(x))
  BY DEF RankIn
<1>3. ASSUME NEW k \in keys, NEW l \in keys, KeyLess(k, l)
      PROVE  Cardinality(R(k)) # Cardinality(R(l))
  <2>1. R(k) \subseteq R(l) /\ k \in R(l) /\ k \notin R(k)
    BY <1>3, NotLessItself, LessTransitive
  <2> HIDE DEF R
  <2> QED
    BY <1>1, <2>1, ProperSubset
<1>4. ASSUME NEW k \in keys PROVE Cardinality(R(k)) # N
  <2>1. R(k) \subseteq keys /\ k \notin R(k)
    BY NotLessItself
  <2> HIDE DEF R
  <2> QED
    BY <2>1, ProperSubset
<1> DEFINE rank == [k \in keys |-> Cardinality(R(k))]
<1>5. \A k, l \in keys : k # l => Cardinality(R(k)) # Cardinality(R(l))
  BY <1>3, LessTotal
<1>6. \A k \in keys : Cardinality(R(k)) \in 0..(N - 1)
  <2> SUFFICES ASSUME NEW k \in keys PROVE Cardinality(R(k)) \in 0..(N - 1)
    OBVIOUS
  <2> DEFINE c == Cardinality(R(k))
  <2>1. N \in Nat /\ c \in Nat /\ c <= N /\ c # N
    BY <1>1, <1>4
  <2> HIDE DEF c, N
  <2> QED
    BY <2>1 DEF c
<1> HIDE DEF R
<1>7. rank \in Injection(keys, 0..(N - 1))
  BY <1>5, <1>6 DEF Injection, IsInjective
<1>8. IsFiniteSet(0..(N - 1)) /\ Cardinality(0..(N - 1)) = N
  <2>1. N - 1 \in Int /\ 0 \in Int
    BY <1>1
  <2> DEFINE M == N - 1
  <2>2. IsFiniteSet(0..M) /\ Cardinality(0..M) = IF 0 > M THEN 0 ELSE M - 0 + 1
    BY <2>1, FS_Interval
  <2> QED
    BY <1>1, <2>2
<1>9. rank \in Surjection(keys, 0..(N - 1))
  <2> HIDE DEF rank
  <2> QED
    BY <1>7, <1>8, FS_Injection
<1>10. \A n \in 0..(N - 1) : \E k \in keys : Cardinality(R(k)) = n
  BY <1>9 DEF Surjection
<1> HIDE DEF N
<1> QED
  BY <1>2, <1>5, <1>6, <1>10 DEF N

(* The paths that are planned. *)
KeptPaths(folders) ==
  UNION {ToSet(PathPrefixes(folders[f].key)) :
           f \in {g \in DOMAIN folders : PreserveEmpty \/ ~Empty(folders[g])}}

(* They are observed paths, and every folder that is not empty is one. *)
LEMMA KeptAreObserved ==
  ASSUME NEW folders, Shape(folders)
  PROVE  /\ KeptPaths(folders) \subseteq Seq(Nat) /\ IsFiniteSet(KeptPaths(folders))
         /\ \A key \in KeptPaths(folders) : Observed(folders, key)
         /\ \A f \in DOMAIN folders : ~Empty(folders[f]) => folders[f].key \in KeptPaths(folders)
<1> DEFINE Of(f) == ToSet(PathPrefixes(folders[f].key))
           sets == [f \in DOMAIN folders |-> Of(f)]
           all  == ToSet(sets)
<1>1. IsSeq(folders) /\ DOMAIN folders = 1..Len(folders) /\ Len(folders) \in Nat
  BY SeqFacts DEF Shape, LayoutOK
<1>2. ASSUME NEW f \in DOMAIN folders
      PROVE  /\ IsFiniteSet(Of(f)) /\ folders[f].key \in Of(f)
             /\ \A key \in Of(f) : \E d \in Depths(folders, f) : Path(folders, f, d) = key
  <2>1. folders[f].key \in Seq(Nat) /\ Len(folders[f].key) > 1
    BY OwnPath
  <2>2. IsSeq(PathPrefixes(folders[f].key))
    BY <2>1, PrefixesAreSeq
  <2>3. IsFiniteSet(Of(f))
    BY <2>2, ToSetFinite
  <2>4. DOMAIN PathPrefixes(folders[f].key) = Depths(folders, f)
    BY <2>1, PathsOfKey DEF Depths
  <2>5. \A key : key \in Of(f) <=> \E d \in Depths(folders, f) : Path(folders, f, d) = key
    BY <2>4 DEF ToSet, Path
  <2>6. folders[f].key \in Of(f)
    BY <2>5, OwnPath
  <2> QED
    BY <2>3, <2>5, <2>6
<1>3. \A s : s \in all <=> \E f \in DOMAIN folders : s = Of(f)
  BY DEF ToSet
<1>4. IsFiniteSet(all)
  BY <1>1, MapIsSeq, ToSetFinite
<1> HIDE DEF all
<1>5. IsFiniteSet(UNION all)
  BY <1>2, <1>3, <1>4, FS_UNION
<1>6. \A key : key \in KeptPaths(folders) <=>
        \E f \in DOMAIN folders : (PreserveEmpty \/ ~Empty(folders[f])) /\ key \in Of(f)
  BY DEF KeptPaths
<1> HIDE DEF Of
<1>7. KeptPaths(folders) \subseteq UNION all
  BY <1>3, <1>6
<1>8. IsFiniteSet(KeptPaths(folders))
  BY <1>5, <1>7, FS_Subset
<1>9. \A key \in KeptPaths(folders) : Observed(folders, key)
  BY <1>2, <1>6 DEF Observed
<1>10. KeptPaths(folders) \subseteq Seq(Nat)
  BY <1>9, OwnPath DEF Observed
<1>11. \A f \in DOMAIN folders : ~Empty(folders[f]) => folders[f].key \in KeptPaths(folders)
  BY <1>2, <1>6
<1> QED
  BY <1>8, <1>9, <1>10, <1>11

(* The plan has every such path once. *)
LEMMA PlannedOnce ==
  ASSUME NEW folders, Shape(folders)
  PROVE  LET keys == PlannedKeys(folders)
         IN  /\ DOMAIN keys = 1..Cardinality(KeptPaths(folders))
             /\ Cardinality(KeptPaths(folders)) \in Nat
             /\ \A n \in DOMAIN keys : keys[n] \in KeptPaths(folders)
             /\ \A k \in KeptPaths(folders) : \E n \in DOMAIN keys : keys[n] = k
             /\ \A n, m \in DOMAIN keys : n # m => keys[n] # keys[m]
<1> DEFINE K == KeptPaths(folders)
           N == Cardinality(K)
           keys == PlannedKeys(folders)
<1>1. K \subseteq Seq(Nat) /\ IsFiniteSet(K)
  BY KeptAreObserved
<1>2. N \in Nat
  BY <1>1, FS_CardinalityType
<1>3. keys = [n \in 1..N |-> CHOOSE key \in K : RankIn(K, key) = n - 1]
  BY DEF PlannedKeys, KeptPaths, RankIn
<1> HIDE DEF K, keys
<1>4. /\ \A k, l \in K : k # l => RankIn(K, k) # RankIn(K, l)
      /\ \A k \in K : RankIn(K, k) \in 0..(N - 1)
      /\ \A n \in 0..(N - 1) : \E k \in K : RankIn(K, k) = n
  BY <1>1, Ranked
<1> HIDE DEF N
<1>5. DOMAIN keys = 1..N
  BY <1>3
<1>6. ASSUME NEW n \in 1..N PROVE keys[n] \in K /\ RankIn(K, keys[n]) = n - 1
  <2>1. n - 1 \in 0..(N - 1)
    BY <1>2
  <2>2. \E k \in K : RankIn(K, k) = n - 1
    BY <1>4, <2>1
  <2>3. keys[n] = CHOOSE key \in K : RankIn(K, key) = n - 1
    BY <1>3
  <2> QED
    BY <2>2, <2>3
<1>7. ASSUME NEW k \in K PROVE \E n \in 1..N : keys[n] = k
  <2> DEFINE r == RankIn(K, k)
  <2>1. r \in 0..(N - 1)
    BY <1>4
  <2> HIDE DEF r
  <2>2. r + 1 \in 1..N /\ (r + 1) - 1 = r
    BY <1>2, <2>1
  <2>3. keys[r + 1] \in K /\ RankIn(K, keys[r + 1]) = r
    BY <1>6, <2>2
  <2> QED
    BY <1>4, <2>2, <2>3 DEF r
<1>8. ASSUME NEW n \in 1..N, NEW m \in 1..N, n # m PROVE keys[n] # keys[m]
  BY <1>2, <1>6, <1>8
<1> QED
  BY <1>2, <1>5, <1>6, <1>7, <1>8 DEF K, N, keys

(* The node of the n-th planned folder. *)
PlannedNode(folders, n) == transaction_folder_node(folders, PlannedKeys(folders)[n])

(* The rows that the n-th planned folder takes. *)
TakenRows(folders, rows, n) ==
  {r \in DOMAIN rows : /\ rows[r].parent = PlannedNode(folders, n)
                       /\ \A q \in 1..n - 1 : PlannedNode(folders, q) # PlannedNode(folders, n)}

(* What the k-th lengths of a layout say of a path. *)
Counts(folders, key, k) ==
  IF key \in Keys(folders) THEN Lengths(folders)[FolderAt(folders, key)][k] ELSE 0

(* Every planned folder finds its rows, and every row a planned folder. *)
LEMMA RowsPlanned ==
  ASSUME NEW folders, Shape(folders), NEW rows, IsSeq(rows), NEW k \in {1, 2},
         Balanced(folders, rows, Len(rows), Lengths(folders), k)
  PROVE  LET keys == PlannedKeys(folders)
         IN  /\ \A n \in DOMAIN keys :
                  Cardinality(TakenRows(folders, rows, n)) = Counts(folders, keys[n], k)
             /\ \A r \in DOMAIN rows : \E n \in DOMAIN keys :
                  rows[r].parent = PlannedNode(folders, n)
<1> DEFINE keys == PlannedKeys(folders)
           N == Cardinality(KeptPaths(folders))
<1>1. /\ DOMAIN keys = 1..N /\ N \in Nat
      /\ \A n \in DOMAIN keys : keys[n] \in KeptPaths(folders)
      /\ \A x \in KeptPaths(folders) : \E n \in DOMAIN keys : keys[n] = x
      /\ \A n, m \in DOMAIN keys : n # m => keys[n] # keys[m]
  BY PlannedOnce
<1>2. \A n \in DOMAIN keys : Observed(folders, keys[n])
  BY <1>1, KeptAreObserved
<1> HIDE DEF keys, N
<1>3. DOMAIN rows = 1..Len(rows) /\ Len(rows) \in Nat
  BY SeqFacts
<1>4. DOMAIN Lengths(folders) = DOMAIN folders
  BY DEF Lengths
<1>5. /\ \A f \in DOMAIN folders :
           Cardinality(RowsOf(rows, Len(rows), FolderNode(folders, f))) = Lengths(folders)[f][k]
      /\ \A r \in DOMAIN rows : \E f \in DOMAIN folders : rows[r].parent = FolderNode(folders, f)
  BY <1>3, <1>4 DEF Balanced
<1>6. \A n \in DOMAIN keys : PlannedNode(folders, n) = transaction_folder_node(folders, keys[n])
  BY DEF PlannedNode, keys
<1>7. ASSUME NEW n \in DOMAIN keys
      PROVE  Cardinality(TakenRows(folders, rows, n)) = Counts(folders, keys[n], k)
  <2>1. \A q \in 1..n - 1 : PlannedNode(folders, q) # PlannedNode(folders, n)
    <3> SUFFICES ASSUME NEW q \in 1..n - 1
                 PROVE  PlannedNode(folders, q) # PlannedNode(folders, n)
      OBVIOUS
    <3>1. q \in DOMAIN keys /\ q # n
      BY <1>1
    <3>2. keys[q] # keys[n]
      BY <1>1, <3>1
    <3> QED
      BY <1>2, <1>6, <3>1, <3>2, PathNodesDiffer
  <2>2. TakenRows(folders, rows, n) = RowsOf(rows, Len(rows), PlannedNode(folders, n))
    BY <1>3, <2>1 DEF TakenRows, RowsOf
  <2>3. CASE keys[n] \in Keys(folders)
    <3>1. PICK f \in DOMAIN folders : folders[f].key = keys[n]
      BY <2>3 DEF Keys
    <3>2. FolderAt(folders, keys[n]) = f
      BY <3>1, FolderFound
    <3>3. PlannedNode(folders, n) = FolderNode(folders, f)
      BY <1>6, <3>1 DEF FolderNode
    <3> QED
      BY <1>5, <2>2, <2>3, <3>2, <3>3 DEF Counts
  <2>4. CASE keys[n] \notin Keys(folders)
    <3>1. ASSUME NEW f \in DOMAIN folders PROVE FolderNode(folders, f) # PlannedNode(folders, n)
      <4>1. folders[f].key # keys[n]
        BY <2>4 DEF Keys
      <4>2. Observed(folders, folders[f].key)
        BY OwnPath DEF Observed
      <4> QED
        BY <1>2, <1>6, <4>1, <4>2, PathNodesDiffer DEF FolderNode
    <3>2. RowsOf(rows, Len(rows), PlannedNode(folders, n)) = {}
      BY <1>3, <1>5, <3>1 DEF RowsOf
    <3> QED
      BY <2>2, <2>4, <3>2, FS_EmptySet DEF Counts
  <2> QED
    BY <2>3, <2>4
<1>8. ASSUME NEW r \in DOMAIN rows
      PROVE  \E n \in DOMAIN keys : rows[r].parent = PlannedNode(folders, n)
  <2>1. PICK f \in DOMAIN folders : rows[r].parent = FolderNode(folders, f)
    BY <1>5
  <2> DEFINE own == RowsOf(rows, Len(rows), FolderNode(folders, f))
  <2>2. r \in own
    BY <1>3, <2>1 DEF RowsOf
  <2>3. IsFiniteSet(own) /\ Cardinality(own) = Lengths(folders)[f][k]
    BY <1>3, <1>5, RowsCounted
  <2> HIDE DEF own
  <2>4. Lengths(folders)[f][k] # 0
    BY <2>2, <2>3, FS_EmptySet
  <2>5. ~Empty(folders[f])
    <3> SUFFICES ASSUME folders[f].messages = <<>>, folders[f].associated = <<>> PROVE FALSE
      BY DEF Empty
    <3>1. Lengths(folders)[f] = <<0, 0>>
      BY DEF Lengths
    <3> QED
      BY <2>4, <3>1
  <2>6. folders[f].key \in KeptPaths(folders)
    BY <2>5, KeptAreObserved
  <2>7. PICK n \in DOMAIN keys : keys[n] = folders[f].key
    BY <1>1, <2>6
  <2> QED
    BY <1>6, <2>1, <2>7 DEF FolderNode
<1> QED
  BY <1>7, <1>8 DEF keys

(***************************************************************************)
(* The plan accepts the rows of a layout with which they are balanced.     *)
(***************************************************************************)
LEMMA PlanAccepted ==
  ASSUME NEW folders, Shape(folders), NEW s, IsSeq(s.rows), IsSeq(s.associated),
         Balanced(folders, s.rows, Len(s.rows), Lengths(folders), 1),
         Balanced(folders, s.associated, Len(s.associated), Lengths(folders), 2)
  PROVE  ~PlanRefused(plan_transaction_folders(folders), s)
<1> DEFINE plans == plan_transaction_folders(folders)
           keys == PlannedKeys(folders)
<1>1. DOMAIN plans = DOMAIN keys
  BY DEF plan_transaction_folders
<1>2. ASSUME NEW n \in DOMAIN keys
      PROVE  /\ plans[n].node = PlannedNode(folders, n)
             /\ plans[n].messages = Counts(folders, keys[n], 1)
             /\ plans[n].associated = Counts(folders, keys[n], 2)
  <2> DEFINE Here(key, field) ==
               IF key \in Keys(folders) THEN Len(folders[FolderAt(folders, key)][field]) ELSE 0
  <2>1. /\ plans[n].node = transaction_folder_node(folders, keys[n])
        /\ plans[n].messages = Here(keys[n], "messages")
        /\ plans[n].associated = Here(keys[n], "associated")
    BY DEF plan_transaction_folders
  <2> HIDE DEF plans, keys
  <2>2. ASSUME NEW key
        PROVE  Here(key, "messages") = Counts(folders, key, 1)
               /\ Here(key, "associated") = Counts(folders, key, 2)
    <3>1. CASE key \in Keys(folders)
      <4>1. FolderAt(folders, key) \in DOMAIN folders
        BY <3>1 DEF Keys, FolderAt
      <4>2. Lengths(folders)[FolderAt(folders, key)]
              = <<Len(folders[FolderAt(folders, key)].messages),
                  Len(folders[FolderAt(folders, key)].associated)>>
        BY <4>1 DEF Lengths
      <4> QED
        BY <3>1, <4>2 DEF Counts
    <3>2. CASE key \notin Keys(folders)
      BY <3>2 DEF Counts
    <3> QED
      BY <3>1, <3>2
  <2> HIDE DEF Here
  <2> QED
    BY <2>1, <2>2 DEF PlannedNode, keys
<1> HIDE DEF plans
<1>3. /\ \A n \in DOMAIN keys :
           /\ Cardinality(TakenRows(folders, s.rows, n)) = Counts(folders, keys[n], 1)
           /\ Cardinality(TakenRows(folders, s.associated, n)) = Counts(folders, keys[n], 2)
      /\ \A r \in DOMAIN s.rows : \E n \in DOMAIN keys : s.rows[r].parent = PlannedNode(folders, n)
      /\ \A r \in DOMAIN s.associated : \E n \in DOMAIN keys :
           s.associated[r].parent = PlannedNode(folders, n)
  BY RowsPlanned
<1>4. DOMAIN keys = 1..Cardinality(KeptPaths(folders)) /\ Cardinality(KeptPaths(folders)) \in Nat
  BY PlannedOnce
<1> HIDE DEF keys
<1> DEFINE Rows(rows, p) == {r \in DOMAIN rows :
                               /\ rows[r].parent = plans[p].node
                               /\ \A q \in 1..p - 1 : plans[q].node # plans[p].node}
<1>5. ASSUME NEW rows, NEW p \in DOMAIN plans PROVE Rows(rows, p) = TakenRows(folders, rows, p)
  <2>1. \A q \in 1..p - 1 : q \in DOMAIN keys
    BY <1>1, <1>4
  <2>2. \A q \in 1..p - 1 : plans[q].node = PlannedNode(folders, q)
    BY <1>2, <2>1
  <2>3. plans[p].node = PlannedNode(folders, p)
    BY <1>1, <1>2
  <2> QED
    BY <2>2, <2>3 DEF TakenRows
<1> HIDE DEF Rows
<1>6. \A p \in DOMAIN plans : Cardinality(Rows(s.rows, p)) = plans[p].messages
                              /\ Cardinality(Rows(s.associated, p)) = plans[p].associated
  BY <1>1, <1>2, <1>3, <1>5
<1>7. /\ \A r \in DOMAIN s.rows : \E p \in DOMAIN plans : s.rows[r].parent = plans[p].node
      /\ \A r \in DOMAIN s.associated : \E p \in DOMAIN plans : s.associated[r].parent = plans[p].node
  BY <1>1, <1>2, <1>3
<1>8. PlanRefused(plans, s) <=>
        \/ \E p \in DOMAIN plans :
             \/ Cardinality(Rows(s.rows, p)) # plans[p].messages
             \/ Cardinality(Rows(s.associated, p)) # plans[p].associated
        \/ \E r \in DOMAIN s.rows : \A p \in DOMAIN plans : s.rows[r].parent # plans[p].node
        \/ \E r \in DOMAIN s.associated :
             \A p \in DOMAIN plans : s.associated[r].parent # plans[p].node
  BY DEF PlanRefused, Rows
<1> QED
  BY <1>6, <1>7, <1>8 DEF plans

(***************************************************************************)
(* The invariant: finalization has not refused its own file, and what it   *)
(* projected is what it is about to write.                                 *)
(***************************************************************************)
AgreeInv == FinalizationAgrees /\ Projected

(* The plan is accepted, and projects what is to be written. *)
LEMMA FinalizeAgrees == SpaceInv /\ RowsInv /\ Finalize => AgreeInv'
<1> SUFFICES ASSUME SpaceInv, RowsInv, Finalize PROVE AgreeInv'
  OBVIOUS
<1> DEFINE plan == build_finalization_plan(layout, stream, Len(names))
<1>1. /\ call.kind = "none" /\ final' \in {Planned(plan), TooLarge} /\ UNCHANGED stream
  BY DEF Finalize, CanCall
<1>2. plan.plans = plan_transaction_folders(layout)
  BY DEF build_finalization_plan, FinalizationPlan
<1> HIDE DEF plan
<1>3. ~PlanRefused(plan.plans, stream)
  <2>1. Shape(layout) /\ IsSeq(stream.rows) /\ IsSeq(stream.associated) /\ Settled
    BY <1>1 DEF RowsInv
  <2> QED
    BY <1>2, <2>1, PlanAccepted DEF Settled
<1>4. CASE Oversized(plan.blocks) \/ final' = TooLarge
  <2>1. final'.phase = "oversized"
    BY <1>1, <1>3, <1>4 DEF Planned, TooLarge
  <2> QED
    BY <2>1 DEF AgreeInv, FinalizationAgrees, Projected
<1>5. CASE ~(Oversized(plan.blocks) \/ final' = TooLarge)
  <2> DEFINE eof == projected_finalized_file_eof(stream.cursor, Len(stream.written), plan)
  <2>1. final' = [phase |-> "writing", queue |-> plan.blocks, nodes |-> plan.nodes,
                  projected |-> eof]
    BY <1>1, <1>3, <1>5 DEF Planned
  <2>2. eof = FinishedEof(stream.cursor, plan.blocks, Len(stream.written), Len(plan.nodes))
    BY DEF projected_finalized_file_eof, FinishedEof
  <2> HIDE DEF eof
  <2>3. /\ final'.phase = "writing" /\ final'.queue = plan.blocks /\ final'.nodes = plan.nodes
        /\ final'.projected = eof
    BY <2>1
  <2>4. FinalizationAgrees'
    BY <2>3 DEF FinalizationAgrees
  <2>5. Projected'
    BY <1>1, <2>2, <2>3 DEF Projected
  <2> QED
    BY <2>4, <2>5 DEF AgreeInv
<1> QED
  BY <1>4, <1>5

(* A step that leaves finalization alone is not one while it writes. *)
LEMMA OpenAgrees ==
  AgreeInv /\ UNCHANGED final /\ (UNCHANGED stream \/ final.phase = "open") => AgreeInv'
<1> SUFFICES ASSUME AgreeInv, UNCHANGED final, UNCHANGED stream \/ final.phase = "open"
             PROVE  AgreeInv'
  OBVIOUS
<1>1. FinalizationAgrees'
  BY DEF AgreeInv, FinalizationAgrees
<1>2. Projected'
  BY DEF AgreeInv, Projected
<1> QED
  BY <1>1, <1>2 DEF AgreeInv

(* It begins with nothing projected. *)
LEMMA InitAgrees == Init => AgreeInv
  BY DEF Init, Open, AgreeInv, FinalizationAgrees, Projected

(* Every step preserves it. *)
LEMMA NextAgrees == SpaceInv /\ RowsInv /\ AgreeInv /\ [Next]_vars => AgreeInv'
<1> SUFFICES ASSUME SpaceInv, RowsInv, AgreeInv, [Next]_vars PROVE AgreeInv'
  OBVIOUS
<1>1. CASE Finalize
  BY <1>1, FinalizeAgrees
<1>2. CASE Call /\ ~Finalize
  <2>1. UNCHANGED final /\ final.phase = "open"
    BY <1>2 DEF Call, BeginAppend, observe_folder, BeginBatch, rollback_batch, CanCall
  <2> QED
    BY <2>1, OpenAgrees
<1>3. CASE write_blocks
  <2>1. final.phase = "writing" /\ final' = [final EXCEPT !.queue = <<>>]
    BY <1>3 DEF write_blocks
  <2>2. final = [x \in WritingFields |-> final[x]]
    BY <2>1 DEF SpaceInv, WritingOK
  <2>3. final'.phase = "writing"
    BY <2>1, <2>2 DEF WritingFields
  <2> QED
    BY <1>3, <2>3, BlocksProjected DEF AgreeInv, FinalizationAgrees
<1>4. CASE (Work \/ AppendFails) /\ ~write_blocks
  <2>1. UNCHANGED final /\ call.kind # "none"
    <3>1. CASE BuildRecipients \/ BeginAttachment \/ append_direct_properties
               \/ externalize_large_properties
      BY <3>1 DEF BuildRecipients, BeginAttachment, append_direct_properties,
                  externalize_large_properties, Doing, Building
    <3>2. CASE BeginEmbedded \/ EndEmbedded \/ EndAttachment \/ EndMessage
      BY <3>2 DEF BeginEmbedded, EndEmbedded, EndAttachment, EndMessage, Doing, Building
    <3>3. CASE PlaceMessage \/ emit
      BY <3>3 DEF PlaceMessage, emit
    <3>4. CASE ReturnAppend \/ ReturnLimited \/ ReturnProjection \/ ReturnPreflighted
      BY <3>4 DEF ReturnAppend, ReturnLimited, ReturnProjection, ReturnPreflighted, Emitted
    <3>5. CASE AppendFails
      BY <3>5 DEF AppendFails
    <3> QED
      BY <1>4, <3>1, <3>2, <3>3, <3>4, <3>5 DEF Work
  <2>2. final.phase = "open"
    BY <2>1 DEF SpaceInv, CallOK
  <2> QED
    BY <2>1, <2>2, OpenAgrees
<1>5. CASE WriteIndexes
  <2>1. final'.phase = "sealed"
    BY <1>5, IndexesProjected DEF AgreeInv
  <2> QED
    BY <2>1 DEF AgreeInv, FinalizationAgrees, Projected
<1>6. CASE FinalizeFails \/ HandOver
  <2>1. final'.phase \in {"failed", "published"}
    BY <1>6 DEF FinalizeFails, HandOver
  <2> QED
    BY <2>1 DEF AgreeInv, FinalizationAgrees, Projected
<1>7. CASE UNCHANGED writer
  BY <1>7, OpenAgrees DEF writer
<1>8. CASE UNCHANGED vars
  BY <1>8, OpenAgrees DEF vars, writer
<1> QED
  BY <1>1, <1>2, <1>3, <1>4, <1>5, <1>6, <1>7, <1>8 DEF Next

(***************************************************************************)
(* FinalizationAgrees: whatever was appended, taken back and observed      *)
(* before, build_finalization_plan accepts the rows that were streamed     *)
(* (writer.rs:3328-3430), and the file that is written is as long as       *)
(* projected_finalized_file_eof said (writer.rs:4570).                     *)
(***************************************************************************)
THEOREM FinalizationNeverDisagrees == Spec => []FinalizationAgrees
<1>1. AgreeInv => FinalizationAgrees
  BY DEF AgreeInv
<1> QED
  BY <1>1, InitSpace, NextSpace, InitRows, NextRows, InitAgrees, NextAgrees, PTL DEF Spec
=============================================================================
