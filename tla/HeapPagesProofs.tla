-------------------------- MODULE HeapPagesProofs --------------------------
(***************************************************************************)
(* HeapSound is an invariant of HeapPages, for every size of the values,   *)
(* every number of records and every geometry that HeapAssumption allows.  *)
(*                                                                         *)
(* Its main parts: what a padded page is (FilledIs), what a push does to   *)
(* the pages and to what is named on them (Pushed), what the compact form  *)
(* holds (CompactIs), the inductive invariant (HeapInv), and the finished  *)
(* heap (BuildCompactHeap, BuildExternalHeap).                             *)
(***************************************************************************)
EXTENDS HeapPages, FiniteSetTheorems, TLAPS

(***************************************************************************)
(* Induction and loops.                                                    *)
(***************************************************************************)
(* Induction, with the set of the numbers for which it holds. *)
LEMMA SetInduction ==
  ASSUME NEW S, 0 \in S, \A n \in Nat : n \in S => n + 1 \in S
  PROVE  \A n \in Nat : n \in S
<1> SUFFICES ASSUME NEW n \in Nat, n \notin S PROVE FALSE
  OBVIOUS
<1> DEFINE A == {m \in 0..n : m \in S}
           f == [m \in A |-> m + 1]
<1>1. IsFiniteSet(A)
  BY FS_BoundedSetOfNaturals
<1>2. 0 \in A /\ \A m \in A : m + 1 \in A \ {0}
  OBVIOUS
<1>3. f \in Injection(A, A \ {0})
  BY <1>2 DEF Injection, IsInjective
<1>4. /\ IsFiniteSet(A \ {0}) /\ Cardinality(A) \in Nat
      /\ Cardinality(A \ {0}) = Cardinality(A) - 1
  BY <1>1, <1>2, FS_RemoveElement, FS_CardinalityType
<1>5. Cardinality(A) <= Cardinality(A \ {0})
  BY <1>3, <1>4, FS_Injection
<1> QED
  BY <1>4, <1>5

(* Induction up to a number. *)
LEMMA UpTo ==
  ASSUME NEW N \in Nat, NEW S, 0 \in S, \A n \in 0..(N - 1) : n \in S => n + 1 \in S
  PROVE  \A n \in 0..N : n \in S
<1> DEFINE T == {k \in Nat : k > N \/ k \in S}
<1>1. 0 \in T /\ \A k \in Nat : k \in T => k + 1 \in T
  <2> SUFFICES ASSUME NEW k \in Nat, k \in T PROVE k + 1 \in T
    OBVIOUS
  <2>1. CASE k >= N
    BY <2>1
  <2>2. CASE k < N
    <3>1. k \in 0..(N - 1) /\ k \in S
      BY <2>2
    <3> QED
      BY <3>1
  <2> QED
    BY <2>1, <2>2
<1> HIDE DEF T
<1>2. \A k \in Nat : k \in T
  BY <1>1, SetInduction
<1> QED
  BY <1>2 DEF T

(* A loop over 1..N that carries a value of V. *)
Steps(N, V) == [1..N -> [V -> V]]
Loops(g, N, V, base, step) ==
  /\ g \in [0..N -> V] /\ g[0] = base
  /\ \A i \in 1..N : g[i] = step[i][g[i - 1]]

(* A loop of N steps over values of V has a function. *)
LEMMA LoopExists ==
  ASSUME NEW N \in Nat, NEW V, NEW base \in V, NEW step \in Steps(N, V)
  PROVE  \E g : Loops(g, N, V, base, step)
<1> DEFINE S == {n \in 0..N : \E g : /\ g \in [0..n -> V] /\ g[0] = base
                                     /\ \A i \in 1..n : g[i] = step[i][g[i - 1]]}
<1>1. 0 \in S
  <2> DEFINE h == [i \in 0..0 |-> base]
  <2>1. h \in [0..0 -> V] /\ h[0] = base /\ \A i \in 1..0 : h[i] = step[i][h[i - 1]]
    OBVIOUS
  <2> HIDE DEF h
  <2> QED
    BY <2>1
<1>2. ASSUME NEW n \in 0..(N - 1), n \in S PROVE n + 1 \in S
  <2>1. PICK g : /\ g \in [0..n -> V] /\ g[0] = base
                 /\ \A i \in 1..n : g[i] = step[i][g[i - 1]]
    BY <1>2
  <2> DEFINE h == [i \in 0..(n + 1) |-> IF i <= n THEN g[i] ELSE step[n + 1][g[n]]]
  <2>2. g[n] \in V /\ n + 1 \in 1..N
    BY <2>1
  <2>3. step[n + 1][g[n]] \in V
    BY <2>2 DEF Steps
  <2>4. h \in [0..(n + 1) -> V] /\ h[0] = base
    BY <2>1, <2>3
  <2>5. ASSUME NEW i \in 1..(n + 1) PROVE h[i] = step[i][h[i - 1]]
    <3>1. CASE i <= n
      BY <2>1, <3>1
    <3>2. CASE i = n + 1
      BY <3>2
    <3> QED
      BY <3>1, <3>2
  <2> HIDE DEF h
  <2> QED
    BY <2>4, <2>5
<1> HIDE DEF S
<1>3. \A n \in 0..N : n \in S
  BY <1>1, <1>2, UpTo
<1>4. N \in S
  BY <1>3
<1> QED
  BY <1>4 DEF S, Loops

(* A function that is computed like one that loops is that one. *)
LEMMA LoopIs ==
  ASSUME NEW N \in Nat, NEW V, NEW base \in V, NEW step \in Steps(N, V),
         NEW f, f = [n \in 0..N |-> f[n]], f[0] = base,
         \A n \in 1..N : f[n - 1] \in V => f[n] = step[n][f[n - 1]]
  PROVE  Loops(f, N, V, base, step)
<1> DEFINE S == {n \in 0..N : f[n] \in V}
<1>1. 0 \in S
  OBVIOUS
<1>2. ASSUME NEW n \in 0..(N - 1), n \in S PROVE n + 1 \in S
  <2>1. n + 1 \in 1..N /\ (n + 1) - 1 = n /\ f[n] \in V
    BY <1>2
  <2>2. f[n + 1] = step[n + 1][f[n]]
    BY <2>1
  <2>3. step[n + 1][f[n]] \in V
    BY <2>1 DEF Steps
  <2> QED
    BY <2>1, <2>2, <2>3
<1> HIDE DEF S
<1>3. \A n \in 0..N : n \in S
  BY <1>1, <1>2, UpTo
<1>4. \A n \in 0..N : f[n] \in V
  BY <1>3 DEF S
<1>5. f \in [0..N -> V]
  BY <1>4
<1>6. ASSUME NEW n \in 1..N PROVE f[n] = step[n][f[n - 1]]
  <2>1. n - 1 \in 0..N
    OBVIOUS
  <2> QED
    BY <1>4, <2>1
<1> QED
  BY <1>5, <1>6 DEF Loops

-----------------------------------------------------------------------------
(***************************************************************************)
(* Pages.                                                                  *)
(***************************************************************************)
Whats == {"columns", "tree", "node", "matrix", "value", "padding"}
AllocType == [what : Whats, level : Nat, n : Nat, size : Nat]

(* An allocation, field by field. *)
LEMMA AllocIs ==
  ASSUME NEW what \in Whats, NEW l \in Nat, NEW m \in Nat, NEW bytes \in Nat
  PROVE  /\ Alloc(what, l, m, bytes) \in AllocType
         /\ Alloc(what, l, m, bytes).what = what /\ Alloc(what, l, m, bytes).level = l
         /\ Alloc(what, l, m, bytes).n = m /\ Alloc(what, l, m, bytes).size = bytes
  BY DEF Alloc, AllocType

(* What HeapAssumption says, name by name. *)
LEMMA Constants ==
  /\ MaxRecords \in Nat \ {0} /\ MaxIndex \in Nat \ {0} /\ MaxPages \in Nat \ {0}
  /\ MaxPage \in Nat \ {0} /\ HeadBytes \in Nat \ {0}
  /\ RootLevels \in Nat \ {0} /\ BitmapLevels \in Nat \ {0} /\ RootLevels < BitmapLevels
  /\ LeafRecord \in Nat \ {0} /\ BranchRecord \in Nat \ {0} /\ RowBytes \in Nat \ {0}
  /\ RootHeader \in Nat /\ PageHeader \in Nat /\ BitmapHeader \in Nat
  /\ MaxAllocation \in Nat /\ MaxProperty \in Nat /\ MaxAllocation >= 3
  BY HeapAssumption

(* A header has a size. *)
LEMMA HeaderIs ==
  ASSUME NEW p \in Nat
  PROVE  HeaderBytes(p) \in Nat
<1>1. CASE p = 0
  BY <1>1, Constants DEF HeaderBytes
<1>2. CASE p > 0 /\ p % BitmapLevels = RootLevels
  BY <1>2, Constants DEF HeaderBytes
<1>3. CASE p > 0 /\ p % BitmapLevels # RootLevels
  BY <1>3, Constants DEF HeaderBytes
<1> QED
  BY <1>1, <1>2, <1>3

(* align_up to two bytes. *)
LEMMA EvenIs ==
  ASSUME NEW n \in Nat
  PROVE  /\ Even(n) \in Nat /\ n <= Even(n) /\ Even(n) <= n + 1
         /\ n % 2 = 0 => Even(n) = n
  BY DEF Even

(* Where the allocations of a page end. *)
LEMMA EndsAre ==
  ASSUME NEW p \in Nat, NEW s \in Seq(AllocType)
  PROVE  /\ Ends(p, s) \in [0..Len(s) -> Nat] /\ Ends(p, s)[0] = HeaderBytes(p)
         /\ \A n \in 1..Len(s) : Ends(p, s)[n] = Ends(p, s)[n - 1] + s[n].size
<1> DEFINE N == Len(s)
           V == Nat
           base == HeaderBytes(p)
           step == [i \in 1..N |-> [v \in Nat |-> v + s[i].size]]
           Is(g) == g = [n \in 0..N |-> IF n = 0 THEN base ELSE g[n - 1] + s[n].size]
           ends == CHOOSE g : Is(g)
<1>1. N \in Nat /\ base \in V /\ \A i \in 1..N : s[i].size \in Nat
  <2>1. \A i \in 1..N : s[i] \in AllocType
    OBVIOUS
  <2>2. \A i \in 1..N : s[i].size \in Nat
    BY <2>1 DEF AllocType
  <2>3. N \in Nat
    OBVIOUS
  <2>4. base \in V
    BY HeaderIs
  <2> HIDE DEF N, base, V
  <2> QED
    BY <2>2, <2>3, <2>4
<1>2. step \in Steps(N, V)
  BY <1>1 DEF Steps
<1>3. \A i \in 1..N : \A v \in V : step[i][v] = v + s[i].size
  OBVIOUS
<1>4. Ends(p, s) = ends
  BY DEF Ends
<1> HIDE DEF N, V, base, step
<1>5. PICK g : Loops(g, N, V, base, step)
  BY <1>1, <1>2, LoopExists
<1>6. Is(g)
  <2>1. ASSUME NEW n \in 1..N PROVE g[n] = g[n - 1] + s[n].size
    <3>1. n - 1 \in 0..N
      BY <1>1
    <3>2. g[n - 1] \in V /\ g[n] = step[n][g[n - 1]]
      BY <1>5, <3>1 DEF Loops
    <3> QED
      BY <1>3, <3>2
  <2>2. g = [n \in 0..N |-> g[n]] /\ g[0] = base
    BY <1>5 DEF Loops
  <2>3. ASSUME NEW n \in 0..N
        PROVE  g[n] = IF n = 0 THEN base ELSE g[n - 1] + s[n].size
    <3>1. n # 0 => n \in 1..N
      BY <1>1
    <3> QED
      BY <2>1, <2>2, <3>1
  <2> QED
    BY <2>2, <2>3
<1>7. Is(ends)
  BY <1>6
<1> HIDE DEF ends
<1>8. /\ ends = [n \in 0..N |-> ends[n]] /\ ends[0] = base
      /\ \A n \in 1..N : ends[n] = ends[n - 1] + s[n].size
  <2>1. ends = [n \in 0..N |-> ends[n]]
    BY <1>7
  <2>2. \A n \in 0..N : ends[n] = IF n = 0 THEN base ELSE ends[n - 1] + s[n].size
    BY <1>7
  <2>3. 0 \in 0..N /\ \A n \in 1..N : n \in 0..N /\ n # 0
    BY <1>1
  <2> HIDE DEF Is
  <2> QED
    BY <2>1, <2>2, <2>3
<1>9. \A n \in 1..N : ends[n - 1] \in V => ends[n] = step[n][ends[n - 1]]
  BY <1>3, <1>8
<1>10. Loops(ends, N, V, base, step)
  BY <1>1, <1>2, <1>8, <1>9, LoopIs
<1> QED
  BY <1>4, <1>8, <1>10 DEF Loops, N, V, base

(* Pages that begin alike end alike that far. *)
LEMMA EndsPrefix ==
  ASSUME NEW p \in Nat, NEW s \in Seq(AllocType), NEW t \in Seq(AllocType),
         Len(s) <= Len(t), \A i \in 1..Len(s) : t[i].size = s[i].size
  PROVE  \A n \in 0..Len(s) : Ends(p, t)[n] = Ends(p, s)[n]
<1> DEFINE S == {n \in 0..Len(s) : Ends(p, t)[n] = Ends(p, s)[n]}
<1>1. 0 \in S /\ Len(s) \in Nat
  BY EndsAre
<1>2. ASSUME NEW n \in 0..(Len(s) - 1), n \in S PROVE n + 1 \in S
  <2>1. n + 1 \in 1..Len(s) /\ n + 1 \in 1..Len(t) /\ (n + 1) - 1 = n
    OBVIOUS
  <2>2. /\ Ends(p, s)[n + 1] = Ends(p, s)[n] + s[n + 1].size
        /\ Ends(p, t)[n + 1] = Ends(p, t)[n] + t[n + 1].size
    BY <2>1, EndsAre
  <2> QED
    BY <1>2, <2>1, <2>2
<1> HIDE DEF S
<1>3. \A n \in 0..Len(s) : n \in S
  BY <1>1, <1>2, UpTo
<1> QED
  BY <1>3 DEF S

(* A page as it is laid out. *)
LEMMA LaidIs ==
  ASSUME NEW p, NEW s
  PROVE  /\ Laid(p, s).allocs = s /\ Laid(p, s).ends = Ends(p, s)
         /\ Laid(p, s).mapAt = Even(Ends(p, s)[Len(s)])
         /\ Laid(p, s).length = Even(Ends(p, s)[Len(s)]) + MapBytes(Len(s))
  BY DEF Laid

(***************************************************************************)
(* Padding.                                                                *)
(***************************************************************************)
(* A set of numbers up to N has a least one. *)
LEMMA Least ==
  ASSUME NEW N \in Nat, NEW E \in SUBSET (0..N), E # {}
  PROVE  \E k \in E : \A j \in E : k <= j
<1> SUFFICES ASSUME ~\E k \in E : \A j \in E : k <= j PROVE FALSE
  OBVIOUS
<1> DEFINE T == {n \in 0..N : \A j \in E : j > n}
<1>1. 0 \in T
  OBVIOUS
<1>2. ASSUME NEW n \in 0..(N - 1), n \in T PROVE n + 1 \in T
  <2>1. \A j \in E : j >= n + 1
    BY <1>2
  <2>2. n + 1 \notin E
    BY <2>1
  <2>3. \A j \in E : j > n + 1
    BY <2>1, <2>2
  <2> QED
    BY <2>3
<1> HIDE DEF T
<1>3. \A n \in 0..N : n \in T
  BY <1>1, <1>2, UpTo
<1>4. \A j \in E : j > N
  BY <1>3 DEF T
<1>5. PICK j : j \in E
  OBVIOUS
<1>6. j \in 0..N
  BY <1>5
<1> QED
  BY <1>4, <1>5, <1>6

(* A product grows with its factor. *)
LEMMA ProductGrows ==
  ASSUME NEW a \in Nat, NEW b \in Nat, NEW k \in Nat, a <= b
  PROVE  k * a <= k * b /\ k * a \in Nat
<1>1. PICK d \in Nat : b = a + d
  <2>1. b - a \in Nat /\ b = a + (b - a)
    OBVIOUS
  <2> QED
    BY <2>1
<1>2. k * b = k * a + k * d /\ k * d \in Nat
  BY <1>1
<1> QED
  BY <1>2

(* The least number of padding allocations that is enough: c - 2 * k bytes *)
(* are to be filled by k of them, and that is never less than k.           *)
LEMMA EnoughPadding ==
  ASSUME NEW c \in Nat, c >= 3, c <= MaxPage,
         NEW E, E = {k \in 1..MaxPage : c - 2 * k <= k * MaxAllocation},
         NEW need, need = CHOOSE k \in E : \A j \in E : k <= j
  PROVE  /\ need \in 1..MaxPage /\ c - 2 * need <= need * MaxAllocation
         /\ need <= c - 2 * need
<1>1. MaxPage \in Nat /\ MaxPage >= 3 /\ MaxAllocation \in Nat /\ MaxAllocation >= 3
  BY Constants
<1>2. MaxPage \in E
  <2>1. MaxPage * 3 <= MaxPage * MaxAllocation
    BY <1>1, ProductGrows
  <2> QED
    BY <1>1, <2>1
<1>3. E \in SUBSET (0..MaxPage) /\ E # {}
  <2>1. \A k \in 1..MaxPage : k \in 0..MaxPage
    BY <1>1
  <2> QED
    BY <1>2, <2>1
<1>4. \E k \in E : \A j \in E : k <= j
  BY <1>1, <1>3, Least
<1>5. need \in E /\ \A j \in E : need <= j
  BY <1>4
<1>6. need \in 1..MaxPage /\ c - 2 * need <= need * MaxAllocation
  BY <1>5
<1>7. CASE need = 1
  <2>1. 1 <= c - 2 * 1
    OBVIOUS
  <2>2. need <= c - 2 * need
    BY <1>7, <2>1
  <2> QED
    BY <1>6, <2>2
<1>8. CASE need # 1
  <2> DEFINE k == need - 1
  <2>1. k \in 1..MaxPage /\ k < need /\ need = k + 1
    BY <1>1, <1>6, <1>8
  <2> HIDE DEF k
  <2>2. k \notin E
    BY <1>5, <2>1
  <2>3. ~(c - 2 * k <= k * MaxAllocation)
    BY <2>1, <2>2
  <2>4. k * 3 <= k * MaxAllocation /\ k * MaxAllocation \in Nat
    BY <1>1, <2>1, ProductGrows
  <2>5. k \in Nat /\ k >= 1 /\ c \in Nat /\ c - 2 * k > k * 3
    BY <1>1, <2>1, <2>3, <2>4
  <2>6. k + 1 <= c - 2 * (k + 1)
    BY ONLY <2>5
  <2>7. need <= c - 2 * need
    BY <2>1, <2>6
  <2> QED
    BY <1>6, <2>7
<1> QED
  BY <1>6, <1>7, <1>8

(* The padding allocations share the bytes out to the last one. *)
LEMMA LeftIs ==
  ASSUME NEW need \in Nat \ {0}, NEW bytes \in Nat,
         need <= bytes, bytes <= need * MaxAllocation,
         NEW left, left = LeftToPad(need, bytes)
  PROVE  /\ left \in [0..need -> Nat] /\ left[0] = bytes /\ left[need] = 0
         /\ \A k \in 1..need : left[k - 1] - left[k] \in 1..MaxAllocation
<1> DEFINE Take(k, v) == IF v - (need - k) < MaxAllocation THEN v - (need - k) ELSE MaxAllocation
           V == Int
           step == [k \in 1..need |-> [v \in Int |-> v - Take(k, v)]]
           Is(g) == g = [k \in 0..need |-> IF k = 0 THEN bytes ELSE g[k - 1] - Take(k, g[k - 1])]
           chosen == CHOOSE g : Is(g)
<1>1. MaxAllocation \in Nat /\ MaxAllocation >= 3 /\ need \in Nat
  BY Constants
<1>2. \A k \in 1..need : \A v \in V : Take(k, v) \in Int
  BY <1>1
<1>3. left = chosen
  BY DEF LeftToPad
<1> HIDE DEF Take
<1>4. step \in Steps(need, V) /\ bytes \in V
  BY <1>2 DEF Steps
<1>5. \A k \in 1..need : \A v \in V : step[k][v] = v - Take(k, v)
  OBVIOUS
<1> HIDE DEF step, V
<1>6. PICK g : Loops(g, need, V, bytes, step)
  BY <1>1, <1>4, LoopExists
<1>7. Is(g)
  <2>1. ASSUME NEW k \in 1..need PROVE g[k] = g[k - 1] - Take(k, g[k - 1])
    <3>1. k - 1 \in 0..need
      BY <1>1
    <3>2. g[k - 1] \in V /\ g[k] = step[k][g[k - 1]]
      BY <1>6, <3>1 DEF Loops
    <3> QED
      BY <1>5, <3>2
  <2>2. g = [k \in 0..need |-> g[k]] /\ g[0] = bytes
    BY <1>6 DEF Loops
  <2>3. ASSUME NEW k \in 0..need
        PROVE  g[k] = IF k = 0 THEN bytes ELSE g[k - 1] - Take(k, g[k - 1])
    <3>1. k # 0 => k \in 1..need
      BY <1>1
    <3> QED
      BY <2>1, <2>2, <3>1
  <2> QED
    BY <2>2, <2>3
<1>8. Is(left)
  BY <1>3, <1>7
<1>9. /\ left = [k \in 0..need |-> left[k]] /\ left[0] = bytes
      /\ \A k \in 1..need : left[k] = left[k - 1] - Take(k, left[k - 1])
  <2>1. left = [k \in 0..need |-> left[k]]
    BY <1>8
  <2>2. \A k \in 0..need : left[k] = IF k = 0 THEN bytes ELSE left[k - 1] - Take(k, left[k - 1])
    BY <1>8
  <2>3. 0 \in 0..need /\ \A k \in 1..need : k \in 0..need /\ k # 0
    BY <1>1
  <2> HIDE DEF Is
  <2> QED
    BY <2>1, <2>2, <2>3
<1> HIDE DEF Is
<1> DEFINE S == {k \in 0..need : /\ left[k] \in Nat /\ need - k <= left[k]
                                /\ left[k] <= (need - k) * MaxAllocation}
<1>10. 0 \in S
  BY <1>9
<1>11. ASSUME NEW k \in 0..(need - 1), k \in S PROVE k + 1 \in S
  <2> DEFINE r == need - (k + 1)
             v == left[k]
  <2>1. r \in Nat /\ need - k = r + 1 /\ k + 1 \in 1..need /\ (k + 1) - 1 = k
    BY <1>1
  <2>2. v \in Nat /\ r + 1 <= v /\ v <= (r + 1) * MaxAllocation
    BY <1>11, <2>1
  <2>3. left[k + 1] = v - Take(k + 1, v)
    BY <1>9, <2>1
  <2>4. (r + 1) * MaxAllocation = r * MaxAllocation + MaxAllocation /\ r * MaxAllocation \in Nat
    BY <1>1, <2>1
  <2>5. r * 1 <= r * MaxAllocation
    BY <1>1, <2>1, ProductGrows
  <2>6. Take(k + 1, v) = IF v - r < MaxAllocation THEN v - r ELSE MaxAllocation
    BY DEF Take
  <2> HIDE DEF r, v
  <2>7. left[k + 1] \in Nat /\ r <= left[k + 1] /\ left[k + 1] <= r * MaxAllocation
    BY <1>1, <2>1, <2>2, <2>3, <2>4, <2>5, <2>6
  <2> QED
    BY <2>1, <2>7 DEF r
<1> HIDE DEF S
<1>12. \A k \in 0..need : k \in S
  BY <1>1, <1>10, <1>11, UpTo
<1>13. \A k \in 0..need : left[k] \in Nat /\ need - k <= left[k]
                           /\ left[k] <= (need - k) * MaxAllocation
  BY <1>12 DEF S
<1>14. left \in [0..need -> Nat] /\ left[need] = 0
  BY <1>1, <1>9, <1>13
<1>15. ASSUME NEW k \in 1..need PROVE left[k - 1] - left[k] \in 1..MaxAllocation
  <2>1. k - 1 \in 0..need /\ need - (k - 1) = need - k + 1 /\ need - k \in Nat
    BY <1>1
  <2>2. left[k - 1] \in Nat /\ need - k + 1 <= left[k - 1]
    BY <1>13, <2>1
  <2>3. left[k] = left[k - 1] - Take(k, left[k - 1])
    BY <1>9
  <2>4. Take(k, left[k - 1]) \in 1..MaxAllocation
    BY <1>1, <2>1, <2>2 DEF Take
  <2> QED
    BY <2>2, <2>3, <2>4
<1> QED
  BY <1>9, <1>14, <1>15

(* The padding of a page with three bytes to spare ends where its map begins. *)
LEMMA PaddingIs ==
  ASSUME NEW p \in Nat, NEW s \in Seq(AllocType), Laid(p, s).length + 3 <= MaxPage,
         NEW pad, pad = Padding(Laid(p, s))
  PROVE  /\ pad \in Seq(AllocType) /\ Len(pad) >= 1
         /\ \A k \in 1..Len(pad) : pad[k].size \in 1..MaxAllocation
         /\ Ends(p, s \o pad)[Len(s) + Len(pad)] = MaxPage - MapBytes(Len(s) + Len(pad))
<1> DEFINE N == Len(s)
           e == Ends(p, s)[N]
           room(k) == MaxPage - MapBytes(N + k) - e
           c == MaxPage - MapBytes(N) - e
           enough == {k \in 1..MaxPage : room(k) <= k * MaxAllocation}
           need == CHOOSE k \in enough : \A j \in enough : k <= j
           left == LeftToPad(need, room(need))
<1>1. N \in Nat /\ MaxPage \in Nat /\ MaxAllocation \in Nat
  BY Constants
<1>2. e \in Nat
  BY <1>1, EndsAre
<1>3. pad = IF room(need) < need THEN <<>>
            ELSE [k \in 1..need |-> Alloc("padding", 0, 0, left[k - 1] - left[k])]
  <2>1. pad = PaddingAfter(N, e)
    BY LaidIs DEF Padding
  <2> HIDE DEF N, e
  <2> QED
    BY <2>1 DEF PaddingAfter
<1>4. c \in Nat /\ c >= 3 /\ c <= MaxPage
  <2>1. Even(e) + MapBytes(N) + 3 <= MaxPage
    BY LaidIs
  <2>2. Even(e) \in Nat /\ e <= Even(e)
    BY <1>2, EvenIs
  <2> HIDE DEF e, N
  <2> QED
    BY <1>1, <1>2, <2>1, <2>2 DEF MapBytes
<1>5. \A k \in Nat : room(k) = c - 2 * k
  <2> HIDE DEF e, N
  <2> QED
    BY <1>1, <1>2 DEF MapBytes
<1>6. enough = {k \in 1..MaxPage : c - 2 * k <= k * MaxAllocation}
  <2> HIDE DEF room, c
  <2>1. \A k \in 1..MaxPage : k \in Nat
    BY <1>1
  <2> QED
    BY <1>5, <2>1
<1> HIDE DEF e, c, enough, N
<1>7. /\ need \in 1..MaxPage /\ c - 2 * need <= need * MaxAllocation
      /\ need <= c - 2 * need
  <2> HIDE DEF room
  <2> QED
    BY <1>4, <1>6, EnoughPadding
<1> HIDE DEF need
<1>8. room(need) = c - 2 * need /\ room(need) \in Nat /\ need \in Nat \ {0}
  <2> HIDE DEF room
  <2>1. need \in Nat \ {0}
    BY <1>1, <1>7
  <2>2. room(need) = c - 2 * need
    BY <1>5, <2>1
  <2>3. c - 2 * need \in Nat
    BY <1>4, <1>7, <2>1
  <2> QED
    BY <2>1, <2>2, <2>3
<1>a. room(need) = MaxPage - MapBytes(N + need) - e
  OBVIOUS
<1> HIDE DEF room
<1>9. /\ left \in [0..need -> Nat] /\ left[0] = room(need) /\ left[need] = 0
      /\ \A k \in 1..need : left[k - 1] - left[k] \in 1..MaxAllocation
  BY <1>7, <1>8, LeftIs
<1> HIDE DEF left
<1>10. pad = [k \in 1..need |-> Alloc("padding", 0, 0, left[k - 1] - left[k])]
  BY <1>3, <1>4, <1>7, <1>8
<1>11. ASSUME NEW k \in 1..need
       PROVE  /\ pad[k] \in AllocType /\ pad[k].size = left[k - 1] - left[k]
              /\ pad[k].size \in 1..MaxAllocation
  <2> DEFINE d == left[k - 1] - left[k]
  <2>1. pad[k] = Alloc("padding", 0, 0, d)
    BY <1>10
  <2>2. d \in 1..MaxAllocation
    BY <1>9
  <2>a. d = left[k - 1] - left[k]
    OBVIOUS
  <2> HIDE DEF d
  <2>3. d \in Nat
    BY <1>1, <2>2
  <2>4. Alloc("padding", 0, 0, d) \in AllocType /\ Alloc("padding", 0, 0, d).size = d
    <3>1. "padding" \in Whats /\ 0 \in Nat
      BY DEF Whats
    <3> QED
      BY <2>3, <3>1, AllocIs
  <2> QED
    BY <2>1, <2>2, <2>4, <2>a
<1>12. pad \in Seq(AllocType) /\ Len(pad) = need
  <2>1. pad \in [1..need -> AllocType]
    BY <1>10, <1>11
  <2> QED
    BY <1>8, <2>1
<1> DEFINE t == s \o pad
<1>13. /\ t \in Seq(AllocType) /\ Len(t) = N + need
       /\ \A i \in 1..N : t[i] = s[i]
       /\ \A k \in 1..need : t[N + k] = pad[k]
  <2> HIDE DEF AllocType
  <2> QED
    BY <1>12 DEF N
<1> HIDE DEF t
<1> DEFINE S == {k \in 0..need : Ends(p, t)[N + k] = e + room(need) - left[k]}
<1>14. 0 \in S
  <2>1. Ends(p, t)[N] = e
    <3>1. Len(s) <= Len(t) /\ \A i \in 1..Len(s) : t[i].size = s[i].size
      BY <1>1, <1>8, <1>13 DEF N
    <3>2. \A n \in 0..Len(s) : Ends(p, t)[n] = Ends(p, s)[n]
      BY <1>13, <3>1, EndsPrefix
    <3> QED
      BY <1>1, <3>2 DEF N, e
  <2> QED
    BY <1>1, <1>2, <1>8, <1>9, <2>1
<1>15. ASSUME NEW k \in 0..(need - 1), k \in S PROVE k + 1 \in S
  <2>1. /\ k + 1 \in 1..need /\ N + (k + 1) \in 1..Len(t) /\ (N + (k + 1)) - 1 = N + k
        /\ (k + 1) - 1 = k
    BY <1>1, <1>8, <1>13
  <2>2. Ends(p, t)[N + (k + 1)] = Ends(p, t)[N + k] + t[N + (k + 1)].size
    BY <1>13, <2>1, EndsAre
  <2>3. t[N + (k + 1)].size = left[k] - left[k + 1]
    <3>1. t[N + (k + 1)] = pad[k + 1]
      BY <1>13, <2>1
    <3>2. pad[k + 1].size = left[(k + 1) - 1] - left[k + 1]
      BY <1>11, <2>1
    <3> QED
      BY <2>1, <3>1, <3>2
  <2>4. left[k] \in Nat /\ left[k + 1] \in Nat
    <3>1. k \in 0..need /\ k + 1 \in 0..need
      BY <1>8
    <3> QED
      BY <1>9, <3>1
  <2>5. Ends(p, t)[N + k] = e + room(need) - left[k]
    BY <1>15
  <2>6. Ends(p, t)[N + (k + 1)] = e + room(need) - left[k + 1]
    BY <1>2, <1>8, <2>2, <2>3, <2>4, <2>5
  <2> QED
    BY <1>8, <2>1, <2>6
<1> HIDE DEF S
<1>16. \A k \in 0..need : k \in S
  BY <1>8, <1>14, <1>15, UpTo
<1>17. Ends(p, t)[N + need] = e + room(need) - left[need]
  BY <1>8, <1>16 DEF S
<1>18. MapBytes(N + need) \in Nat
  BY <1>1, <1>8 DEF MapBytes
<1>19. Ends(p, t)[N + need] = MaxPage - MapBytes(N + need)
  BY <1>1, <1>2, <1>9, <1>a, <1>17, <1>18
<1> QED
  BY <1>8, <1>11, <1>12, <1>19 DEF t, N

(* A page with three bytes to spare is filled, and keeps its allocations. *)
LEMMA FilledIs ==
  ASSUME NEW p \in Nat, NEW s \in Seq(AllocType), Laid(p, s).length + 3 <= MaxPage,
         \A i \in 1..Len(s) : s[i].size \in 1..MaxAllocation
  PROVE  /\ ~FillFails(Laid(p, s))
         /\ \E t \in Seq(AllocType) :
              /\ fill_heap_page(p, Laid(p, s)) = Laid(p, t) /\ Laid(p, t).length = MaxPage
              /\ Len(s) <= Len(t) /\ \A i \in 1..Len(s) : t[i] = s[i]
              /\ \A i \in 1..Len(t) : t[i].size \in 1..MaxAllocation
<1> DEFINE N == Len(s)
           pad == Padding(Laid(p, s))
           t == s \o pad
<1>1. N \in Nat /\ MaxPage \in Nat /\ MaxPage % 2 = 0
  BY HeapAssumption
<1>2. Laid(p, s).length # MaxPage
  <2>1. Ends(p, s)[N] \in Nat
    BY <1>1, EndsAre
  <2>2. Even(Ends(p, s)[N]) \in Nat
    BY <2>1, EvenIs
  <2>3. Laid(p, s).length \in Nat
    BY <1>1, <2>2, LaidIs DEF MapBytes
  <2> QED
    BY <1>1, <2>3
<1>3. /\ pad \in Seq(AllocType) /\ Len(pad) >= 1
      /\ \A k \in 1..Len(pad) : pad[k].size \in 1..MaxAllocation
      /\ Ends(p, s \o pad)[N + Len(pad)] = MaxPage - MapBytes(N + Len(pad))
  BY PaddingIs
<1> HIDE DEF pad
<1>4. ~FillFails(Laid(p, s))
  BY <1>3 DEF FillFails, pad
<1>5. fill_heap_page(p, Laid(p, s)) = Laid(p, t)
  BY <1>2, LaidIs DEF fill_heap_page, pad
<1>6. /\ t \in Seq(AllocType) /\ Len(t) = N + Len(pad)
      /\ \A i \in 1..N : t[i] = s[i]
      /\ \A k \in 1..Len(pad) : t[N + k] = pad[k]
  BY <1>3
<1>7. \A i \in 1..Len(t) : t[i].size \in 1..MaxAllocation
  <2> SUFFICES ASSUME NEW i \in 1..Len(t) PROVE t[i].size \in 1..MaxAllocation
    OBVIOUS
  <2>1. CASE i <= N
    BY <1>1, <1>6, <2>1
  <2>2. CASE i > N
    <3>1. i - N \in 1..Len(pad) /\ N + (i - N) = i
      BY <1>1, <1>3, <1>6, <2>2
    <3> QED
      BY <1>3, <1>6, <3>1
  <2> QED
    BY <1>1, <2>1, <2>2
<1>8. Laid(p, t).length = MaxPage
  <2> DEFINE n == Len(t)
             b == Ends(p, t)[n]
  <2>1. n \in Nat /\ b \in Nat /\ b = MaxPage - MapBytes(n)
    BY <1>3, <1>6, EndsAre
  <2>2. Laid(p, t).length = Even(b) + MapBytes(n)
    BY LaidIs
  <2> HIDE DEF n, b
  <2>3. MapBytes(n) = 2 * n + 6
    BY <2>1 DEF MapBytes
  <2>4. b % 2 = 0
    BY <1>1, <2>1, <2>3
  <2>5. Even(b) = b
    BY <2>1, <2>4, EvenIs
  <2> QED
    BY <1>1, <2>1, <2>2, <2>3, <2>5
<1> HIDE DEF t, N
<1>9. Len(s) <= Len(t) /\ \A i \in 1..Len(s) : t[i] = s[i]
  BY <1>1, <1>3, <1>6 DEF N
<1> QED
  BY <1>4, <1>5, <1>6, <1>7, <1>8, <1>9

-----------------------------------------------------------------------------
(***************************************************************************)
(* Pushing allocations.  A page always keeps three bytes to spare, and     *)
(* what a heap id names stays where it is.                                 *)
(***************************************************************************)
IdType == [page : Int, index : Int]

SizesOK(s) == \A i \in 1..Len(s) : s[i].size \in 1..MaxAllocation
PageOK(p, s) ==
  /\ s \in Seq(AllocType) /\ Len(s) \in 1..MaxIndex /\ SizesOK(s)
  /\ PageLength(p, s) + 3 <= MaxPage
PagesOK(pgs) ==
  /\ pgs \in Seq(Seq(AllocType)) /\ Len(pgs) <= MaxPages
  /\ \A p \in 1..Len(pgs) : PageOK(p, pgs[p])

\* The heap id names such an allocation on a continuation page.
Names(pgs, id, what, l, m) ==
  /\ id \in IdType /\ id.page \in 1..Len(pgs) /\ id.index \in 1..Len(pgs[id.page])
  /\ pgs[id.page][id.index].what = what /\ pgs[id.page][id.index].level = l
  /\ pgs[id.page][id.index].n = m

(* A heap id, field by field. *)
LEMMA HeapIdIs ==
  ASSUME NEW page \in Int, NEW index \in Int
  PROVE  /\ HeapId(page, index) \in IdType
         /\ HeapId(page, index).page = page /\ HeapId(page, index).index = index
  BY DEF HeapId, IdType

(* An allocation fits on a page of its own, under whatever header. *)
LEMMA AloneFits ==
  ASSUME NEW p \in Nat \ {0}, NEW a \in AllocType, a.size \in 1..MaxAllocation
  PROVE  PageOK(p, <<a>>)
<1> DEFINE s == <<a>>
<1>1. s \in Seq(AllocType) /\ Len(s) = 1 /\ s[1] = a
  OBVIOUS
<1> HIDE DEF s
<1>2. HeaderBytes(p) \in Nat /\ HeaderBytes(p) <= BitmapHeader
  <2>1. HeaderBytes(p) = IF p % BitmapLevels = RootLevels THEN BitmapHeader ELSE PageHeader
    BY DEF HeaderBytes
  <2> QED
    BY <2>1, HeaderIs, HeapAssumption
<1>3. Ends(p, s)[1] = HeaderBytes(p) + a.size
  <2>1. 1 \in 1..Len(s) /\ 1 - 1 = 0
    BY <1>1
  <2>2. Ends(p, s)[1] = Ends(p, s)[1 - 1] + s[1].size /\ Ends(p, s)[0] = HeaderBytes(p)
    BY <1>1, <2>1, EndsAre
  <2> QED
    BY <1>1, <2>1, <2>2
<1> DEFINE e == HeaderBytes(p) + a.size
<1>4. e \in Nat /\ e <= BitmapHeader + MaxAllocation
  BY <1>2, Constants
<1> HIDE DEF e
<1>5. Even(e) \in Nat /\ Even(e) <= e + 1
  BY <1>4, EvenIs
<1>6. PageLength(p, s) = Even(e) + MapBytes(1)
  <2>1. PageLength(p, s) = Even(Ends(p, s)[Len(s)]) + MapBytes(Len(s))
    BY LaidIs DEF PageLength
  <2> QED
    BY <1>1, <1>3, <2>1 DEF e
<1>7. PageLength(p, s) + 3 <= MaxPage
  <2>1. BitmapHeader + MaxAllocation + 12 <= MaxPage /\ BitmapHeader \in Nat
        /\ MaxAllocation \in Nat /\ MaxPage \in Nat
    BY HeapAssumption
  <2>2. MapBytes(1) = 8
    BY DEF MapBytes
  <2> QED
    BY <1>4, <1>5, <1>6, <2>1, <2>2
<1>8. Len(s) \in 1..MaxIndex
  BY <1>1, Constants
<1>9. SizesOK(s)
  BY <1>1 DEF SizesOK
<1> QED
  BY <1>1, <1>7, <1>8, <1>9 DEF PageOK, s

(* All but the last of a sequence. *)
LEMMA FrontIs ==
  ASSUME NEW S, NEW s \in Seq(S), s # <<>>
  PROVE  /\ Front(s) \in Seq(S) /\ Len(Front(s)) = Len(s) - 1
         /\ \A i \in 1..(Len(s) - 1) : Front(s)[i] = s[i]
<1> DEFINE n == Len(s) - 1
           f == [i \in 1..n |-> s[i]]
<1>1. n \in Nat /\ \A i \in 1..n : s[i] \in S
  OBVIOUS
<1> HIDE DEF n
<1>2. SubSeq(s, 1, n) = f
  BY <1>1
<1>3. f \in [1..n -> S]
  BY <1>1
<1>4. f \in Seq(S) /\ Len(f) = n
  BY <1>1, <1>3
<1>5. Front(s) = f
  BY <1>2 DEF Front, n
<1> QED
  BY <1>4, <1>5 DEF n

(* push_heap_allocation on the last page. *)
LEMMA PushedOnLast ==
  ASSUME PagesOK(pages), NEW a \in AllocType, a.size \in 1..MaxAllocation,
         OnLastPage(a), ~PushRefused(a)
  PROVE  /\ PagesOK(PushedPages(a))
         /\ Names(PushedPages(a), PushedId(a), a.what, a.level, a.n)
         /\ \A id, what, l, m : Names(pages, id, what, l, m) => Names(PushedPages(a), id, what, l, m)
<1> DEFINE P == Len(pages)
           s == pages[P]
           t == Append(s, a)
           new == PushedPages(a)
<1>1. pages \in Seq(Seq(AllocType)) /\ P \in Nat /\ P > 0 /\ P <= MaxPages
  BY DEF PagesOK, OnLastPage
<1>2. PageOK(P, s) /\ s \in Seq(AllocType)
  BY <1>1 DEF PagesOK, PageOK
<1>3. PushedId(a) = HeapId(P, Len(s) + 1) /\ Len(s) \in Nat
  BY <1>2 DEF PushedId, Last
<1>4. PushedId(a) \in IdType /\ PushedId(a).page = P /\ PushedId(a).index = Len(s) + 1
  BY <1>1, <1>3, HeapIdIs
<1>5. Len(s) + 1 <= MaxIndex
  BY <1>3, <1>4, Constants DEF PushRefused
<1>6. /\ t \in Seq(AllocType) /\ Len(t) = Len(s) + 1 /\ t[Len(s) + 1] = a
      /\ \A i \in 1..Len(s) : t[i] = s[i]
  BY <1>2
<1>7. PageOK(P, t)
  <2>1. PageLength(P, t) + 3 <= MaxPage
    BY DEF OnLastPage, RoomFor, Last
  <2>2. SizesOK(t)
    <3> SUFFICES ASSUME NEW i \in 1..Len(t) PROVE t[i].size \in 1..MaxAllocation
      BY DEF SizesOK
    <3>1. i = Len(s) + 1 \/ i \in 1..Len(s)
      BY <1>3, <1>6
    <3> QED
      BY <1>2, <1>6, <3>1 DEF PageOK, SizesOK
  <2>3. Len(t) \in 1..MaxIndex
    BY <1>3, <1>5, <1>6, Constants
  <2> QED
    BY <1>6, <2>1, <2>2, <2>3 DEF PageOK
<1>8. new = Append(Front(pages), t)
  BY DEF PushedPages, Last
<1> HIDE DEF t, new, s, P
<1>9. Front(pages) \in Seq(Seq(AllocType)) /\ Len(Front(pages)) = P - 1
      /\ \A p \in 1..(P - 1) : Front(pages)[p] = pages[p]
  <2>1. pages # <<>>
    BY <1>1 DEF P
  <2> HIDE DEF AllocType
  <2> QED
    BY <1>1, <2>1, FrontIs DEF P
<1>10. /\ new \in Seq(Seq(AllocType)) /\ Len(new) = P /\ new[P] = t
       /\ \A p \in 1..(P - 1) : new[p] = pages[p]
  BY <1>1, <1>6, <1>8, <1>9
<1>11. \A p \in 1..P : p = P \/ p \in 1..(P - 1)
  BY <1>1
<1>12. PagesOK(new)
  BY <1>1, <1>7, <1>10, <1>11 DEF PagesOK, P
<1>13. Names(new, PushedId(a), a.what, a.level, a.n)
  <2>1. P \in 1..Len(new) /\ Len(s) + 1 \in 1..Len(t)
    BY <1>1, <1>3, <1>6, <1>10
  <2> QED
    BY <1>4, <1>6, <1>10, <2>1 DEF Names
<1>14. ASSUME NEW id, NEW what, NEW l, NEW m, Names(pages, id, what, l, m)
       PROVE  Names(new, id, what, l, m)
  <2>1. id.page \in 1..P /\ id.index \in 1..Len(pages[id.page])
    BY <1>14 DEF Names, P
  <2>2. CASE id.page = P
    <3>1. id.index \in 1..Len(s)
      BY <2>1, <2>2 DEF s
    <3>2. id.index \in 1..Len(t) /\ t[id.index] = pages[id.page][id.index]
      BY <1>3, <1>6, <2>2, <3>1 DEF s
    <3>3. id.page \in 1..Len(new) /\ new[id.page] = t
      BY <1>10, <2>1, <2>2
    <3> QED
      BY <1>14, <3>2, <3>3 DEF Names
  <2>3. CASE id.page \in 1..(P - 1)
    BY <1>10, <1>14, <2>1, <2>3 DEF Names
  <2> QED
    BY <1>11, <2>1, <2>2, <2>3
<1> QED
  BY <1>12, <1>13, <1>14 DEF new

(* push_heap_allocation on a new page. *)
LEMMA PushedOnNew ==
  ASSUME PagesOK(pages), NEW a \in AllocType, a.size \in 1..MaxAllocation,
         ~OnLastPage(a), ~PushRefused(a)
  PROVE  /\ PagesOK(PushedPages(a))
         /\ Names(PushedPages(a), PushedId(a), a.what, a.level, a.n)
         /\ \A id, what, l, m : Names(pages, id, what, l, m) => Names(PushedPages(a), id, what, l, m)
<1> DEFINE P == Len(pages)
           new == PushedPages(a)
<1>1. pages \in Seq(Seq(AllocType)) /\ P \in Nat
  BY DEF PagesOK
<1>2. PushedId(a) = HeapId(P + 1, 1)
  BY DEF PushedId
<1>3. PushedId(a) \in IdType /\ PushedId(a).page = P + 1 /\ PushedId(a).index = 1
  BY <1>1, <1>2, HeapIdIs
<1>4. P + 1 <= MaxPages
  BY <1>1, <1>3, Constants DEF PushRefused
<1>5. PageOK(P + 1, <<a>>) /\ <<a>> \in Seq(AllocType)
  BY <1>1, AloneFits DEF PageOK
<1>6. new = Append(pages, <<a>>)
  BY DEF PushedPages
<1> HIDE DEF new
<1>7. /\ new \in Seq(Seq(AllocType)) /\ Len(new) = P + 1 /\ new[P + 1] = <<a>>
      /\ \A p \in 1..P : new[p] = pages[p]
  BY <1>1, <1>5, <1>6
<1>8. PagesOK(new)
  <2>1. \A p \in 1..(P + 1) : p = P + 1 \/ p \in 1..P
    BY <1>1
  <2> QED
    BY <1>4, <1>5, <1>7, <2>1 DEF PagesOK
<1>9. Names(new, PushedId(a), a.what, a.level, a.n)
  <2>1. P + 1 \in 1..Len(new) /\ 1 \in 1..Len(<<a>>) /\ <<a>>[1] = a
    BY <1>1, <1>7
  <2> QED
    BY <1>3, <1>7, <2>1 DEF Names
<1>10. ASSUME NEW id, NEW what, NEW l, NEW m, Names(pages, id, what, l, m)
       PROVE  Names(new, id, what, l, m)
  <2>1. id.page \in 1..P /\ id.page \in 1..Len(new)
    BY <1>1, <1>7, <1>10 DEF Names
  <2> QED
    BY <1>7, <1>10, <2>1 DEF Names
<1> QED
  BY <1>8, <1>9, <1>10 DEF new

(* push_heap_allocation: either way.  It is refused at a limit only. *)
LEMMA Pushed ==
  ASSUME PagesOK(pages), NEW a \in AllocType, a.size \in 1..MaxAllocation
  PROVE  /\ PushRefused(a) =>
              Len(pages) = MaxPages \/ \E p \in DOMAIN pages : Len(pages[p]) = MaxIndex
         /\ ~PushRefused(a) =>
              /\ PagesOK(PushedPages(a))
              /\ Names(PushedPages(a), PushedId(a), a.what, a.level, a.n)
              /\ \A id, what, l, m :
                   Names(pages, id, what, l, m) => Names(PushedPages(a), id, what, l, m)
<1> DEFINE P == Len(pages)
<1>1. pages \in Seq(Seq(AllocType)) /\ P \in Nat /\ P <= MaxPages
  BY DEF PagesOK
<1>2. ASSUME PushRefused(a), OnLastPage(a)
      PROVE  \E p \in DOMAIN pages : Len(pages[p]) = MaxIndex
  <2>1. P \in DOMAIN pages /\ P > 0
    BY <1>1, <1>2 DEF OnLastPage
  <2>2. Len(pages[P]) \in 1..MaxIndex
    BY <1>1, <2>1 DEF PagesOK, PageOK
  <2>3. PushedId(a) = HeapId(P, Len(pages[P]) + 1)
    BY <1>2 DEF PushedId, Last
  <2>4. PushedId(a).page = P /\ PushedId(a).index = Len(pages[P]) + 1
    BY <1>1, <2>2, <2>3, HeapIdIs
  <2>5. Len(pages[P]) = MaxIndex
    BY <1>1, <1>2, <2>2, <2>4, Constants DEF PushRefused
  <2> QED
    BY <2>1, <2>5
<1>3. ASSUME PushRefused(a), ~OnLastPage(a) PROVE P = MaxPages
  <2>1. PushedId(a) = HeapId(P + 1, 1)
    BY <1>3 DEF PushedId
  <2>2. PushedId(a).page = P + 1 /\ PushedId(a).index = 1
    BY <1>1, <2>1, HeapIdIs
  <2> QED
    BY <1>1, <1>3, <2>2, Constants DEF PushRefused
<1>4. CASE OnLastPage(a)
  BY <1>2, <1>4, PushedOnLast
<1>5. CASE ~OnLastPage(a)
  BY <1>3, <1>5, PushedOnNew
<1> QED
  BY <1>4, <1>5

-----------------------------------------------------------------------------
(***************************************************************************)
(* The compact form.                                                       *)
(***************************************************************************)
LEMMA FilledAre ==
  ASSUME values \in Seq(Nat)
  PROVE  /\ Filled \in [0..Len(values) -> Seq(Nat)] /\ Filled[0] = <<>>
         /\ \A n \in 1..Len(values) :
              Filled[n] = IF OnHeap(n) THEN Append(Filled[n - 1], n) ELSE Filled[n - 1]
<1> DEFINE N == Len(values)
           V == Seq(Nat)
           base == <<>>
           Add(n, v) == IF OnHeap(n) THEN Append(v, n) ELSE v
           step == [n \in 1..N |-> [v \in V |-> Add(n, v)]]
           Is(g) == g = [n \in 0..N |-> IF n = 0 THEN base ELSE Add(n, g[n - 1])]
           chosen == CHOOSE g : Is(g)
<1>1. N \in Nat /\ base \in V /\ \A n \in 1..N : \A v \in V : Add(n, v) \in V
  OBVIOUS
<1>2. Filled = chosen
  BY DEF Filled
<1>3. \A n : \A v : Add(n, v) = IF OnHeap(n) THEN Append(v, n) ELSE v
  OBVIOUS
<1> HIDE DEF Add, V
<1>4. step \in Steps(N, V)
  BY <1>1 DEF Steps
<1>5. \A n \in 1..N : \A v \in V : step[n][v] = Add(n, v)
  OBVIOUS
<1> HIDE DEF step, N, base
<1>6. PICK g : Loops(g, N, V, base, step)
  BY <1>1, <1>4, LoopExists
<1>7. Is(g)
  <2>1. ASSUME NEW n \in 1..N PROVE g[n] = Add(n, g[n - 1])
    <3>1. n - 1 \in 0..N
      BY <1>1
    <3>2. g[n - 1] \in V /\ g[n] = step[n][g[n - 1]]
      BY <1>6, <3>1 DEF Loops
    <3> QED
      BY <1>5, <3>2
  <2>2. g = [n \in 0..N |-> g[n]] /\ g[0] = base
    BY <1>6 DEF Loops
  <2>3. ASSUME NEW n \in 0..N PROVE g[n] = IF n = 0 THEN base ELSE Add(n, g[n - 1])
    <3>1. n # 0 => n \in 1..N
      BY <1>1
    <3> QED
      BY <2>1, <2>2, <3>1
  <2> QED
    BY <2>2, <2>3
<1>8. Is(Filled)
  BY <1>2, <1>7
<1> DEFINE f == Filled
<1> HIDE DEF f
<1>9. /\ f = [n \in 0..N |-> f[n]] /\ f[0] = base
      /\ \A n \in 1..N : f[n] = Add(n, f[n - 1])
  <2>1. f = [n \in 0..N |-> f[n]]
    BY <1>8 DEF f
  <2>2. \A n \in 0..N : f[n] = IF n = 0 THEN base ELSE Add(n, f[n - 1])
    BY <1>8 DEF f
  <2>3. 0 \in 0..N /\ \A n \in 1..N : n \in 0..N /\ n # 0
    BY <1>1
  <2> HIDE DEF Is
  <2> QED
    BY <2>1, <2>2, <2>3
<1>10. \A n \in 1..N : f[n - 1] \in V => f[n] = step[n][f[n - 1]]
  BY <1>5, <1>9
<1>11. Loops(f, N, V, base, step)
  BY <1>1, <1>4, <1>9, <1>10, LoopIs
<1> QED
  BY <1>3, <1>9, <1>11 DEF Loops, f, N, V, base

(* The n-th value is the last of the values pushed so far, and stays there. *)
LEMMA FilledHolds ==
  ASSUME values \in Seq(Nat), NEW n \in 0..Len(values)
  PROVE  /\ \A k \in 1..Len(Filled[n]) : Filled[n][k] \in 1..n /\ OnHeap(Filled[n][k])
         /\ \A m \in 1..n : OnHeap(m) =>
              Len(Filled[m]) \in 1..Len(Filled[n]) /\ Filled[n][Len(Filled[m])] = m
<1> DEFINE N == Len(values)
           Sound(i) == \A k \in 1..Len(Filled[i]) : Filled[i][k] \in 1..i /\ OnHeap(Filled[i][k])
           Whole(i) == \A m \in 1..i : OnHeap(m) =>
              Len(Filled[m]) \in 1..Len(Filled[i]) /\ Filled[i][Len(Filled[m])] = m
           S == {i \in 0..N : Sound(i) /\ Whole(i)}
<1>1. N \in Nat
  OBVIOUS
<1>2. 0 \in S
  BY FilledAre
<1>3. ASSUME NEW i \in 0..(N - 1), i \in S PROVE i + 1 \in S
  <2> DEFINE j == i + 1
             old == Filled[i]
             new == Filled[j]
  <2>1. j \in 1..N /\ j - 1 = i /\ i \in 0..N /\ j \in 0..N /\ i \in Nat
    BY <1>1
  <2>2. old \in Seq(Nat) /\ new \in Seq(Nat) /\ new = IF OnHeap(j) THEN Append(old, j) ELSE old
    BY <2>1, FilledAre
  <2>3. Sound(i) /\ Whole(i)
    BY <1>3
  <2>4. \A m \in 1..j : m = j \/ m \in 1..i
    BY <2>1
  <2>5. CASE ~OnHeap(j)
    <3>1. new = old
      BY <2>2, <2>5
    <3>2. Sound(j)
      BY <2>1, <2>3, <3>1
    <3>3. Whole(j)
      BY <2>3, <2>4, <2>5, <3>1
    <3> QED
      BY <2>1, <3>2, <3>3
  <2>6. CASE OnHeap(j)
    <3>1. /\ Len(new) = Len(old) + 1 /\ Len(old) \in Nat /\ new[Len(old) + 1] = j
          /\ \A k \in 1..Len(old) : new[k] = old[k]
      BY <2>1, <2>2, <2>6
    <3>2. ASSUME NEW k \in 1..Len(new) PROVE new[k] \in 1..j /\ OnHeap(new[k])
      <4>1. CASE k = Len(old) + 1
        <5>1. new[k] = j
          BY <3>1, <4>1
        <5> QED
          BY <2>1, <2>6, <5>1
      <4>2. CASE k \in 1..Len(old)
        <5>1. new[k] = old[k] /\ old[k] \in 1..i /\ OnHeap(old[k])
          BY <2>3, <3>1, <4>2
        <5>2. old[k] \in 1..j
          BY <2>1, <5>1
        <5> QED
          BY <5>1, <5>2
      <4>3. k = Len(old) + 1 \/ k \in 1..Len(old)
        BY <3>1
      <4> QED
        BY <4>1, <4>2, <4>3
    <3>3. ASSUME NEW m \in 1..j, OnHeap(m)
          PROVE  Len(Filled[m]) \in 1..Len(new) /\ new[Len(Filled[m])] = m
      <4>1. CASE m = j
        BY <3>1, <4>1
      <4>2. CASE m \in 1..i
        <5>1. Len(Filled[m]) \in 1..Len(old) /\ old[Len(Filled[m])] = m
          BY <2>3, <3>3, <4>2
        <5> HIDE DEF old, new
        <5>2. new[Len(Filled[m])] = m
          BY <3>1, <5>1
        <5>3. Len(Filled[m]) \in 1..Len(new)
          BY <3>1, <5>1
        <5> QED
          BY <5>2, <5>3
      <4> QED
        BY <2>4, <4>1, <4>2
    <3>4. Sound(j) /\ Whole(j)
      BY <3>2, <3>3
    <3> QED
      BY <2>1, <3>4
  <2> QED
    BY <2>5, <2>6
<1> HIDE DEF S
<1>4. \A i \in 0..N : i \in S
  BY <1>1, <1>2, <1>3, UpTo
<1> QED
  BY <1>4 DEF S

(* Two sequences in a row, element by element. *)
LEMMA ConcatIs ==
  ASSUME NEW S, NEW s \in Seq(S), NEW t \in Seq(S)
  PROVE  /\ s \o t \in Seq(S) /\ Len(s \o t) = Len(s) + Len(t)
         /\ \A i \in 1..Len(s) : (s \o t)[i] = s[i]
         /\ \A i \in 1..Len(t) : (s \o t)[Len(s) + i] = t[i]
  OBVIOUS

(* Three sequences in a row: where the second one is. *)
LEMMA ThreeIs ==
  ASSUME NEW S, NEW s \in Seq(S), NEW t \in Seq(S), NEW u \in Seq(S)
  PROVE  /\ (s \o t) \o u \in Seq(S) /\ Len((s \o t) \o u) = (Len(s) + Len(t)) + Len(u)
         /\ \A i \in 1..Len(t) : ((s \o t) \o u)[Len(s) + i] = t[i]
<1>0. /\ s \o t \in Seq(S) /\ Len(s \o t) = Len(s) + Len(t)
      /\ \A i \in 1..Len(t) : (s \o t)[Len(s) + i] = t[i]
  BY ConcatIs
<1>1. PICK y : /\ y = s \o t /\ y \in Seq(S) /\ Len(y) = Len(s) + Len(t)
               /\ \A i \in 1..Len(t) : y[Len(s) + i] = t[i]
  BY <1>0
<1>2. /\ y \o u \in Seq(S) /\ Len(y \o u) = Len(y) + Len(u)
      /\ \A i \in 1..Len(y) : (y \o u)[i] = y[i]
  BY <1>1, ConcatIs
<1>3. Len(s) \in Nat /\ Len(t) \in Nat /\ \A i \in 1..Len(t) : Len(s) + i \in 1..(Len(s) + Len(t))
  OBVIOUS
<1> QED
  BY <1>1, <1>2, <1>3

(* An allocation that is not empty. *)
LEMMA SizedAlloc ==
  ASSUME NEW what \in Whats, NEW l \in Nat, NEW m \in Nat, NEW bytes \in Nat \ {0}
  PROVE  Alloc(what, l, m, bytes) \in {a \in AllocType : a.size \in Nat \ {0}}
<1>1. Alloc(what, l, m, bytes) \in AllocType /\ Alloc(what, l, m, bytes).size = bytes
  BY AllocIs
<1> QED
  BY <1>1

(* The allocations of the compact page: the head, the node, the values. *)
LEMMA CompactIs ==
  ASSUME values \in Seq(Nat), values # <<>>, kind \in Kinds,
         NEW base, base = IF kind = "table" THEN 4 ELSE 2
  PROVE  /\ CompactAllocs \in Seq(AllocType)
         /\ \A i \in 1..Len(CompactAllocs) : CompactAllocs[i].size \in Nat \ {0}
         /\ Len(HeadAllocs) \in 1..2 /\ Len(HeadAllocs) + 1 \in 1..Len(CompactAllocs)
         /\ CompactAllocs[Len(HeadAllocs) + 1].what = "node"
         /\ CompactAllocs[Len(HeadAllocs) + 1].level = 0
         /\ CompactAllocs[Len(HeadAllocs) + 1].n = 1
         /\ \A m \in 1..Len(values) : OnHeap(m) =>
              /\ Len(Filled[m]) > 0
              /\ base + Len(Filled[m]) \in 1..Len(CompactAllocs)
              /\ CompactAllocs[base + Len(Filled[m])] = Alloc("value", 0, m, values[m])
<1> DEFINE N == Len(values)
           filled == Filled[N]
           Fixed == {a \in AllocType : a.size \in Nat \ {0}}
           col == Alloc("columns", 0, 0, HeadBytes)
           top == Alloc("tree", 0, 0, HeadBytes)
           nod == Alloc("node", 0, 1, LeafRecord * N)
           mat == Alloc("matrix", 0, 0, RowBytes * N)
           front == HeadAllocs \o <<nod>> \o (IF kind = "table" THEN <<mat>> ELSE <<>>)
           vals == [k \in 1..Len(filled) |-> Alloc("value", 0, filled[k], values[filled[k]])]
<1>1. N \in Nat \ {0} /\ LeafRecord * N \in Nat \ {0} /\ RowBytes * N \in Nat \ {0}
      /\ HeadBytes \in Nat \ {0}
  <2>1. N \in Nat \ {0}
    OBVIOUS
  <2> HIDE DEF N
  <2> QED
    BY <2>1, Constants
<1>2. col \in Fixed /\ top \in Fixed /\ nod \in Fixed /\ mat \in Fixed
  <2>1. /\ "columns" \in Whats /\ "tree" \in Whats /\ "node" \in Whats /\ "matrix" \in Whats
    BY DEF Whats
  <2> HIDE DEF N
  <2> QED
    BY <1>1, <2>1, SizedAlloc
<1>3. nod.what = "node" /\ nod.level = 0 /\ nod.n = 1
  BY DEF Alloc
<1>4. HeadAllocs = IF kind = "table" THEN <<col, top>> ELSE <<top>>
  BY DEF HeadAllocs
<1>5. CompactAllocs = front \o vals
  BY DEF CompactAllocs
<1> HIDE DEF col, top, nod, mat, Fixed
<1>6. /\ front \in Seq(Fixed) /\ Len(front) = base /\ Len(HeadAllocs) \in 1..2
      /\ Len(HeadAllocs) + 1 \in 1..Len(front) /\ front[Len(HeadAllocs) + 1] = nod
  <2> DEFINE h == HeadAllocs
             x == IF kind = "table" THEN <<mat>> ELSE <<>>
             one == <<nod>>
  <2>1. /\ h \in Seq(Fixed) /\ Len(h) = IF kind = "table" THEN 2 ELSE 1
        /\ x \in Seq(Fixed) /\ Len(x) = IF kind = "table" THEN 1 ELSE 0
        /\ one \in Seq(Fixed) /\ Len(one) = 1 /\ one[1] = nod
    BY <1>2, <1>4
  <2>2. front = (h \o one) \o x
    OBVIOUS
  <2> HIDE DEF h, x, one, front
  <2>3. /\ front \in Seq(Fixed) /\ Len(front) = Len(h) + 1 + Len(x)
        /\ front[Len(h) + 1] = nod
    <3>1. h \in Seq(Fixed) /\ one \in Seq(Fixed) /\ x \in Seq(Fixed)
      BY <2>1
    <3>2. /\ (h \o one) \o x \in Seq(Fixed)
          /\ Len((h \o one) \o x) = (Len(h) + Len(one)) + Len(x)
          /\ \A i \in 1..Len(one) : ((h \o one) \o x)[Len(h) + i] = one[i]
      BY <3>1, ThreeIs
    <3>a. 1 \in 1..Len(one)
      BY <2>1
    <3>b. ((h \o one) \o x)[Len(h) + 1] = one[1]
      BY <3>2, <3>a
    <3>3. front[Len(h) + 1] = one[1]
      BY <2>2, <3>b
    <3>4. Len(front) = Len(h) + 1 + Len(x)
      BY <2>1, <2>2, <3>2
    <3> QED
      BY <2>1, <2>2, <3>2, <3>3, <3>4
  <2>4. Len(h) \in 1..2 /\ Len(front) = base /\ Len(h) + 1 \in 1..Len(front)
    BY <2>1, <2>3
  <2> QED
    BY <2>3, <2>4 DEF h
<1>7. filled \in Seq(Nat) /\ Len(filled) \in Nat
      /\ \A k \in 1..Len(filled) : filled[k] \in 1..N /\ OnHeap(filled[k])
  BY <1>1, FilledAre, FilledHolds
<1>8. vals \in Seq(Fixed) /\ Len(vals) = Len(filled)
  <2>1. ASSUME NEW k \in 1..Len(filled)
        PROVE  Alloc("value", 0, filled[k], values[filled[k]]) \in Fixed
    <3> DEFINE m == filled[k]
               v == values[m]
    <3>1. m \in 1..N /\ OnHeap(m)
      BY <1>7
    <3> HIDE DEF m
    <3>2. m \in Nat /\ v \in Nat \ {0}
      BY <1>1, <3>1 DEF OnHeap
    <3>3. "value" \in Whats /\ 0 \in Nat
      BY DEF Whats
    <3> HIDE DEF v
    <3>4. Alloc("value", 0, m, v) \in AllocType /\ Alloc("value", 0, m, v).size = v
      BY <3>2, <3>3, AllocIs
    <3> QED
      BY <3>2, <3>4 DEF Fixed, m, v
  <2>2. vals \in [1..Len(filled) -> Fixed]
    BY <2>1
  <2> QED
    BY <1>7, <2>2
<1> HIDE DEF front
<1> DEFINE all == CompactAllocs
<1>9. /\ all \in Seq(Fixed) /\ Len(all) = base + Len(filled)
      /\ \A i \in 1..Len(front) : all[i] = front[i]
      /\ \A k \in 1..Len(filled) : all[base + k] = vals[k]
  <2> DEFINE t == vals
  <2>1. all = front \o t /\ t \in Seq(Fixed) /\ Len(t) = Len(filled) /\ t = vals
    BY <1>5, <1>8
  <2> HIDE DEF vals, filled, t, all
  <2>2. /\ all \in Seq(Fixed) /\ Len(all) = Len(front) + Len(t)
        /\ \A i \in 1..Len(front) : all[i] = front[i]
        /\ \A k \in 1..Len(t) : all[Len(front) + k] = t[k]
    <3>1. front \in Seq(Fixed) /\ t \in Seq(Fixed)
      BY <1>6, <2>1
    <3>2. /\ front \o t \in Seq(Fixed) /\ Len(front \o t) = Len(front) + Len(t)
          /\ \A i \in 1..Len(front) : (front \o t)[i] = front[i]
          /\ \A k \in 1..Len(t) : (front \o t)[Len(front) + k] = t[k]
      BY <3>1, ConcatIs
    <3> QED
      BY <2>1, <3>2
  <2> QED
    BY <1>6, <2>1, <2>2
<1>10. \A k \in 1..Len(filled) : vals[k] = Alloc("value", 0, filled[k], values[filled[k]])
  OBVIOUS
<1> HIDE DEF vals, all, filled
<1>11. ASSUME NEW m \in 1..N, OnHeap(m)
       PROVE  /\ Len(Filled[m]) > 0 /\ base + Len(Filled[m]) \in 1..Len(all)
              /\ all[base + Len(Filled[m])] = Alloc("value", 0, m, values[m])
  <2> DEFINE k == Len(Filled[m])
  <2>1. k \in 1..Len(filled) /\ filled[k] = m
    <3>1. N \in 0..Len(values)
      BY <1>1
    <3>2. \A i \in 1..N : OnHeap(i) =>
            Len(Filled[i]) \in 1..Len(Filled[N]) /\ Filled[N][Len(Filled[i])] = i
      BY <3>1, FilledHolds
    <3> QED
      BY <1>11, <3>2 DEF filled
  <2>2. base \in Nat
    OBVIOUS
  <2> HIDE DEF k
  <2>3. k > 0 /\ base + k \in 1..Len(all)
    BY <1>7, <1>9, <2>1, <2>2
  <2>4. all[base + k] = Alloc("value", 0, m, values[m])
    BY <1>9, <1>10, <2>1
  <2> QED
    BY <2>3, <2>4 DEF k
<1>12. all \in Seq(AllocType) /\ \A i \in 1..Len(all) : all[i].size \in Nat \ {0}
  <2>1. \A a \in Fixed : a \in AllocType /\ a.size \in Nat \ {0}
    BY DEF Fixed
  <2>2. \A i \in 1..Len(all) : all[i] \in Fixed
    BY <1>9
  <2>3. all \in Seq(AllocType)
    BY <1>9, <2>1
  <2> QED
    BY <2>1, <2>2, <2>3
<1>13. Len(HeadAllocs) + 1 \in 1..Len(all) /\ all[Len(HeadAllocs) + 1] = nod
  BY <1>6, <1>7, <1>9
<1> QED
  BY <1>3, <1>6, <1>11, <1>12, <1>13 DEF all

-----------------------------------------------------------------------------
(***************************************************************************)
(* The inductive invariant.  While the external form grows, every id of a  *)
(* value and of a node names its allocation on the pages so far, and the   *)
(* k-th node of a level covers the k-th run of entries below it.           *)
(***************************************************************************)
NodeType == [from : Nat, to : Nat, id : IdType]
Phases == {"input", "values", "pages", "built", "failed", "refused"}

TypeOK ==
  /\ kind \in Kinds /\ values \in Seq(Nat) /\ phase \in Phases /\ level \in Nat
  /\ ids \in Seq(IdType) /\ tree \in Seq(Seq(NodeType)) /\ above \in Seq(NodeType)

IdOK(pgs, n, id) ==
  \/ values[n] = 0 /\ id = NoId
  \/ (values[n] > MaxAllocation \/ ~OnHeap(n)) /\ id = InNode(n)
  \/ Names(pgs, id, "value", 0, n)

\* The nodes of level l so far, over `below` entries, `per` to a node.
LevelOK(pgs, nodes, l, per, below) ==
  \A k \in 1..Len(nodes) :
    /\ nodes[k].from = (k - 1) * per + 1 /\ nodes[k].from <= below
    /\ nodes[k].to = IF k * per < below THEN k * per ELSE below
    /\ Names(pgs, nodes[k].id, "node", l, k)

\* Entries below level l: records, or the nodes of the level below.
Entries(l) == IF l = 0 THEN Len(values) ELSE Len(tree[l])
\* Level l is finished.
LevelWhole(l) ==
  /\ Len(tree[l + 1]) >= 1 /\ Entries(l) <= Len(tree[l + 1]) * PerNode(l)
  /\ LevelOK(pages, tree[l + 1], l, PerNode(l), Entries(l))

Begun == phase = "input" => pages = <<>> /\ ids = <<>> /\ tree = <<>> /\ above = <<>> /\ level = 0
Growing ==
  phase \in {"values", "pages"} =>
    /\ values # <<>> /\ Len(ids) <= Len(values)
    /\ \A n \in 1..Len(ids) : IdOK(pages, n, ids[n])
    /\ Len(ids) < Len(values) => tree = <<>> /\ above = <<>> /\ level = 0
    /\ \A l \in 0..(Len(tree) - 1) : LevelWhole(l)
    /\ phase = "values" =>
         Len(tree) = level /\ LevelOK(pages, above, level, PerNode(level), Entries(level))
    /\ phase = "pages" =>
         Len(tree) = level + 1 /\ Len(tree[level + 1]) = 1 /\ Len(ids) = Len(values)

HeapInv == TypeOK /\ PagesOK(pages) /\ Begun /\ Growing /\ HeapSound

(* The heap before its first record. *)
LEMMA InitHeap == Init => HeapInv
<1> SUFFICES ASSUME Init PROVE HeapInv
  OBVIOUS
<1> USE DEF Init
<1>1. TypeOK
  BY DEF TypeOK, Phases
<1>2. PagesOK(pages)
  BY Constants DEF PagesOK
<1>3. Begun /\ Growing /\ HeapSound
  BY DEF Begun, Growing, HeapSound
<1> QED
  BY <1>1, <1>2, <1>3 DEF HeapInv

(* Whether a table is refused depends on its records only. *)
LEMMA RefusalStays ==
  ASSUME UNCHANGED <<kind, values>>, TableRefused
  PROVE  TableRefused'
<1>1. \A n : OnHeap(n)' <=> OnHeap(n)
  BY DEF OnHeap
<1>2. Filled' = Filled
  BY <1>1 DEF Filled
<1>3. CompactAllocs' = CompactAllocs
  BY <1>2 DEF CompactAllocs, HeadAllocs
<1> QED
  BY <1>3 DEF TableRefused, Nameable

(* Nothing happens to a heap that is finished. *)
LEMMA StutterHeap == HeapInv /\ UNCHANGED vars => HeapInv'
<1> SUFFICES ASSUME HeapInv, UNCHANGED vars PROVE HeapInv'
  OBVIOUS
<1> USE DEF vars
<1>1. TypeOK'
  BY DEF HeapInv, TypeOK
<1>2. PagesOK(pages)'
  BY DEF HeapInv
<1>3. Begun'
  BY DEF HeapInv, Begun
<1>4. Growing'
  BY DEF HeapInv, Growing, LevelWhole, Entries, IdOK, OnHeap, PerNode, EntryBytes
<1>5. HeapSound'
  <2>1. TreeSound => TreeSound'
    BY DEF TreeSound, Resolves, Found
  <2>2. \A p : LevelSound(p) => LevelSound(p)'
    BY DEF LevelSound
  <2>3. \A p : PageSound(p) => PageSound(p)'
    BY DEF PageSound
  <2>4. \A id, what, l, m : Resolves(id, what, l, m) => Resolves(id, what, l, m)'
    BY DEF Resolves, Found
  <2>5. \A m : OnHeap(m)' <=> OnHeap(m)
    BY DEF OnHeap
  <2>6. HeapSound
    BY DEF HeapInv
  <2>7. TableRefused => TableRefused'
    BY RefusalStays
  <2> QED
    BY <2>1, <2>2, <2>3, <2>4, <2>5, <2>6, <2>7 DEF HeapSound, Fits
<1> QED
  BY <1>1, <1>2, <1>3, <1>4, <1>5 DEF HeapInv

(* A record more. *)
LEMMA AddRecordHeap ==
  ASSUME HeapInv, NEW size \in Sizes, AddRecord(size)
  PROVE  HeapInv'
<1> USE DEF AddRecord
<1>0. size \in Nat
  BY HeapAssumption
<1>1. TypeOK'
  BY <1>0 DEF HeapInv, TypeOK
<1>2. PagesOK(pages)'
  BY DEF HeapInv
<1>3. Begun' /\ Growing' /\ HeapSound'
  BY DEF HeapInv, Begun, Growing, HeapSound
<1> QED
  BY <1>1, <1>2, <1>3 DEF HeapInv

(* The heap does not fit on one page: the external form begins. *)
LEMMA BeginHeap == HeapInv /\ BeginExternal => HeapInv'
<1> SUFFICES ASSUME HeapInv, BeginExternal PROVE HeapInv'
  OBVIOUS
<1> USE DEF BeginExternal
<1>0. pages = <<>> /\ ids = <<>> /\ tree = <<>> /\ above = <<>> /\ level = 0
  BY DEF HeapInv, Begun
<1>1. TypeOK'
  BY DEF HeapInv, TypeOK, Phases
<1>2. PagesOK(pages)'
  BY DEF HeapInv
<1>3. Begun' /\ HeapSound'
  <2>1. CASE TableRefused
    BY <2>1, RefusalStays DEF Begun, HeapSound
  <2>2. CASE ~TableRefused
    BY <2>2 DEF Begun, HeapSound
  <2> QED
    BY <2>1, <2>2
<1>4. Growing'
  <2>1. Len(ids') = 0 /\ Len(tree') = 0 /\ Len(above') = 0 /\ Len(values') \in Nat
    BY <1>0 DEF HeapInv, TypeOK
  <2>2. LevelOK(pages, above, level, PerNode(level), Entries(level))'
    BY <2>1 DEF LevelOK
  <2> QED
    BY <1>0, <2>1, <2>2 DEF Growing
<1> QED
  BY <1>1, <1>2, <1>3, <1>4 DEF HeapInv

(* One id more, and the pages it needs. *)
LEMMA GrowIds ==
  ASSUME HeapInv, phase = "values", Len(ids) < Len(values),
         NEW id \in IdType, ids' = Append(ids, id),
         UNCHANGED <<kind, values, tree, above, level, built, phase>>,
         PagesOK(pages'), IdOK(pages', Len(ids) + 1, id),
         \A i, what, l, m : Names(pages, i, what, l, m) => Names(pages', i, what, l, m)
  PROVE  HeapInv'
<1>0. /\ tree = <<>> /\ above = <<>> /\ level = 0 /\ values # <<>>
      /\ \A n \in 1..Len(ids) : IdOK(pages, n, ids[n])
      /\ TypeOK /\ Len(ids) \in Nat /\ Len(values) \in Nat
  BY DEF HeapInv, Growing, TypeOK
<1>1. TypeOK'
  BY <1>0 DEF TypeOK
<1>2. Begun' /\ HeapSound'
  BY DEF Begun, HeapSound
<1>3. /\ Len(ids') = Len(ids) + 1 /\ ids'[Len(ids) + 1] = id
      /\ \A n \in 1..Len(ids) : ids'[n] = ids[n]
  BY <1>0 DEF TypeOK
<1>4. \A n \in 1..Len(ids') : IdOK(pages, n, ids[n])'
  <2> SUFFICES ASSUME NEW n \in 1..Len(ids') PROVE IdOK(pages, n, ids[n])'
    OBVIOUS
  <2>1. CASE n = Len(ids) + 1
    BY <1>3, <2>1 DEF IdOK, OnHeap
  <2>2. CASE n \in 1..Len(ids)
    <3>1. IdOK(pages, n, ids[n]) /\ ids'[n] = ids[n]
      BY <1>0, <1>3, <2>2
    <3> QED
      BY <3>1 DEF IdOK, OnHeap
  <2> QED
    BY <1>0, <1>3, <2>1, <2>2
<1>5. Growing'
  <2>1. Len(tree') = 0 /\ Len(above') = 0
    BY <1>0
  <2>2. LevelOK(pages, above, level, PerNode(level), Entries(level))'
    BY <2>1 DEF LevelOK
  <2> QED
    BY <1>0, <1>3, <1>4, <2>1, <2>2 DEF Growing
<1> QED
  BY <1>1, <1>2, <1>5 DEF HeapInv

(* The refusal of a push, at the limits of heap ids. *)
LEMMA RefusedHeap ==
  ASSUME HeapInv, phase' = "refused",
         UNCHANGED <<kind, values, pages, ids, tree, above, level, built>>,
         Len(pages) = MaxPages \/ \E p \in DOMAIN pages : Len(pages[p]) = MaxIndex
  PROVE  HeapInv'
<1>1. TypeOK'
  BY DEF HeapInv, TypeOK, Phases
<1>2. PagesOK(pages)'
  BY DEF HeapInv
<1>3. Begun' /\ Growing' /\ HeapSound'
  BY DEF Begun, Growing, HeapSound
<1> QED
  BY <1>1, <1>2, <1>3 DEF HeapInv

(* write_external_table_value: one value, wherever it goes. *)
LEMMA PushValueHeap == HeapInv /\ PushValue => HeapInv'
<1> SUFFICES ASSUME HeapInv, PushValue PROVE HeapInv'
  OBVIOUS
<1> DEFINE n == Len(ids) + 1
           a == Alloc("value", 0, n, values[n])
<1>1. /\ phase = "values" /\ Len(ids) < Len(values)
      /\ UNCHANGED <<kind, values, tree, above, level, built>>
  BY DEF PushValue
<1>2. n \in Nat /\ values[n] \in Nat /\ n \in 1..Len(values)
  BY <1>1 DEF HeapInv, TypeOK
<1>3. a \in AllocType /\ a.what = "value" /\ a.level = 0 /\ a.n = n /\ a.size = values[n]
  <2>1. "value" \in Whats /\ 0 \in Nat
    BY DEF Whats
  <2> HIDE DEF n
  <2> QED
    BY <1>2, <2>1, AllocIs
<1>4. \/ a.size = 0 /\ ids' = Append(ids, NoId) /\ UNCHANGED <<pages, phase>>
      \/ /\ a.size > MaxAllocation \/ (a.size > 0 /\ ~OnHeap(n))
         /\ ids' = Append(ids, InNode(n)) /\ UNCHANGED <<pages, phase>>
      \/ /\ a.size \in 1..MaxAllocation /\ PushRefused(a)
         /\ phase' = "refused" /\ UNCHANGED <<pages, ids>>
      \/ /\ a.size \in 1..MaxAllocation /\ ~PushRefused(a)
         /\ pages' = PushedPages(a) /\ ids' = Append(ids, PushedId(a)) /\ UNCHANGED phase
  <2>1. a.size \in Nat /\ MaxAllocation \in Nat
    BY <1>2, <1>3, Constants
  <2>2. CASE a.size = 0
    BY <2>2 DEF PushValue
  <2>3. CASE a.size > MaxAllocation \/ (a.size > 0 /\ ~OnHeap(n))
    BY <2>1, <2>3 DEF PushValue
  <2>4. CASE a.size \in 1..MaxAllocation /\ OnHeap(n) /\ PushRefused(a)
    BY <2>1, <2>4 DEF PushValue
  <2>5. CASE a.size \in 1..MaxAllocation /\ OnHeap(n) /\ ~PushRefused(a)
    BY <2>1, <2>5 DEF PushValue
  <2> QED
    BY <2>1, <2>2, <2>3, <2>4, <2>5
<1> HIDE DEF a
<1>5. PagesOK(pages)
  BY DEF HeapInv
<1>6. CASE a.size = 0 /\ ids' = Append(ids, NoId) /\ UNCHANGED <<pages, phase>>
  <2>1. NoId \in IdType /\ IdOK(pages', n, NoId)
    BY <1>3, <1>6, HeapIdIs DEF IdOK, NoId
  <2> QED
    BY <1>1, <1>5, <1>6, <2>1, GrowIds
<1>7. CASE /\ a.size > MaxAllocation \/ (a.size > 0 /\ ~OnHeap(n))
           /\ ids' = Append(ids, InNode(n)) /\ UNCHANGED <<pages, phase>>
  <2>1. InNode(n) \in IdType /\ IdOK(pages', n, InNode(n))
    BY <1>2, <1>3, <1>7, HeapIdIs DEF IdOK, InNode
  <2> QED
    BY <1>1, <1>5, <1>7, <2>1, GrowIds
<1>8. CASE /\ a.size \in 1..MaxAllocation /\ PushRefused(a)
           /\ phase' = "refused" /\ UNCHANGED <<pages, ids>>
  <2>1. Len(pages) = MaxPages \/ \E p \in DOMAIN pages : Len(pages[p]) = MaxIndex
    BY <1>3, <1>5, <1>8, Pushed
  <2> QED
    BY <1>1, <1>8, <2>1, RefusedHeap
<1>9. CASE /\ a.size \in 1..MaxAllocation /\ ~PushRefused(a)
           /\ pages' = PushedPages(a) /\ ids' = Append(ids, PushedId(a)) /\ UNCHANGED phase
  <2>1. /\ PagesOK(pages') /\ Names(pages', PushedId(a), a.what, a.level, a.n)
        /\ \A i, what, l, m : Names(pages, i, what, l, m) => Names(pages', i, what, l, m)
    BY <1>3, <1>5, <1>9, Pushed
  <2>2. PushedId(a) \in IdType /\ IdOK(pages', n, PushedId(a))
    BY <1>3, <2>1 DEF IdOK, Names
  <2> QED
    BY <1>1, <1>9, <2>1, <2>2, GrowIds
<1> QED
  BY <1>4, <1>6, <1>7, <1>8, <1>9

(* A node of the tree fits into one allocation. *)
LEMMA PerNodeIs ==
  ASSUME NEW l \in Nat
  PROVE  /\ EntryBytes(l) \in Nat \ {0} /\ PerNode(l) \in Nat \ {0}
         /\ PerNode(l) * EntryBytes(l) <= MaxAllocation
<1> DEFINE e == EntryBytes(l)
<1>1. e \in Nat \ {0} /\ MaxAllocation >= 2 * e /\ MaxAllocation \in Nat
  BY HeapAssumption DEF EntryBytes
<1> HIDE DEF e
<1>2. /\ MaxAllocation \div e \in Nat /\ (MaxAllocation \div e) * e <= MaxAllocation
      /\ MaxAllocation < (MaxAllocation \div e) * e + e
  BY <1>1
<1>3. MaxAllocation \div e # 0
  BY <1>1, <1>2
<1>4. PerNode(l) = MaxAllocation \div e
  BY DEF PerNode, e
<1> QED
  BY <1>1, <1>2, <1>3, <1>4 DEF e

(* The next node of a level. *)
LEMMA NodeIs ==
  ASSUME NEW L \in Nat, L = Len(above), NEW B \in Nat, level \in Nat, NextNode(B).from <= B,
         NEW node, node = NextNode(B)
  PROVE  /\ node.from = L * PerNode(level) + 1 /\ node.from \in Nat /\ node.to \in Nat
         /\ node.to = IF (L + 1) * PerNode(level) < B THEN (L + 1) * PerNode(level) ELSE B
         /\ NodeAlloc(node) \in AllocType /\ NodeAlloc(node).size \in 1..MaxAllocation
         /\ NodeAlloc(node).what = "node" /\ NodeAlloc(node).level = level
         /\ NodeAlloc(node).n = L + 1
<1> DEFINE per == PerNode(level)
           e == EntryBytes(level)
           from == L * per + 1
           to == IF from + per - 1 < B THEN from + per - 1 ELSE B
           count == to - from + 1
<1>1. /\ per \in Nat \ {0} /\ e \in Nat \ {0} /\ per * e <= MaxAllocation
      /\ MaxAllocation \in Nat
  BY PerNodeIs, Constants
<1>2. node = [from |-> from, to |-> to]
  BY DEF NextNode
<1>3. node.from = from /\ node.to = to
  BY <1>2
<1> HIDE DEF per, e
<1>4. /\ L * per \in Nat /\ (L + 1) * per = L * per + per
      /\ from \in Nat /\ from + per - 1 = (L + 1) * per
  BY <1>1
<1>5. from <= B
  BY <1>3
<1>6. /\ to \in Nat /\ count \in 1..per
      /\ to = IF (L + 1) * per < B THEN (L + 1) * per ELSE B
  <2>1. to = IF (L + 1) * per < B THEN (L + 1) * per ELSE B
    BY <1>4
  <2> DEFINE x == L * per
  <2>2. x \in Nat /\ from = x + 1 /\ to = IF x + per < B THEN x + per ELSE B
    BY <1>4, <2>1
  <2> HIDE DEF x, from, to
  <2> QED
    BY <1>1, <1>5, <2>1, <2>2
<1> HIDE DEF from, to
<1>7. count * e \in 1..MaxAllocation
  <2>1. count \in Nat /\ count >= 1 /\ count <= per
    BY <1>1, <1>6
  <2> HIDE DEF count
  <2>2. e * count <= e * per /\ e * 1 <= e * count /\ e * count \in Nat
    BY <1>1, <2>1, ProductGrows
  <2>3. e * count = count * e /\ e * per = per * e
    BY <1>1, <2>1
  <2> QED
    BY <1>1, <2>2, <2>3
<1>8. NodeAlloc(node) = Alloc("node", level, L + 1, count * e)
  BY <1>3 DEF NodeAlloc, e
<1> DEFINE bytes == count * e
<1> HIDE DEF bytes
<1>9. bytes \in Nat /\ bytes \in 1..MaxAllocation
  BY <1>1, <1>7 DEF bytes
<1>10. "node" \in Whats /\ L + 1 \in Nat
  BY DEF Whats
<1>11. LET a == Alloc("node", level, L + 1, bytes)
       IN a \in AllocType /\ a.what = "node" /\ a.level = level /\ a.n = L + 1 /\ a.size = bytes
  BY <1>9, <1>10, AllocIs
<1>12. NodeAlloc(node) = Alloc("node", level, L + 1, bytes)
  BY <1>8 DEF bytes
<1>13. node.from = L * per + 1 /\ node.from \in Nat
  BY <1>3, <1>4 DEF from
<1> QED
  BY <1>3, <1>6, <1>9, <1>11, <1>12, <1>13 DEF per

(* Levels stay as they are when pages grow. *)
LEMMA LevelKept ==
  ASSUME NEW pgs, NEW new, NEW nodes, NEW l, NEW per, NEW below,
         LevelOK(pgs, nodes, l, per, below),
         \A i, what, h, m : Names(pgs, i, what, h, m) => Names(new, i, what, h, m)
  PROVE  LevelOK(new, nodes, l, per, below)
  BY DEF LevelOK

(* A node more on the level under construction. *)
LEMMA GrowLevel ==
  ASSUME HeapInv, phase = "values", Len(ids) = Len(values),
         UNCHANGED <<kind, values, ids, tree, level, built, phase>>,
         PagesOK(pages'),
         \A i, what, l, m : Names(pages, i, what, l, m) => Names(pages', i, what, l, m),
         NEW node \in NodeType, above' = Append(above, node),
         node.from = Len(above) * PerNode(level) + 1, node.from <= Entries(level),
         node.to = IF (Len(above) + 1) * PerNode(level) < Entries(level)
                   THEN (Len(above) + 1) * PerNode(level) ELSE Entries(level),
         Names(pages', node.id, "node", level, Len(above) + 1)
  PROVE  HeapInv'
<1> DEFINE L == Len(above)
<1>0. /\ TypeOK /\ values # <<>> /\ Len(tree) = level /\ L \in Nat
      /\ \A n \in 1..Len(ids) : IdOK(pages, n, ids[n])
      /\ \A l \in 0..(Len(tree) - 1) : LevelWhole(l)
      /\ LevelOK(pages, above, level, PerNode(level), Entries(level))
      /\ Len(ids) \in Nat
  BY DEF HeapInv, Growing, TypeOK
<1>1. TypeOK'
  BY <1>0 DEF TypeOK
<1>2. Begun' /\ HeapSound'
  BY DEF Begun, HeapSound
<1>3. \A l : PerNode(l)' = PerNode(l) /\ Entries(l)' = Entries(l)
  BY DEF PerNode, EntryBytes, Entries
<1>4. ASSUME NEW n \in 1..Len(ids') PROVE IdOK(pages, n, ids[n])'
  <2>1. IdOK(pages, n, ids[n])
    BY <1>0
  <2> QED
    BY <2>1 DEF IdOK, OnHeap
<1>5. ASSUME NEW l \in 0..(Len(tree') - 1) PROVE LevelWhole(l)'
  <2>1. LevelWhole(l)
    BY <1>0
  <2>2. LevelOK(pages', tree[l + 1], l, PerNode(l), Entries(l))
    BY <2>1, LevelKept DEF LevelWhole
  <2> QED
    BY <1>3, <2>1, <2>2 DEF LevelWhole
<1>6. LevelOK(pages', above', level, PerNode(level), Entries(level))
  <2>1. LevelOK(pages', above, level, PerNode(level), Entries(level))
    BY <1>0, LevelKept
  <2>2. /\ Len(above') = L + 1 /\ above'[L + 1] = node
        /\ \A k \in 1..L : above'[k] = above[k]
    BY <1>0 DEF TypeOK
  <2>3. \A k \in 1..(L + 1) : k = L + 1 \/ k \in 1..L
    BY <1>0
  <2>4. (L + 1) - 1 = L
    BY <1>0
  <2> SUFFICES ASSUME NEW k \in 1..(L + 1)
               PROVE  /\ above'[k].from = (k - 1) * PerNode(level) + 1
                      /\ above'[k].from <= Entries(level)
                      /\ above'[k].to = IF k * PerNode(level) < Entries(level)
                                        THEN k * PerNode(level) ELSE Entries(level)
                      /\ Names(pages', above'[k].id, "node", level, k)
    BY <2>2 DEF LevelOK
  <2>5. CASE k = L + 1
    BY <2>2, <2>4, <2>5
  <2>6. CASE k \in 1..L
    BY <2>1, <2>2, <2>6 DEF LevelOK
  <2> QED
    BY <2>3, <2>5, <2>6
<1>7. Growing'
  BY <1>0, <1>3, <1>4, <1>5, <1>6 DEF Growing
<1> QED
  BY <1>1, <1>2, <1>7 DEF HeapInv

(* A level is finished. *)
LEMMA FinishLevel ==
  ASSUME HeapInv, phase = "values", Len(ids) = Len(values),
         UNCHANGED <<kind, values, pages, ids, built>>,
         tree' = Append(tree, above), above' = <<>>, Len(above) >= 1,
         Len(above) * PerNode(level) >= Entries(level),
         \/ phase' = "values" /\ level' = level + 1
         \/ phase' = "pages" /\ level' = level /\ Len(above) = 1
  PROVE  HeapInv'
<1>0. /\ TypeOK /\ values # <<>> /\ Len(tree) = level /\ level \in Nat
      /\ \A n \in 1..Len(ids) : IdOK(pages, n, ids[n])
      /\ \A l \in 0..(Len(tree) - 1) : LevelWhole(l)
      /\ LevelOK(pages, above, level, PerNode(level), Entries(level))
      /\ PagesOK(pages) /\ Len(ids) \in Nat
  BY DEF HeapInv, Growing, TypeOK
<1>1. TypeOK'
  BY <1>0 DEF TypeOK, Phases
<1>2. Begun' /\ HeapSound'
  BY DEF Begun, HeapSound
<1>3. /\ Len(tree') = level + 1 /\ tree'[level + 1] = above
      /\ \A l \in 1..level : tree'[l] = tree[l]
  BY <1>0 DEF TypeOK
<1>4. \A l : PerNode(l)' = PerNode(l)
  BY DEF PerNode, EntryBytes
<1>5. \A l \in 0..level : Entries(l)' = Entries(l)
  <2>1. \A l \in 0..level : l = 0 \/ l \in 1..level
    BY <1>0
  <2> QED
    BY <1>3, <2>1 DEF Entries
<1>6. \A n \in 1..Len(ids') : IdOK(pages, n, ids[n])'
  BY <1>0 DEF IdOK, OnHeap
<1>7. ASSUME NEW l \in 0..level PROVE LevelWhole(l)'
  <2>1. CASE l = level
    <3>1. tree'[l + 1] = above /\ Entries(l)' = Entries(l) /\ PerNode(l)' = PerNode(l)
      BY <1>3, <1>4, <1>5, <2>1
    <3> QED
      BY <1>0, <2>1, <3>1 DEF LevelWhole
  <2>2. CASE l # level
    <3>1. l \in 0..(Len(tree) - 1) /\ l + 1 \in 1..level
      BY <1>0, <2>2
    <3>2. LevelWhole(l) /\ tree'[l + 1] = tree[l + 1]
      BY <1>0, <1>3, <3>1
    <3> QED
      BY <1>4, <1>5, <3>2 DEF LevelWhole
  <2> QED
    BY <2>1, <2>2
<1>8. \A l \in 0..(Len(tree') - 1) : LevelWhole(l)'
  <2>1. Len(tree') - 1 = level
    BY <1>0, <1>3
  <2> QED
    BY <1>7, <2>1
<1>9. Growing'
  <2>1. Len(above') = 0
    OBVIOUS
  <2>2. LevelOK(pages, above, level, PerNode(level), Entries(level))'
    BY <2>1 DEF LevelOK
  <2>3. phase' = "values" => Len(tree') = level'
    BY <1>3
  <2>4. phase' = "pages" => Len(tree') = level' + 1 /\ Len(tree'[level' + 1]) = 1
    BY <1>3
  <2> QED
    BY <1>0, <1>6, <1>8, <2>2, <2>3, <2>4 DEF Growing
<1> QED
  BY <1>0, <1>1, <1>2, <1>9 DEF HeapInv

(* One node of the tree, or the end of a level. *)
LEMMA PushTreeHeap == HeapInv /\ PushTree => HeapInv'
<1> SUFFICES ASSUME HeapInv, PushTree PROVE HeapInv'
  OBVIOUS
<1> DEFINE B == Entries(level)
           L == Len(above)
           node == NextNode(B)
           a == NodeAlloc(node)
<1>1. phase = "values" /\ Len(ids) = Len(values) /\ UNCHANGED <<kind, values, ids, built>>
  BY DEF PushTree
<1>2. /\ TypeOK /\ Len(tree) = level /\ level \in Nat /\ L \in Nat /\ values # <<>>
      /\ \A l \in 0..(Len(tree) - 1) : LevelWhole(l)
      /\ PagesOK(pages)
  BY <1>1 DEF HeapInv, Growing, TypeOK
<1>3. B \in Nat /\ B >= 1
  <2>1. CASE level = 0
    BY <1>2, <2>1 DEF Entries, TypeOK
  <2>2. CASE level # 0
    <3>1. level - 1 \in 0..(Len(tree) - 1) /\ (level - 1) + 1 = level /\ level \in 1..Len(tree)
      BY <1>2, <2>2
    <3>2. LevelWhole(level - 1)
      BY <1>2, <3>1
    <3>3. Len(tree[level]) >= 1 /\ tree[level] \in Seq(NodeType)
      BY <1>2, <3>1, <3>2 DEF LevelWhole, TypeOK
    <3> QED
      BY <2>2, <3>3 DEF Entries
  <2> QED
    BY <2>1, <2>2
<1>4. \/ node.from <= B /\ PushNode(node)
      \/ /\ node.from > B /\ L > 1
         /\ tree' = Append(tree, above) /\ above' = <<>> /\ level' = level + 1
         /\ UNCHANGED <<pages, phase>>
      \/ /\ ~(node.from <= B) /\ ~(node.from > B /\ L > 1)
         /\ tree' = Append(tree, above) /\ above' = <<>> /\ phase' = "pages"
         /\ UNCHANGED <<pages, level>>
  BY DEF PushTree, Entries
<1>5. node.from = L * PerNode(level) + 1
  BY DEF NextNode
<1>6. PerNode(level) \in Nat \ {0} /\ L * PerNode(level) \in Nat
  <2>1. PerNode(level) \in Nat \ {0}
    BY <1>2, PerNodeIs
  <2> QED
    BY <1>2, <2>1
<1> HIDE DEF B, L
<1>7. CASE node.from <= B /\ PushNode(node)
  <2>1. /\ node.from \in Nat /\ node.to \in Nat
        /\ node.to = IF (L + 1) * PerNode(level) < B THEN (L + 1) * PerNode(level) ELSE B
        /\ a \in AllocType /\ a.size \in 1..MaxAllocation
        /\ a.what = "node" /\ a.level = level /\ a.n = L + 1
    BY <1>2, <1>3, <1>7, NodeIs DEF L
  <2> HIDE DEF node, a
  <2>2. UNCHANGED <<tree, level>>
    BY <1>7 DEF PushNode
  <2>3. CASE PushRefused(a)
    <3>1. phase' = "refused" /\ UNCHANGED <<pages, above>>
      BY <1>7, <2>3 DEF PushNode, a
    <3>2. Len(pages) = MaxPages \/ \E p \in DOMAIN pages : Len(pages[p]) = MaxIndex
      BY <1>2, <2>1, <2>3, Pushed
    <3> QED
      BY <1>1, <2>2, <3>1, <3>2, RefusedHeap
  <2>4. CASE ~PushRefused(a)
    <3> DEFINE new == [from |-> node.from, to |-> node.to, id |-> PushedId(a)]
    <3>1. pages' = PushedPages(a) /\ above' = Append(above, new) /\ UNCHANGED phase
      BY <1>7, <2>4 DEF PushNode, a
    <3>2. /\ PagesOK(pages') /\ Names(pages', PushedId(a), "node", level, L + 1)
          /\ \A i, what, l, m : Names(pages, i, what, l, m) => Names(pages', i, what, l, m)
      <4>1. /\ PagesOK(PushedPages(a))
            /\ Names(PushedPages(a), PushedId(a), a.what, a.level, a.n)
            /\ \A i, what, l, m :
                 Names(pages, i, what, l, m) => Names(PushedPages(a), i, what, l, m)
        BY <1>2, <2>1, <2>4, Pushed
      <4> QED
        BY <2>1, <3>1, <4>1
    <3>3. PushedId(a) \in IdType
      BY <3>2 DEF Names
    <3>4. new \in NodeType /\ new.from = node.from /\ new.to = node.to /\ new.id = PushedId(a)
      BY <2>1, <3>3 DEF NodeType
    <3> HIDE DEF new
    <3> QED
      BY <1>1, <1>5, <1>7, <2>1, <2>2, <3>1, <3>2, <3>4, GrowLevel DEF L, B
  <2> QED
    BY <2>3, <2>4
<1>8. CASE /\ node.from > B /\ L > 1
           /\ tree' = Append(tree, above) /\ above' = <<>> /\ level' = level + 1
           /\ UNCHANGED <<pages, phase>>
  <2>1. L * PerNode(level) >= B /\ L >= 1
    BY <1>2, <1>3, <1>5, <1>6, <1>8
  <2> QED
    BY <1>1, <1>8, <2>1, FinishLevel DEF L, B
<1>9. CASE /\ ~(node.from <= B) /\ ~(node.from > B /\ L > 1)
           /\ tree' = Append(tree, above) /\ above' = <<>> /\ phase' = "pages"
           /\ UNCHANGED <<pages, level>>
  <2>1. L * PerNode(level) >= B /\ L <= 1
    BY <1>2, <1>3, <1>5, <1>6, <1>9
  <2>2. L # 0
    <3> SUFFICES ASSUME L = 0 PROVE FALSE
      OBVIOUS
    <3>1. 0 * PerNode(level) = 0
      BY <1>6
    <3> QED
      BY <1>3, <2>1, <3>1
  <2>3. L = 1
    BY <1>2, <2>1, <2>2
  <2> QED
    BY <1>1, <1>9, <2>1, <2>3, FinishLevel DEF L, B
<1> QED
  BY <1>4, <1>7, <1>8, <1>9

-----------------------------------------------------------------------------
(***************************************************************************)
(* The finished heap.                                                      *)
(***************************************************************************)
(* The allocations of a page lie in a row, between the header and the map. *)
LEMMA RowIs ==
  ASSUME NEW p \in Nat, NEW s \in Seq(AllocType), \A i \in 1..Len(s) : s[i].size \in Nat \ {0}
  PROVE  /\ \A k \in 1..Len(s) : Ends(p, s)[k - 1] < Ends(p, s)[k]
         /\ Ends(p, s)[Len(s)] <= Laid(p, s).mapAt
<1>1. /\ Ends(p, s) \in [0..Len(s) -> Nat] /\ Len(s) \in Nat
      /\ \A n \in 1..Len(s) : Ends(p, s)[n] = Ends(p, s)[n - 1] + s[n].size
  BY EndsAre
<1>2. ASSUME NEW k \in 1..Len(s) PROVE Ends(p, s)[k - 1] < Ends(p, s)[k]
  <2>1. k - 1 \in 0..Len(s)
    BY <1>1
  <2>2. Ends(p, s)[k - 1] \in Nat /\ s[k].size \in Nat \ {0}
    BY <1>1, <2>1
  <2> QED
    BY <1>1, <2>2
<1>3. Ends(p, s)[Len(s)] \in Nat
  BY <1>1
<1>4. Ends(p, s)[Len(s)] <= Even(Ends(p, s)[Len(s)])
  BY <1>3, EvenIs
<1> QED
  BY <1>2, <1>4, LaidIs

(* The id of a value in the compact form. *)
LEMMA CompactIdIs ==
  ASSUME values \in Seq(Nat), values # <<>>, kind \in Kinds, NEW n \in 1..Len(values)
  PROVE  /\ CompactId(n) \in IdType
         /\ CompactId(n).index > 0 /\ CompactId(n).page >= 0 =>
              /\ CompactId(n).page = 0 /\ CompactId(n).index \in 1..Len(CompactAllocs)
              /\ CompactAllocs[CompactId(n).index].what = "value"
              /\ CompactAllocs[CompactId(n).index].level = 0
              /\ CompactAllocs[CompactId(n).index].n = n
         /\ OnHeap(n) => CompactId(n).page >= 0 /\ CompactId(n) # NoId
<1> DEFINE base == IF kind = "table" THEN 4 ELSE 2
           f == Len(Filled[n])
           C == CompactAllocs
<1>1. values[n] \in Nat /\ base \in Nat
  OBVIOUS
<1>2. OnHeap(n) => /\ f > 0 /\ base + f \in 1..Len(C)
                   /\ C[base + f] = Alloc("value", 0, n, values[n])
  BY CompactIs
<1>3. NoId \in IdType /\ NoId.page = 0 /\ NoId.index = 0
  BY HeapIdIs DEF NoId
<1>4. InNode(n) \in IdType /\ InNode(n).page = -1
  BY HeapIdIs DEF InNode
<1>5. Alloc("value", 0, n, values[n]).what = "value" /\ Alloc("value", 0, n, values[n]).level = 0
      /\ Alloc("value", 0, n, values[n]).n = n
  BY DEF Alloc
<1>6. CompactId(n) = IF values[n] = 0 THEN NoId
                     ELSE IF ~OnHeap(n) THEN InNode(n) ELSE HeapId(0, base + f)
  <2>1. CASE values[n] = 0
    <3>1. ~(values[n] > 0)
      BY <2>1
    <3> QED
      BY <2>1, <3>1 DEF CompactId
  <2>2. CASE values[n] # 0 /\ ~OnHeap(n)
    <3>1. values[n] > 0
      BY <1>1, <2>2
    <3> QED
      BY <2>2, <3>1 DEF CompactId
  <2>3. CASE values[n] # 0 /\ OnHeap(n)
    BY <1>1, <2>3 DEF CompactId
  <2> QED
    BY <2>1, <2>2, <2>3
<1>7. OnHeap(n) => values[n] # 0
  BY <1>1 DEF OnHeap
<1> HIDE DEF base, f, C
<1>8. CASE values[n] = 0
  BY <1>3, <1>6, <1>7, <1>8
<1>9. CASE values[n] # 0 /\ ~OnHeap(n)
  BY <1>4, <1>6, <1>9
<1>10. CASE values[n] # 0 /\ OnHeap(n)
  <2>1. base + f \in Int /\ base + f \in 1..Len(C)
    BY <1>2, <1>10
  <2>2. HeapId(0, base + f) \in IdType /\ HeapId(0, base + f).page = 0
        /\ HeapId(0, base + f).index = base + f
    BY <2>1, HeapIdIs
  <2>3. HeapId(0, base + f) # NoId
    BY <1>3, <2>1, <2>2
  <2>4. CompactId(n) = HeapId(0, base + f)
    BY <1>6, <1>10
  <2> QED
    BY <1>2, <1>5, <1>10, <2>1, <2>2, <2>3, <2>4 DEF C
<1> QED
  BY <1>8, <1>9, <1>10

(* heap_page: the heap on one page. *)
LEMMA BuildCompactHeap == HeapInv /\ BuildCompact => HeapInv'
<1> SUFFICES ASSUME HeapInv, BuildCompact PROVE HeapInv'
  OBVIOUS
<1> DEFINE C == CompactAllocs
           page == Laid(0, C)
           id == HeapId(0, Len(HeadAllocs) + 1)
           top == [from |-> 1, to |-> Len(values), id |-> id]
           base == IF kind = "table" THEN 4 ELSE 2
<1>0. /\ TypeOK /\ PagesOK(pages) /\ values # <<>> /\ level = 0
      /\ kind \in Kinds /\ values \in Seq(Nat) /\ Len(values) \in Nat /\ Compact
  BY DEF HeapInv, BuildCompact, Begun, TypeOK
<1>1. /\ phase' = "built" /\ UNCHANGED <<kind, values, pages, above, level>>
      /\ ids' = [n \in 1..Len(values) |-> CompactId(n)]
      /\ tree' = <<<<top>>>> /\ built' = <<page>>
  BY <1>0 DEF BuildCompact
<1>2. /\ C \in Seq(AllocType) /\ \A i \in 1..Len(C) : C[i].size \in Nat \ {0}
      /\ Len(HeadAllocs) \in 1..2 /\ Len(HeadAllocs) + 1 \in 1..Len(C)
      /\ C[Len(HeadAllocs) + 1].what = "node" /\ C[Len(HeadAllocs) + 1].level = 0
      /\ C[Len(HeadAllocs) + 1].n = 1
  BY <1>0, CompactIs
<1>3. id \in IdType /\ id.page = 0 /\ id.index = Len(HeadAllocs) + 1
  BY <1>2, HeapIdIs
<1>4. top \in NodeType /\ top.from = 1 /\ top.to = Len(values) /\ top.id = id
  BY <1>0, <1>3 DEF NodeType
<1>5. \A n \in 1..Len(values) :
        /\ CompactId(n) \in IdType
        /\ CompactId(n).index > 0 /\ CompactId(n).page >= 0 =>
             /\ CompactId(n).page = 0 /\ CompactId(n).index \in 1..Len(C)
             /\ C[CompactId(n).index].what = "value" /\ C[CompactId(n).index].level = 0
             /\ C[CompactId(n).index].n = n
        /\ OnHeap(n) => CompactId(n).page >= 0 /\ CompactId(n) # NoId
  BY <1>0, CompactIdIs
<1> HIDE DEF id, top
<1>6. TypeOK'
  <2>1. ids' \in Seq(IdType)
    <3>1. ids' \in [1..Len(values) -> IdType]
      BY <1>1, <1>5
    <3> QED
      BY <1>0, <3>1
  <2>2. tree' \in Seq(Seq(NodeType))
    BY <1>1, <1>4
  <2> QED
    BY <1>0, <1>1, <2>1, <2>2 DEF TypeOK, Phases
<1>7. page.allocs = C /\ page.ends = Ends(0, C) /\ page.length <= MaxPage
  <2>1. page.allocs = C /\ page.ends = Ends(0, C)
    BY LaidIs
  <2> QED
    BY <1>0, <2>1 DEF Compact, PageLength
<1>8. /\ \A k \in 1..Len(C) : page.ends[k - 1] < page.ends[k]
      /\ page.ends[Len(C)] <= page.mapAt
  <2>1. 0 \in Nat
    OBVIOUS
  <2>2. /\ \A k \in 1..Len(C) : Ends(0, C)[k - 1] < Ends(0, C)[k]
        /\ Ends(0, C)[Len(C)] <= page.mapAt
    <3> HIDE DEF C
    <3> QED
      BY <1>2, <2>1, RowIs
  <2> QED
    BY <1>7, <2>2
<1>9. Len(built') = 1 /\ built'[1] = page /\ DOMAIN built' = 1..1
  BY <1>1
<1> HIDE DEF page
<1>10. ASSUME NEW i \in IdType, i.page = 0, i.index \in 1..Len(C), NEW what, NEW l, NEW m,
              C[i.index].what = what, C[i.index].level = l, C[i.index].n = m
       PROVE  Resolves(i, what, l, m)'
  <2>1. DOMAIN C = 1..Len(C)
    <3> HIDE DEF C
    <3> QED
      BY <1>2
  <2>2. i.page + 1 = 1 /\ 1 \in 1..1
    BY <1>10
  <2>3. i.page + 1 \in DOMAIN built' /\ built'[i.page + 1] = page
    BY <1>9, <2>2
  <2>4. i.index \in DOMAIN built'[i.page + 1].allocs
    BY <1>7, <1>10, <2>1, <2>3
  <2>5. Found(i)' = C[i.index]
    BY <1>7, <2>3 DEF Found
  <2> QED
    BY <1>10, <2>3, <2>4, <2>5 DEF Resolves
<1> HIDE DEF C
<1>11. \A n \in DOMAIN values' :
          /\ ids'[n].index > 0 /\ ids'[n].page >= 0 =>
               Fits(ids[n])' /\ Resolves(ids[n], "value", 0, n)'
          /\ OnHeap(n)' => ids'[n].page >= 0 /\ ids'[n] # NoId
  <2> SUFFICES ASSUME NEW n \in 1..Len(values)
               PROVE  /\ ids'[n].index > 0 /\ ids'[n].page >= 0 =>
                           Fits(ids[n])' /\ Resolves(ids[n], "value", 0, n)'
                      /\ OnHeap(n)' => ids'[n].page >= 0 /\ ids'[n] # NoId
    BY <1>0, <1>1
  <2>1. ids'[n] = CompactId(n)
    BY <1>1
  <2>2. OnHeap(n)' <=> OnHeap(n)
    BY <1>1 DEF OnHeap
  <2>3. Len(C) <= MaxIndex /\ Len(C) \in Nat
    BY <1>0, <1>2 DEF Compact, Nameable, C
  <2>4. ids'[n].index > 0 /\ ids'[n].page >= 0 => Fits(ids[n])'
    BY <1>5, <2>1, <2>3, Constants DEF Fits
  <2> QED
    BY <1>5, <1>10, <2>1, <2>2, <2>4
<1>12. \A p \in 0..(Len(built') - 1) : PageSound(p)'
  <2>1. PageSound(0)'
    <3>1. DOMAIN page.allocs = 1..Len(C) /\ Len(page.allocs) = Len(C)
      BY <1>2, <1>7
    <3>2. built'[0 + 1] = page /\ ~(Len(built') > 1) /\ ~(0 + 1 < Len(built'))
      BY <1>9
    <3> QED
      BY <1>7, <1>8, <3>1, <3>2 DEF PageSound
  <2> QED
    BY <1>9, <2>1
<1>13. TreeSound'
  <2>1. /\ Len(tree') = 1 /\ tree'[1] = <<top>> /\ DOMAIN tree' = {1}
        /\ Len(tree'[1]) = 1 /\ tree'[1][1] = top /\ DOMAIN tree'[1] = {1}
    BY <1>1
  <2>2. Resolves(tree[1][1].id, "node", 0, 1)'
    <3>1. tree'[1][1].id = id
      BY <1>4, <2>1
    <3>2. tree'[1][1].id \in IdType /\ tree'[1][1].id.page = 0
          /\ tree'[1][1].id.index = Len(HeadAllocs) + 1
      BY <1>3, <3>1
    <3> QED
      BY <1>2, <1>10, <3>2
  <2>3. Last(tree') = tree'[1] /\ Len(tree') = level' + 1
    BY <1>0, <1>1, <2>1 DEF Last
  <2>4. 1 - 1 = 0 /\ Len(values') = Len(values)
    BY <1>1
  <2>5. tree'[1][1].from = 1 /\ tree'[1][1].to = Len(values')
    BY <1>4, <2>1, <2>4
  <2> QED
    BY <2>1, <2>2, <2>3, <2>4, <2>5 DEF TreeSound
<1>14. HeapSound'
  <2>1. phase' # "failed" /\ phase' # "refused" /\ ~(Len(built') > 1)
    BY <1>1, <1>9
  <2> QED
    BY <1>11, <1>12, <1>13, <2>1 DEF HeapSound
<1>15. Begun' /\ Growing' /\ PagesOK(pages)'
  BY <1>0, <1>1 DEF Begun, Growing
<1> QED
  BY <1>6, <1>14, <1>15 DEF HeapInv

(* A number that many further has the same remainder. *)
LEMMA ModAgain ==
  ASSUME NEW x \in Nat, NEW B \in Nat \ {0}
  PROVE  (x + B) % B = x % B
<1> DEFINE y == x + B
           k == x \div B
           r == x % B
           h == y \div B
           t == y % B
           d == h - k
<1>1. k \in Int /\ r \in 0..(B - 1) /\ x = B * k + r
  OBVIOUS
<1>2. y \in Nat
  OBVIOUS
<1> HIDE DEF y
<1>3. h \in Int /\ t \in 0..(B - 1) /\ y = B * h + t
  BY <1>2
<1> HIDE DEF k, r, h, t
<1>4. d \in Int /\ B * h - B * k = B * d
  BY <1>1, <1>3
<1> HIDE DEF d
<1>5. B * d = B + r - t
  BY <1>1, <1>3, <1>4 DEF y
<1>6. B * d > 0 /\ B * d < 2 * B
  BY <1>1, <1>3, <1>5
<1>7. d > 0
  <2> SUFFICES ASSUME d <= 0 PROVE FALSE
    BY <1>4
  <2>1. B * d <= 0
    BY <1>4
  <2> QED
    BY <1>4, <1>6, <2>1
<1>8. d < 2
  <2> SUFFICES ASSUME d >= 2 PROVE FALSE
    BY <1>4
  <2>1. 2 \in Nat /\ d \in Nat
    BY <1>4
  <2>2. B * 2 <= B * d
    BY <2>1, ProductGrows
  <2> QED
    BY <1>4, <1>6, <2>2
<1>9. d = 1
  BY <1>4, <1>7, <1>8
<1> QED
  BY <1>1, <1>3, <1>5, <1>9 DEF r, t, y

(* The page with the fill level of page p holds enough of them. *)
LEMMA LevelsAtIs ==
  ASSUME NEW p \in Nat
  PROVE  /\ LevelsAt(p) \in 0..p
         /\ LevelsAt(p) = 0 => p < RootLevels
         /\ LevelsAt(p) # 0 =>
              LevelsAt(p) % BitmapLevels = RootLevels /\ p - LevelsAt(p) < BitmapLevels
<1> DEFINE M == {q \in 1..p : q % BitmapLevels = RootLevels}
           Top(x) == x \in M /\ \A y \in M : y <= x
           x == CHOOSE z \in M : \A y \in M : y <= z
<1>1. LevelsAt(p) = IF M = {} THEN 0 ELSE x
  BY DEF LevelsAt
<1>2. CASE M = {}
  <2>1. RootLevels % BitmapLevels = RootLevels
    BY Constants
  <2>2. p >= RootLevels => RootLevels \in 1..p
    BY Constants
  <2>3. p < RootLevels
    BY <1>2, <2>1, <2>2, Constants
  <2> QED
    BY <1>1, <1>2, <2>3
<1>3. CASE M # {}
  <2> DEFINE D == {d \in 0..p : p - d \in M}
  <2>1. D \subseteq 0..p /\ D # {}
    <3>1. PICK m \in M : TRUE
      BY <1>3
    <3>2. p - m \in D
      BY <3>1
    <3> QED
      BY <3>2
  <2>2. PICK d \in D : \A e \in D : d <= e
    <3> HIDE DEF D
    <3> QED
      BY <2>1, Least
  <2>3. Top(p - d)
    <3>1. p - d \in M
      BY <2>2
    <3>2. ASSUME NEW y \in M PROVE y <= p - d
      <4>1. y \in 1..p /\ p - (p - y) = y /\ p - y \in 0..p
        OBVIOUS
      <4>2. p - y \in D
        BY <3>2, <4>1
      <4>3. d <= p - y /\ d \in 0..p
        BY <2>2, <4>2
      <4> QED
        BY <4>1, <4>3
    <3> QED
      BY <3>1, <3>2
  <2>4. x \in M /\ \A y \in M : y <= x
    BY <2>3
  <2> HIDE DEF x
  <2>5. x \in 1..p /\ x % BitmapLevels = RootLevels
    BY <2>4
  <2>6. (x + BitmapLevels) % BitmapLevels = x % BitmapLevels
    <3>1. x \in Nat /\ BitmapLevels \in Nat \ {0}
      BY <2>5, Constants
    <3> QED
      BY <3>1, ModAgain
  <2>7. p - x < BitmapLevels
    <3> SUFFICES ASSUME p - x >= BitmapLevels PROVE FALSE
      BY <2>5, Constants
    <3>1. x + BitmapLevels \in 1..p
      BY <2>5, Constants
    <3>2. x + BitmapLevels \in M
      BY <2>5, <2>6, <3>1
    <3>3. x + BitmapLevels <= x
      BY <2>4, <3>2
    <3> QED
      BY <2>5, <3>3, Constants
  <2>8. x # 0 /\ x \in 0..p
    BY <2>5
  <2> QED
    BY <1>1, <1>3, <2>5, <2>7, <2>8
<1> QED
  BY <1>2, <1>3

(* The head of the heap leaves room on its page, too. *)
LEMMA HeadIs ==
  ASSUME kind \in Kinds
  PROVE  HeadAllocs \in Seq(AllocType) /\ SizesOK(HeadAllocs) /\ Laid(0, HeadAllocs).length + 3 <= MaxPage
<1> DEFINE h == HeadAllocs
           N == Len(h)
           col == Alloc("columns", 0, 0, HeadBytes)
           top == Alloc("tree", 0, 0, HeadBytes)
<1>1. /\ HeadBytes \in Nat \ {0} /\ HeadBytes <= MaxAllocation /\ RootHeader \in Nat
      /\ RootHeader + 2 * HeadBytes + 14 <= MaxPage /\ MaxPage \in Nat /\ MaxAllocation \in Nat
  BY HeapAssumption
<1>2. "columns" \in Whats /\ "tree" \in Whats
  BY DEF Whats
<1>3. col \in AllocType /\ top \in AllocType /\ col.size = HeadBytes /\ top.size = HeadBytes
  BY <1>1, <1>2, AllocIs
<1>4. h = IF kind = "table" THEN <<col, top>> ELSE <<top>>
  BY DEF HeadAllocs
<1> HIDE DEF col, top, h
<1>5. h \in Seq(AllocType) /\ N \in 1..2 /\ \A i \in 1..N : h[i].size = HeadBytes
  <2>1. CASE kind = "table"
    BY <1>3, <1>4, <2>1
  <2>2. CASE kind # "table"
    BY <1>3, <1>4, <2>2
  <2> QED
    BY <2>1, <2>2
<1> DEFINE e == Ends(0, h)
<1>6. /\ e[0] = RootHeader /\ \A n \in 1..N : e[n] = e[n - 1] + h[n].size
  <2>1. 0 \in Nat /\ HeaderBytes(0) = RootHeader
    BY DEF HeaderBytes
  <2>2. e[0] = HeaderBytes(0) /\ \A n \in 1..N : e[n] = e[n - 1] + h[n].size
    BY <1>5, <2>1, EndsAre
  <2> QED
    BY <2>1, <2>2
<1> HIDE DEF e, N
<1>7. e[N] \in Nat /\ e[N] <= RootHeader + 2 * HeadBytes
  <2>1. 1 \in 1..N /\ 1 - 1 = 0
    BY <1>5
  <2>2. e[1] = RootHeader + HeadBytes
    BY <1>5, <1>6, <2>1
  <2>3. CASE N = 1
    BY <1>1, <2>2, <2>3
  <2>4. CASE N = 2
    <3>1. 2 \in 1..N /\ 2 - 1 = 1
      BY <2>4
    <3>2. e[2] = e[1] + HeadBytes
      BY <1>5, <1>6, <3>1
    <3> QED
      BY <1>1, <2>2, <2>4, <3>2
  <2> QED
    BY <1>5, <2>3, <2>4
<1>8. Even(e[N]) \in Nat /\ Even(e[N]) <= e[N] + 1
  BY <1>7, EvenIs
<1>9. Laid(0, h).length = Even(e[N]) + MapBytes(N)
  BY LaidIs DEF e, N
<1>10. MapBytes(N) = 2 * N + 6
  BY <1>5 DEF MapBytes
<1>11. Laid(0, h).length + 3 <= MaxPage
  BY <1>1, <1>5, <1>7, <1>8, <1>9, <1>10
<1>12. SizesOK(h)
  BY <1>1, <1>5 DEF SizesOK, N
<1> QED
  BY <1>5, <1>11, <1>12 DEF h

(* A function on 1..N is a sequence of length N. *)
LEMMA LenIs ==
  ASSUME NEW N \in Nat, NEW f, f = [i \in 1..N |-> f[i]]
  PROVE  Len(f) = N /\ DOMAIN f = 1..N /\ f \in Seq({f[i] : i \in 1..N})
<1>1. f \in [1..N -> {f[i] : i \in 1..N}]
  OBVIOUS
<1> QED
  BY <1>1

\* What the i-th page holds before it is filled.
RawAllocs(i) == IF i = 1 THEN HeadAllocs ELSE pages[i - 1]

(* The pages before they are filled: each has three bytes to spare. *)
LEMMA RawIs ==
  ASSUME TypeOK, PagesOK(pages)
  PROVE  /\ Len(RawPages) = Len(pages) + 1 /\ DOMAIN RawPages = 1..(Len(pages) + 1)
         /\ \A i \in 1..(Len(pages) + 1) :
              /\ RawPages[i] = Laid(i - 1, RawAllocs(i)) /\ RawAllocs(i) \in Seq(AllocType)
              /\ SizesOK(RawAllocs(i)) /\ Laid(i - 1, RawAllocs(i)).length + 3 <= MaxPage
<1> DEFINE P == Len(pages)
           rest == [p \in 1..P |-> Laid(p, pages[p])]
           S == {RootPage} \cup {rest[p] : p \in 1..P}
           one == <<RootPage>>
<1>1. pages \in Seq(Seq(AllocType)) /\ P \in Nat /\ DOMAIN pages = 1..P /\ kind \in Kinds
      /\ \A p \in 1..P : PageOK(p, pages[p])
  BY DEF PagesOK, TypeOK
<1>2. RawPages = one \o rest
  BY <1>1 DEF RawPages
<1>3. one \in Seq(S)
  <2>1. RootPage \in S
    OBVIOUS
  <2> HIDE DEF S
  <2> QED
    BY <2>1
<1>a. Len(one) = 1 /\ one[1] = RootPage
  OBVIOUS
<1> HIDE DEF P
<1>4. rest \in Seq(S) /\ Len(rest) = P
  <2>1. rest \in [1..P -> S]
    OBVIOUS
  <2> HIDE DEF rest, S
  <2> QED
    BY <1>1, <2>1
<1>5. \A p \in 1..P : rest[p] = Laid(p, pages[p])
  OBVIOUS
<1> HIDE DEF one, rest, S
<1>6. /\ one \o rest \in Seq(S) /\ Len(one \o rest) = Len(one) + Len(rest)
      /\ \A i \in 1..Len(one) : (one \o rest)[i] = one[i]
      /\ \A i \in 1..Len(rest) : (one \o rest)[Len(one) + i] = rest[i]
  <2>1. rest \in Seq(S)
    BY <1>4
  <2> QED
    BY <1>3, <2>1, ConcatIs
<1>7. Len(RawPages) = P + 1 /\ DOMAIN RawPages = 1..(P + 1)
  <2>1. RawPages \in Seq(S) /\ Len(RawPages) = P + 1
    BY <1>1, <1>2, <1>a, <1>4, <1>6
  <2> QED
    BY <2>1
<1>8. ASSUME NEW i \in 1..(P + 1)
      PROVE  /\ RawPages[i] = Laid(i - 1, RawAllocs(i)) /\ RawAllocs(i) \in Seq(AllocType)
             /\ SizesOK(RawAllocs(i)) /\ Laid(i - 1, RawAllocs(i)).length + 3 <= MaxPage
  <2>1. CASE i = 1
    <3>1. RawAllocs(i) = HeadAllocs /\ i - 1 = 0
      BY <2>1 DEF RawAllocs
    <3>2. RawPages[i] = RootPage
      BY <1>2, <1>a, <1>6, <2>1
    <3> QED
      BY <1>1, <3>1, <3>2, HeadIs DEF RootPage
  <2>2. CASE i # 1
    <3> DEFINE p == i - 1
    <3>1. RawAllocs(i) = pages[p] /\ p \in 1..P /\ 1 + p = i
      BY <1>1, <2>2 DEF RawAllocs
    <3>2. RawPages[i] = rest[p]
      BY <1>2, <1>a, <1>4, <1>6, <3>1
    <3>3. PageOK(p, pages[p])
      BY <1>1, <3>1
    <3> HIDE DEF p
    <3>4. RawPages[i] = Laid(p, pages[p]) /\ RawAllocs(i) = pages[p]
      BY <1>5, <3>1, <3>2
    <3> QED
      BY <3>3, <3>4 DEF PageOK, PageLength, p
  <2> QED
    BY <2>1, <2>2
<1> QED
  BY <1>7, <1>8 DEF P

(* A page has a length. *)
LEMMA LengthIs ==
  ASSUME NEW p \in Nat, NEW s \in Seq(AllocType)
  PROVE  Laid(p, s).length \in Nat
<1> DEFINE N == Len(s)
<1>1. N \in Nat /\ Ends(p, s)[N] \in Nat
  BY EndsAre
<1>2. Even(Ends(p, s)[N]) \in Nat
  BY <1>1, EvenIs
<1> QED
  BY <1>1, <1>2, LaidIs DEF MapBytes

(* The pages as they are filled: full but for the last, none fails. *)
LEMMA FilledPagesAre ==
  ASSUME TypeOK, PagesOK(pages), NEW N, N = Len(pages) + 1
  PROVE  /\ Len(FilledPages) = N /\ DOMAIN FilledPages = 1..N /\ N \in Nat
         /\ \A i \in 1..(Len(RawPages) - 1) : ~FillFails(RawPages[i])
         /\ \A i \in 1..N : \E t \in Seq(AllocType) :
              /\ FilledPages[i] = Laid(i - 1, t) /\ SizesOK(t)
              /\ Len(RawAllocs(i)) <= Len(t)
              /\ \A j \in 1..Len(RawAllocs(i)) : t[j] = RawAllocs(i)[j]
              /\ Laid(i - 1, t).length <= MaxPage /\ (i < N => Laid(i - 1, t).length = MaxPage)
<1> DEFINE F == FilledPages
<1>1. N \in Nat /\ N \in Nat \ {0}
  BY DEF PagesOK
<1>2. /\ Len(RawPages) = N /\ DOMAIN RawPages = 1..N
      /\ \A i \in 1..N :
           /\ RawPages[i] = Laid(i - 1, RawAllocs(i)) /\ RawAllocs(i) \in Seq(AllocType)
           /\ SizesOK(RawAllocs(i)) /\ Laid(i - 1, RawAllocs(i)).length + 3 <= MaxPage
  BY RawIs
<1>3. F = [i \in 1..N |-> IF i < N THEN fill_heap_page(i - 1, RawPages[i]) ELSE RawPages[i]]
  BY <1>2 DEF FilledPages
<1> HIDE DEF F
<1>4. Len(F) = N /\ DOMAIN F = 1..N
  <2>1. F = [i \in 1..N |-> F[i]]
    BY <1>3
  <2> QED
    BY <1>1, <2>1, LenIs
<1>5. ASSUME NEW i \in 1..N
      PROVE  /\ ~FillFails(RawPages[i])
             /\ \E t \in Seq(AllocType) :
                  /\ F[i] = Laid(i - 1, t) /\ SizesOK(t)
                  /\ Len(RawAllocs(i)) <= Len(t)
                  /\ \A j \in 1..Len(RawAllocs(i)) : t[j] = RawAllocs(i)[j]
                  /\ Laid(i - 1, t).length <= MaxPage /\ (i < N => Laid(i - 1, t).length = MaxPage)
  <2>1. PICK p \in Nat : p = i - 1
    BY <1>1
  <2>2. PICK s \in Seq(AllocType) : s = RawAllocs(i)
    BY <1>2
  <2>3. RawPages[i] = Laid(p, s) /\ SizesOK(s) /\ Laid(p, s).length + 3 <= MaxPage
    BY <1>2, <2>1, <2>2
  <2>4. \A j \in 1..Len(s) : s[j].size \in 1..MaxAllocation
    BY <2>3 DEF SizesOK
  <2>5. PICK t \in Seq(AllocType) :
          /\ fill_heap_page(p, Laid(p, s)) = Laid(p, t) /\ Laid(p, t).length = MaxPage
          /\ Len(s) <= Len(t) /\ \A j \in 1..Len(s) : t[j] = s[j]
          /\ \A j \in 1..Len(t) : t[j].size \in 1..MaxAllocation
    BY <2>3, <2>4, FilledIs
  <2>6. ~FillFails(RawPages[i])
    BY <2>3, <2>4, FilledIs
  <2>7. F[i] = IF i < N THEN Laid(p, t) ELSE Laid(p, s)
    BY <1>3, <2>1, <2>3, <2>5
  <2>8. MaxPage \in Nat /\ SizesOK(t)
    BY <2>5, Constants DEF SizesOK
  <2>9. Laid(p, s).length <= MaxPage
    <3>1. Laid(p, s).length \in Nat
      BY <2>1, <2>2, LengthIs
    <3> QED
      BY <2>3, <2>8, <3>1
  <2>10. CASE i < N
    <3>1. F[i] = Laid(p, t) /\ Laid(p, t).length <= MaxPage
      BY <2>5, <2>7, <2>8, <2>10
    <3> QED
      BY <2>1, <2>2, <2>5, <2>6, <2>8, <3>1
  <2>11. CASE ~(i < N)
    <3>1. F[i] = Laid(p, s) /\ Len(s) <= Len(s)
      BY <2>7, <2>11
    <3> QED
      BY <2>1, <2>2, <2>3, <2>6, <2>9, <2>11, <3>1
  <2> QED
    BY <2>10, <2>11
<1>6. \A i \in 1..(Len(RawPages) - 1) : i \in 1..N
  BY <1>1, <1>2
<1> QED
  BY <1>1, <1>4, <1>5, <1>6 DEF F

(* The finished pages: what was pushed is where it was, and fill levels are *)
(* where a reader looks for them.                                           *)
LEMMA BuiltIs ==
  ASSUME TypeOK, PagesOK(pages), NEW N, N = Len(pages) + 1,
         NEW all, all = update_heap_fill_levels(FilledPages)
  PROVE  /\ Len(all) = N /\ DOMAIN all = 1..N
         /\ \A i \in 1..N : \E t \in Seq(AllocType) :
              /\ all[i].allocs = t /\ all[i].ends = Ends(i - 1, t) /\ SizesOK(t)
              /\ all[i].mapAt = Laid(i - 1, t).mapAt
              /\ Len(RawAllocs(i)) <= Len(t)
              /\ \A j \in 1..Len(RawAllocs(i)) : t[j] = RawAllocs(i)[j]
              /\ all[i].length <= MaxPage /\ (i < N => all[i].length = MaxPage)
         /\ \A p \in 0..(N - 1) :
              all[LevelsAt(p) + 1].levels[p - LevelsAt(p) + 1] = heap_fill_level(all[p + 1].length)
<1> DEFINE F == FilledPages
           slots(p) == IF p = 0 THEN RootLevels
                       ELSE IF p % BitmapLevels = RootLevels THEN BitmapLevels ELSE 0
           level_of(q) == IF q < N THEN heap_fill_level(F[q + 1].length) ELSE MaxPage
           row(i) == [s \in 1..slots(i - 1) |-> level_of(i - 1 + s - 1)]
<1>1. /\ Len(F) = N /\ DOMAIN F = 1..N /\ N \in Nat
      /\ \A i \in 1..N : \E t \in Seq(AllocType) :
           /\ F[i] = Laid(i - 1, t) /\ SizesOK(t)
           /\ Len(RawAllocs(i)) <= Len(t)
           /\ \A j \in 1..Len(RawAllocs(i)) : t[j] = RawAllocs(i)[j]
           /\ Laid(i - 1, t).length <= MaxPage /\ (i < N => Laid(i - 1, t).length = MaxPage)
  BY FilledPagesAre
<1>2. all = [i \in 1..N |-> [F[i] EXCEPT !.levels = row(i)]]
  BY <1>1 DEF update_heap_fill_levels
<1> HIDE DEF F, row
<1>3. Len(all) = N /\ DOMAIN all = 1..N
  <2>1. all = [i \in 1..N |-> all[i]]
    BY <1>2
  <2> QED
    BY <1>1, <2>1, LenIs
<1>4. ASSUME NEW i \in 1..N
      PROVE  /\ \E t \in Seq(AllocType) :
                  /\ all[i].allocs = t /\ all[i].ends = Ends(i - 1, t) /\ SizesOK(t)
                  /\ all[i].mapAt = Laid(i - 1, t).mapAt
                  /\ Len(RawAllocs(i)) <= Len(t)
                  /\ \A j \in 1..Len(RawAllocs(i)) : t[j] = RawAllocs(i)[j]
                  /\ all[i].length <= MaxPage /\ (i < N => all[i].length = MaxPage)
             /\ all[i].levels = row(i) /\ all[i].length = F[i].length
  <2>1. PICK t \in Seq(AllocType) :
           /\ F[i] = Laid(i - 1, t) /\ SizesOK(t)
           /\ Len(RawAllocs(i)) <= Len(t)
           /\ \A j \in 1..Len(RawAllocs(i)) : t[j] = RawAllocs(i)[j]
           /\ Laid(i - 1, t).length <= MaxPage /\ (i < N => Laid(i - 1, t).length = MaxPage)
    BY <1>1
  <2>2. all[i] = [Laid(i - 1, t) EXCEPT !.levels = row(i)]
    BY <1>2, <2>1
  <2>3. /\ all[i].allocs = t /\ all[i].ends = Ends(i - 1, t)
        /\ all[i].mapAt = Laid(i - 1, t).mapAt
        /\ all[i].length = Laid(i - 1, t).length /\ all[i].levels = row(i)
    <3>1. PICK x : x = row(i)
      OBVIOUS
    <3>2. PICK p : p = i - 1
      OBVIOUS
    <3>3. PICK r : r = all[i]
      OBVIOUS
    <3>4. r = [Laid(p, t) EXCEPT !.levels = x]
      BY <2>2, <3>1, <3>2, <3>3
    <3>5. /\ r.allocs = t /\ r.ends = Ends(p, t) /\ r.mapAt = Laid(p, t).mapAt
          /\ r.length = Laid(p, t).length /\ r.levels = x
      BY <3>4 DEF Laid
    <3> QED
      BY <3>1, <3>2, <3>3, <3>5
  <2> QED
    BY <2>1, <2>3
<1>5. ASSUME NEW p \in 0..(N - 1)
      PROVE  all[LevelsAt(p) + 1].levels[p - LevelsAt(p) + 1] = heap_fill_level(all[p + 1].length)
  <2> DEFINE q == LevelsAt(p)
             s == p - q + 1
  <2>1. /\ q \in 0..p /\ p \in Nat /\ (q = 0 => p < RootLevels)
        /\ q # 0 => q % BitmapLevels = RootLevels /\ p - q < BitmapLevels
    <3>1. p \in Nat
      BY <1>1
    <3> QED
      BY <3>1, LevelsAtIs
  <2> HIDE DEF q
  <2>2. q + 1 \in 1..N /\ p + 1 \in 1..N /\ (q + 1) - 1 = q /\ p < N
    BY <1>1, <2>1
  <2>3. s \in 1..slots(q)
    <3>1. CASE q = 0
      BY <2>1, <3>1, Constants
    <3>2. CASE q # 0
      <4>1. slots(q) = BitmapLevels
        BY <2>1, <3>2
      <4> QED
        BY <2>1, <3>2, <4>1, Constants
    <3> QED
      BY <3>1, <3>2
  <2>5. q + s - 1 = p
    BY <2>1
  <2> HIDE DEF slots, level_of, s
  <2>4. all[q + 1].levels = [v \in 1..slots(q) |-> level_of(q + v - 1)]
    <3>1. all[q + 1].levels = row(q + 1)
      BY <1>4, <2>2
    <3>2. row(q + 1) = [v \in 1..slots((q + 1) - 1) |-> level_of((q + 1) - 1 + v - 1)]
      BY DEF row
    <3> QED
      BY <2>2, <3>1, <3>2
  <2>6. all[q + 1].levels[s] = level_of(p)
    BY <2>3, <2>4, <2>5
  <2>7. level_of(p) = heap_fill_level(F[p + 1].length)
    BY <2>2 DEF level_of
  <2>8. all[p + 1].length = F[p + 1].length
    BY <1>4, <2>2
  <2> QED
    BY <2>6, <2>7, <2>8 DEF q, s
<1> QED
  BY <1>3, <1>4, <1>5

(* A finished level covers the one below from end to end. *)
LEMMA WholeIs ==
  ASSUME TypeOK, NEW l \in 1..Len(tree), LevelWhole(l - 1), NEW k \in 1..Len(tree[l])
  PROVE  /\ Names(pages, tree[l][k].id, "node", l - 1, k)
         /\ tree[l][k].from = (IF k = 1 THEN 1 ELSE tree[l][k - 1].to + 1)
         /\ k = Len(tree[l]) => tree[l][k].to = (IF l = 1 THEN Len(values) ELSE Len(tree[l - 1]))
<1> DEFINE per == PerNode(l - 1)
           B == Entries(l - 1)
           T == tree[l]
           D == Len(T)
<1>1. /\ l \in Nat \ {0} /\ l - 1 \in Nat /\ (l - 1) + 1 = l /\ l \in 1..Len(tree)
      /\ T \in Seq(NodeType) /\ D \in Nat
  BY DEF TypeOK
<1>2. B = IF l = 1 THEN Len(values) ELSE Len(tree[l - 1])
  BY <1>1 DEF Entries
<1>3. B \in Nat
  <2>1. CASE l = 1
    BY <1>2, <2>1 DEF TypeOK
  <2>2. CASE l # 1
    <3>1. l - 1 \in 1..Len(tree)
      BY <1>1, <2>2
    <3>2. tree[l - 1] \in Seq(NodeType)
      BY <3>1 DEF TypeOK
    <3> QED
      BY <1>2, <2>2, <3>2
  <2> QED
    BY <2>1, <2>2
<1>4. per \in Nat \ {0}
  BY <1>1, PerNodeIs
<1>5. /\ B <= D * per
      /\ \A j \in 1..D :
           /\ T[j].from = (j - 1) * per + 1 /\ T[j].from <= B
           /\ T[j].to = IF j * per < B THEN j * per ELSE B
           /\ Names(pages, T[j].id, "node", l - 1, j)
  BY <1>1 DEF LevelWhole, LevelOK
<1> HIDE DEF per, B
<1>6. k \in 1..D
  OBVIOUS
<1> HIDE DEF T, D
<1>7. T[k].from = IF k = 1 THEN 1 ELSE T[k - 1].to + 1
  <2>1. CASE k = 1
    <3>1. (1 - 1) * per = 0
      BY <1>4
    <3> QED
      BY <1>5, <1>6, <2>1, <3>1
  <2>2. CASE k # 1
    <3>1. k - 1 \in 1..D
      BY <1>1, <1>6, <2>2
    <3>2. PICK x \in Nat : x = (k - 1) * per
      BY <1>4, <3>1
    <3>3. T[k].from = x + 1 /\ T[k].from <= B
      BY <1>5, <1>6, <3>2
    <3>4. T[k - 1].to = IF x < B THEN x ELSE B
      BY <1>5, <3>1, <3>2
    <3>5. x < B
      BY <1>3, <3>2, <3>3
    <3> QED
      BY <2>2, <3>3, <3>4, <3>5
  <2> QED
    BY <2>1, <2>2
<1>8. k = D => T[k].to = B
  <2> SUFFICES ASSUME k = D PROVE T[k].to = B
    OBVIOUS
  <2>1. PICK x \in Nat : x = D * per
    BY <1>1, <1>4
  <2>2. T[k].to = IF x < B THEN x ELSE B
    BY <1>5, <1>6, <2>1
  <2>3. ~(x < B)
    BY <1>3, <1>5, <2>1
  <2> QED
    BY <2>2, <2>3
<1> QED
  BY <1>2, <1>5, <1>6, <1>7, <1>8 DEF T, D

(* The pages are filled, and their fill levels written. *)
LEMMA BuildExternalHeap == HeapInv /\ BuildExternal => HeapInv'
<1> SUFFICES ASSUME HeapInv, BuildExternal PROVE HeapInv'
  OBVIOUS
<1>0. /\ phase = "pages" /\ UNCHANGED <<kind, values, pages, ids, tree, above, level>>
      /\ TypeOK /\ PagesOK(pages)
  BY DEF HeapInv, BuildExternal
<1>1. /\ \A n \in 1..Len(ids) : IdOK(pages, n, ids[n])
      /\ \A l \in 0..(Len(tree) - 1) : LevelWhole(l)
      /\ Len(tree) = level + 1 /\ Len(tree[level + 1]) = 1 /\ Len(ids) = Len(values)
      /\ values \in Seq(Nat) /\ level \in Nat /\ tree \in Seq(Seq(NodeType))
  BY <1>0 DEF HeapInv, Growing, TypeOK
<1>2. PICK N \in Nat : N = Len(pages) + 1
  BY <1>0 DEF PagesOK
<1>3. \A i \in 1..(Len(RawPages) - 1) : ~FillFails(RawPages[i])
  BY <1>0, <1>2, FilledPagesAre
<1>4. built' = update_heap_fill_levels(FilledPages) /\ phase' = "built"
  BY <1>3 DEF BuildExternal
<1>5. PICK all : all = update_heap_fill_levels(FilledPages)
  OBVIOUS
<1>6. /\ Len(all) = N /\ DOMAIN all = 1..N
      /\ \A i \in 1..N : \E t \in Seq(AllocType) :
           /\ all[i].allocs = t /\ all[i].ends = Ends(i - 1, t) /\ SizesOK(t)
           /\ all[i].mapAt = Laid(i - 1, t).mapAt
           /\ Len(RawAllocs(i)) <= Len(t)
           /\ \A j \in 1..Len(RawAllocs(i)) : t[j] = RawAllocs(i)[j]
           /\ all[i].length <= MaxPage /\ (i < N => all[i].length = MaxPage)
      /\ \A p \in 0..(N - 1) :
           all[LevelsAt(p) + 1].levels[p - LevelsAt(p) + 1] = heap_fill_level(all[p + 1].length)
  BY <1>0, <1>2, <1>5, BuiltIs
<1>7. built' = all
  BY <1>4, <1>5
<1>8. ASSUME NEW id, NEW what, NEW l, NEW m, Names(pages, id, what, l, m)
      PROVE  Resolves(id, what, l, m)'
  <2> DEFINE i == id.page + 1
  <2>1. /\ id.page \in 1..Len(pages) /\ id.index \in 1..Len(pages[id.page])
        /\ pages[id.page][id.index].what = what /\ pages[id.page][id.index].level = l
        /\ pages[id.page][id.index].n = m
    BY <1>8 DEF Names
  <2>2. i \in 1..N /\ i # 1 /\ i - 1 = id.page
    BY <1>2, <2>1
  <2>3. RawAllocs(i) = pages[id.page]
    BY <2>2 DEF RawAllocs
  <2>4. PICK t \in Seq(AllocType) :
          /\ all[i].allocs = t /\ Len(pages[id.page]) <= Len(t)
          /\ \A j \in 1..Len(pages[id.page]) : t[j] = pages[id.page][j]
    BY <1>6, <2>2, <2>3
  <2>5. pages[id.page] \in Seq(AllocType)
    BY <1>0, <2>1 DEF PagesOK
  <2>6. id.index \in 1..Len(t) /\ t[id.index] = pages[id.page][id.index]
    <3>1. Len(t) \in Nat /\ Len(pages[id.page]) \in Nat
      BY <2>4, <2>5
    <3> QED
      BY <2>1, <2>4, <3>1
  <2>7. DOMAIN t = 1..Len(t)
    BY <2>4
  <2>8. Found(id)' = t[id.index]
    BY <1>7, <2>4 DEF Found
  <2> QED
    BY <1>6, <1>7, <2>1, <2>2, <2>4, <2>6, <2>7, <2>8 DEF Resolves
<1>9. \A n \in DOMAIN values' :
         /\ ids'[n].index > 0 /\ ids'[n].page >= 0 =>
              Fits(ids[n])' /\ Resolves(ids[n], "value", 0, n)'
         /\ values'[n] \in 1..MaxAllocation /\ OnHeap(n)' => ids'[n].page >= 0 /\ ids'[n] # NoId
  <2> SUFFICES ASSUME NEW n \in 1..Len(values)
               PROVE  /\ ids'[n].index > 0 /\ ids'[n].page >= 0 =>
                           Fits(ids[n])' /\ Resolves(ids[n], "value", 0, n)'
                      /\ values'[n] \in 1..MaxAllocation /\ OnHeap(n)' =>
                           ids'[n].page >= 0 /\ ids'[n] # NoId
    BY <1>0, <1>1
  <2>1. ids'[n] = ids[n] /\ values'[n] = values[n] /\ values[n] \in Nat /\ (OnHeap(n)' <=> OnHeap(n))
    BY <1>0, <1>1 DEF OnHeap
  <2>2. IdOK(pages, n, ids[n])
    BY <1>1
  <2>3. NoId.page = 0 /\ NoId.index = 0 /\ InNode(n).page = -1
    BY HeapIdIs DEF NoId, InNode
  <2>4. CASE values[n] = 0 /\ ids[n] = NoId
    BY <2>1, <2>3, <2>4
  <2>5. CASE (values[n] > MaxAllocation \/ ~OnHeap(n)) /\ ids[n] = InNode(n)
    <3>1. ~(values[n] \in 1..MaxAllocation /\ OnHeap(n))
      BY <2>1, <2>5, Constants
    <3>2. ~(ids[n].page >= 0)
      BY <2>3, <2>5
    <3> QED
      BY <2>1, <3>1, <3>2
  <2>6. CASE Names(pages, ids[n], "value", 0, n)
    <3>1. Resolves(ids[n], "value", 0, n)'
      <4>1. Names(pages, ids'[n], "value", 0, n)
        BY <2>1, <2>6
      <4> QED
        BY <1>8, <4>1
    <3>2. ids[n].page \in 1..Len(pages)
      BY <2>6 DEF Names
    <3>3. ids[n].page >= 0 /\ ids[n].page # 0
      BY <3>2
    <3>4. Fits(ids[n])'
      <4>1. PagesOK(pages)
        BY DEF HeapInv
      <4>2. PageOK(ids[n].page, pages[ids[n].page]) /\ Len(pages) <= MaxPages
        BY <3>2, <4>1 DEF PagesOK
      <4>3. ids[n].index \in 1..Len(pages[ids[n].page])
        BY <2>6 DEF Names
      <4>4. Len(pages) \in Nat
        BY <4>1 DEF PagesOK
      <4> QED
        BY <2>1, <3>2, <4>2, <4>3, <4>4, Constants DEF Fits, PageOK
    <3> QED
      BY <2>1, <2>3, <3>1, <3>3, <3>4
  <2> QED
    BY <2>2, <2>4, <2>5, <2>6 DEF IdOK
<1>10. \A p \in 0..(N - 1) : PageSound(p)'
  <2> SUFFICES ASSUME NEW p \in 0..(N - 1) PROVE PageSound(p)'
    OBVIOUS
  <2>1. p + 1 \in 1..N /\ (p + 1) - 1 = p /\ p \in Nat
    BY <1>2
  <2>2. PICK t \in Seq(AllocType) :
          /\ all[p + 1].allocs = t /\ all[p + 1].ends = Ends(p, t) /\ SizesOK(t)
          /\ all[p + 1].mapAt = Laid(p, t).mapAt
          /\ all[p + 1].length <= MaxPage /\ (p + 1 < N => all[p + 1].length = MaxPage)
    BY <1>6, <2>1
  <2>3. \A i \in 1..Len(t) : t[i].size \in Nat \ {0} /\ t[i].size <= MaxAllocation
    BY <2>2, Constants DEF SizesOK
  <2>4. /\ \A k \in 1..Len(t) : Ends(p, t)[k - 1] < Ends(p, t)[k]
        /\ Ends(p, t)[Len(t)] <= Laid(p, t).mapAt
    BY <2>1, <2>2, <2>3, RowIs
  <2>5. DOMAIN t = 1..Len(t)
    BY <2>2
  <2> QED
    BY <1>6, <1>7, <2>2, <2>3, <2>4, <2>5 DEF PageSound
<1>11. \A p \in 0..(N - 1) : LevelSound(p)'
  BY <1>6, <1>7 DEF LevelSound
<1>12. TreeSound'
  <2>1. Len(tree') = level' + 1 /\ Len(Last(tree)') = 1
    BY <1>0, <1>1 DEF Last
  <2>2. ASSUME NEW l \in 1..Len(tree), NEW k \in 1..Len(tree[l])
        PROVE  /\ Resolves(tree[l][k].id, "node", l - 1, k)'
               /\ tree[l][k].from = (IF k = 1 THEN 1 ELSE tree[l][k - 1].to + 1)
               /\ k = Len(tree[l]) => tree[l][k].to = (IF l = 1 THEN Len(values) ELSE Len(tree[l - 1]))
    <3>1. l - 1 \in 0..(Len(tree) - 1)
      BY <1>1
    <3>2. LevelWhole(l - 1)
      BY <1>1, <3>1
    <3>3. /\ Names(pages, tree[l][k].id, "node", l - 1, k)
          /\ tree[l][k].from = (IF k = 1 THEN 1 ELSE tree[l][k - 1].to + 1)
          /\ k = Len(tree[l]) => tree[l][k].to = (IF l = 1 THEN Len(values) ELSE Len(tree[l - 1]))
      BY <1>0, <3>2, WholeIs
    <3>4. Names(pages, tree'[l][k].id, "node", l - 1, k)
      BY <1>0, <3>3
    <3>5. Resolves(tree[l][k].id, "node", l - 1, k)'
      BY <1>8, <3>4
    <3> QED
      BY <3>3, <3>5
  <2>3. DOMAIN tree = 1..Len(tree) /\ \A l \in 1..Len(tree) : DOMAIN tree[l] = 1..Len(tree[l])
    BY <1>1
  <2> QED
    BY <1>0, <2>1, <2>2, <2>3 DEF TreeSound
<1>13. HeapSound'
  <2>1. phase' = "built" /\ Len(built') = N
    BY <1>4, <1>6, <1>7
  <2> QED
    BY <1>9, <1>10, <1>11, <1>12, <2>1 DEF HeapSound
<1>14. TypeOK'
  BY <1>0, <1>4 DEF TypeOK, Phases
<1>15. Begun' /\ Growing' /\ PagesOK(pages)'
  BY <1>0, <1>4 DEF Begun, Growing
<1> QED
  BY <1>13, <1>14, <1>15 DEF HeapInv

(* Every step keeps HeapInv. *)
LEMMA NextHeap == HeapInv /\ [Next]_vars => HeapInv'
<1> SUFFICES ASSUME HeapInv, [Next]_vars PROVE HeapInv'
  OBVIOUS
<1>1. ASSUME NEW size \in Sizes, AddRecord(size) PROVE HeapInv'
  BY <1>1, AddRecordHeap
<1>2. CASE BuildCompact
  BY <1>2, BuildCompactHeap
<1>3. CASE BeginExternal
  BY <1>3, BeginHeap
<1>4. CASE PushValue
  BY <1>4, PushValueHeap
<1>5. CASE PushTree
  BY <1>5, PushTreeHeap
<1>6. CASE BuildExternal
  BY <1>6, BuildExternalHeap
<1>7. CASE Over \/ UNCHANGED vars
  BY <1>7, StutterHeap DEF Over
<1> QED
  BY <1>1, <1>2, <1>3, <1>4, <1>5, <1>6, <1>7 DEF Next

(***************************************************************************)
(* The heap that property_context, table_context and their callers write   *)
(* is sound for values of any sizes and any number, and for every page     *)
(* geometry that HeapAssumption allows: each id leads to its own value     *)
(* after fill_heap_page has padded the pages, padding never fails, no      *)
(* allocation or page is larger than its maximum, the tree covers all      *)
(* records in order, and a reader finds the fill level of every page.      *)
(***************************************************************************)
THEOREM HeapAlwaysSound == Spec => []HeapSound
<1>1. HeapInv => HeapSound
  BY DEF HeapInv
<1> QED
  BY <1>1, InitHeap, NextHeap, PTL DEF Spec
=============================================================================
