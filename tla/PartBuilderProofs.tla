------------------------- MODULE PartBuilderProofs -------------------------
(***************************************************************************)
(* PartsAsReference for every set of sizes, every maximum, every choice of *)
(* the batch targets and any number of interruptions: the deferred batches *)
(* with their rollback and replay cut the parts of the plain greedy rule.  *)
(*                                                                         *)
(* The induction is over the steps of the split; GreedyTo and Bytes are    *)
(* recursive, so the first section derives an induction principle for sets *)
(* of numbers, and that a function may be defined by primitive recursion,  *)
(* from facts about finite sets.                                           *)
(***************************************************************************)
EXTENDS PartBuilder, FiniteSetTheorems, TLAPS

Phases == {"begin", "loop", "finalize", "done", "failed", "down"}

TypeOK ==
    /\ size \in [All -> Sizes] /\ bad \in SUBSET All
    /\ parts \in Seq(Seq(All)) /\ rejected \in SUBSET bad
    /\ candidates \in Seq(All) /\ index \in Nat \ {0} /\ part \in Seq(All)
    /\ batch \in [index : Nat \ {0}, part : Seq(All), attempts : Nat, eof : Nat]
    /\ exact \in BOOLEAN /\ phase \in Phases /\ stops \in Nat

\* The messages before the candidate at i.
Upto(i) == IF i <= Len(candidates) THEN candidates[i] - 1 ELSE Messages

\* The parts with the open one.
WithOpen(p) == IF p = <<>> THEN parts ELSE Append(parts, p)

\* The next message to be written does not fit behind p in part n.
NextOpens(v, p, n) ==
    \A m \in (v + 1)..Messages :
        m \notin bad /\ (\A k \in (v + 1)..(m - 1) : k \in bad) =>
            projected_file_eof(Append(p, m), n) > maximum_pst_bytes

\* The published parts are those of the greedy rule for the first w messages,
\* and none of them grows.
Durable(w) ==
    /\ \A m \in 1..w : m \in bad => m \in rejected
    /\ \A m \in All : m \in Written <=> m <= w /\ m \notin bad
    /\ parts = GreedyTo[w]
    /\ parts # <<>> => NextOpens(w, parts[Len(parts)], Len(parts))

\* This run: every message behind w is a candidate, or rejected before.
Run(w) ==
    /\ index <= Len(candidates) + 1 /\ w <= Upto(index)
    /\ \A i, j \in DOMAIN candidates : i < j => candidates[i] < candidates[j]
    /\ \A m \in (w + 1)..Messages :
          m \in rejected \/ \E i \in DOMAIN candidates : candidates[i] = m
    /\ \A m \in 1..Upto(index) : m \in bad => m \in rejected

\* p holds the messages to be written between w and the candidate at i.
Content(w, p, i) ==
    \A m \in All : (\E k \in DOMAIN p : p[k] = m) <=> w < m /\ m <= Upto(i) /\ m \notin bad

\* The open part: exact up to the checkpoint, and beyond it unless too large.
Filling(w) ==
    /\ batch.index <= index /\ w <= Upto(batch.index)
    /\ Content(w, part, index) /\ Content(w, batch.part, batch.index)
    /\ ~TooLarge(batch.part) /\ GreedyTo[Upto(batch.index)] = WithOpen(batch.part)
    /\ TooLarge(part) \/ GreedyTo[Upto(index)] = WithOpen(part)
    /\ exact => ~TooLarge(part)
    /\ batch.attempts = 0 /\ ~exact => part = batch.part

Closed ==
    /\ ~TooLarge(part)
    /\ part # <<>> => NextOpens(Upto(index), part, Len(parts) + 1)

At(w) ==
    /\ Durable(w)
    /\ phase \in {"begin", "loop", "finalize"} => Run(w)
    /\ phase = "begin" => w = Upto(index)
    /\ phase \in {"loop", "finalize"} => Filling(w)
    /\ phase = "finalize" => Closed
    /\ phase = "done" => w = Messages
    /\ phase # "failed"

Inv == TypeOK /\ \E w \in 0..Messages : At(w)

-----------------------------------------------------------------------------
(***************************************************************************)
(* Induction.  A set with 0 that is closed under successor misses no       *)
(* number n: the successor would map its part below n into itself without  *)
(* 0, one to one, and that part is finite.                                 *)
(***************************************************************************)
LEMMA SetInduction ==
  ASSUME NEW S, 0 \in S, \A n \in Nat : n \in S => n + 1 \in S
  PROVE  \A n \in Nat : n \in S
<1> SUFFICES ASSUME NEW n \in Nat, n \notin S PROVE FALSE
  OBVIOUS
<1> DEFINE A == {m \in 0..n : m \in S}
           f == [m \in A |-> m + 1]
<1>1. IsFiniteSet(A)
  BY FS_BoundedSetOfNaturals
<1>2. 0 \in A /\ \A m \in A : m + 1 \in A \ {0}
  OBVIOUS
<1>3. f \in Injection(A, A \ {0})
  BY <1>2 DEF Injection, IsInjective
<1>4. /\ IsFiniteSet(A \ {0}) /\ Cardinality(A) \in Nat
      /\ Cardinality(A \ {0}) = Cardinality(A) - 1
  BY <1>1, <1>2, FS_RemoveElement, FS_CardinalityType
<1>5. Cardinality(A) <= Cardinality(A \ {0})
  BY <1>3, <1>4, FS_Injection
<1> QED
  BY <1>4, <1>5

\* Induction from a number a on, up to b.
LEMMA RangeInduction ==
  ASSUME NEW a \in Nat, NEW b \in Nat, NEW S, a \in S,
         \A n \in a..(b - 1) : n \in S => n + 1 \in S
  PROVE  \A n \in a..b : n \in S
<1> DEFINE T == {k \in Nat : a + k > b \/ a + k \in S}
<1>1. 0 \in T
  OBVIOUS
<1>2. ASSUME NEW k \in Nat, k \in T PROVE k + 1 \in T
  <2>1. CASE a + k >= b
    BY <2>1
  <2>2. CASE a + k < b
    <3>1. a + k \in a..(b - 1) /\ a + k \in S
      BY <1>2, <2>2
    <3>2. (a + k) + 1 \in S
      BY <3>1
    <3> QED
      BY <3>2
  <2> QED
    BY <2>1, <2>2
<1> HIDE DEF T
<1>3. \A k \in Nat : k \in T
  BY <1>1, <1>2, SetInduction
<1> QED
  <2> SUFFICES ASSUME NEW n \in a..b PROVE n \in S
    OBVIOUS
  <2>1. n - a \in Nat /\ n - a \in T
    BY <1>3
  <2> QED
    BY <2>1 DEF T

(***************************************************************************)
(* Primitive recursion over 0..N, and that it determines the function.     *)
(***************************************************************************)
Steps(N, V) == [1..N -> [V -> V]]
Recursive(g, N, V, base, step) ==
    /\ g \in [0..N -> V] /\ g[0] = base
    /\ \A i \in 1..N : g[i] = step[i][g[i - 1]]

LEMMA Recursion ==
  ASSUME NEW N \in Nat, NEW V, NEW base \in V, NEW step \in Steps(N, V)
  PROVE  \E g : Recursive(g, N, V, base, step)
<1> USE DEF Steps, Recursive
<1> DEFINE Good(n, g) == /\ g \in [0..n -> V] /\ g[0] = base
                         /\ \A i \in 1..n : g[i] = step[i][g[i - 1]]
           S == {n \in Nat : \E g : Good(n, g)}
<1>1. 0 \in S
  <2>1. Good(0, [i \in 0..0 |-> base])
    OBVIOUS
  <2> QED
    BY <2>1
<1>2. ASSUME NEW n \in 0..(N - 1), n \in S PROVE n + 1 \in S
  <2>1. PICK g : Good(n, g)
    BY <1>2
  <2> DEFINE h == [i \in 0..(n + 1) |-> IF i <= n THEN g[i] ELSE step[n + 1][g[n]]]
  <2>2. g[n] \in V /\ n + 1 \in 1..N
    BY <2>1
  <2>3. step[n + 1][g[n]] \in V
    BY <2>2
  <2>4. h \in [0..(n + 1) -> V] /\ h[0] = base
    BY <2>1, <2>3
  <2>5. ASSUME NEW i \in 1..(n + 1) PROVE h[i] = step[i][h[i - 1]]
    <3>1. CASE i <= n
      BY <2>1, <3>1
    <3>2. CASE i = n + 1
      BY <3>2
    <3> QED
      BY <3>1, <3>2
  <2>6. Good(n + 1, h)
    BY <2>4, <2>5
  <2> HIDE DEF Good, h
  <2> QED
    BY <2>6
<1> HIDE DEF S
<1>3. \A n \in 0..N : n \in S
  <2>1. 0 \in Nat /\ \A n \in 0..(N - 1) : n \in S => n + 1 \in S
    BY <1>2
  <2> QED
    BY <1>1, <2>1, RangeInduction
<1>4. N \in S
  BY <1>3
<1> QED
  BY <1>4 DEF S

-----------------------------------------------------------------------------
(* The bytes of a part.                                                    *)

IsSum(g, p) == g = [n \in 0..Len(p) |-> IF n = 0 THEN 0 ELSE g[n - 1] + size[p[n]]]

LEMMA SizesAreNat ==
  ASSUME size \in [All -> Sizes], NEW m \in All
  PROVE  size[m] \in Nat \ {0}
  BY SizeAssumption

LEMMA BytesUnfolds ==
  ASSUME size \in [All -> Sizes], NEW p \in Seq(All)
  PROVE  \E g : IsSum(g, p) /\ g \in [0..Len(p) -> Nat] /\ Bytes(p) = g[Len(p)]
<1> DEFINE step == [i \in 1..Len(p) |-> [v \in Nat |-> v + size[p[i]]]]
           Sum == CHOOSE g : IsSum(g, p)
<1>1. \A i \in 1..Len(p) : size[p[i]] \in Nat
  BY SizesAreNat
<1>2. step \in [1..Len(p) -> [Nat -> Nat]] /\ Len(p) \in Nat
  BY <1>1
<1>3. PICK g : /\ g \in [0..Len(p) -> Nat] /\ g[0] = 0
               /\ \A i \in 1..Len(p) : g[i] = step[i][g[i - 1]]
  <2> DEFINE N == Len(p)
             V == Nat
             zero == 0
  <2>1. N \in Nat /\ step \in Steps(N, V) /\ zero \in V
    BY <1>2 DEF Steps
  <2> HIDE DEF step, N, V, zero
  <2>2. \E g : Recursive(g, N, V, zero, step)
    BY <2>1, Recursion
  <2> QED
    BY <2>2 DEF N, V, zero, Recursive
<1>4. IsSum(g, p)
  <2>1. ASSUME NEW n \in 1..Len(p) PROVE g[n] = g[n - 1] + size[p[n]]
    <3> HIDE DEF step
    <3>1. g[n - 1] \in Nat /\ g[n] = step[n][g[n - 1]]
      BY <1>2, <1>3
    <3> QED
      BY <3>1 DEF step
  <2> QED
    BY <1>2, <1>3, <2>1 DEF IsSum
<1>5. IsSum(Sum, p)
  BY <1>4
<1>6. Bytes(p) = Sum[Len(p)]
  BY DEF Bytes, IsSum
<1> HIDE DEF Sum
<1>7. \A n \in 0..Len(p) : n \in {k \in Nat : Sum[k] \in Nat}
  <2> DEFINE S == {k \in Nat : Sum[k] \in Nat}
  <2>1. 0 \in S
    BY <1>2, <1>5 DEF IsSum
  <2>2. ASSUME NEW n \in 0..(Len(p) - 1), n \in S PROVE n + 1 \in S
    <3>1. Sum[n + 1] = Sum[n] + size[p[n + 1]]
      BY <1>2, <1>5 DEF IsSum
    <3> QED
      BY <1>1, <1>2, <2>2, <3>1
  <2> HIDE DEF S
  <2>3. \A n \in 0..Len(p) : n \in S
    BY <1>2, <2>1, <2>2, RangeInduction
  <2> QED
    BY <2>3 DEF S
<1>8. Sum \in [0..Len(p) -> Nat]
  BY <1>5, <1>7 DEF IsSum
<1> QED
  BY <1>5, <1>6, <1>8

LEMMA BytesFacts ==
  ASSUME size \in [All -> Sizes], NEW p \in Seq(All)
  PROVE  /\ Bytes(p) \in Nat /\ Bytes(<<>>) = 0
         /\ \A m \in All : Bytes(Append(p, m)) = Bytes(p) + size[m]
<1>1. PICK g : IsSum(g, p) /\ g \in [0..Len(p) -> Nat] /\ Bytes(p) = g[Len(p)]
  BY BytesUnfolds
<1>2. Len(p) \in Nat
  OBVIOUS
<1>3. Bytes(<<>>) = 0
  <2>1. PICK h : IsSum(h, <<>>) /\ Bytes(<<>>) = h[Len(<<>>)]
    BY BytesUnfolds
  <2> QED
    BY <2>1 DEF IsSum
<1>4. ASSUME NEW m \in All PROVE Bytes(Append(p, m)) = Bytes(p) + size[m]
  <2> DEFINE q == Append(p, m)
  <2>1. q \in Seq(All) /\ Len(q) = Len(p) + 1 /\ q[Len(p) + 1] = m
        /\ \A n \in 1..Len(p) : q[n] = p[n]
    OBVIOUS
  <2> HIDE DEF q
  <2>2. PICK h : IsSum(h, q) /\ Bytes(q) = h[Len(q)]
    BY <2>1, BytesUnfolds
  <2>3. h[0] = 0 /\ g[0] = 0 /\ h[Len(q)] = h[Len(p)] + size[m]
    BY <1>1, <1>2, <2>1, <2>2 DEF IsSum
  <2>4. \A n \in 0..Len(p) : h[n] = g[n]
    <3> DEFINE S == {k \in Nat : h[k] = g[k]}
    <3>1. 0 \in S
      BY <2>3
    <3>2. ASSUME NEW n \in 0..(Len(p) - 1), n \in S PROVE n + 1 \in S
      <4>1. h[n + 1] = h[n] + size[q[n + 1]] /\ g[n + 1] = g[n] + size[p[n + 1]]
        BY <1>1, <1>2, <2>1, <2>2 DEF IsSum
      <4> QED
        BY <2>1, <3>2, <4>1
    <3> HIDE DEF S
    <3>3. \A n \in 0..Len(p) : n \in S
      BY <1>2, <3>1, <3>2, RangeInduction
    <3> QED
      BY <3>3 DEF S
  <2> QED
    BY <1>1, <1>2, <2>2, <2>3, <2>4 DEF q
<1> QED
  BY <1>1, <1>3, <1>4

-----------------------------------------------------------------------------
(* The candidates of a run.                                                *)

IsList(g, W) ==
    g = [n \in 0..Messages |-> IF n = 0 THEN <<>>
                               ELSE IF n \in W THEN g[n - 1] ELSE Append(g[n - 1], n)]

\* The numbers up to n that are not in W, in order.
Ordered(s, n, W) ==
    /\ s \in Seq(All)
    /\ \A i, j \in DOMAIN s : i < j => s[i] < s[j]
    /\ \A m \in All : (\E i \in DOMAIN s : s[i] = m) <=> m <= n /\ m \notin W

LEMMA OrderedGrows ==
  ASSUME NEW W, NEW n \in 0..(Messages - 1), NEW s, Ordered(s, n, W)
  PROVE  Ordered(IF n + 1 \in W THEN s ELSE Append(s, n + 1), n + 1, W)
<1> USE SizeAssumption DEF All
<1>1. CASE n + 1 \in W
  BY <1>1 DEF Ordered
<1>2. CASE n + 1 \notin W
  <2> DEFINE t == Append(s, n + 1)
  <2>1. /\ t \in Seq(All) /\ Len(t) = Len(s) + 1 /\ t[Len(s) + 1] = n + 1 /\ Len(s) \in Nat
        /\ DOMAIN t = 1..(Len(s) + 1) /\ DOMAIN s = 1..Len(s)
        /\ \A i \in 1..Len(s) : t[i] = s[i] /\ s[i] \in All
    BY DEF Ordered
  <2> HIDE DEF t
  <2>2. \A i \in 1..Len(s) : t[i] <= n
    BY <2>1 DEF Ordered
  <2>3. ASSUME NEW i \in DOMAIN t, NEW j \in DOMAIN t, i < j PROVE t[i] < t[j]
    <3>1. i \in 1..Len(s) /\ i \in DOMAIN s
      BY <2>1, <2>3
    <3>2. CASE j = Len(s) + 1
      BY <2>1, <2>2, <3>1, <3>2
    <3>3. CASE j # Len(s) + 1
      <4>1. j \in DOMAIN s /\ j \in 1..Len(s)
        BY <2>1, <3>3
      <4>2. s[i] < s[j]
        BY <2>3, <3>1, <4>1 DEF Ordered
      <4> QED
        BY <2>1, <3>1, <4>1, <4>2
    <3> QED
      BY <3>2, <3>3
  <2>4. ASSUME NEW m \in All
        PROVE  (\E i \in DOMAIN t : t[i] = m) <=> m <= n + 1 /\ m \notin W
    <3>1. (\E i \in DOMAIN s : s[i] = m) <=> m <= n /\ m \notin W
      BY DEF Ordered
    <3>2. (\E i \in DOMAIN t : t[i] = m) <=> (\E i \in DOMAIN s : s[i] = m) \/ m = n + 1
      BY <2>1
    <3> QED
      BY <1>2, <3>1, <3>2
  <2>5. Ordered(t, n + 1, W)
    BY <2>1, <2>3, <2>4 DEF Ordered
  <2> QED
    BY <1>2, <2>5 DEF t
<1> QED
  BY <1>1, <1>2

LEMMA ListExists == ASSUME NEW W PROVE \E g : IsList(g, W)
<1> DEFINE V == Seq(All)
           step == [n \in 1..Messages |->
                      [v \in V |-> IF n \in W THEN v ELSE Append(v, n)]]
           none == <<>>
<1>1. Messages \in Nat /\ step \in Steps(Messages, V) /\ none \in V
  <2>1. Messages \in Nat /\ none \in V
    BY SizeAssumption
  <2>2. ASSUME NEW n \in 1..Messages, NEW v \in V
        PROVE  (IF n \in W THEN v ELSE Append(v, n)) \in V
    <3>1. n \in All
      BY DEF All
    <3>2. Append(v, n) \in V
      BY <3>1
    <3> QED
      BY <3>2
  <2> QED
    BY <2>1, <2>2 DEF Steps
<1>2. PICK g : Recursive(g, Messages, V, none, step)
  <2> HIDE DEF V, step, none
  <2> QED
    BY <1>1, Recursion
<1>3. ASSUME NEW n \in 1..Messages
      PROVE  g[n] = IF n \in W THEN g[n - 1] ELSE Append(g[n - 1], n)
  <2>1. g[n] = step[n][g[n - 1]] /\ g[n - 1] \in V
    <3> HIDE DEF V, step, none
    <3> QED
      BY <1>1, <1>2 DEF Recursive
  <2> QED
    BY <2>1
<1>4. g = [n \in 0..Messages |-> g[n]] /\ g[0] = <<>>
  BY <1>2 DEF Recursive
<1>5. \A n \in 0..Messages : n = 0 \/ n \in 1..Messages
  BY <1>1
<1> HIDE DEF V, step, none
<1> QED
  BY <1>3, <1>4, <1>5 DEF IsList

LEMMA SpooledOrdered == Ordered(Spooled, Messages, Written \cup rejected)
<1> DEFINE W == Written \cup rejected
           UpTo == CHOOSE g : IsList(g, W)
           S == {n \in Nat : Ordered(UpTo[n], n, W)}
<1>1. IsList(UpTo, W) /\ Messages \in Nat
  BY ListExists, SizeAssumption
<1>2. Spooled = UpTo[Messages]
  BY DEF Spooled, IsList
<1> HIDE DEF UpTo, W
<1>3. 0 \in S
  BY <1>1 DEF IsList, Ordered, All
<1>4. ASSUME NEW n \in 0..(Messages - 1), n \in S PROVE n + 1 \in S
  <2>1. n + 1 \in 0..Messages /\ n + 1 # 0 /\ (n + 1) - 1 = n
    BY <1>1
  <2>2. UpTo[n + 1] = IF n + 1 \in W THEN UpTo[n] ELSE Append(UpTo[n], n + 1)
    BY <1>1, <2>1 DEF IsList
  <2> QED
    BY <1>4, <2>2, OrderedGrows
<1> HIDE DEF S
<1>5. \A n \in 0..Messages : n \in S
  BY <1>1, <1>3, <1>4, RangeInduction
<1> QED
  BY <1>1, <1>2, <1>5 DEF S, W

-----------------------------------------------------------------------------
(* The greedy rule.                                                        *)

IsCut(g) ==
    g = [n \in 0..Messages |-> IF n = 0 THEN <<>>
                               ELSE IF n \in bad THEN g[n - 1] ELSE Place(g[n - 1], n)]

LEMMA PlaceType ==
  ASSUME NEW v \in Seq(Seq(All)), NEW m \in All
  PROVE  Place(v, m) \in Seq(Seq(All))
<1>1. CASE v = <<>>
  BY <1>1 DEF Place
<1>2. CASE v # <<>>
  <2> DEFINE grown == Append(Last(v), m)
  <2>1. grown \in Seq(All) /\ Front(v) \in Seq(Seq(All)) /\ <<m>> \in Seq(All)
    BY <1>2 DEF Last, Front
  <2>2. Place(v, m) \in {Append(v, <<m>>), Append(Front(v), grown)}
    BY <1>2 DEF Place
  <2> HIDE DEF grown
  <2>3. \A s \in Seq(Seq(All)), t \in Seq(All) : Append(s, t) \in Seq(Seq(All))
    OBVIOUS
  <2> QED
    BY <2>1, <2>2, <2>3
<1> QED
  BY <1>1, <1>2

LEMMA GreedyUnfolds ==
  /\ GreedyTo[0] = <<>>
  /\ \A n \in 1..Messages :
       GreedyTo[n] = IF n \in bad THEN GreedyTo[n - 1] ELSE Place(GreedyTo[n - 1], n)
  /\ \A n \in 0..Messages : GreedyTo[n] \in Seq(Seq(All))
<1> DEFINE V == Seq(Seq(All))
           step == [n \in 1..Messages |->
                      [v \in V |-> IF n \in bad THEN v ELSE Place(v, n)]]
           none == <<>>
<1>1. Messages \in Nat /\ none \in V /\ All = 1..Messages
  BY SizeAssumption DEF All
<1>2. step \in Steps(Messages, V)
  BY <1>1, PlaceType DEF Steps
<1>3. PICK g : Recursive(g, Messages, V, none, step)
  <2> HIDE DEF V, step, none
  <2> QED
    BY <1>1, <1>2, Recursion
<1>4. ASSUME NEW n \in 1..Messages
      PROVE  g[n] = IF n \in bad THEN g[n - 1] ELSE Place(g[n - 1], n)
  <2>1. g[n] = step[n][g[n - 1]] /\ g[n - 1] \in V
    <3> HIDE DEF V, step, none
    <3> QED
      BY <1>1, <1>3 DEF Recursive
  <2> QED
    BY <2>1
<1>5. IsCut(g)
  <2>1. g = [n \in 0..Messages |-> g[n]] /\ g[0] = <<>>
    BY <1>3 DEF Recursive
  <2> QED
    BY <1>1, <1>4, <2>1 DEF IsCut
<1>6. IsCut(GreedyTo)
  <2>1. GreedyTo = CHOOSE h : IsCut(h)
    BY DEF GreedyTo, IsCut
  <2> QED
    BY <1>5, <2>1
<1> HIDE DEF V, step
<1>7. \A n \in 0..Messages : GreedyTo[n] \in V
  <2> DEFINE S == {n \in Nat : GreedyTo[n] \in V}
  <2>1. 0 \in S
    BY <1>1, <1>6 DEF IsCut
  <2>2. ASSUME NEW n \in 0..(Messages - 1), n \in S PROVE n + 1 \in S
    <3>1. GreedyTo[n + 1] \in {GreedyTo[n], Place(GreedyTo[n], n + 1)}
      BY <1>1, <1>6 DEF IsCut
    <3> QED
      BY <1>1, <2>2, <3>1, PlaceType DEF V
  <2> HIDE DEF S
  <2>3. \A n \in 0..Messages : n \in S
    BY <1>1, <2>1, <2>2, RangeInduction
  <2> QED
    BY <2>3 DEF S
<1>8. \A n \in 1..Messages : n \in 0..Messages /\ n # 0
  BY <1>1
<1>9. 0 \in 0..Messages
  BY <1>1
<1> QED
  BY <1>6, <1>7, <1>8, <1>9 DEF IsCut, V

LEMMA GreedyFlat ==
  ASSUME NEW w \in 0..Messages, NEW v \in w..Messages, \A m \in (w + 1)..v : m \in bad
  PROVE  GreedyTo[v] = GreedyTo[w]
<1> DEFINE S == {n \in Nat : GreedyTo[n] = GreedyTo[w]}
<1>1. w \in Nat /\ v \in Nat /\ w \in S /\ Messages \in Nat
  BY SizeAssumption
<1>2. ASSUME NEW n \in w..(v - 1), n \in S PROVE n + 1 \in S
  <2>1. n + 1 \in 1..Messages /\ n + 1 \in bad /\ (n + 1) - 1 = n
    BY <1>1
  <2> QED
    BY <1>1, <1>2, <2>1, GreedyUnfolds
<1> HIDE DEF S
<1>3. \A n \in w..v : n \in S
  BY <1>1, <1>2, RangeInduction
<1> QED
  BY <1>1, <1>3 DEF S

\* Where the next message opens a part, and where it joins the last one.
LEMMA PlaceOpens ==
  ASSUME NEW acc \in Seq(Seq(All)), NEW m \in All,
         acc # <<>> => projected_file_eof(Append(acc[Len(acc)], m), Len(acc)) > maximum_pst_bytes
  PROVE  Place(acc, m) = Append(acc, <<m>>)
<1>1. CASE acc = <<>>
  <2>1. <<<<m>>>> = Append(<<>>, <<m>>)
    OBVIOUS
  <2> QED
    BY <1>1, <2>1 DEF Place
<1>2. CASE acc # <<>>
  BY <1>2 DEF Place, Last
<1> QED
  BY <1>1, <1>2

LEMMA PlaceJoins ==
  ASSUME NEW closed \in Seq(Seq(All)), NEW p \in Seq(All), NEW m \in All,
         ~(projected_file_eof(Append(p, m), Len(closed) + 1) > maximum_pst_bytes)
  PROVE  Place(Append(closed, p), m) = Append(closed, Append(p, m))
<1> DEFINE acc == Append(closed, p)
<1>1. acc # <<>> /\ Last(acc) = p /\ Front(acc) = closed /\ Len(acc) = Len(closed) + 1
  <2> DEFINE V == Seq(All)
  <2>1. closed \in Seq(V) /\ p \in V
    OBVIOUS
  <2> HIDE DEF V
  <2>2. /\ Len(closed) \in Nat /\ Len(acc) = Len(closed) + 1 /\ acc[Len(closed) + 1] = p
        /\ \A i \in 1..Len(closed) : acc[i] = closed[i]
    BY <2>1
  <2>3. Front(acc) = closed
    BY <2>1, <2>2 DEF Front
  <2> QED
    BY <2>2, <2>3 DEF Last
<1> HIDE DEF acc
<1>2. Place(acc, m) = Append(closed, Append(p, m))
  BY <1>1 DEF Place
<1> QED
  BY <1>2 DEF acc

\* Either way the parts before the last one stay.
LEMMA PlaceKeeps ==
  ASSUME NEW acc \in Seq(Seq(All)), NEW m \in All, NEW n \in Nat, n < Len(acc)
  PROVE  Len(Place(acc, m)) > n /\ \A i \in 1..n : Place(acc, m)[i] = acc[i]
<1> DEFINE grown == Append(acc[Len(acc)], m)
<1>1. acc # <<>> /\ Place(acc, m) \in {Append(acc, <<m>>), Append(Front(acc), grown)}
  BY DEF Place, Last
<1>2. /\ Front(acc) \in Seq(Seq(All)) /\ Len(Front(acc)) = Len(acc) - 1
      /\ \A i \in 1..(Len(acc) - 1) : Front(acc)[i] = acc[i]
  <2>1. Len(acc) \in Nat /\ Len(acc) - 1 \in 0..Len(acc)
    BY <1>1
  <2>2. Front(acc) = [i \in 1..(Len(acc) - 1) |-> acc[i]]
    BY <2>1 DEF Front
  <2>3. \A i \in 1..(Len(acc) - 1) : acc[i] \in Seq(All)
    BY <2>1
  <2>4. Front(acc) \in Seq(Seq(All))
    BY <2>1, <2>2, <2>3
  <2>5. Len(Front(acc)) = Len(acc) - 1
    BY <2>1, <2>2
  <2> QED
    BY <2>2, <2>4, <2>5
<1>3. grown \in Seq(All) /\ <<m>> \in Seq(All)
  BY <1>1
<1> HIDE DEF grown
<1>4. CASE Place(acc, m) = Append(acc, <<m>>)
  BY <1>3, <1>4
<1>5. CASE Place(acc, m) = Append(Front(acc), grown)
  BY <1>2, <1>3, <1>5
<1> QED
  BY <1>1, <1>4, <1>5

\* Parts that the next message does not join are parts of the whole split.
LEMMA GreedyKeeps ==
  ASSUME NEW w \in 0..Messages,
         GreedyTo[w] # <<>> => NextOpens(w, GreedyTo[w][Len(GreedyTo[w])], Len(GreedyTo[w]))
  PROVE  IsPrefix(GreedyTo[w], Greedy)
<1> DEFINE base == GreedyTo[w]
           Same(n) == base = GreedyTo[n] /\ \A k \in (w + 1)..n : k \in bad
           Longer(n) == Len(GreedyTo[n]) > Len(base)
                        /\ \A i \in 1..Len(base) : GreedyTo[n][i] = base[i]
           S == {n \in Nat : Same(n) \/ Longer(n)}
<1>1. w \in Nat /\ Messages \in Nat /\ All = 1..Messages /\ base \in Seq(Seq(All))
  BY SizeAssumption, GreedyUnfolds DEF All
<1> HIDE DEF base
<1>2. w \in S
  BY <1>1 DEF base
<1>3. ASSUME NEW n \in w..(Messages - 1), n \in S PROVE n + 1 \in S
  <2>1. /\ n + 1 \in 1..Messages /\ (n + 1) - 1 = n /\ n \in Nat /\ n \in 0..Messages
    BY <1>1
  <2>2. GreedyTo[n + 1] = IF n + 1 \in bad THEN GreedyTo[n] ELSE Place(GreedyTo[n], n + 1)
    BY <2>1, GreedyUnfolds
  <2>3. CASE n + 1 \in bad
    <3>1. Same(n) => Same(n + 1)
      BY <1>1, <2>1, <2>2, <2>3
    <3>2. Longer(n) => Longer(n + 1)
      BY <2>2, <2>3
    <3> QED
      BY <1>3, <2>1, <3>1, <3>2
  <2>4. CASE n + 1 \notin bad /\ Same(n)
    <3>1. base # <<>> => projected_file_eof(Append(base[Len(base)], n + 1), Len(base))
                              > maximum_pst_bytes
      BY <1>1, <2>1, <2>4 DEF NextOpens, base
    <3>2. GreedyTo[n + 1] = Append(base, <<n + 1>>)
      BY <1>1, <2>1, <2>2, <2>4, <3>1, PlaceOpens
    <3>3. Longer(n + 1)
      BY <1>1, <2>1, <3>2
    <3> QED
      BY <2>1, <3>3
  <2>5. CASE n + 1 \notin bad /\ Longer(n)
    <3>1. GreedyTo[n] \in Seq(Seq(All)) /\ Len(base) \in Nat /\ n + 1 \in All
      BY <1>1, <2>1, GreedyUnfolds
    <3>2. /\ Len(Place(GreedyTo[n], n + 1)) > Len(base)
          /\ \A i \in 1..Len(base) : Place(GreedyTo[n], n + 1)[i] = GreedyTo[n][i]
      BY <2>5, <3>1, PlaceKeeps
    <3>3. Longer(n + 1)
      BY <2>2, <2>5, <3>2
    <3> QED
      BY <2>1, <3>3
  <2> QED
    BY <1>3, <2>3, <2>4, <2>5
<1>4. \A n \in w..Messages : n \in S
  <2> HIDE DEF S
  <2> QED
    BY <1>1, <1>2, <1>3, RangeInduction
<1>5. /\ Greedy \in Seq(Seq(All)) /\ Len(base) <= Len(Greedy)
      /\ \A i \in 1..Len(base) : Greedy[i] = base[i]
  <2>1. Messages \in S /\ Messages \in 0..Messages
    BY <1>1, <1>4
  <2> QED
    BY <1>1, <2>1, GreedyUnfolds DEF Greedy
<1>6. SubSeq(base, 1, Len(base)) = SubSeq(Greedy, 1, Len(base))
  BY <1>1, <1>5
<1> QED
  BY <1>5, <1>6 DEF base, IsPrefix

-----------------------------------------------------------------------------
(* What the steps leave alone.                                             *)

LEMMA FrozenInput ==
  ASSUME UNCHANGED input
  PROVE  /\ GreedyTo' = GreedyTo
         /\ \A p : Bytes(p)' = Bytes(p)
         /\ \A p, n : projected_file_eof(p, n)' = projected_file_eof(p, n)
         /\ \A v, p, n : NextOpens(v, p, n)' <=> NextOpens(v, p, n)
<1>1. size' = size /\ bad' = bad
  BY DEF input
<1>2. \A p : Bytes(p)' = Bytes(p)
  BY <1>1 DEF Bytes
<1>3. \A p, n : projected_file_eof(p, n)' = projected_file_eof(p, n)
  BY <1>2 DEF projected_file_eof
<1>4. \A acc, m : Place(acc, m)' = Place(acc, m)
  BY <1>3 DEF Place
<1>5. GreedyTo' = GreedyTo
  BY <1>1, <1>4 DEF GreedyTo
<1>6. \A v, p, n : NextOpens(v, p, n)' <=> NextOpens(v, p, n)
  BY <1>1, <1>3 DEF NextOpens
<1> QED
  BY <1>2, <1>3, <1>5, <1>6

LEMMA FrozenParts ==
  ASSUME UNCHANGED input, UNCHANGED parts
  PROVE  /\ Written' = Written
         /\ \A p : TooLarge(p)' <=> TooLarge(p)
         /\ \A p : WithOpen(p)' = WithOpen(p)
  BY FrozenInput DEF Written, TooLarge, WithOpen

LEMMA FrozenList ==
  ASSUME UNCHANGED candidates
  PROVE  /\ \A i : Upto(i)' = Upto(i)
         /\ \A w, p, i : UNCHANGED bad => (Content(w, p, i)' <=> Content(w, p, i))
<1>1. \A i : Upto(i)' = Upto(i)
  BY DEF Upto
<1> QED
  BY <1>1 DEF Content

\* Rejections never take a published part back.
LEMMA DurableStays ==
  ASSUME UNCHANGED input, UNCHANGED parts, rejected \subseteq rejected',
         NEW w \in 0..Messages, Durable(w)
  PROVE  Durable(w)'
<1>1. bad' = bad
  BY DEF input
<1> QED
  BY <1>1, FrozenInput, FrozenParts DEF Durable

\* A part that is too large stays so.
LEMMA TooLargeGrows ==
  ASSUME TypeOK, NEW p \in Seq(All), NEW m \in All, TooLarge(p)
  PROVE  TooLarge(Append(p, m))
<1>1. Bytes(Append(p, m)) = Bytes(p) + size[m] /\ size[m] \in Nat /\ Bytes(p) \in Nat
  BY BytesFacts, SizesAreNat DEF TypeOK
<1>2. Len(Append(p, m)) = Len(p) + 1 /\ Len(p) \in Nat /\ Len(parts) \in Nat
  BY DEF TypeOK
<1> QED
  BY <1>1, <1>2, SizeAssumption DEF TooLarge, projected_file_eof

-----------------------------------------------------------------------------
(* The place of the run in the order of the messages.                      *)

LEMMA UptoType ==
  ASSUME TypeOK, NEW i \in Nat \ {0}
  PROVE  Upto(i) \in 0..Messages
  BY SizeAssumption DEF Upto, TypeOK, All

LEMMA UptoGrows ==
  ASSUME TypeOK, NEW w, Run(w), NEW i \in Nat \ {0}, NEW j \in Nat, i <= j
  PROVE  Upto(i) <= Upto(j)
<1>1. \A k \in 1..Len(candidates) : candidates[k] \in 1..Messages
  <2>1. candidates \in Seq(All)
    BY DEF TypeOK
  <2>2. \A k \in 1..Len(candidates) : candidates[k] \in All
    BY <2>1
  <2> QED
    BY <2>2 DEF All
<1>2. Len(candidates) \in Nat /\ Messages \in Nat /\ DOMAIN candidates = 1..Len(candidates)
  BY SizeAssumption DEF TypeOK
<1>3. CASE j <= Len(candidates) /\ i < j
  <2>1. candidates[i] < candidates[j]
    BY <1>2, <1>3 DEF Run
  <2> QED
    BY <1>1, <1>2, <1>3, <2>1 DEF Upto
<1> QED
  BY <1>1, <1>2, <1>3 DEF Upto

\* Between two candidates there are only messages that were rejected before.
LEMMA UptoStep ==
  ASSUME TypeOK, NEW w \in 0..Messages, Run(w), index <= Len(candidates)
  PROVE  LET m == candidates[index]
         IN  /\ m \in All /\ Upto(index) = m - 1 /\ w < m
             /\ Upto(index + 1) \in m..Messages
             /\ \A k \in (m + 1)..Upto(index + 1) : k \in bad /\ k \in rejected
<1> DEFINE m == candidates[index]
<1>1. /\ Len(candidates) \in Nat /\ Messages \in Nat /\ DOMAIN candidates = 1..Len(candidates)
      /\ index \in DOMAIN candidates /\ All = 1..Messages
      /\ \A k \in DOMAIN candidates : candidates[k] \in 1..Messages
  BY SizeAssumption DEF TypeOK, All
<1>2. m \in All /\ m \in 1..Messages /\ Upto(index) = m - 1 /\ w < m
  BY <1>1 DEF Run, Upto
<1>3. Upto(index + 1) \in m..Messages
  <2>1. CASE index + 1 <= Len(candidates)
    <3>1. index + 1 \in DOMAIN candidates /\ m < candidates[index + 1]
      BY <1>1, <2>1 DEF Run
    <3> QED
      BY <1>1, <1>2, <2>1, <3>1 DEF Upto
  <2>2. CASE ~(index + 1 <= Len(candidates))
    BY <1>1, <1>2, <2>2 DEF Upto
  <2> QED
    BY <2>1, <2>2
<1>4. ASSUME NEW k \in (m + 1)..Upto(index + 1) PROVE k \in bad /\ k \in rejected
  <2>1. k \in (w + 1)..Messages
    BY <1>1, <1>2, <1>3
  <2>2. ASSUME NEW j \in DOMAIN candidates, candidates[j] = k PROVE FALSE
    <3>1. j > index
      <4>1. CASE j < index
        BY <1>1, <1>2, <2>2, <4>1 DEF Run
      <4>2. CASE j = index
        BY <1>1, <1>2, <2>2, <4>2
      <4> QED
        BY <1>1, <4>1, <4>2
    <3>2. index + 1 <= Len(candidates) /\ index + 1 \in DOMAIN candidates /\ index + 1 <= j
      BY <1>1, <3>1
    <3>3. k < candidates[index + 1]
      BY <1>1, <3>2 DEF Upto
    <3>4. j # index + 1 /\ index + 1 < j
      BY <1>1, <2>2, <3>2, <3>3
    <3>5. candidates[index + 1] < candidates[j]
      BY <3>2, <3>4 DEF Run
    <3> QED
      BY <1>1, <2>2, <3>2, <3>3, <3>5
  <2> QED
    BY <2>1, <2>2 DEF Run, TypeOK
<1> QED
  BY <1>2, <1>3, <1>4

-----------------------------------------------------------------------------
(* One lemma for every step.                                               *)

\* Rejected messages behind the published ones change nothing.
LEMMA DurableExtends ==
  ASSUME TypeOK, NEW w \in 0..Messages, NEW v \in w..Messages, Durable(w),
         \A m \in (w + 1)..v : m \in rejected
  PROVE  Durable(v)
<1>1. Messages \in Nat /\ All = 1..Messages /\ rejected \subseteq bad /\ v \in 0..Messages
  BY SizeAssumption DEF TypeOK, All
<1>2. \A m \in 1..v : m \in bad => m \in rejected
  BY <1>1 DEF Durable
<1>3. \A m \in All : m \in Written <=> m <= v /\ m \notin bad
  BY <1>1 DEF Durable
<1>4. parts = GreedyTo[v]
  BY <1>1, GreedyFlat DEF Durable
<1>5. ASSUME parts # <<>> PROVE NextOpens(v, parts[Len(parts)], Len(parts))
  <2> SUFFICES ASSUME NEW m \in (v + 1)..Messages, m \notin bad,
                      \A k \in (v + 1)..(m - 1) : k \in bad
               PROVE  projected_file_eof(Append(parts[Len(parts)], m), Len(parts))
                        > maximum_pst_bytes
    BY DEF NextOpens
  <2>1. m \in (w + 1)..Messages /\ \A k \in (w + 1)..(m - 1) : k \in bad
    BY <1>1
  <2> QED
    BY <1>5, <2>1 DEF Durable, NextOpens
<1> QED
  BY <1>2, <1>3, <1>4, <1>5 DEF Durable

\* A candidate that is not written changes neither the parts nor the rule.
LEMMA Passing ==
  ASSUME TypeOK, NEW w \in 0..Messages, Run(w), index <= Len(candidates),
         candidates[index] \in bad
  PROVE  /\ GreedyTo[Upto(index + 1)] = GreedyTo[Upto(index)]
         /\ \A p : Content(w, p, index) => Content(w, p, index + 1)
<1> DEFINE m == candidates[index]
           v == Upto(index + 1)
<1>1. /\ m \in All /\ Upto(index) = m - 1 /\ w < m /\ v \in m..Messages
      /\ \A k \in (m + 1)..v : k \in bad
  BY UptoStep
<1>2. Messages \in Nat /\ All = 1..Messages /\ w \in Nat
  BY SizeAssumption DEF All
<1> HIDE DEF m, v
<1>3. \A k \in m..v : k \in bad
  BY <1>1, <1>2 DEF m
<1>4. m - 1 \in 0..Messages /\ v \in (m - 1)..Messages /\ \A k \in ((m - 1) + 1)..v : k \in bad
  BY <1>1, <1>2, <1>3
<1>5. GreedyTo[v] = GreedyTo[m - 1]
  BY <1>4, GreedyFlat
<1>6. ASSUME NEW p, Content(w, p, index) PROVE Content(w, p, index + 1)
  <2>1. ASSUME NEW k \in All
        PROVE  w < k /\ k <= Upto(index) /\ k \notin bad
                 <=> w < k /\ k <= Upto(index + 1) /\ k \notin bad
    BY <1>1, <1>2, <1>3 DEF v
  <2> QED
    BY <1>6, <2>1 DEF Content
<1> QED
  BY <1>1, <1>5, <1>6 DEF v

LEMMA InitInv == Init => Inv
<1> SUFFICES ASSUME Init PROVE Inv
  OBVIOUS
<1> USE DEF Init
<1>1. TypeOK
  <2>1. <<>> \in Seq(All) /\ <<>> \in Seq(Seq(All))
    OBVIOUS
  <2>2. batch \in [index : Nat \ {0}, part : Seq(All), attempts : Nat, eof : Nat]
    BY <2>1
  <2>3. size \in [All -> Sizes] /\ bad \in SUBSET All /\ rejected \in SUBSET bad
    OBVIOUS
  <2>4. phase \in Phases /\ stops \in Nat /\ index \in Nat \ {0}
    BY DEF Phases
  <2>5. exact \in BOOLEAN
    OBVIOUS
  <2> QED
    BY <2>1, <2>2, <2>3, <2>4, <2>5 DEF TypeOK
<1>2. Written = {} /\ Messages \in Nat /\ 0 \in 0..Messages
  BY SizeAssumption DEF Written
<1>3. At(0)
  BY <1>2, GreedyUnfolds DEF At, Durable, All
<1> QED
  BY <1>1, <1>2, <1>3 DEF Inv

LEMMA BeginRunInv == ASSUME Inv, BeginRun PROVE Inv'
<1> USE DEF BeginRun
<1>1. PICK w \in 0..Messages : At(w)
  BY DEF Inv
<1>2. TypeOK /\ Durable(w) /\ Messages \in Nat /\ All = 1..Messages
  BY <1>1, SizeAssumption DEF Inv, At, All
<1>3. /\ candidates' \in Seq(All) /\ Len(candidates') \in Nat
      /\ DOMAIN candidates' = 1..Len(candidates')
      /\ \A i, j \in DOMAIN candidates' : i < j => candidates'[i] < candidates'[j]
      /\ \A m \in All : (\E i \in DOMAIN candidates' : candidates'[i] = m)
                          <=> m \notin Written \cup rejected
      /\ \A i \in DOMAIN candidates' : candidates'[i] \in All
  <2>1. Ordered(candidates', Messages, Written \cup rejected)
    BY SpooledOrdered
  <2> QED
    BY <1>2, <2>1 DEF Ordered
<1>4. TypeOK'
  <2>1. /\ candidates' \in Seq(All) /\ part' = <<>> /\ index' = 1 /\ phase' = "begin"
        /\ UNCHANGED <<size, bad, parts, rejected, batch, exact, stops>>
    BY <1>3 DEF input
  <2> HIDE DEF BeginRun
  <2> QED
    BY <1>2, <2>1 DEF TypeOK, Phases
<1>0. PICK v : v = IF 1 <= Len(candidates') THEN candidates'[1] - 1 ELSE Messages
  OBVIOUS
<1>5. v \in 0..Messages /\ w <= v /\ \A m \in (w + 1)..v : m \in rejected
  <2>1. ASSUME NEW m \in 1..w PROVE m \in Written \cup rejected
    BY <1>2, <2>1 DEF Durable
  <2>2. ASSUME NEW m \in All, m > w PROVE m \notin Written
    BY <1>2, <2>2 DEF Durable
  <2>3. CASE candidates' = <<>>
    <3>1. v = Messages
      BY <1>0, <1>2, <2>3
    <3> QED
      BY <1>2, <1>3, <2>2, <2>3, <3>1
  <2>4. CASE candidates' # <<>>
    <3>1. 1 \in DOMAIN candidates' /\ v = candidates'[1] - 1 /\ candidates'[1] \in 1..Messages
      BY <1>0, <1>2, <1>3, <2>4
    <3>2. candidates'[1] \notin Written \cup rejected
      BY <1>2, <1>3, <3>1
    <3>3. candidates'[1] > w
      BY <1>2, <2>1, <3>1, <3>2
    <3>4. ASSUME NEW m \in (w + 1)..v, NEW i \in DOMAIN candidates' PROVE candidates'[i] # m
      <4>1. i = 1 \/ candidates'[1] < candidates'[i]
        BY <1>3, <3>1
      <4>2. candidates'[i] \in Nat /\ m < candidates'[1] /\ m \in Nat
        BY <1>2, <1>3, <3>1
      <4> QED
        BY <3>1, <4>1, <4>2
    <3>5. ASSUME NEW m \in (w + 1)..v PROVE m \in rejected
      BY <1>2, <1>3, <2>2, <3>1, <3>4
    <3> QED
      BY <1>2, <3>1, <3>3, <3>5
  <2> QED
    BY <2>3, <2>4
<1>6. Durable(v)
  BY <1>2, <1>5, DurableExtends
<1>7. Durable(v)'
  BY <1>5, <1>6, DurableStays
<1>8. Run(v)'
  <2>1. index' = 1 /\ rejected' = rejected /\ bad' = bad
    BY DEF input
  <2>2. ASSUME NEW m \in (v + 1)..Messages
        PROVE  m \in rejected \/ \E i \in DOMAIN candidates' : candidates'[i] = m
    <3>1. m \in All /\ m \notin Written
      BY <1>2, <1>5, <1>6 DEF Durable
    <3> QED
      BY <1>3, <3>1
  <2> QED
    BY <1>0, <1>2, <1>3, <1>5, <1>6, <2>1, <2>2 DEF Run, Durable, Upto
<1>9. At(v)'
  BY <1>0, <1>7, <1>8 DEF At, Upto
<1> QED
  BY <1>4, <1>5, <1>9 DEF Inv

LEMMA BeginPartInv == ASSUME Inv, BeginPart PROVE Inv'
<1> USE DEF BeginPart
<1>1. PICK w \in 0..Messages : At(w)
  BY DEF Inv
<1>2. /\ TypeOK /\ Durable(w) /\ Run(w) /\ w = Upto(index) /\ Messages \in Nat
      /\ UNCHANGED <<size, bad, parts, rejected, candidates, index, stops>>
  BY <1>1, SizeAssumption DEF Inv, At, input
<1>3. UNCHANGED input /\ Durable(w)' /\ Run(w)' /\ Upto(index)' = Upto(index)
  BY <1>2, DurableStays, FrozenList DEF Run, input
<1>4. CASE index <= Len(candidates)
  <2>1. /\ part' = <<>> /\ batch' = Checkpoint(index, <<>>) /\ exact' = FALSE
        /\ phase' = "loop"
    BY <1>4
  <2>2. Bytes(<<>>) = 0 /\ <<>> \in Seq(All)
    BY <1>2, BytesFacts DEF TypeOK
  <2>3. /\ batch'.index = index /\ batch'.part = <<>> /\ batch'.attempts = 0
        /\ batch' \in [index : Nat \ {0}, part : Seq(All), attempts : Nat, eof : Nat]
    BY <1>2, <2>1, <2>2 DEF Checkpoint, TypeOK
  <2>4. TypeOK'
    BY <1>2, <2>1, <2>2, <2>3 DEF TypeOK, Phases
  <2>5. ~TooLarge(<<>>) /\ WithOpen(<<>>) = parts /\ parts = GreedyTo[Upto(index)]
    BY <1>2 DEF TooLarge, WithOpen, Durable
  <2>6. Content(w, <<>>, index)
    BY <1>2 DEF Content, All
  <2>7. Filling(w)'
    BY <1>2, <1>3, <2>1, <2>3, <2>5, <2>6, FrozenInput, FrozenParts, FrozenList DEF Filling
  <2>8. At(w)'
    BY <1>3, <2>1, <2>7 DEF At
  <2> QED
    BY <2>4, <2>8 DEF Inv
<1>5. CASE ~(index <= Len(candidates))
  <2>1. phase' = "done" /\ UNCHANGED <<part, batch, exact>>
    BY <1>5
  <2>2. TypeOK'
    BY <1>2, <2>1 DEF TypeOK, Phases
  <2>3. w = Messages
    BY <1>2, <1>5 DEF Upto
  <2>4. At(w)'
    BY <1>3, <2>1, <2>3 DEF At
  <2> QED
    BY <2>2, <2>4 DEF Inv
<1> QED
  BY <1>4, <1>5

\* A batch that fits is part of the greedy cut.
LEMMA AcceptBatchInv == ASSUME Inv, AcceptBatch PROVE Inv'
<1> USE DEF AcceptBatch
<1>1. PICK w \in 0..Messages : At(w)
  BY DEF Inv
<1>2. /\ TypeOK /\ Durable(w) /\ Run(w) /\ Filling(w) /\ ~TooLarge(part)
      /\ UNCHANGED <<size, bad, parts, rejected, candidates, index, part, exact, phase, stops>>
      /\ phase = "loop" /\ batch' = Checkpoint(index, part)
  BY <1>1 DEF Inv, At, input
<1> HIDE DEF AcceptBatch
<1>3. UNCHANGED input /\ Durable(w)' /\ Run(w)'
  BY <1>2, DurableStays, FrozenList DEF Run, input
<1>4. /\ batch'.index = index /\ batch'.part = part
      /\ batch' \in [index : Nat \ {0}, part : Seq(All), attempts : Nat, eof : Nat]
  <2>1. Bytes(part) \in Nat
    BY <1>2, BytesFacts DEF TypeOK
  <2> QED
    BY <1>2, <2>1 DEF Checkpoint, TypeOK
<1>5. TypeOK'
  BY <1>2, <1>4 DEF TypeOK, Phases
<1>6. w <= Upto(index) /\ index <= index
  BY <1>2 DEF Run, TypeOK
<1>7. Filling(w)'
  BY <1>2, <1>3, <1>4, <1>6, FrozenInput, FrozenParts, FrozenList DEF Filling
<1>8. At(w)'
  BY <1>2, <1>3, <1>7 DEF At
<1> QED
  BY <1>5, <1>8 DEF Inv

\* The checkpoint is part of the greedy cut, so the replay starts from it.
LEMMA RollbackInv == ASSUME Inv, rollback_batch PROVE Inv'
<1> USE DEF rollback_batch
<1>1. PICK w \in 0..Messages : At(w)
  BY DEF Inv
<1>2. /\ TypeOK /\ Durable(w) /\ Run(w) /\ Filling(w)
      /\ UNCHANGED <<size, bad, parts, rejected, candidates, phase, stops>>
      /\ phase = "loop" /\ part' = batch.part /\ index' = batch.index /\ exact' = TRUE
      /\ batch' = [batch EXCEPT !.attempts = 0]
  BY <1>1 DEF Inv, At, input
<1> HIDE DEF rollback_batch
<1>3. UNCHANGED input /\ Durable(w)'
  BY <1>2, DurableStays DEF input
<1>4. /\ batch'.index = batch.index /\ batch'.part = batch.part /\ batch'.attempts = 0
      /\ batch' \in [index : Nat \ {0}, part : Seq(All), attempts : Nat, eof : Nat]
      /\ batch.index \in Nat \ {0} /\ batch.part \in Seq(All)
  BY <1>2 DEF TypeOK
<1>5. TypeOK'
  BY <1>2, <1>4 DEF TypeOK, Phases
<1>6. Upto(batch.index) <= Upto(index) /\ Upto(batch.index) \in Nat /\ Upto(index) \in Nat
  BY <1>2, <1>4, UptoGrows, UptoType DEF Filling, TypeOK
<1>7. Run(w)'
  <2>1. batch.index <= Len(candidates) + 1
    BY <1>2, <1>4 DEF Run, Filling, TypeOK
  <2>2. \A m \in 1..Upto(batch.index) : m \in bad => m \in rejected
    BY <1>2, <1>6 DEF Run
  <2>3. Upto(index)' = Upto(batch.index)
    BY <1>2, FrozenList
  <2> QED
    BY <1>2, <2>1, <2>2, <2>3 DEF Run, Filling
<1>8. Filling(w)'
  BY <1>2, <1>3, <1>4, FrozenInput, FrozenParts, FrozenList DEF Filling
<1>9. At(w)'
  BY <1>2, <1>3, <1>7, <1>8 DEF At
<1> QED
  BY <1>5, <1>9 DEF Inv

LEMMA ClosePartInv == ASSUME Inv, ClosePart PROVE Inv'
<1> USE DEF ClosePart
<1>1. PICK w \in 0..Messages : At(w)
  BY DEF Inv
<1>2. /\ TypeOK /\ Durable(w) /\ Run(w) /\ Filling(w) /\ phase' = "finalize"
      /\ ~BatchDue /\ index > Len(candidates)
      /\ UNCHANGED <<size, bad, parts, rejected, candidates, index, part, batch, exact, stops>>
  BY <1>1 DEF Inv, At, input
<1> HIDE DEF ClosePart
<1>3. UNCHANGED input /\ Durable(w)' /\ Run(w)' /\ Filling(w)'
  BY <1>2, DurableStays, FrozenInput, FrozenParts, FrozenList DEF Run, Filling, input
<1>4. TypeOK'
  BY <1>2 DEF TypeOK, Phases
<1>5. ~TooLarge(part)
  <2>1. exact \/ batch.attempts = 0 \/ part = <<>>
    BY <1>2 DEF BatchDue
  <2>2. part = <<>> => ~TooLarge(part)
    BY DEF TooLarge
  <2> QED
    BY <1>2, <2>1, <2>2 DEF Filling
<1>6. NextOpens(Upto(index), part, Len(parts) + 1)
  <2>1. Upto(index) = Messages /\ Messages \in Nat
    BY <1>2, SizeAssumption DEF Upto, TypeOK
  <2> QED
    BY <2>1 DEF NextOpens
<1>7. Closed'
  BY <1>2, <1>3, <1>5, <1>6, FrozenInput, FrozenParts, FrozenList DEF Closed
<1>8. At(w)'
  BY <1>2, <1>3, <1>7 DEF At
<1> QED
  BY <1>4, <1>8 DEF Inv

\* A candidate that is passed over, newly rejected or rejected before.
LEMMA PassOver ==
  ASSUME TypeOK, TypeOK', NEW w \in 0..Messages, At(w), phase = "loop",
         index <= Len(candidates), candidates[index] \in bad,
         rejected \subseteq rejected', candidates[index] \in rejected',
         UNCHANGED <<size, bad, parts, candidates, part, exact, phase>>,
         index' = index + 1, batch'.index = batch.index, batch'.part = batch.part,
         batch'.attempts = 0 => batch.attempts = 0
  PROVE  At(w)'
<1> DEFINE m == candidates[index]
           v == Upto(index + 1)
<1>1. Durable(w) /\ Run(w) /\ Filling(w)
  BY DEF At
<1>2. UNCHANGED input /\ Durable(w)'
  BY <1>1, DurableStays DEF input
<1>3. /\ m \in All /\ Upto(index) = m - 1 /\ w < m /\ v \in m..Messages
      /\ \A k \in (m + 1)..v : k \in bad /\ k \in rejected
  BY <1>1, UptoStep
<1>4. /\ GreedyTo[v] = GreedyTo[Upto(index)]
      /\ \A p : Content(w, p, index) => Content(w, p, index + 1)
  BY <1>1, Passing
<1>5. /\ Messages \in Nat /\ All = 1..Messages /\ w \in Nat /\ index \in Nat
      /\ Len(candidates) \in Nat /\ batch.index \in Nat
  BY SizeAssumption DEF TypeOK, All
<1>6. Upto(index)' = v
  BY FrozenList
<1>7. Run(w)'
  <2>1. \A k \in 1..v : k \in bad => k \in rejected'
    <3> SUFFICES ASSUME NEW k \in 1..v, k \in bad PROVE k \in rejected'
      OBVIOUS
    <3> HIDE DEF v
    <3>1. k <= m - 1 \/ k = m \/ k \in (m + 1)..v
      BY <1>3, <1>5
    <3> QED
      BY <1>1, <1>3, <1>5, <3>1 DEF Run
  <2>2. index + 1 <= Len(candidates) + 1 /\ w <= v
    BY <1>3, <1>5
  <2> QED
    BY <1>1, <1>6, <2>1, <2>2 DEF Run
<1>8. batch.index <= index + 1
  BY <1>1, <1>5 DEF Filling
<1>9. Filling(w)'
  BY <1>1, <1>2, <1>4, <1>6, <1>8, FrozenInput, FrozenParts, FrozenList DEF Filling
<1> QED
  BY <1>2, <1>7, <1>9 DEF At

LEMMA SkipTerminalInv == ASSUME Inv, SkipTerminal PROVE Inv'
<1> USE DEF SkipTerminal, AtCandidate, Candidate
<1>1. PICK w \in 0..Messages : At(w)
  BY DEF Inv
<1>2. /\ TypeOK /\ phase = "loop" /\ index <= Len(candidates)
      /\ candidates[index] \in rejected /\ index' = index + 1
      /\ UNCHANGED <<size, bad, parts, rejected, candidates, part, batch, exact, phase, stops>>
  BY DEF Inv, input
<1> HIDE DEF SkipTerminal, AtCandidate, Candidate
<1>3. TypeOK'
  BY <1>2 DEF TypeOK, Phases
<1>4. candidates[index] \in bad
  BY <1>2 DEF TypeOK
<1>5. At(w)'
  BY <1>1, <1>2, <1>3, <1>4, PassOver
<1> QED
  BY <1>3, <1>5 DEF Inv

LEMMA AttemptedType ==
  ASSUME TypeOK
  PROVE  LET b == [batch EXCEPT !.attempts = @ + 1]
         IN  /\ b.index = batch.index /\ b.part = batch.part /\ b.attempts # 0
             /\ b \in [index : Nat \ {0}, part : Seq(All), attempts : Nat, eof : Nat]
<1>1. batch \in [index : Nat \ {0}, part : Seq(All), attempts : Nat, eof : Nat]
  BY DEF TypeOK
<1> HIDE DEF TypeOK
<1> QED
  BY <1>1

LEMMA RejectCandidateInv == ASSUME Inv, RejectCandidate PROVE Inv'
<1> USE DEF RejectCandidate, AtCandidate, Candidate, Attempted
<1>1. PICK w \in 0..Messages : At(w)
  BY DEF Inv
<1>2. /\ TypeOK /\ phase = "loop" /\ index <= Len(candidates)
      /\ candidates[index] \in bad /\ index' = index + 1
      /\ rejected' = rejected \cup {candidates[index]}
      /\ batch' = [batch EXCEPT !.attempts = @ + 1]
      /\ UNCHANGED <<size, bad, parts, candidates, part, exact, phase, stops>>
  BY DEF Inv, input
<1> HIDE DEF RejectCandidate, AtCandidate, Candidate, Attempted
<1>3. /\ batch'.index = batch.index /\ batch'.part = batch.part /\ batch'.attempts # 0
      /\ batch' \in [index : Nat \ {0}, part : Seq(All), attempts : Nat, eof : Nat]
  BY <1>2, AttemptedType DEF TypeOK
<1>4. TypeOK'
  BY <1>2, <1>3 DEF TypeOK, Phases
<1>5. At(w)'
  BY <1>1, <1>2, <1>3, <1>4, PassOver
<1> QED
  BY <1>4, <1>5 DEF Inv

\* A message behind the open part: the greedy rule puts it there too, unless the
\* part becomes too large.
LEMMA AppendGreedy ==
  ASSUME TypeOK, NEW w \in 0..Messages, Durable(w), Run(w), Filling(w),
         index <= Len(candidates), candidates[index] \notin bad
  PROVE  LET q == Append(part, candidates[index])
         IN  /\ Content(w, q, index + 1)
             /\ TooLarge(q) \/ GreedyTo[Upto(index + 1)] = WithOpen(q)
<1>0. PICK m, v, q : m = candidates[index] /\ v = Upto(index + 1) /\ q = Append(part, m)
  OBVIOUS
<1>1. /\ m \in All /\ Upto(index) = m - 1 /\ w < m /\ v \in m..Messages
      /\ \A k \in (m + 1)..v : k \in bad
  BY <1>0, UptoStep
<1>2. /\ Messages \in Nat /\ All = 1..Messages /\ w \in Nat /\ m \notin bad /\ m \in 1..Messages
      /\ parts \in Seq(Seq(All)) /\ part \in Seq(All)
  BY <1>0, <1>1, SizeAssumption DEF TypeOK, All
<1>3. /\ q \in Seq(All) /\ Len(part) \in Nat /\ Len(q) = Len(part) + 1 /\ q # <<>>
      /\ DOMAIN q = 1..(Len(part) + 1) /\ DOMAIN part = 1..Len(part)
      /\ q[Len(part) + 1] = m /\ \A i \in 1..Len(part) : q[i] = part[i]
  BY <1>0, <1>1, <1>2
<1>4. Content(w, q, index + 1)
  <2> SUFFICES ASSUME NEW k \in All
               PROVE  (\E i \in DOMAIN q : q[i] = k) <=> w < k /\ k <= v /\ k \notin bad
    BY <1>0 DEF Content
  <2>1. (\E i \in DOMAIN q : q[i] = k) <=> (\E i \in DOMAIN part : part[i] = k) \/ k = m
    BY <1>3
  <2>2. (\E i \in DOMAIN part : part[i] = k) <=> w < k /\ k <= m - 1 /\ k \notin bad
    BY <1>1 DEF Filling, Content
  <2> QED
    BY <1>1, <1>2, <2>1, <2>2
<1>5. GreedyTo[v] = Place(GreedyTo[m - 1], m)
  <2>1. GreedyTo[m] = Place(GreedyTo[m - 1], m)
    BY <1>2, GreedyUnfolds
  <2>2. GreedyTo[v] = GreedyTo[m]
    BY <1>1, <1>2, GreedyFlat
  <2> QED
    BY <2>1, <2>2
<1>6. CASE part = <<>>
  <2>1. GreedyTo[m - 1] = parts
    BY <1>1, <1>6 DEF Filling, TooLarge, WithOpen
  <2>2. ASSUME NEW k \in (w + 1)..(m - 1) PROVE k \in bad
    <3>1. k \in All /\ w < k /\ k <= m - 1 /\ DOMAIN part = {}
      BY <1>2, <1>3, <1>6
    <3> QED
      BY <1>1, <3>1 DEF Filling, Content
  <2>3. parts # <<>> => projected_file_eof(Append(parts[Len(parts)], m), Len(parts))
                          > maximum_pst_bytes
    BY <1>1, <1>2, <2>2 DEF Durable, NextOpens
  <2>4. Place(parts, m) = Append(parts, <<m>>)
    BY <1>1, <1>2, <2>3, PlaceOpens
  <2>5. q = <<m>>
    BY <1>0, <1>6
  <2> QED
    BY <1>0, <1>3, <1>4, <1>5, <2>1, <2>4, <2>5 DEF WithOpen
<1>7. CASE part # <<>> /\ ~TooLarge(q)
  <2>1. ~TooLarge(part)
    BY <1>0, <1>1, <1>2, <1>7, TooLargeGrows
  <2>2. GreedyTo[m - 1] = Append(parts, part)
    BY <1>1, <1>7, <2>1 DEF Filling, WithOpen
  <2>3. Len(q) > 1
    BY <1>2, <1>3, <1>7
  <2>4. ~(projected_file_eof(Append(part, m), Len(parts) + 1) > maximum_pst_bytes)
    BY <1>0, <1>7, <2>3 DEF TooLarge
  <2>5. Place(Append(parts, part), m) = Append(parts, q)
    BY <1>0, <1>1, <1>2, <2>4, PlaceJoins
  <2> QED
    BY <1>0, <1>3, <1>4, <1>5, <2>2, <2>5 DEF WithOpen
<1> QED
  BY <1>0, <1>4, <1>6, <1>7

LEMMA AppendInv == ASSUME Inv, append_message PROVE Inv'
<1> USE DEF append_message, AtCandidate, Candidate
<1>1. PICK w \in 0..Messages : At(w)
  BY DEF Inv
<1>2. /\ TypeOK /\ Durable(w) /\ Run(w) /\ Filling(w)
      /\ phase = "loop" /\ index <= Len(candidates) /\ candidates[index] \notin bad
      /\ UNCHANGED <<size, bad, parts, rejected, candidates, exact, stops>>
  BY <1>1 DEF Inv, At, input
<1>3. PICK m, v, q : m = candidates[index] /\ v = Upto(index + 1) /\ q = Append(part, m)
  OBVIOUS
<1>4. /\ m \in All /\ Upto(index) = m - 1 /\ w < m /\ v \in m..Messages
      /\ \A k \in (m + 1)..v : k \in bad /\ k \in rejected
  BY <1>2, <1>3, UptoStep
<1>5. UNCHANGED input /\ Durable(w)'
  BY <1>2, DurableStays DEF input
<1>6. /\ Messages \in Nat /\ All = 1..Messages /\ w \in Nat /\ index \in Nat \ {0}
      /\ Len(candidates) \in Nat /\ batch.index \in Nat /\ part \in Seq(All) /\ q \in Seq(All)
  <2>1. part \in Seq(All) /\ index \in Nat \ {0} /\ batch.index \in Nat
        /\ Len(candidates) \in Nat
    BY <1>2 DEF TypeOK
  <2> QED
    BY <1>3, <1>4, <2>1, SizeAssumption DEF All
<1>7. CASE PartFull
  <2>1. /\ exact /\ TooLarge(q) /\ phase' = "finalize" /\ UNCHANGED <<part, index, batch>>
    BY <1>3, <1>7 DEF PartFull
  <2> HIDE DEF append_message, AtCandidate, Candidate
  <2>2. TypeOK'
    BY <1>2, <2>1 DEF TypeOK, Phases
  <2>3. Run(w)' /\ Filling(w)'
    BY <1>2, <1>5, <2>1, FrozenInput, FrozenParts, FrozenList DEF Run, Filling
  <2>4. ~TooLarge(part)
    BY <1>2, <2>1 DEF Filling
  <2>5. NextOpens(Upto(index), part, Len(parts) + 1)
    <3> SUFFICES ASSUME NEW n \in ((m - 1) + 1)..Messages, n \notin bad,
                        \A k \in ((m - 1) + 1)..(n - 1) : k \in bad
                 PROVE  projected_file_eof(Append(part, n), Len(parts) + 1) > maximum_pst_bytes
      BY <1>4 DEF NextOpens
    <3>1. n = m
      BY <1>2, <1>3, <1>4, <1>6
    <3> QED
      BY <1>3, <2>1, <3>1 DEF TooLarge
  <2>6. Closed'
    BY <1>2, <1>5, <2>1, <2>4, <2>5, FrozenInput, FrozenParts, FrozenList DEF Closed
  <2>7. At(w)'
    BY <1>5, <2>1, <2>3, <2>6 DEF At
  <2> QED
    BY <2>2, <2>7 DEF Inv
<1>8. CASE ~PartFull
  <2>1. /\ part' = q /\ index' = index + 1 /\ phase' = phase
        /\ batch' = [batch EXCEPT !.attempts = @ + 1]
        /\ exact => ~TooLarge(q)
    BY <1>3, <1>8 DEF PartFull, Attempted
  <2> HIDE DEF append_message, AtCandidate, Candidate
  <2>2. /\ batch'.index = batch.index /\ batch'.part = batch.part /\ batch'.attempts # 0
        /\ batch' \in [index : Nat \ {0}, part : Seq(All), attempts : Nat, eof : Nat]
    BY <1>2, <2>1, AttemptedType
  <2>3. TypeOK'
    <3>1. index' \in Nat \ {0} /\ part' \in Seq(All)
      BY <1>6, <2>1
    <3>2. exact' \in BOOLEAN /\ phase' \in Phases
      BY <1>2, <2>1 DEF TypeOK
    <3> QED
      BY <1>2, <2>2, <3>1, <3>2 DEF TypeOK
  <2>4. Content(w, q, index + 1) /\ (TooLarge(q) \/ GreedyTo[v] = WithOpen(q))
    BY <1>2, <1>3, AppendGreedy
  <2>5. Upto(index)' = v
    BY <1>2, <1>3, <2>1, FrozenList
  <2>6. Run(w)'
    <3>1. \A k \in 1..v : k \in bad => k \in rejected
      <4> SUFFICES ASSUME NEW k \in 1..v, k \in bad PROVE k \in rejected
        OBVIOUS
      <4>1. k <= m - 1 \/ k \in (m + 1)..v
        BY <1>2, <1>3, <1>4, <1>6
      <4> QED
        BY <1>2, <1>4, <1>6, <4>1 DEF Run
    <3>2. index + 1 <= Len(candidates) + 1 /\ w <= v
      BY <1>2, <1>4, <1>6
    <3> QED
      BY <1>2, <2>1, <2>5, <3>1, <3>2 DEF Run
  <2>7. batch.index <= index + 1
    BY <1>2, <1>6 DEF Filling
  <2>8. Filling(w)'
    BY <1>2, <1>3, <1>5, <2>1, <2>2, <2>4, <2>5, <2>7,
       FrozenInput, FrozenParts, FrozenList DEF Filling
  <2>9. At(w)'
    BY <1>2, <1>5, <2>1, <2>6, <2>8 DEF At
  <2> QED
    BY <2>3, <2>9 DEF Inv
<1> QED
  BY <1>7, <1>8

\* The part is published: the greedy rule has cut it here.
LEMMA PublishDurable ==
  ASSUME TypeOK, NEW w \in 0..Messages, Durable(w), Run(w), Filling(w), Closed,
         part # <<>>, NEW v, v = Upto(index),
         parts' = Append(parts, part), UNCHANGED <<size, bad, rejected>>
  PROVE  Durable(v)'
<1>1. /\ Messages \in Nat /\ All = 1..Messages /\ w \in Nat /\ v \in 0..Messages /\ w <= v
      /\ parts \in Seq(Seq(All)) /\ part \in Seq(All)
  <2>1. v \in 0..Messages
    BY UptoType DEF TypeOK
  <2> QED
    BY <2>1, SizeAssumption DEF TypeOK, All, Run
<1>2. /\ Len(parts) \in Nat /\ Len(parts') = Len(parts) + 1 /\ parts' # <<>>
      /\ DOMAIN parts = 1..Len(parts) /\ DOMAIN parts' = 1..(Len(parts) + 1)
      /\ parts'[Len(parts) + 1] = part /\ \A i \in 1..Len(parts) : parts'[i] = parts[i]
  <2> DEFINE V == Seq(All)
  <2>1. parts \in Seq(V) /\ part \in V
    BY <1>1
  <2> HIDE DEF V
  <2> QED
    BY <2>1
<1>3. UNCHANGED input
  BY DEF input
<1>4. parts' = GreedyTo'[v]
  BY <1>3, FrozenInput DEF Filling, Closed, WithOpen
<1>5. ASSUME NEW m \in All PROVE m \in Written' <=> m <= v /\ m \notin bad
  <2>1. m \in Written' <=> \E i \in DOMAIN parts' : m \in Range(parts'[i])
    BY DEF Written
  <2>2. m \in Written <=> \E i \in DOMAIN parts : m \in Range(parts[i])
    BY DEF Written
  <2>3. m \in Written' <=> m \in Written \/ m \in Range(part)
    BY <1>2, <2>1, <2>2
  <2>4. m \in Range(part) <=> w < m /\ m <= v /\ m \notin bad
    BY DEF Range, Filling, Content
  <2>5. m \in Written <=> m <= w /\ m \notin bad
    BY DEF Durable
  <2> QED
    BY <1>1, <2>3, <2>4, <2>5
<1>6. \A m \in 1..v : m \in bad => m \in rejected
  BY DEF Run
<1>7. NextOpens(v, parts[Len(parts)], Len(parts))'
  <2>1. NextOpens(v, part, Len(parts) + 1)
    BY DEF Closed
  <2>2. parts'[Len(parts')] = part /\ Len(parts') = Len(parts) + 1
    BY <1>2
  <2> QED
    BY <1>3, <2>1, <2>2, FrozenInput
<1> QED
  BY <1>4, <1>5, <1>6, <1>7 DEF Durable

LEMMA FinalizeInv == ASSUME Inv, finalize PROVE Inv'
<1>1. PICK w \in 0..Messages : At(w)
  BY DEF Inv
<1>2. /\ TypeOK /\ Durable(w) /\ Run(w) /\ Filling(w) /\ Closed /\ phase = "finalize"
      /\ UNCHANGED <<size, bad, rejected, candidates, index, part, batch, exact, stops>>
      /\ UNCHANGED input
  BY <1>1 DEF Inv, At, finalize, input
<1>3. /\ phase' = "begin"
      /\ parts' = IF part = <<>> THEN parts ELSE Append(parts, part)
  BY <1>2 DEF finalize, Closed
<1>4. PICK v : v = Upto(index)
  OBVIOUS
<1>5. Messages \in Nat /\ All = 1..Messages /\ v \in w..Messages /\ v \in 0..Messages
  <2>1. v \in 0..Messages
    BY <1>2, <1>4, UptoType DEF TypeOK
  <2> QED
    BY <1>2, <1>4, <2>1, SizeAssumption DEF All, Run
<1>6. TypeOK'
  <2>1. parts' \in Seq(Seq(All))
    <3>1. parts \in Seq(Seq(All)) /\ part \in Seq(All)
      BY <1>2 DEF TypeOK
    <3>2. Append(parts, part) \in Seq(Seq(All))
      BY <3>1
    <3> QED
      BY <1>3, <3>1, <3>2
  <2>2. phase' \in Phases
    BY <1>3 DEF Phases
  <2> QED
    BY <1>2, <2>1, <2>2 DEF TypeOK
<1>7. Durable(v)'
  <2>1. CASE part = <<>>
    <3>1. ASSUME NEW m \in (w + 1)..v PROVE m \in rejected
      <4>1. m \in All /\ m \in 1..v /\ w < m /\ m <= v /\ DOMAIN part = {}
        BY <1>5, <2>1
      <4> QED
        BY <1>2, <1>4, <4>1 DEF Filling, Content, Run
    <3>2. Durable(v)
      BY <1>2, <1>5, <3>1, DurableExtends
    <3> QED
      BY <1>2, <1>3, <1>5, <2>1, <3>2, DurableStays
  <2>2. CASE part # <<>>
    <3>1. parts' = Append(parts, part)
      BY <1>3, <2>2
    <3> QED
      BY <1>2, <1>4, <2>2, <3>1, PublishDurable
  <2> QED
    BY <2>1, <2>2
<1>8. Upto(index)' = v
  BY <1>2, <1>4, FrozenList
<1>9. Run(v)'
  <2>1. \A m \in (v + 1)..Messages : m \in (w + 1)..Messages
    BY <1>5
  <2>2. v <= v
    BY <1>5
  <2> QED
    BY <1>2, <1>4, <1>8, <2>1, <2>2 DEF Run
<1>10. At(v)'
  BY <1>3, <1>7, <1>8, <1>9 DEF At
<1> QED
  BY <1>5, <1>6, <1>10 DEF Inv

\* The open part is lost; what is published and rejected stays.
LEMMA StopInv == ASSUME Inv, Stop PROVE Inv'
<1>1. PICK w \in 0..Messages : At(w)
  BY DEF Inv
<1>2. /\ TypeOK /\ Durable(w) /\ phase' = "down" /\ part' = <<>> /\ stops' = stops + 1
      /\ UNCHANGED <<size, bad, parts, rejected, candidates, index, batch, exact>>
      /\ UNCHANGED input
  BY <1>1 DEF Inv, At, Stop, input
<1>3. TypeOK'
  <2>1. part' \in Seq(All) /\ stops' \in Nat /\ phase' \in Phases
    BY <1>2 DEF TypeOK, Phases
  <2>2. exact' \in BOOLEAN
    BY <1>2 DEF TypeOK
  <2> QED
    BY <1>2, <2>1, <2>2 DEF TypeOK
<1>4. Durable(w)'
  BY <1>2, DurableStays
<1>5. At(w)'
  BY <1>2, <1>4 DEF At
<1> QED
  BY <1>3, <1>5 DEF Inv

LEMMA StutterInv == ASSUME Inv, UNCHANGED vars PROVE Inv'
<1>1. PICK w \in 0..Messages : At(w)
  BY DEF Inv
<1>2. /\ TypeOK /\ Durable(w) /\ UNCHANGED input
      /\ UNCHANGED <<size, bad, parts, rejected, candidates, index, part, batch, exact, phase, stops>>
  BY <1>1 DEF Inv, At, vars, input
<1>3. TypeOK'
  BY <1>2 DEF TypeOK
<1>4. Durable(w)' /\ (Run(w)' <=> Run(w)) /\ (Filling(w)' <=> Filling(w)) /\ (Closed' <=> Closed)
      /\ Upto(index)' = Upto(index)
  BY <1>2, DurableStays, FrozenInput, FrozenParts, FrozenList DEF Run, Filling, Closed
<1>5. At(w)'
  BY <1>1, <1>2, <1>4 DEF At
<1> QED
  BY <1>3, <1>5 DEF Inv

LEMMA NextInv == Inv /\ [Next]_vars => Inv'
<1> SUFFICES ASSUME Inv, [Next]_vars PROVE Inv'
  OBVIOUS
<1>1. CASE BeginRun
  BY <1>1, BeginRunInv
<1>2. CASE BeginPart
  BY <1>2, BeginPartInv
<1>3. CASE AcceptBatch
  BY <1>3, AcceptBatchInv
<1>4. CASE rollback_batch
  BY <1>4, RollbackInv
<1>5. CASE ClosePart
  BY <1>5, ClosePartInv
<1>6. CASE SkipTerminal
  BY <1>6, SkipTerminalInv
<1>7. CASE RejectCandidate
  BY <1>7, RejectCandidateInv
<1>8. CASE append_message
  BY <1>8, AppendInv
<1>9. CASE finalize
  BY <1>9, FinalizeInv
<1>10. CASE Stop
  BY <1>10, StopInv
<1>11. CASE Ended \/ UNCHANGED vars
  BY <1>11, StutterInv DEF Ended
<1> QED
  BY <1>1, <1>2, <1>3, <1>4, <1>5, <1>6, <1>7, <1>8, <1>9, <1>10, <1>11 DEF Next, Step

-----------------------------------------------------------------------------
(* The theorems.                                                           *)

\* Between any two steps of split_recovered_job_with_interrupt the published
\* parts are those of the greedy rule for the messages they hold, the
\* checkpoint of the open batch lies on the greedy cut, and the open part does
\* too unless it is already too large and about to be rolled back.
THEOREM BuilderInvariant == Spec => []Inv
  BY InitInv, NextInv, PTL DEF Spec

\* The part boundaries of a restartable split do not depend on the batch
\* targets, on the rollbacks, on the rejections met on the way or on where runs
\* were interrupted: every published part is a part of the greedy split, a
\* finished split has published all of it, and no part that reaches finalization
\* is over the maximum unless it holds one message.
THEOREM PartsAreReference == Spec => []PartsAsReference
<1>1. ASSUME Inv PROVE PartsAsReference
  <2>1. PICK w \in 0..Messages : At(w)
    BY <1>1 DEF Inv
  <2>2. TypeOK /\ Durable(w) /\ parts = GreedyTo[w]
    BY <1>1, <2>1 DEF Inv, At, Durable
  <2>3. IsPrefix(parts, Greedy)
    BY <2>2, GreedyKeeps DEF Durable
  <2>4. ASSUME phase = "done" PROVE parts = Greedy /\ rejected = bad
    <3>1. w = Messages /\ rejected \subseteq bad /\ bad \subseteq 1..Messages
      BY <2>1, <2>2, <2>4 DEF At, TypeOK, All
    <3> QED
      BY <2>2, <3>1 DEF Durable, Greedy
  <2>5. ASSUME phase = "finalize" PROVE ~TooLarge(part)
    BY <2>1, <2>5 DEF At, Closed
  <2> QED
    BY <2>3, <2>4, <2>5 DEF PartsAsReference
<1> QED
  BY <1>1, BuilderInvariant, PTL
=============================================================================
