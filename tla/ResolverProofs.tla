--------------------------- MODULE ResolverProofs ---------------------------
(***************************************************************************)
(* For any configurations of the resolver, callers, workers, servers and   *)
(* zones: lookups stay disciplined and the cache stays sound.  In order:   *)
(* messages and one lookup's iteration, the heap and the shard, the pool   *)
(* and its callers (ControlInv), the cache (CacheInv), the theorems.       *)
(***************************************************************************)
EXTENDS Resolver, FiniteSetTheorems, SequenceTheorems, WellFoundedInduction, TLAPS

\* A set of natural numbers has a least element.
LEMMA LeastNumber ==
    ASSUME NEW S, S \subseteq Nat, S # {}
    PROVE  \E n \in S : \A m \in S : n <= m
  <1> DEFINE Below == OpToRel(<, Nat)
  <1>1. IsWellFoundedOn(Below, Nat)
    BY NatLessThanWellFounded DEF OpToRel
  <1>2. PICK n \in S : \A m \in S : ~(<<m, n>> \in Below)
    BY <1>1, WFMin
  <1>3. \A m \in S : ~(m < n)
    BY <1>2 DEF Below, OpToRel
  <1> QED BY <1>3

-----------------------------------------------------------------------------
(* Sequences and their selections.                                         *)

\* A sequence over any set is one over its own elements.
LEMMA OverItsElements ==
    ASSUME NEW R, NEW t \in Seq(R)
    PROVE  IsSequence(t)
  <1>1. Len(t) \in Nat /\ DOMAIN t = 1 .. Len(t)
    OBVIOUS
  <1>2. \A i \in 1 .. Len(t) : t[i] \in ToSet(t)
    BY <1>1 DEF ToSet
  <1>3. t \in [1 .. Len(t) -> ToSet(t)]
    BY <1>1, <1>2
  <1> QED BY <1>1, <1>3 DEF IsSequence

LEMMA Sequences ==
    /\ IsSequence(<<>>)
    /\ \A e : IsSequence(<<e>>)
    /\ \A s : IsSequence(s) => Len(s) \in Nat /\ DOMAIN s = 1 .. Len(s)
    /\ \A s : IsSequence(s) => (s = <<>> <=> Len(s) = 0)
  <1>1. IsSequence(<<>>)
    BY DEF IsSequence, ToSet
  <1>2. ASSUME NEW e PROVE IsSequence(<<e>>)
    <2>1. <<e>> \in Seq({e})
      OBVIOUS
    <2> QED BY <2>1, OverItsElements
  <1>3. \A s : IsSequence(s) => Len(s) \in Nat /\ DOMAIN s = 1 .. Len(s)
    BY DEF IsSequence
  <1>4. \A s : IsSequence(s) => (s = <<>> <=> Len(s) = 0)
    BY DEF IsSequence
  <1> QED BY <1>1, <1>2, <1>3, <1>4

\* A function on an initial segment of the numbers is a sequence.
LEMMA Enumerated ==
    ASSUME NEW n \in Nat, NEW f, f = [i \in 1 .. n |-> f[i]]
    PROVE  IsSequence(f) /\ Len(f) = n
  <1>1. DOMAIN f = 1 .. n
    OBVIOUS
  <1>2. \A i \in 1 .. n : f[i] \in ToSet(f)
    BY <1>1 DEF ToSet
  <1>3. f \in [1 .. n -> ToSet(f)]
    BY <1>2
  <1>4. f \in Seq(ToSet(f)) /\ Len(f) = n
    BY <1>3
  <1> QED BY <1>4 DEF IsSequence

LEMMA AppendIsSequence ==
    ASSUME NEW s, NEW e, IsSequence(s)
    PROVE  /\ IsSequence(Append(s, e)) /\ Len(Append(s, e)) = Len(s) + 1
           /\ \A i \in 1 .. Len(s) : Append(s, e)[i] = s[i]
           /\ Append(s, e)[Len(s) + 1] = e
  <1> DEFINE R == ToSet(s) \cup {e}
  <1>1. s \in Seq(R) /\ e \in R
    BY DEF IsSequence
  <1> HIDE DEF R
  <1>2. Append(s, e) \in Seq(R) /\ Len(Append(s, e)) = Len(s) + 1
    BY <1>1
  <1>3. \A i \in 1 .. Len(s) : Append(s, e)[i] = s[i]
    BY <1>1
  <1>4. Append(s, e)[Len(s) + 1] = e
    BY <1>1
  <1> QED BY <1>2, <1>3, <1>4, OverItsElements

LEMMA ConcatIsSequence ==
    ASSUME NEW s, NEW t, IsSequence(s), IsSequence(t)
    PROVE  IsSequence(s \o t)
  <1> DEFINE R == ToSet(s) \cup ToSet(t)
  <1>1. s \in Seq(R) /\ t \in Seq(R)
    BY DEF IsSequence
  <1> HIDE DEF R
  <1>2. s \o t \in Seq(R)
    BY <1>1
  <1> QED BY <1>2, OverItsElements

LEMMA TailIsSequence ==
    ASSUME NEW s, IsSequence(s), s # <<>>
    PROVE  /\ IsSequence(Tail(s)) /\ Len(Tail(s)) = Len(s) - 1
           /\ \A i \in 1 .. Len(s) - 1 : Tail(s)[i] = s[i + 1]
           /\ Head(s) = s[1] /\ 1 \in DOMAIN s
  <1> DEFINE R == ToSet(s)
  <1>1. s \in Seq(R)
    BY DEF IsSequence
  <1> HIDE DEF R
  <1>2. Tail(s) \in Seq(R) /\ Len(Tail(s)) = Len(s) - 1
    BY <1>1
  <1>3. \A i \in 1 .. Len(s) - 1 : Tail(s)[i] = s[i + 1]
    BY <1>1
  <1>4. Head(s) = s[1] /\ 1 \in DOMAIN s
    BY <1>1
  <1> QED BY <1>2, <1>3, <1>4, OverItsElements

LEMMA BeginningOf ==
    ASSUME NEW R, NEW s \in Seq(R), NEW n \in Nat, n <= Len(s)
    PROVE  /\ SubSeq(s, 1, n) \in Seq(R) /\ Len(SubSeq(s, 1, n)) = n
           /\ \A i \in 1 .. n : SubSeq(s, 1, n)[i] = s[i]
  <1>1. 1 \in Int /\ n \in Int /\ \A i \in 1 .. n : s[i] \in R
    OBVIOUS
  <1>2. /\ SubSeq(s, 1, n) \in Seq(R)
        /\ Len(SubSeq(s, 1, n)) = (IF 1 <= n THEN n - 1 + 1 ELSE 0)
        /\ \A i \in 1 .. n - 1 + 1 : SubSeq(s, 1, n)[i] = s[1 + i - 1]
    BY <1>1, SubSeqProperties
  <1> QED BY <1>2

LEMMA FrontIsSequence ==
    ASSUME NEW s, IsSequence(s), s # <<>>
    PROVE  /\ IsSequence(Front(s)) /\ Len(Front(s)) = Len(s) - 1
           /\ \A i \in 1 .. Len(s) - 1 : Front(s)[i] = s[i]
           /\ Last(s) = s[Len(s)] /\ Len(s) \in DOMAIN s
  <1> DEFINE R == ToSet(s)
  <1>1. s \in Seq(R)
    BY DEF IsSequence
  <1> HIDE DEF R
  <1>2. Len(s) \in Nat /\ Len(s) >= 1
    BY <1>1
  <1> DEFINE n == Len(s) - 1
  <1>3. n \in Nat /\ n <= Len(s)
    BY <1>2
  <1>4. Front(s) = SubSeq(s, 1, n) /\ Last(s) = s[Len(s)] /\ Len(s) \in DOMAIN s
    BY <1>1, <1>2 DEF Front, Last
  <1> HIDE DEF n
  <1>5. /\ SubSeq(s, 1, n) \in Seq(R) /\ Len(SubSeq(s, 1, n)) = n
        /\ \A i \in 1 .. n : SubSeq(s, 1, n)[i] = s[i]
    BY <1>1, <1>3, BeginningOf
  <1> QED BY <1>4, <1>5, OverItsElements DEF n

LEMMA PickedIsSequence ==
    ASSUME NEW s, NEW positions, IsSequence(s), positions \subseteq DOMAIN s
    PROVE  IsSequence(Picked(s, positions))
  <1>1. IsFiniteSet(DOMAIN s)
    BY Sequences, FS_Interval
  <1>2. Cardinality(positions) \in Nat
    BY <1>1, FS_Subset, FS_CardinalityType
  <1> DEFINE f == Picked(s, positions)
  <1>3. f = [i \in 1 .. Cardinality(positions) |-> f[i]]
    BY DEF Picked
  <1> QED BY <1>2, <1>3, Enumerated

\* Repeating a step that lowers a measure, until it is done.
Falls(D, turn, start, most, left, Done) ==
    /\ most \in Nat /\ start \in D
    /\ \A d \in D : turn[d] \in D
    /\ \A d \in D : left[d] \in Nat
    /\ left[start] <= most
    /\ \A d \in D : d \in Done => turn[d] = d
    /\ \A d \in D : d \notin Done => left[turn[d]] < left[d]

LEMMA Repeated ==
    ASSUME NEW D, NEW turn, NEW start, NEW most, NEW left, NEW Done,
           Falls(D, turn, start, most, left, Done)
    PROVE  /\ \E g : /\ \A k \in 0 .. most : g[k] \in D
                     /\ g = [k \in 0 .. most |-> IF k = 0 THEN start ELSE turn[g[k - 1]]]
           /\ \A f : (f[0] = start /\ \A k \in 1 .. most : f[k - 1] \in D => f[k] = turn[f[k - 1]])
                       => f[most] \in D /\ f[most] \in Done
  <1>0. /\ most \in Nat /\ start \in D
        /\ \A d \in D : turn[d] \in D
        /\ \A d \in D : left[d] \in Nat
        /\ left[start] <= most
        /\ \A d \in D : d \in Done => turn[d] = d
        /\ \A d \in D : d \notin Done => left[turn[d]] < left[d]
    BY DEF Falls
  <1> DEFINE Runs(n, g) == /\ g \in [0 .. n -> D] /\ g[0] = start
                           /\ \A k \in 1 .. n : g[k] = turn[g[k - 1]]
             bad == {n \in Nat : ~\E g : Runs(n, g)}
  <1>1. bad = {}
    <2> SUFFICES ASSUME bad # {} PROVE FALSE
      BY <1>0
    <2>1. PICK n \in bad : \A m \in bad : n <= m
      BY <1>0, LeastNumber
    <2>2. n # 0
      <3> DEFINE g == [k \in 0 .. 0 |-> start]
      <3>1. Runs(0, g)
        BY <1>0
      <3> QED BY <3>1, <2>1
    <2>3. n - 1 \in Nat /\ n - 1 \notin bad
      <3>1. n \in Nat /\ n - 1 < n
        BY <1>0, <2>1
      <3>2. n - 1 \in Nat
        BY <1>0, <2>2, <3>1
      <3> HIDE DEF bad
      <3>3. n - 1 \notin bad
        <4>1. ~(n <= n - 1)
          BY <1>0, <3>1
        <4> QED BY <1>0, <2>1, <4>1
      <3> QED BY <1>0, <3>2, <3>3
    <2>4. PICK g : Runs(n - 1, g)
      BY <1>0, <2>3
    <2> DEFINE h == [k \in 0 .. n |-> IF k = n THEN turn[g[n - 1]] ELSE g[k]]
    <2>5. /\ \A k \in 0 .. n - 1 : h[k] = g[k] /\ g[k] \in D
          /\ h[n] = turn[g[n - 1]] /\ g[n - 1] \in D
      BY <1>0, <2>2, <2>3, <2>4
    <2>6. h \in [0 .. n -> D]
      BY <1>0, <2>2, <2>3, <2>4
    <2>7. \A k \in 1 .. n : h[k] = turn[h[k - 1]]
      <3> TAKE k \in 1 .. n
      <3>1. k - 1 \in 0 .. n - 1 /\ h[k - 1] = g[k - 1]
        BY <1>0, <2>5
      <3>2. CASE k = n
        BY <1>0, <3>1, <3>2, <2>5
      <3>3. CASE k # n
        <4>1. k \in 1 .. n - 1
          BY <1>0, <3>3, <2>3
        <4> QED BY <1>0, <4>1, <3>1, <2>4, <2>5
      <3> QED BY <1>0, <3>2, <3>3
    <2>8. h[0] = start
      BY <1>0, <2>2, <2>3, <2>4, <2>5
    <2> HIDE DEF h
    <2>9. Runs(n, h)
      BY <1>0, <2>6, <2>7, <2>8
    <2> QED BY <1>0, <2>1, <2>9
  <1>2. PICK g : Runs(most, g)
    BY <1>0, <1>1
  <1>3. g = [k \in 0 .. most |-> IF k = 0 THEN start ELSE turn[g[k - 1]]]
    BY <1>0, <1>2
  <1>4. ASSUME NEW f, f[0] = start,
               \A k \in 1 .. most : f[k - 1] \in D => f[k] = turn[f[k - 1]]
        PROVE  f[most] \in D /\ f[most] \in Done
    <2> DEFINE Ahead(k) == f[k] \in D /\ (f[k] \in Done \/ left[f[k]] <= most - k)
               wrong == {k \in 0 .. most : ~Ahead(k)}
    <2>1. wrong = {}
      <3> SUFFICES ASSUME wrong # {} PROVE FALSE
        BY <1>0
      <3>1. PICK k \in wrong : \A m \in wrong : k <= m
        <4>1. wrong \subseteq Nat
          BY <1>0
        <4> HIDE DEF wrong
        <4> QED BY <1>0, <4>1, LeastNumber
      <3>2. k # 0
        BY <1>0, <1>4, <3>1
      <3>3. k - 1 \in 0 .. most /\ k - 1 \notin wrong /\ k \in 1 .. most
        BY <1>0, <3>1, <3>2
      <3>4. Ahead(k - 1) /\ f[k] = turn[f[k - 1]] /\ f[k] \in D
        BY <1>0, <1>4, <3>3
      <3>5. CASE f[k - 1] \in Done
        BY <1>0, <3>1, <3>4, <3>5
      <3>6. CASE f[k - 1] \notin Done
        <4>1. left[f[k]] < left[f[k - 1]] /\ left[f[k - 1]] <= most - (k - 1)
              /\ left[f[k]] \in Nat /\ left[f[k - 1]] \in Nat
          BY <1>0, <3>4, <3>6
        <4> QED BY <1>0, <3>1, <3>3, <3>4, <4>1
      <3> QED BY <1>0, <3>5, <3>6
    <2>2. Ahead(most)
      BY <1>0, <2>1
    <2>3. CASE f[most] \in Done
      BY <1>0, <2>2, <2>3
    <2>4. CASE f[most] \notin Done
      <3>1. left[f[most]] <= 0 /\ left[f[most]] \in Nat /\ f[most] \in D
        BY <1>0, <2>2, <2>4
      <3>2. left[turn[f[most]]] < left[f[most]] /\ left[turn[f[most]]] \in Nat
        BY <1>0, <2>4, <3>1
      <3> QED BY <1>0, <3>1, <3>2
    <2> QED BY <1>0, <2>3, <2>4
  <1> QED BY <1>0, <1>2, <1>3, <1>4


-----------------------------------------------------------------------------
(* The heap of removal times.                                              *)

\* Items whose hashes tell them apart.
IsItems(items) ==
    /\ IsSequence(items)
    /\ \A i \in DOMAIN items : items[i].hash \in Nat /\ items[i].removeAfter \in Int
    /\ \A i, j \in DOMAIN items : items[i].hash = items[j].hash => i = j
IsHeap(items) == \A i \in DOMAIN items : i > 1 => ~less(items, i, i \div 2)

\* The heap but for the item that moves: its children are not before its
\* parent, and it may be before its parent, or after its children.
Around(items, at) ==
    \A i \in DOMAIN items : i \div 2 = at /\ at > 1 => ~less(items, i, at \div 2)
Rising(items, at) ==
    /\ at \in DOMAIN items /\ Around(items, at)
    /\ \A i \in DOMAIN items : i > 1 /\ i # at => ~less(items, i, i \div 2)
Sinking(items, at) ==
    /\ at \in DOMAIN items /\ Around(items, at)
    /\ \A i \in DOMAIN items : i > 1 /\ i \div 2 # at => ~less(items, i, i \div 2)

\* The same items in another order.
Rearranges(items, before) ==
    /\ IsItems(items) /\ Len(items) = Len(before)
    /\ ToSet(items) = ToSet(before)

LEMMA ItemsFacts ==
    ASSUME NEW items, IsItems(items)
    PROVE  Len(items) \in Nat /\ DOMAIN items = 1 .. Len(items)
  BY Sequences DEF IsItems

LEMMA Halves ==
    /\ \A i \in Nat : i > 1 => i \div 2 \in Nat /\ i \div 2 >= 1 /\ i \div 2 < i
    /\ \A i, a \in Nat : i \div 2 = a <=> (i = 2 * a \/ i = 2 * a + 1)
  <1>1. \A i \in Nat : i > 1 => i \div 2 \in Nat /\ i \div 2 >= 1 /\ i \div 2 < i
    OBVIOUS
  <1>2. \A i, a \in Nat : i \div 2 = a <=> (i = 2 * a \/ i = 2 * a + 1)
    OBVIOUS
  <1> QED BY <1>1, <1>2

\* less is a strict order, total up to the hash.
LEMMA LessOrders ==
    ASSUME NEW items, IsItems(items)
    PROVE  /\ \A i, j \in DOMAIN items : less(items, i, j) => ~less(items, j, i)
           /\ \A i, j, k \in DOMAIN items :
                 ~less(items, i, j) /\ ~less(items, j, k) => ~less(items, i, k)
  <1> DEFINE t(i) == items[i].removeAfter
             h(i) == items[i].hash
  <1>1. \A i \in DOMAIN items : t(i) \in Int /\ h(i) \in Nat
    BY DEF IsItems
  <1>2. \A i, j : less(items, i, j) <=> t(i) < t(j) \/ (t(i) = t(j) /\ h(i) < h(j))
    BY DEF less
  <1> HIDE DEF t, h
  <1> QED BY <1>1, <1>2

\* Where the item at i is after a swap of a and b.
Place(i, a, b) == IF i = a THEN b ELSE IF i = b THEN a ELSE i

\* A swap keeps the items and moves their order along.
LEMMA SwapRearranges ==
    ASSUME NEW items, IsItems(items), NEW a \in DOMAIN items, NEW b \in DOMAIN items
    PROVE  /\ Rearranges(swap(items, a, b), items)
           /\ \A i, j \in DOMAIN items :
                 less(swap(items, a, b), i, j) <=> less(items, Place(i, a, b), Place(j, a, b))
  <1> DEFINE at(i) == Place(i, a, b)
             s == swap(items, a, b)
  <1>0. Len(items) \in Nat /\ DOMAIN items = 1 .. Len(items)
    BY ItemsFacts
  <1>1. /\ DOMAIN s = DOMAIN items
        /\ \A i \in DOMAIN items : at(i) \in DOMAIN items /\ at(at(i)) = i /\ s[i] = items[at(i)]
    BY DEF swap, Place
  <1> HIDE DEF at, s
  <1>2. \A i, j \in DOMAIN items : less(s, i, j) <=> less(items, at(i), at(j))
    BY <1>1 DEF less
  <1>3. s = [i \in 1 .. Len(items) |-> s[i]]
    BY <1>0 DEF s, swap
  <1>4. IsSequence(s) /\ Len(s) = Len(items)
    BY <1>0, <1>3, Enumerated
  <1>5. ToSet(s) = ToSet(items)
    BY <1>1 DEF ToSet
  <1>6. IsItems(s)
    <2>1. ASSUME NEW i \in DOMAIN items, NEW j \in DOMAIN items, s[i].hash = s[j].hash PROVE i = j
      <3>1. at(i) = at(j)
        BY <1>1, <2>1 DEF IsItems
      <3> QED BY <1>1, <3>1
    <2> QED BY <1>1, <1>4, <2>1 DEF IsItems
  <1> QED BY <1>1, <1>2, <1>4, <1>5, <1>6 DEF Rearranges, at, s

LEMMA RiseKeeps ==
    ASSUME NEW items, IsItems(items), NEW at, Rising(items, at), at # 1,
           less(items, at, at \div 2)
    PROVE  /\ at \div 2 \in DOMAIN items /\ at \div 2 < at
           /\ Rising(swap(items, at, at \div 2), at \div 2)
  <1> DEFINE p == at \div 2
             s == swap(items, at, p)
             old(i) == Place(i, at, p)
             L(i, j) == less(items, i, j)
  <1>1. Len(items) \in Nat /\ DOMAIN items = 1 .. Len(items)
    BY ItemsFacts
  <1>2. at \in DOMAIN items /\ at \in Nat /\ at > 1
    BY <1>1 DEF Rising
  <1>3. p \in DOMAIN items /\ p < at /\ p \in Nat
    BY <1>1, <1>2, Halves
  <1>4. \A i \in DOMAIN items : i > 1 => i \div 2 \in DOMAIN items /\ i \div 2 # i
    BY <1>1, Halves
  <1>5. DOMAIN s = DOMAIN items /\ \A i, j \in DOMAIN items : less(s, i, j) <=> L(old(i), old(j))
    <2>1. DOMAIN s = DOMAIN items
      BY DEF swap
    <2>2. \A i, j \in DOMAIN items : less(s, i, j) <=> L(old(i), old(j))
      BY <1>2, <1>3, SwapRearranges
    <2> QED BY <2>1, <2>2
  <1>6. /\ \A i, j \in DOMAIN items : L(i, j) => ~L(j, i)
        /\ \A i, j, k \in DOMAIN items : ~L(i, j) /\ ~L(j, k) => ~L(i, k)
    BY LessOrders
  <1>7. /\ \A i \in DOMAIN items : i > 1 /\ i # at => ~L(i, i \div 2)
        /\ \A i \in DOMAIN items : i \div 2 = at => ~L(i, p)
        /\ L(at, p)
    BY <1>2 DEF Rising, Around
  <1>0. \A i : old(i) = IF i = at THEN p ELSE IF i = p THEN at ELSE i
    BY DEF Place
  <1> HIDE DEF L, s, old
  <1>8. ASSUME NEW i \in DOMAIN items, i > 1, i # p PROVE ~less(s, i, i \div 2)
    <2>1. less(s, i, i \div 2) <=> L(old(i), old(i \div 2))
      BY <1>4, <1>5, <1>8
    <2>2. CASE i = at
      BY <1>0, <1>2, <1>3, <1>6, <1>7, <2>1, <2>2
    <2>3. CASE i # at /\ i \div 2 = at
      BY <1>0, <1>3, <1>7, <1>8, <2>1, <2>3
    <2>4. CASE i # at /\ i \div 2 = p
      <3>1. ~L(i, p) /\ ~L(p, at)
        BY <1>2, <1>3, <1>6, <1>7, <1>8, <2>4
      <3>2. ~L(i, at)
        BY <1>2, <1>3, <1>6, <3>1
      <3>3. old(i) = i /\ old(i \div 2) = at
        BY <1>0, <1>3, <1>8, <2>4
      <3> QED BY <2>1, <3>2, <3>3
    <2>5. CASE i # at /\ i \div 2 # at /\ i \div 2 # p
      BY <1>0, <1>7, <1>8, <2>1, <2>5
    <2> QED BY <2>2, <2>3, <2>4, <2>5
  <1>9. ASSUME NEW i \in DOMAIN items, i \div 2 = p, p > 1 PROVE ~less(s, i, p \div 2)
    <2>1. p \div 2 \in DOMAIN items /\ p \div 2 # p /\ p \div 2 # at
      BY <1>1, <1>2, <1>3, <1>9, Halves
    <2>2. i \in Nat /\ i > 1 /\ i # p
      <3>1. i \in Nat /\ (i = 2 * p \/ i = 2 * p + 1)
        BY <1>1, <1>3, <1>9, Halves
      <3> QED BY <1>3, <1>9, <3>1
    <2>3. ~L(p, p \div 2)
      BY <1>3, <1>7, <1>9
    <2>4. less(s, i, p \div 2) <=> L(old(i), p \div 2)
      BY <1>0, <1>5, <2>1
    <2>5. CASE i = at
      BY <1>0, <2>3, <2>4, <2>5
    <2>6. CASE i # at
      <3>1. ~L(i, p)
        BY <1>7, <1>9, <2>2, <2>6
      <3>2. ~L(i, p \div 2)
        BY <1>3, <1>6, <2>1, <2>3, <3>1
      <3> QED BY <1>0, <2>2, <2>4, <2>6, <3>2
    <2> QED BY <2>5, <2>6
  <1>10. Rising(s, p)
    BY <1>3, <1>5, <1>8, <1>9 DEF Rising, Around
  <1> QED BY <1>3, <1>10 DEF s

\* The child that Sink compares with.
SmallerChild(items, at) ==
    IF 2 * at + 1 <= Len(items) /\ less(items, 2 * at + 1, 2 * at) THEN 2 * at + 1 ELSE 2 * at

LEMMA SinkKeeps ==
    ASSUME NEW items, IsItems(items), NEW at, Sinking(items, at), 2 * at <= Len(items),
           less(items, SmallerChild(items, at), at)
    PROVE  /\ SmallerChild(items, at) \in DOMAIN items /\ at < SmallerChild(items, at)
           /\ Sinking(swap(items, at, SmallerChild(items, at)), SmallerChild(items, at))
  <1> DEFINE c == SmallerChild(items, at)
             s == swap(items, at, c)
             old(i) == Place(i, at, c)
             L(i, j) == less(items, i, j)
  <1>0. \A i : old(i) = IF i = at THEN c ELSE IF i = c THEN at ELSE i
    BY DEF Place
  <1>1. Len(items) \in Nat /\ DOMAIN items = 1 .. Len(items) /\ at \in Nat /\ at >= 1
        /\ at \in DOMAIN items
    BY ItemsFacts DEF Sinking
  <1>2. /\ c \in Nat /\ c \in DOMAIN items /\ at < c /\ c \div 2 = at /\ c > 1
        /\ \A i \in DOMAIN items : i \div 2 = at /\ i # c => ~L(i, c)
    <2>1. c = 2 * at \/ (c = 2 * at + 1 /\ 2 * at + 1 <= Len(items))
      BY DEF SmallerChild
    <2>2. c \in Nat /\ c \in DOMAIN items /\ at < c /\ c > 1
      <3> HIDE DEF c
      <3> QED BY <1>1, <2>1
    <2>3. c \div 2 = at
      <3> HIDE DEF c
      <3> QED BY <1>1, <2>1, <2>2, Halves
    <2>4. ASSUME NEW i \in DOMAIN items, i \div 2 = at, i # c PROVE ~L(i, c)
      <3>1. i \in Nat /\ (i = 2 * at \/ i = 2 * at + 1) /\ i <= Len(items)
        BY <1>1, <2>4, Halves
      <3>2. CASE less(items, 2 * at + 1, 2 * at) /\ 2 * at + 1 <= Len(items)
        <4>1. c = 2 * at + 1 /\ i = 2 * at
          BY <2>4, <3>1, <3>2 DEF SmallerChild
        <4> QED BY <2>2, <2>4, <3>2, <4>1, LessOrders
      <3>3. CASE ~(less(items, 2 * at + 1, 2 * at) /\ 2 * at + 1 <= Len(items))
        <4>1. c = 2 * at /\ i = 2 * at + 1
          BY <2>4, <3>1, <3>3 DEF SmallerChild
        <4> QED BY <3>1, <3>3, <4>1
      <3> QED BY <3>2, <3>3
    <2> QED BY <2>2, <2>3, <2>4
  <1>3. L(c, at)
    OBVIOUS
  <1> HIDE DEF c
  <1>4. \A i \in DOMAIN items : i > 1 => i \div 2 \in DOMAIN items /\ i \div 2 # i
    BY <1>1, Halves
  <1>5. DOMAIN s = DOMAIN items /\ \A i, j \in DOMAIN items : less(s, i, j) <=> L(old(i), old(j))
    <2>1. DOMAIN s = DOMAIN items
      BY DEF swap
    <2>2. \A i, j \in DOMAIN items : less(s, i, j) <=> L(old(i), old(j))
      BY <1>1, <1>2, SwapRearranges
    <2> QED BY <2>1, <2>2
  <1>6. \A i, j \in DOMAIN items : L(i, j) => ~L(j, i)
    BY LessOrders
  <1>7. /\ \A i \in DOMAIN items : i > 1 /\ i \div 2 # at => ~L(i, i \div 2)
        /\ at > 1 => ~L(c, at \div 2)
    BY <1>2 DEF Sinking, Around
  <1> HIDE DEF L, s, old
  <1>8. ASSUME NEW i \in DOMAIN items, i > 1, i \div 2 # c PROVE ~less(s, i, i \div 2)
    <2>1. less(s, i, i \div 2) <=> L(old(i), old(i \div 2))
      BY <1>4, <1>5, <1>8
    <2>2. CASE i = c
      BY <1>0, <1>1, <1>2, <1>3, <1>6, <2>1, <2>2
    <2>3. CASE i # c /\ i \div 2 = at
      <3>1. i # at
        BY <1>4, <1>8, <2>3
      <3> QED BY <1>0, <1>2, <2>1, <2>3, <3>1
    <2>4. CASE i = at
      BY <1>0, <1>7, <1>8, <1>4, <2>1, <2>4
    <2>5. CASE i # c /\ i # at /\ i \div 2 # at
      BY <1>0, <1>7, <1>8, <2>1, <2>5
    <2> QED BY <2>2, <2>3, <2>4, <2>5
  <1>9. ASSUME NEW i \in DOMAIN items, i \div 2 = c PROVE ~less(s, i, c \div 2)
    <2>1. i \in Nat /\ i > 1 /\ i # c /\ i # at
      <3>1. i \in Nat /\ (i = 2 * c \/ i = 2 * c + 1)
        BY <1>1, <1>2, <1>9, Halves
      <3> QED BY <1>1, <1>2, <3>1
    <2>2. ~L(i, c)
      BY <1>1, <1>2, <1>7, <1>9, <2>1
    <2>3. less(s, i, at) <=> L(i, c)
      BY <1>0, <1>1, <1>5, <2>1
    <2> QED BY <1>2, <2>2, <2>3
  <1>10. Sinking(s, c)
    BY <1>2, <1>5, <1>8, <1>9 DEF Sinking, Around
  <1> QED BY <1>2, <1>10 DEF s, c


LEMMA Rearranged ==
    ASSUME NEW items, IsItems(items), NEW t, Rearranges(t, items)
    PROVE  t \in [1 .. Len(items) -> ToSet(items)] /\ DOMAIN t = 1 .. Len(items)
  <1>1. Len(t) = Len(items) /\ t \in Seq(ToSet(items))
    BY DEF Rearranges, IsItems, IsSequence
  <1> QED BY <1>1

\* Rearranging twice rearranges.
LEMMA RearrangedTwice ==
    ASSUME NEW a, NEW b, NEW c, Rearranges(a, b), Rearranges(b, c)
    PROVE  Rearranges(a, c)
  BY DEF Rearranges

LEMMA UpSorts ==
    ASSUME NEW items, IsItems(items), NEW at, Rising(items, at)
    PROVE  IsHeap(up(items, at)) /\ Rearranges(up(items, at), items)
  <1> DEFINE n == Len(items)
             start == [items |-> items, at |-> at]
             D == {d \in [items : [1 .. n -> ToSet(items)], at : 1 .. n] :
                      Rearranges(d.items, items) /\ Rising(d.items, d.at)}
             Done == {d \in D : d.at = 1 \/ ~less(d.items, d.at, d.at \div 2)}
             turn == [d \in D |-> Rise(d)]
             left == [d \in D |-> d.at]
             Follows(f) == f = [k \in 0 .. n |-> IF k = 0 THEN start ELSE Rise(f[k - 1])]
             after == CHOOSE f : Follows(f)
  <1>1. n \in Nat /\ DOMAIN items = 1 .. n /\ at \in 1 .. n
    BY ItemsFacts DEF Rising
  <1>2. Rearranges(items, items)
    BY DEF Rearranges
  <1>3. start \in D
    BY <1>1, <1>2, Rearranged
  <1>4. ASSUME NEW d \in D, d \notin Done
        PROVE  Rise(d) \in D /\ Rise(d).at < d.at
    <2> DEFINE p == d.at \div 2
               s == swap(d.items, d.at, p)
    <2>1. /\ IsItems(d.items) /\ Rising(d.items, d.at) /\ d.at # 1
          /\ less(d.items, d.at, p) /\ Rearranges(d.items, items) /\ d.at \in DOMAIN d.items
      BY <1>4 DEF Rearranges, Rising
    <2>2. p \in DOMAIN d.items /\ p < d.at /\ Rising(s, p)
      BY <2>1, RiseKeeps
    <2>3. Rearranges(s, items)
      BY <2>1, <2>2, SwapRearranges, RearrangedTwice
    <2>4. Rise(d) = [items |-> s, at |-> p]
      BY <2>1 DEF Rise
    <2>5. s \in [1 .. n -> ToSet(items)] /\ p \in 1 .. n
      BY <2>1, <2>2, <2>3, Rearranged
    <2> HIDE DEF s, p
    <2> QED BY <2>2, <2>3, <2>4, <2>5
  <1>5. ASSUME NEW d \in D, d \in Done PROVE Rise(d) = d
    BY <1>5 DEF Rise
  <1>6. \A d \in D : d.at \in Nat
    BY <1>1
  <1>71. \A d \in D : turn[d] = Rise(d)
    OBVIOUS
  <1>72. \A d \in D : turn[d] \in D
    <2> HIDE DEF D, Done, turn
    <2> QED BY <1>4, <1>5, <1>71
  <1>73. \A d \in D : left[d] \in Nat
    BY <1>6, <1>1
  <1>74. left[start] <= n
    BY <1>1, <1>3
  <1>75. \A d \in D : d \in Done => turn[d] = d
    <2> HIDE DEF D, Done, turn
    <2> QED BY <1>5, <1>71
  <1>76. \A d \in D : d \notin Done => left[turn[d]] < left[d]
    <2>1. \A d \in D : left[d] = d.at
      OBVIOUS
    <2> HIDE DEF D, Done, turn, left
    <2> QED BY <1>1, <1>4, <1>6, <1>71, <1>72, <2>1
  <1>8. \A d \in D : d \in Done => IsHeap(d.items) /\ Rearranges(d.items, items)
    BY <1>1, Rearranged DEF Rising, IsHeap
  <1> HIDE DEF D, Done, turn, left, start
  <1>77. Falls(D, turn, start, n, left, Done)
    BY <1>1, <1>3, <1>72, <1>73, <1>74, <1>75, <1>76 DEF Falls
  <1>9. PICK g : /\ \A k \in 0 .. n : g[k] \in D
                 /\ g = [k \in 0 .. n |-> IF k = 0 THEN start ELSE turn[g[k - 1]]]
    BY <1>77, Repeated
  <1>10. Follows(g)
    <2>1. \A k \in 0 .. n : k # 0 => turn[g[k - 1]] = Rise(g[k - 1])
      BY <1>1, <1>9, <1>71
    <2> QED BY <1>9, <2>1
  <1>11. Follows(after)
    <2> HIDE DEF Follows
    <2> QED BY <1>10
  <1> HIDE DEF after
  <1>12. after[0] = start /\ \A k \in 1 .. n : after[k - 1] \in D => after[k] = turn[after[k - 1]]
    BY <1>1, <1>71, <1>11
  <1>13. after[n] \in D /\ after[n] \in Done
    BY <1>77, <1>12, Repeated
  <1>14. up(items, at) = after[n].items
    BY DEF up, after, Follows, start
  <1> QED BY <1>8, <1>13, <1>14

LEMMA DownSorts ==
    ASSUME NEW items, IsItems(items), NEW at, Sinking(items, at)
    PROVE  IsHeap(down(items, at)) /\ Rearranges(down(items, at), items)
  <1> DEFINE n == Len(items)
             start == [items |-> items, at |-> at]
             D == {d \in [items : [1 .. n -> ToSet(items)], at : 1 .. n] :
                      Rearranges(d.items, items) /\ Sinking(d.items, d.at)}
             Done == {d \in D : 2 * d.at > n \/ ~less(d.items, SmallerChild(d.items, d.at), d.at)}
             turn == [d \in D |-> Sink(d)]
             left == [d \in D |-> n - d.at]
             Follows(f) == f = [k \in 0 .. n |-> IF k = 0 THEN start ELSE Sink(f[k - 1])]
             after == CHOOSE f : Follows(f)
  <1>1. n \in Nat /\ DOMAIN items = 1 .. n /\ at \in 1 .. n
    BY ItemsFacts DEF Sinking
  <1>2. Rearranges(items, items)
    BY DEF Rearranges
  <1>3. start \in D
    BY <1>1, <1>2, Rearranged
  <1>0. ASSUME NEW d \in D
        PROVE  /\ IsItems(d.items) /\ Len(d.items) = n /\ DOMAIN d.items = 1 .. n
               /\ Sinking(d.items, d.at) /\ Rearranges(d.items, items) /\ d.at \in 1 .. n
               /\ Sink(d) = IF d \in Done THEN d
                            ELSE [items |-> swap(d.items, d.at, SmallerChild(d.items, d.at)),
                                  at |-> SmallerChild(d.items, d.at)]
    <2>1. /\ IsItems(d.items) /\ Len(d.items) = n /\ DOMAIN d.items = 1 .. n
          /\ Sinking(d.items, d.at) /\ Rearranges(d.items, items) /\ d.at \in 1 .. n
      BY Rearranged DEF Rearranges
    <2> QED BY <2>1 DEF Sink, SmallerChild
  <1>4. ASSUME NEW d \in D, d \notin Done
        PROVE  Sink(d) \in D /\ Sink(d).at > d.at
    <2> DEFINE c == SmallerChild(d.items, d.at)
               s == swap(d.items, d.at, c)
    <2>1. 2 * d.at <= Len(d.items) /\ less(d.items, c, d.at)
      BY <1>0, <1>1, <1>4
    <2>2. c \in DOMAIN d.items /\ d.at < c /\ Sinking(s, c)
      BY <1>0, <2>1, SinkKeeps
    <2>3. Rearranges(s, items)
      BY <1>0, <2>2, SwapRearranges, RearrangedTwice
    <2>4. Sink(d) = [items |-> s, at |-> c]
      BY <1>0, <1>4
    <2>5. s \in [1 .. n -> ToSet(items)] /\ c \in 1 .. n
      BY <1>0, <2>2, <2>3, Rearranged
    <2> HIDE DEF s, c
    <2> QED BY <2>2, <2>3, <2>4, <2>5
  <1>5. ASSUME NEW d \in D, d \in Done PROVE Sink(d) = d
    BY <1>0, <1>5
  <1>6. \A d \in D : d.at \in Nat /\ d.at <= n
    BY <1>1
  <1>71. \A d \in D : turn[d] = Sink(d)
    OBVIOUS
  <1>72. \A d \in D : turn[d] \in D
    <2> HIDE DEF D, Done, turn
    <2> QED BY <1>4, <1>5, <1>71
  <1>73. \A d \in D : left[d] \in Nat
    BY <1>6, <1>1
  <1>74. left[start] <= n
    BY <1>1, <1>3
  <1>75. \A d \in D : d \in Done => turn[d] = d
    <2> HIDE DEF D, Done, turn
    <2> QED BY <1>5, <1>71
  <1>76. \A d \in D : d \notin Done => left[turn[d]] < left[d]
    <2>1. \A d \in D : left[d] = n - d.at
      OBVIOUS
    <2> HIDE DEF D, Done, turn, left
    <2> QED BY <1>1, <1>4, <1>6, <1>71, <1>72, <2>1
  <1>8. ASSUME NEW d \in D, d \in Done PROVE IsHeap(d.items) /\ Rearranges(d.items, items)
    <2>0. 2 * d.at > n \/ ~less(d.items, SmallerChild(d.items, d.at), d.at)
      BY <1>8
    <2> HIDE DEF D, Done
    <2>1. ASSUME NEW i \in DOMAIN d.items, i > 1, i \div 2 = d.at PROVE ~less(d.items, i, i \div 2)
      <3>1. i \in Nat /\ (i = 2 * d.at \/ i = 2 * d.at + 1) /\ i <= n
        <4>1. i \in 1 .. n /\ d.at \in Nat /\ i \div 2 = d.at
          BY <1>0, <1>1, <1>6, <2>1
        <4>2. \A j, a \in Nat : j \div 2 = a => j = 2 * a \/ j = 2 * a + 1
          BY Halves
        <4>3. i \in Nat /\ i <= n
          BY <1>1, <4>1
        <4> QED BY <4>1, <4>2, <4>3
      <3>2. 2 * d.at <= n /\ ~less(d.items, SmallerChild(d.items, d.at), d.at)
        BY <1>0, <1>1, <2>0, <3>1
      <3>3. CASE i = SmallerChild(d.items, d.at)
        BY <2>1, <3>2, <3>3
      <3>4. CASE i # SmallerChild(d.items, d.at)
        <4> DEFINE c == SmallerChild(d.items, d.at)
        <4>1. c \in DOMAIN d.items /\ ~less(d.items, i, c)
          <5>1. CASE less(d.items, 2 * d.at + 1, 2 * d.at) /\ 2 * d.at + 1 <= n
            <6>1. c = 2 * d.at + 1 /\ i = 2 * d.at
              BY <1>0, <3>1, <3>4, <5>1 DEF SmallerChild
            <6>2. c \in DOMAIN d.items
              BY <1>0, <1>1, <5>1, <6>1
            <6> HIDE DEF c
            <6> QED BY <1>0, <5>1, <6>1, <6>2, LessOrders
          <5>2. CASE ~(less(d.items, 2 * d.at + 1, 2 * d.at) /\ 2 * d.at + 1 <= n)
            <6>1. c = 2 * d.at /\ i = 2 * d.at + 1
              BY <1>0, <3>1, <3>4, <5>2 DEF SmallerChild
            <6>2. c \in DOMAIN d.items
              <7> HIDE DEF c
              <7> QED BY <1>0, <1>1, <3>2, <6>1
            <6> HIDE DEF c
            <6> QED BY <3>1, <5>2, <6>1, <6>2
          <5> QED BY <5>1, <5>2
        <4>2. ~less(d.items, c, d.at) /\ d.at \in DOMAIN d.items
          BY <1>0, <3>2
        <4> HIDE DEF c
        <4> QED BY <1>0, <2>1, <4>1, <4>2, LessOrders
      <3> QED BY <3>3, <3>4
    <2> QED BY <1>0, <2>1 DEF Sinking, IsHeap
  <1> HIDE DEF D, Done, turn, left, start
  <1>77. Falls(D, turn, start, n, left, Done)
    BY <1>1, <1>3, <1>72, <1>73, <1>74, <1>75, <1>76 DEF Falls
  <1>9. PICK g : /\ \A k \in 0 .. n : g[k] \in D
                 /\ g = [k \in 0 .. n |-> IF k = 0 THEN start ELSE turn[g[k - 1]]]
    BY <1>77, Repeated
  <1>10. Follows(g)
    <2>1. \A k \in 0 .. n : k # 0 => turn[g[k - 1]] = Sink(g[k - 1])
      BY <1>1, <1>9, <1>71
    <2> QED BY <1>9, <2>1
  <1>11. Follows(after)
    <2> HIDE DEF Follows
    <2> QED BY <1>10
  <1> HIDE DEF after
  <1>12. after[0] = start /\ \A k \in 1 .. n : after[k - 1] \in D => after[k] = turn[after[k - 1]]
    BY <1>1, <1>71, <1>11
  <1>13. after[n] \in D /\ after[n] \in Done
    BY <1>77, <1>12, Repeated
  <1>14. down(items, at) = after[n].items
    BY DEF down, after, Follows, start
  <1> QED BY <1>8, <1>13, <1>14

-----------------------------------------------------------------------------
(* The heap gains and loses an item.                                       *)

LEMMA QueueSetAdds ==
    ASSUME NEW items, IsItems(items), IsHeap(items), NEW hash \in Nat, NEW time \in Int,
           ~Queued(items, hash)
    PROVE  LET after == queueSet(items, hash, time)
           IN /\ IsItems(after) /\ IsHeap(after) /\ Len(after) = Len(items) + 1
              /\ ToSet(after) = ToSet(items) \cup {[hash |-> hash, removeAfter |-> time]}
  <1> DEFINE item == [hash |-> hash, removeAfter |-> time]
             t == Append(items, item)
             n == Len(items)
  <1>1. n \in Nat /\ DOMAIN items = 1 .. n
    BY ItemsFacts
  <1>2. /\ IsSequence(t) /\ Len(t) = n + 1 /\ DOMAIN t = 1 .. n + 1
        /\ \A i \in 1 .. n : t[i] = items[i]
        /\ t[n + 1] = item
    BY AppendIsSequence, Sequences DEF IsItems
  <1>3. item.hash = hash /\ item.removeAfter = time
    OBVIOUS
  <1> HIDE DEF t, item
  <1>4. \A i \in 1 .. n + 1 : (i = n + 1 /\ t[i] = item) \/ (i \in 1 .. n /\ t[i] = items[i])
    BY <1>1, <1>2
  <1>5. ToSet(t) = ToSet(items) \cup {item}
    <2>1. n + 1 \in 1 .. n + 1 /\ \A i \in 1 .. n : i \in 1 .. n + 1
      BY <1>1
    <2> QED BY <1>1, <1>2, <1>4, <2>1 DEF ToSet
  <1>6. IsItems(t)
    <2>1. \A i \in 1 .. n : items[i].hash # hash
      BY <1>1 DEF Queued
    <2>2. \A i \in 1 .. n + 1 : t[i].hash \in Nat /\ t[i].removeAfter \in Int
      BY <1>1, <1>3, <1>4 DEF IsItems
    <2>3. \A i, j \in 1 .. n + 1 : t[i].hash = t[j].hash => i = j
      BY <1>1, <1>3, <1>4, <2>1 DEF IsItems
    <2> QED BY <1>2, <2>2, <2>3 DEF IsItems
  <1>7. Rising(t, n + 1)
    <2>1. n + 1 \in 1 .. n + 1
      BY <1>1
    <2>2. ASSUME NEW i \in DOMAIN t, i > 1, i # n + 1 PROVE ~less(t, i, i \div 2)
      <3>1. i \in 1 .. n /\ i \div 2 \in 1 .. n
        BY <1>1, <1>2, <2>2, Halves
      <3>2. t[i] = items[i] /\ t[i \div 2] = items[i \div 2]
        BY <1>2, <3>1
      <3>3. ~less(items, i, i \div 2)
        BY <1>1, <2>2, <3>1 DEF IsHeap
      <3> QED BY <3>2, <3>3 DEF less
    <2>3. ASSUME NEW i \in DOMAIN t, i \div 2 = n + 1 PROVE FALSE
      <3>1. \A j, a \in Nat : j \div 2 = a => j = 2 * a \/ j = 2 * a + 1
        BY Halves
      <3>2. i \in Nat /\ i <= n + 1 /\ n + 1 \in Nat
        BY <1>1, <1>2
      <3>3. i = 2 * (n + 1) \/ i = 2 * (n + 1) + 1
        BY <2>3, <3>1, <3>2
      <3> QED BY <1>1, <3>2, <3>3
    <2> QED BY <1>2, <2>1, <2>2, <2>3 DEF Rising, Around
  <1>8. IsHeap(up(t, n + 1)) /\ Rearranges(up(t, n + 1), t)
    BY <1>6, <1>7, UpSorts
  <1>9. queueSet(items, hash, time) = up(t, n + 1)
    BY DEF queueSet, t, item
  <1> QED BY <1>2, <1>5, <1>8, <1>9 DEF Rearranges, item

LEMMA QueueRemoveDrops ==
    ASSUME NEW items, IsItems(items), IsHeap(items), NEW hash, Queued(items, hash)
    PROVE  LET after == queueRemove(items, hash)
           IN /\ IsItems(after) /\ IsHeap(after) /\ Len(after) = Len(items) - 1
              /\ ToSet(after) = {x \in ToSet(items) : x.hash # hash}
  <1> DEFINE i == IndexOf(items, hash)
             n == Len(items)
             gap == [items EXCEPT ![i] = Last(items)]
             moved == Front(gap)
             from(j) == IF j = i THEN n ELSE j
  <1>1. n \in Nat /\ DOMAIN items = 1 .. n
    BY ItemsFacts
  <1>2. i \in 1 .. n /\ items[i].hash = hash /\ n - 1 \in Nat
    <2>1. \E j \in DOMAIN items : items[j].hash = hash
      BY DEF Queued
    <2>2. i \in 1 .. n /\ items[i].hash = hash
      BY <1>1, <2>1 DEF IndexOf
    <2> HIDE DEF i
    <2> QED BY <1>1, <2>2
  <1>0. \A j \in 1 .. n : items[j].hash = hash => j = i
    <2> HIDE DEF i
    <2> QED BY <1>1, <1>2 DEF IsItems
  <1>9. n \in Nat
    BY <1>1
  <1>3. IsSequence(items) /\ items # <<>>
    BY <1>1, <1>2, Sequences DEF IsItems
  <1>4. CASE i = n
    <2> DEFINE t == Front(items)
    <2>1. /\ IsSequence(t) /\ Len(t) = n - 1 /\ DOMAIN t = 1 .. n - 1
          /\ \A j \in 1 .. n - 1 : t[j] = items[j]
      BY <1>3, FrontIsSequence, Sequences
    <2> HIDE DEF t, i
    <2>2. \A j \in 1 .. n - 1 : j \in 1 .. n /\ j # i
      <3> HIDE DEF n
      <3> QED BY <1>9, <1>4
    <2>3. \A j \in 1 .. n : j # i => j \in 1 .. n - 1
      <3> HIDE DEF n
      <3> QED BY <1>9, <1>4
    <2>4. IsItems(t)
      BY <1>1, <2>1, <2>2 DEF IsItems
    <2>5. IsHeap(t)
      <3> SUFFICES ASSUME NEW j \in DOMAIN t, j > 1 PROVE ~less(t, j, j \div 2)
        BY DEF IsHeap
      <3>1. j \in 1 .. n - 1 /\ j \div 2 \in 1 .. n - 1
        BY <1>1, <1>2, <2>1, Halves
      <3>2. ~less(items, j, j \div 2)
        BY <1>1, <2>2, <3>1 DEF IsHeap
      <3> QED BY <2>1, <3>1, <3>2 DEF less
    <2>6. ToSet(t) = {x \in ToSet(items) : x.hash # hash}
      <3>1. \A j \in 1 .. n - 1 : items[j].hash # hash
        BY <1>0, <2>2
      <3>2. ASSUME NEW x \in ToSet(t) PROVE x \in ToSet(items) /\ x.hash # hash
        BY <1>1, <2>1, <2>2, <3>1 DEF ToSet
      <3>3. ASSUME NEW x \in ToSet(items), x.hash # hash PROVE x \in ToSet(t)
        BY <1>1, <1>2, <2>1, <2>3, <3>3 DEF ToSet
      <3> QED BY <3>2, <3>3
    <2>7. queueRemove(items, hash) = t
      BY <1>4 DEF queueRemove, t, i
    <2> QED BY <2>1, <2>4, <2>5, <2>6, <2>7
  <1>5. CASE i # n
    <2>1. /\ DOMAIN gap = 1 .. n /\ gap[i] = items[n] /\ \A j \in 1 .. n : j # i => gap[j] = items[j]
          /\ gap = [j \in 1 .. n |-> gap[j]]
      BY <1>1, <1>2, <1>3, FrontIsSequence
    <2> HIDE DEF i, gap
    <2>2. IsSequence(gap) /\ Len(gap) = n /\ gap # <<>>
      BY <1>1, <1>2, <2>1, Enumerated, Sequences
    <2>3. /\ IsSequence(moved) /\ Len(moved) = n - 1 /\ DOMAIN moved = 1 .. n - 1
          /\ \A j \in 1 .. n - 1 : moved[j] = gap[j]
      BY <2>2, FrontIsSequence, Sequences
    <2> HIDE DEF moved
    <2>4. /\ i \in 1 .. n - 1 /\ i \in Nat /\ n \in 1 .. n
          /\ \A j \in 1 .. n - 1 : j \in 1 .. n /\ j # n /\ from(j) \in 1 .. n /\ from(j) # i
          /\ \A j \in 1 .. n : j # n => j \in 1 .. n - 1
      <3> HIDE DEF n
      <3>1. i \in 1 .. n - 1 /\ i \in Nat /\ n \in 1 .. n
        BY <1>2, <1>5, <1>9
      <3>2. \A j \in 1 .. n - 1 : j \in 1 .. n /\ j # n
        BY <1>9
      <3>3. \A j \in 1 .. n : j # n => j \in 1 .. n - 1
        BY <1>9
      <3>4. ASSUME NEW j \in 1 .. n - 1 PROVE from(j) \in 1 .. n /\ from(j) # i
        <4>1. CASE j = i
          BY <1>5, <3>1, <4>1
        <4>2. CASE j # i
          BY <3>2, <4>2
        <4> QED BY <4>1, <4>2
      <3> QED BY <3>1, <3>2, <3>3, <3>4
    <2>5. \A j \in 1 .. n - 1 : moved[j] = items[from(j)]
      BY <2>1, <2>3, <2>4
    <2>6. \A j, k \in 1 .. n - 1 : from(j) = from(k) => j = k
      BY <2>4
    <2> HIDE DEF from
    <2>7. IsItems(moved)
      <3>1. \A j \in 1 .. n - 1 : moved[j].hash \in Nat /\ moved[j].removeAfter \in Int
        BY <1>1, <2>4, <2>5 DEF IsItems
      <3>2. ASSUME NEW j \in 1 .. n - 1, NEW k \in 1 .. n - 1, moved[j].hash = moved[k].hash
            PROVE  from(j) = from(k)
        <4>1. from(j) \in DOMAIN items /\ from(k) \in DOMAIN items
          BY <1>1, <2>4
        <4>2. items[from(j)].hash = items[from(k)].hash
          BY <2>5, <3>2
        <4> QED BY <4>1, <4>2 DEF IsItems
      <3> QED BY <2>3, <2>6, <3>1, <3>2 DEF IsItems
    <2>8. ToSet(moved) = {x \in ToSet(items) : x.hash # hash}
      <3>1. ASSUME NEW x \in ToSet(moved) PROVE x \in ToSet(items) /\ x.hash # hash
        <4>1. PICK j \in 1 .. n - 1 : x = moved[j]
          BY <2>3, <3>1 DEF ToSet
        <4>2. x = items[from(j)] /\ from(j) \in 1 .. n /\ from(j) # i
          BY <2>4, <2>5, <4>1
        <4> QED BY <1>0, <1>1, <4>2 DEF ToSet
      <3>2. ASSUME NEW x \in ToSet(items), x.hash # hash PROVE x \in ToSet(moved)
        <4>1. PICK j \in 1 .. n : x = items[j]
          BY <1>1 DEF ToSet
        <4>2. j # i
          BY <1>2, <3>2, <4>1
        <4>3. CASE j = n
          BY <2>3, <2>4, <2>5, <4>1, <4>3 DEF ToSet, from
        <4>4. CASE j # n
          <5>1. j \in 1 .. n - 1 /\ from(j) = j
            BY <2>4, <4>2, <4>4 DEF from
          <5> QED BY <2>3, <2>5, <4>1, <5>1 DEF ToSet
        <4> QED BY <4>3, <4>4
      <3> QED BY <3>1, <3>2
    <2> DEFINE L(j, k) == less(items, j, k)
               p == i \div 2
    <2>9. \A j, k \in 1 .. n - 1 : less(moved, j, k) <=> L(from(j), from(k))
      BY <2>5 DEF less
    <2>10. /\ \A j, k \in 1 .. n : L(j, k) => ~L(k, j)
           /\ \A j, k, l \in 1 .. n : ~L(j, k) /\ ~L(k, l) => ~L(j, l)
           /\ \A j \in 1 .. n : j > 1 => ~L(j, j \div 2)
      BY <1>1, LessOrders DEF IsHeap
    <2> HIDE DEF L
    <2>11. \A j \in 1 .. n - 1 : j > 1 => j \div 2 \in 1 .. n - 1 /\ j \div 2 # j /\ j \div 2 # n
      <3> HIDE DEF n
      <3> SUFFICES ASSUME NEW j \in 1 .. n - 1, j > 1
                   PROVE  j \div 2 \in 1 .. n - 1 /\ j \div 2 # j /\ j \div 2 # n
        OBVIOUS
      <3>1. j \in Nat /\ j <= n - 1
        BY <1>9
      <3>2. j \div 2 \in Nat /\ j \div 2 >= 1 /\ j \div 2 < j
        BY <3>1, Halves
      <3> QED BY <1>9, <3>1, <3>2
    <2>12. i > 1 => p \in 1 .. n - 1 /\ from(p) = p /\ p # i /\ p \in 1 .. n
      BY <2>4, <2>11 DEF from
    <2>13. ASSUME NEW j \in 1 .. n - 1, j \div 2 = i PROVE j > 1 /\ j # i /\ from(j) = j
      <3>1. \A k, a \in Nat : k \div 2 = a => k = 2 * a \/ k = 2 * a + 1
        BY Halves
      <3>2. j \in Nat /\ i \in Nat /\ i >= 1
        <4> HIDE DEF n
        <4> QED BY <1>9, <2>4
      <3>3. j = 2 * i \/ j = 2 * i + 1
        BY <2>13, <3>1, <3>2
      <3>4. j > 1 /\ j # i
        BY <3>2, <3>3
      <3> QED BY <3>4 DEF from
    <2>14. ASSUME NEW j \in 1 .. n - 1, j \div 2 = i, i > 1 PROVE ~L(j, p)
      <3>1. ~L(j, i) /\ ~L(i, p)
        BY <2>4, <2>10, <2>13, <2>14
      <3>2. j \in 1 .. n /\ i \in 1 .. n /\ p \in 1 .. n
        BY <1>2, <2>4, <2>12, <2>14
      <3> HIDE DEF p
      <3> QED BY <2>10, <3>1, <3>2
    <2>15. Around(moved, i)
      <3> SUFFICES ASSUME NEW j \in DOMAIN moved, j \div 2 = i, i > 1 PROVE ~less(moved, j, p)
        BY DEF Around
      <3>1. from(j) = j /\ from(p) = p /\ ~L(j, p)
        BY <2>3, <2>12, <2>13, <2>14
      <3> QED BY <2>3, <2>9, <2>12, <3>1
    <2>16. ASSUME NEW j \in 1 .. n - 1, j > 1, j # i, j \div 2 # i PROVE ~less(moved, j, j \div 2)
      <3>1. from(j) = j /\ from(j \div 2) = j \div 2 /\ j \div 2 \in 1 .. n - 1
        BY <2>11, <2>16 DEF from
      <3>2. j \in 1 .. n /\ ~L(j, j \div 2)
        BY <2>4, <2>10, <2>16
      <3> QED BY <2>9, <3>1, <3>2
    <2>17. CASE i > 1 /\ less(moved, i, p)
      <3>1. L(n, p)
        BY <2>4, <2>9, <2>12, <2>17 DEF from
      <3>2. ASSUME NEW j \in 1 .. n - 1, j > 1, j # i PROVE ~less(moved, j, j \div 2)
        <4>1. CASE j \div 2 = i
          <5>1. ~L(j, p) /\ ~L(p, n)
            BY <2>4, <2>10, <2>12, <2>14, <2>17, <3>1, <4>1
          <5>2. ~L(j, n)
            BY <2>4, <2>10, <2>12, <2>17, <5>1
          <5>3. from(j) = j /\ from(i) = n
            BY <2>13, <4>1 DEF from
          <5> QED BY <2>4, <2>9, <4>1, <5>2, <5>3
        <4>2. CASE j \div 2 # i
          BY <2>16, <3>2, <4>2
        <4> QED BY <4>1, <4>2
      <3>3. Rising(moved, i)
        BY <2>3, <2>4, <2>15, <3>2 DEF Rising
      <3>4. queueRemove(items, hash) = up(moved, i)
        BY <1>5, <2>17 DEF queueRemove, moved, gap, i
      <3>5. IsHeap(up(moved, i)) /\ Rearranges(up(moved, i), moved)
        BY <2>7, <3>3, UpSorts
      <3> QED BY <2>3, <2>8, <3>4, <3>5 DEF Rearranges
    <2>18. CASE ~(i > 1 /\ less(moved, i, p))
      <3>1. ASSUME NEW j \in 1 .. n - 1, j > 1, j \div 2 # i PROVE ~less(moved, j, j \div 2)
        BY <2>16, <2>18, <3>1
      <3>2. Sinking(moved, i)
        BY <2>3, <2>4, <2>15, <3>1 DEF Sinking
      <3>3. queueRemove(items, hash) = down(moved, i)
        BY <1>5, <2>18 DEF queueRemove, moved, gap, i
      <3>4. IsHeap(down(moved, i)) /\ Rearranges(down(moved, i), moved)
        BY <2>7, <3>2, DownSorts
      <3> QED BY <2>3, <2>8, <3>3, <3>4 DEF Rearranges
    <2> QED BY <2>17, <2>18
  <1> QED BY <1>4, <1>5

-----------------------------------------------------------------------------
(* A shard: map, heap and memory.                                          *)

\* One heap item per entry, and the bytes of the entries.
Items(opts, entries) ==
    {[hash |-> h, removeAfter |-> removeAfter(opts, entries[h])] : h \in DOMAIN entries}
Block(h, size) == {h} \X (1 .. size)

IsShard(opts, s) ==
    /\ s = [entries |-> s.entries, items |-> s.items, memory |-> s.memory]
    /\ s.entries = [h \in DOMAIN s.entries |-> s.entries[h]]
    /\ IsFiniteSet(DOMAIN s.entries) /\ DOMAIN s.entries \subseteq Nat
    /\ \A h \in DOMAIN s.entries : s.entries[h].expiresAt \in Int /\ s.entries[h].size \in Nat
    /\ IsItems(s.items) /\ IsHeap(s.items)
    /\ ToSet(s.items) = Items(opts, s.entries)
    /\ IsFiniteSet(Bytes(s.entries)) /\ s.memory = Cardinality(Bytes(s.entries))

\* Entries only left.
Shrinks(after, before) ==
    /\ DOMAIN after.entries \subseteq DOMAIN before.entries
    /\ \A h \in DOMAIN after.entries : after.entries[h] = before.entries[h]

LEMMA EmptyIsShard ==
    ASSUME NEW opts
    PROVE  IsShard(opts, EmptyShard)
  <1> DEFINE e == EmptyShard
  <1>1. /\ e = [entries |-> e.entries, items |-> e.items, memory |-> e.memory]
        /\ e.entries = [h \in {} |-> <<>>]
        /\ e.items = <<>> /\ e.memory = 0
    BY DEF EmptyShard
  <1>2. DOMAIN e.entries = {}
    BY <1>1
  <1>3. IsItems(<<>>) /\ IsHeap(<<>>) /\ ToSet(<<>>) = {}
    BY Sequences DEF IsItems, IsHeap, ToSet
  <1>4. Bytes(e.entries) = {} /\ Items(opts, e.entries) = {}
    BY <1>2 DEF Bytes, Items
  <1> HIDE DEF e
  <1>5. e.entries = [h \in DOMAIN e.entries |-> e.entries[h]]
    BY <1>1, <1>2
  <1> QED BY <1>1, <1>2, <1>3, <1>4, <1>5, FS_EmptySet DEF IsShard, e

\* The queue holds exactly the hashes of the map.
LEMMA QueueIndexesMap ==
    ASSUME NEW opts, NEW s, IsShard(opts, s)
    PROVE  /\ \A h : Queued(s.items, h) <=> h \in DOMAIN s.entries
           /\ \A i \in DOMAIN s.items :
                 /\ s.items[i].hash \in DOMAIN s.entries
                 /\ s.items[i].removeAfter = removeAfter(opts, s.entries[s.items[i].hash])
           /\ {s.items[i].hash : i \in DOMAIN s.items} = DOMAIN s.entries
           /\ Len(s.items) = Cardinality(DOMAIN s.entries)
           /\ s.items # <<>> => s.items[1].hash \in DOMAIN s.entries
           /\ s.items = <<>> => DOMAIN s.entries = {}
  <1>1. ASSUME NEW i \in DOMAIN s.items
        PROVE  /\ s.items[i].hash \in DOMAIN s.entries
               /\ s.items[i].removeAfter = removeAfter(opts, s.entries[s.items[i].hash])
    <2>1. s.items[i] \in Items(opts, s.entries)
      BY DEF IsShard, ToSet
    <2>2. PICK h \in DOMAIN s.entries :
              s.items[i] = [hash |-> h, removeAfter |-> removeAfter(opts, s.entries[h])]
      BY <2>1 DEF Items
    <2> QED BY <2>2
  <1>2. ASSUME NEW h \in DOMAIN s.entries PROVE \E i \in DOMAIN s.items : s.items[i].hash = h
    <2> DEFINE item == [hash |-> h, removeAfter |-> removeAfter(opts, s.entries[h])]
    <2>1. item \in ToSet(s.items)
      BY DEF IsShard, Items
    <2>2. item.hash = h
      OBVIOUS
    <2> HIDE DEF item
    <2> QED BY <2>1, <2>2 DEF ToSet
  <1>3. {s.items[i].hash : i \in DOMAIN s.items} = DOMAIN s.entries
    BY <1>1, <1>2
  <1>4. Len(s.items) = Cardinality(DOMAIN s.entries)
    <2> DEFINE n == Len(s.items)
               f == [i \in 1 .. n |-> s.items[i].hash]
    <2>1. n \in Nat /\ DOMAIN s.items = 1 .. n
      BY ItemsFacts DEF IsShard
    <2>2. \A i, j \in 1 .. n : s.items[i].hash = s.items[j].hash => i = j
      BY <2>1 DEF IsShard, IsItems
    <2> HIDE DEF n
    <2>3. f \in Bijection(1 .. n, DOMAIN s.entries)
      <3>1. f \in [1 .. n -> DOMAIN s.entries]
        BY <1>1, <2>1
      <3>2. \A i, j \in 1 .. n : f[i] = f[j] => i = j
        BY <2>2
      <3>3. \A h \in DOMAIN s.entries : \E i \in 1 .. n : f[i] = h
        BY <1>2, <2>1
      <3> HIDE DEF f
      <3> QED BY <3>1, <3>2, <3>3 DEF Bijection, Injection, Surjection, IsInjective
    <2>4. IsFiniteSet(1 .. n) /\ Cardinality(1 .. n) = n
      BY <2>1, FS_Interval
    <2>5. ExistsBijection(1 .. n, DOMAIN s.entries)
      BY <2>3 DEF ExistsBijection
    <2>6. Cardinality(DOMAIN s.entries) = n
      BY <2>4, <2>5, FS_Bijection
    <2> QED BY <2>6 DEF n
  <1>5. s.items # <<>> => s.items[1].hash \in DOMAIN s.entries
    <2>1. s.items # <<>> => 1 \in DOMAIN s.items
      BY TailIsSequence DEF IsShard, IsItems
    <2> QED BY <1>1, <2>1
  <1>6. s.items = <<>> => DOMAIN s.entries = {}
    <2>1. s.items = <<>> => DOMAIN s.items = {}
      OBVIOUS
    <2> QED BY <1>2, <2>1
  <1> QED BY <1>1, <1>2, <1>3, <1>4, <1>5, <1>6 DEF Queued

LEMMA BlockSize ==
    ASSUME NEW h, NEW size \in Nat
    PROVE  IsFiniteSet(Block(h, size)) /\ Cardinality(Block(h, size)) = size
  <1>1. IsFiniteSet({h}) /\ Cardinality({h}) = 1
    BY FS_Singleton
  <1>2. IsFiniteSet(1 .. size) /\ Cardinality(1 .. size) = size
    BY FS_Interval
  <1> DEFINE S == {h}
             T == 1 .. size
  <1>3. IsFiniteSet(S \X T) /\ Cardinality(S \X T) = Cardinality(S) * Cardinality(T)
    <2> HIDE DEF S, T
    <2> QED BY <1>1, <1>2, FS_Product DEF S, T
  <1>4. Cardinality(S) * Cardinality(T) = 1 * size
    BY <1>1, <1>2
  <1>5. 1 * size = size
    OBVIOUS
  <1>6. Block(h, size) = S \X T
    BY DEF Block
  <1> HIDE DEF S, T
  <1> QED BY <1>3, <1>4, <1>5, <1>6

\* Map, heap and memory lose an entry together.
LEMMA DropKeeps ==
    ASSUME NEW opts, NEW s, IsShard(opts, s), NEW hash \in DOMAIN s.entries
    PROVE  /\ IsShard(opts, Drop(s, hash)) /\ Shrinks(Drop(s, hash), s)
           /\ DOMAIN Drop(s, hash).entries = DOMAIN s.entries \ {hash}
           /\ Cardinality(DOMAIN Drop(s, hash).entries) = Cardinality(DOMAIN s.entries) - 1
           /\ Drop(s, hash).memory = s.memory - s.entries[hash].size
  <1> DEFINE d == Drop(s, hash)
             e == s.entries
             size == e[hash].size
  <1>1. /\ d = [entries |-> d.entries, items |-> d.items, memory |-> d.memory]
        /\ d.entries = [h \in DOMAIN e \ {hash} |-> e[h]]
        /\ d.items = queueRemove(s.items, hash) /\ d.memory = s.memory - size
    BY DEF Drop, Restrict
  <1> HIDE DEF d
  <1>2. DOMAIN d.entries = DOMAIN e \ {hash} /\ \A h \in DOMAIN d.entries : d.entries[h] = e[h]
    BY <1>1
  <1>3. /\ IsFiniteSet(DOMAIN d.entries)
        /\ Cardinality(DOMAIN d.entries) = Cardinality(DOMAIN e) - 1
    BY <1>2, FS_RemoveElement DEF IsShard
  <1>4. /\ IsItems(d.items) /\ IsHeap(d.items)
        /\ ToSet(d.items) = {x \in ToSet(s.items) : x.hash # hash}
    <2>1. Queued(s.items, hash) /\ IsItems(s.items) /\ IsHeap(s.items)
      BY QueueIndexesMap DEF IsShard
    <2> QED BY <1>1, <2>1, QueueRemoveDrops
  <1>5. ToSet(d.items) = Items(opts, d.entries)
    <2>1. ToSet(s.items) = Items(opts, e)
      BY DEF IsShard
    <2> HIDE DEF e
    <2> QED BY <1>2, <1>4, <2>1 DEF Items
  <1>6. Bytes(d.entries) = Bytes(e) \ Block(hash, size) /\ Block(hash, size) \subseteq Bytes(e)
    <2> HIDE DEF e
    <2>1. Block(hash, size) \subseteq Bytes(e)
      BY DEF Block, Bytes, e
    <2>2. ASSUME NEW x \in Bytes(d.entries) PROVE x \in Bytes(e) /\ x \notin Block(hash, size)
      BY <1>2, <2>2 DEF Block, Bytes
    <2>3. ASSUME NEW x \in Bytes(e), x \notin Block(hash, size) PROVE x \in Bytes(d.entries)
      <3>1. PICK h \in DOMAIN e : x \in {h} \X (1 .. e[h].size)
        BY DEF Bytes
      <3>2. h # hash
        BY <2>3, <3>1 DEF Block
      <3> QED BY <1>2, <3>1, <3>2 DEF Bytes
    <2> QED BY <2>1, <2>2, <2>3
  <1>7. IsFiniteSet(Bytes(d.entries)) /\ Cardinality(Bytes(d.entries)) = d.memory
    <2>1. size \in Nat /\ IsFiniteSet(Bytes(e)) /\ s.memory = Cardinality(Bytes(e))
      BY DEF IsShard
    <2>2. Cardinality(Block(hash, size)) = size
      BY <2>1, BlockSize
    <2>3. Bytes(e) \cap Block(hash, size) = Block(hash, size)
      BY <1>6
    <2>4. /\ IsFiniteSet(Bytes(e) \ Block(hash, size))
          /\ Cardinality(Bytes(e) \ Block(hash, size))
                = Cardinality(Bytes(e)) - Cardinality(Bytes(e) \cap Block(hash, size))
      BY <2>1, FS_Difference
    <2> HIDE DEF size, e
    <2> QED BY <1>1, <1>6, <2>1, <2>2, <2>3, <2>4
  <1>8. \A h \in DOMAIN d.entries : d.entries[h].expiresAt \in Int /\ d.entries[h].size \in Nat
    BY <1>2 DEF IsShard
  <1>9. DOMAIN d.entries \subseteq Nat
    BY <1>2 DEF IsShard
  <1>10. d.entries = [h \in DOMAIN d.entries |-> d.entries[h]]
    BY <1>1
  <1>11. IsShard(opts, d)
    BY <1>1, <1>3, <1>4, <1>5, <1>7, <1>8, <1>9, <1>10 DEF IsShard
  <1>12. Shrinks(d, s)
    BY <1>2 DEF Shrinks
  <1> QED BY <1>1, <1>2, <1>3, <1>11, <1>12 DEF d

-----------------------------------------------------------------------------
(* Evictions, and the entry they make room for.                            *)

\* What evictions can leave of the shard.
Remains(opts, s) ==
    {d \in [entries : {Restrict(s.entries, H) : H \in SUBSET DOMAIN s.entries},
            items : Seq(ToSet(s.items)), memory : Int] :
        IsShard(opts, d) /\ Shrinks(d, s)}
Evict(D, Done) == [d \in D |-> IF d \in Done THEN d ELSE evictNext(d)]
Held(D) == [d \in D |-> Cardinality(DOMAIN d.entries)]

LEMMA RemainsOf ==
    ASSUME NEW opts, NEW s, NEW d, IsShard(opts, d), Shrinks(d, s),
           ToSet(d.items) \subseteq ToSet(s.items)
    PROVE  d \in Remains(opts, s)
  <1>1. d = [entries |-> d.entries, items |-> d.items, memory |-> d.memory]
    BY DEF IsShard
  <1>2. d.memory \in Int
    BY FS_CardinalityType DEF IsShard
  <1>3. d.items \in Seq(ToSet(s.items))
    <2>1. d.items \in Seq(ToSet(d.items))
      BY DEF IsShard, IsItems, IsSequence
    <2> QED BY <2>1
  <1>4. d.entries \in {Restrict(s.entries, H) : H \in SUBSET DOMAIN s.entries}
    <2>1. d.entries = [h \in DOMAIN d.entries |-> d.entries[h]]
      BY DEF IsShard
    <2>2. d.entries = [h \in DOMAIN d.entries |-> s.entries[h]]
      BY <2>1 DEF Shrinks
    <2>3. d.entries = Restrict(s.entries, DOMAIN d.entries)
      BY <2>2 DEF Restrict
    <2> QED BY <2>3 DEF Shrinks
  <1> QED BY <1>1, <1>2, <1>3, <1>4 DEF Remains

\* Evicting goes on until it is done, once for every entry at most.
LEMMA EvictingEnds ==
    ASSUME NEW opts, NEW s, IsShard(opts, s), NEW Done,
           \A d \in Remains(opts, s) : d \notin Done => d.items # <<>>
    PROVE  Falls(Remains(opts, s), Evict(Remains(opts, s), Done), s,
                 Cardinality(DOMAIN s.entries), Held(Remains(opts, s)), Done)
  <1> DEFINE D == Remains(opts, s)
             turn == Evict(D, Done)
             left == Held(D)
             most == Cardinality(DOMAIN s.entries)
  <1>1. \A d \in D : IsShard(opts, d) /\ Shrinks(d, s) /\ d.items \in Seq(ToSet(s.items))
    BY DEF Remains
  <1>2. s \in D
    BY RemainsOf DEF Shrinks
  <1>3. ASSUME NEW d \in D, d \notin Done
        PROVE  /\ evictNext(d) \in D
               /\ Cardinality(DOMAIN evictNext(d).entries) = Cardinality(DOMAIN d.entries) - 1
    <2> DEFINE e == evictNext(d)
               hash == d.items[1].hash
    <2>1. IsShard(opts, d) /\ hash \in DOMAIN d.entries
      BY <1>1, <1>3, QueueIndexesMap
    <2>2. e = Drop(d, hash)
      BY DEF evictNext
    <2> HIDE DEF e, hash
    <2>3. /\ IsShard(opts, e) /\ Shrinks(e, d)
          /\ Cardinality(DOMAIN e.entries) = Cardinality(DOMAIN d.entries) - 1
      BY <2>1, <2>2, DropKeeps
    <2>4. Shrinks(e, s)
      BY <1>1, <2>3 DEF Shrinks
    <2>5. ToSet(e.items) \subseteq ToSet(s.items)
      <3>1. ToSet(e.items) = Items(opts, e.entries) /\ ToSet(s.items) = Items(opts, s.entries)
        BY <2>3 DEF IsShard
      <3> QED BY <2>4, <3>1 DEF Items, Shrinks
    <2>6. e \in D
      BY <2>3, <2>4, <2>5, RemainsOf
    <2> QED BY <2>3, <2>6 DEF e
  <1>4. \A d \in D : left[d] = Cardinality(DOMAIN d.entries)
    BY DEF Held
  <1>5. \A d \in D : left[d] \in Nat
    <2> SUFFICES ASSUME NEW d \in D PROVE Cardinality(DOMAIN d.entries) \in Nat
      BY <1>4
    <2> QED BY <1>1, FS_CardinalityType DEF IsShard
  <1>6. \A d \in D : turn[d] = IF d \in Done THEN d ELSE evictNext(d)
    BY DEF Evict
  <1> HIDE DEF D, turn, left
  <1>7. most \in Nat /\ left[s] <= most
    <2>1. left[s] = most /\ most \in Nat
      BY <1>2, <1>4, <1>5
    <2> HIDE DEF most
    <2> QED BY <2>1
  <1>8. \A d \in D : turn[d] \in D
    BY <1>3, <1>6
  <1>9. \A d \in D : d \in Done => turn[d] = d
    BY <1>6
  <1>10. ASSUME NEW d \in D, d \notin Done PROVE left[turn[d]] < left[d]
    <2>1. left[turn[d]] = left[d] - 1
      BY <1>3, <1>4, <1>6, <1>10
    <2> QED BY <1>5, <2>1
  <1>11. Falls(D, turn, s, most, left, Done)
    BY <1>2, <1>5, <1>7, <1>8, <1>9, <1>10 DEF Falls
  <1> QED BY <1>11 DEF D, turn, left

LEMMA MakeRoomMakesRoom ==
    ASSUME NEW opts, NEW s, IsShard(opts, s), NEW size
    PROVE  /\ IsShard(opts, MakeRoom(opts, s, size)) /\ Shrinks(MakeRoom(opts, s, size), s)
           /\ ~Full(opts, MakeRoom(opts, s, size), size)
  <1> DEFINE D == Remains(opts, s)
             Done == {d \in D : ~Full(opts, d, size)}
             turn == Evict(D, Done)
             most == Cardinality(DOMAIN s.entries)
             Turn(d) == IF Full(opts, d, size) THEN evictNext(d) ELSE d
             Follows(f) == f = [k \in 0 .. most |-> IF k = 0 THEN s ELSE Turn(f[k - 1])]
             after == CHOOSE f : Follows(f)
  <1>1. \A d \in D : d \notin Done => d.items # <<>>
    BY DEF Full
  <1>2. Falls(D, turn, s, most, Held(D), Done)
    <2> HIDE DEF Done
    <2> QED BY <1>1, EvictingEnds
  <1>3. \A d \in D : turn[d] = Turn(d)
    BY DEF Evict
  <1>4. most \in Nat
    BY FS_CardinalityType DEF IsShard
  <1>5. \A d \in Done : IsShard(opts, d) /\ Shrinks(d, s) /\ ~Full(opts, d, size)
    BY DEF Remains
  <1> HIDE DEF D, Done, turn, Turn, most
  <1>6. PICK g : /\ \A k \in 0 .. most : g[k] \in D
                 /\ g = [k \in 0 .. most |-> IF k = 0 THEN s ELSE turn[g[k - 1]]]
    BY <1>2, Repeated
  <1>7. Follows(g)
    <2>1. ASSUME NEW k \in 0 .. most, k # 0 PROVE turn[g[k - 1]] = Turn(g[k - 1])
      <3>1. k - 1 \in 0 .. most
        BY <1>4, <2>1
      <3>2. g[k - 1] \in D
        BY <1>6, <3>1
      <3> QED BY <1>3, <3>2
    <2> QED BY <1>6, <2>1
  <1>8. Follows(after)
    <2> HIDE DEF Follows
    <2> QED BY <1>7
  <1> HIDE DEF after
  <1>9. after[0] = s /\ \A k \in 1 .. most : after[k - 1] \in D => after[k] = turn[after[k - 1]]
    BY <1>3, <1>4, <1>8
  <1>10. after[most] \in D /\ after[most] \in Done
    BY <1>2, <1>9, Repeated
  <1>11. MakeRoom(opts, s, size) = after[most]
    BY DEF MakeRoom, after, Follows, Turn, most
  <1> QED BY <1>5, <1>10, <1>11

LEMMA CleanupKeeps ==
    ASSUME NEW opts, NEW s, IsShard(opts, s), NEW clock
    PROVE  IsShard(opts, ShardCleanup(s, clock)) /\ Shrinks(ShardCleanup(s, clock), s)
  <1> DEFINE D == Remains(opts, s)
             Done == {d \in D : ~Due(d, clock)}
             turn == Evict(D, Done)
             most == Cardinality(DOMAIN s.entries)
             Turn(d) == IF Due(d, clock) THEN evictNext(d) ELSE d
             Follows(f) == f = [k \in 0 .. most |-> IF k = 0 THEN s ELSE Turn(f[k - 1])]
             after == CHOOSE f : Follows(f)
  <1>1. \A d \in D : d \notin Done => d.items # <<>>
    BY DEF Due
  <1>2. Falls(D, turn, s, most, Held(D), Done)
    <2> HIDE DEF Done
    <2> QED BY <1>1, EvictingEnds
  <1>3. \A d \in D : turn[d] = Turn(d)
    BY DEF Evict
  <1>4. most \in Nat
    BY FS_CardinalityType DEF IsShard
  <1>5. \A d \in Done : IsShard(opts, d) /\ Shrinks(d, s)
    BY DEF Remains
  <1> HIDE DEF D, Done, turn, Turn, most
  <1>6. PICK g : /\ \A k \in 0 .. most : g[k] \in D
                 /\ g = [k \in 0 .. most |-> IF k = 0 THEN s ELSE turn[g[k - 1]]]
    BY <1>2, Repeated
  <1>7. Follows(g)
    <2>1. ASSUME NEW k \in 0 .. most, k # 0 PROVE turn[g[k - 1]] = Turn(g[k - 1])
      <3>1. k - 1 \in 0 .. most
        BY <1>4, <2>1
      <3>2. g[k - 1] \in D
        BY <1>6, <3>1
      <3> QED BY <1>3, <3>2
    <2> QED BY <1>6, <2>1
  <1>8. Follows(after)
    <2> HIDE DEF Follows
    <2> QED BY <1>7
  <1> HIDE DEF after
  <1>9. after[0] = s /\ \A k \in 1 .. most : after[k - 1] \in D => after[k] = turn[after[k - 1]]
    BY <1>3, <1>4, <1>8
  <1>10. after[most] \in D /\ after[most] \in Done
    BY <1>2, <1>9, Repeated
  <1>11. ShardCleanup(s, clock) = after[most]
    BY DEF ShardCleanup, after, Follows, Turn, most
  <1> QED BY <1>5, <1>10, <1>11

EntryFields ==
    {"data", "expiresAt", "origTTL", "negative", "secure", "bogus", "size", "refreshing"}
IsEntry(e) == DOMAIN e = EntryFields /\ e.expiresAt \in Int /\ e.size \in Nat
WithinLimits(opts, s) ==
    /\ Cardinality(DOMAIN s.entries) <= opts.maxSize
    /\ opts.maxMemory > 0 => s.memory <= opts.maxMemory

\* The time to live the policy leaves, of the one upstream gave.
PolicyTTL(opts, e, remaining) ==
    IF e.bogus /\ opts.bogusTTL > 0 THEN opts.bogusTTL
    ELSE IF e.negative THEN Clamp(remaining, opts.minNegative, opts.maxNegative)
    ELSE Clamp(remaining, opts.minTTL, opts.maxTTL)

LEMMA PolicyKeepsEntry ==
    ASSUME NEW opts, IsOptions(opts), NEW e, IsEntry(e), NEW clock \in Int
    PROVE  LET after == applyTTLPolicy(opts, e, clock)
           IN /\ IsEntry(after)
              /\ after.expiresAt = clock + PolicyTTL(opts, e, e.expiresAt - clock)
              /\ \A f \in EntryFields \ {"expiresAt"} : after[f] = e[f]
  <1> DEFINE after == applyTTLPolicy(opts, e, clock)
             time == clock + PolicyTTL(opts, e, e.expiresAt - clock)
  <1>1. after = [e EXCEPT !.expiresAt = time]
    BY DEF applyTTLPolicy, PolicyTTL
  <1>2. time \in Int
    <2>1. e.expiresAt - clock \in Int
      BY DEF IsEntry
    <2>2. PolicyTTL(opts, e, e.expiresAt - clock) \in Int
      BY <2>1 DEF PolicyTTL, Clamp, IsOptions
    <2> QED BY <2>2
  <1> HIDE DEF after, time
  <1>3. DOMAIN after = EntryFields /\ after.expiresAt = time
    BY <1>1 DEF IsEntry, EntryFields
  <1>4. \A f \in EntryFields \ {"expiresAt"} : after[f] = e[f]
    BY <1>1 DEF IsEntry
  <1>5. after.size \in Nat
    <2>1. "size" \in EntryFields \ {"expiresAt"}
      BY DEF EntryFields
    <2>2. after["size"] = e["size"]
      BY <1>4, <2>1
    <2> QED BY <2>2 DEF IsEntry
  <1>6. IsEntry(after)
    BY <1>2, <1>3, <1>5 DEF IsEntry
  <1> QED BY <1>3, <1>4, <1>6 DEF after, time

\* Deleting is dropping what is there.
LEMMA DeleteKeeps ==
    ASSUME NEW opts, NEW s, IsShard(opts, s), NEW hash
    PROVE  /\ IsShard(opts, Delete(s, hash)) /\ Shrinks(Delete(s, hash), s)
           /\ hash \notin DOMAIN Delete(s, hash).entries
  <1>1. CASE hash \in DOMAIN s.entries
    <2>1. Delete(s, hash) = Drop(s, hash)
      BY <1>1 DEF Delete
    <2> QED BY <1>1, <2>1, DropKeeps
  <1>2. CASE hash \notin DOMAIN s.entries
    <2>1. Delete(s, hash) = s
      BY <1>2 DEF Delete
    <2> QED BY <1>2, <2>1 DEF Shrinks
  <1> QED BY <1>1, <1>2

\* An entry comes where there is room for it.
LEMMA AddKeeps ==
    ASSUME NEW opts, IsOptions(opts), NEW s, IsShard(opts, s),
           NEW hash \in Nat, hash \notin DOMAIN s.entries, NEW e, IsEntry(e),
           NEW t, t = [entries |-> [h \in DOMAIN s.entries \cup {hash} |->
                                       IF h = hash THEN e ELSE s.entries[h]],
                       items |-> queueSet(s.items, hash, removeAfter(opts, e)),
                       memory |-> s.memory + e.size]
    PROVE  /\ IsShard(opts, t)
           /\ Cardinality(DOMAIN t.entries) = Cardinality(DOMAIN s.entries) + 1
  <1> DEFINE was == s.entries
             is == t.entries
             item == [hash |-> hash, removeAfter |-> removeAfter(opts, e)]
  <1>1. /\ t = [entries |-> t.entries, items |-> t.items, memory |-> t.memory]
        /\ is = [h \in DOMAIN was \cup {hash} |-> IF h = hash THEN e ELSE was[h]]
        /\ t.items = queueSet(s.items, hash, removeAfter(opts, e))
        /\ t.memory = s.memory + e.size
    OBVIOUS
  <1> HIDE DEF was, is
  <1>2. /\ DOMAIN is = DOMAIN was \cup {hash} /\ is[hash] = e
        /\ \A h \in DOMAIN was : is[h] = was[h]
        /\ is = [h \in DOMAIN is |-> is[h]]
    <2>1. hash \notin DOMAIN was
      BY DEF was
    <2> QED BY <1>1, <2>1
  <1>3. /\ IsFiniteSet(DOMAIN is) /\ DOMAIN is \subseteq Nat
        /\ Cardinality(DOMAIN is) = Cardinality(DOMAIN was) + 1
    BY <1>2, FS_AddElement DEF IsShard, was
  <1>4. \A h \in DOMAIN is : is[h].expiresAt \in Int /\ is[h].size \in Nat
    BY <1>2 DEF IsShard, IsEntry, was
  <1>5. removeAfter(opts, e) \in Int
    BY DEF removeAfter, IsEntry, IsOptions
  <1>6. IsItems(t.items) /\ IsHeap(t.items) /\ ToSet(t.items) = ToSet(s.items) \cup {item}
    <2>1. ~Queued(s.items, hash) /\ IsItems(s.items) /\ IsHeap(s.items)
      BY QueueIndexesMap DEF IsShard
    <2> QED BY <1>1, <1>5, <2>1, QueueSetAdds
  <1>7. ToSet(t.items) = Items(opts, is)
    <2>1. ToSet(s.items) = Items(opts, was)
      BY DEF IsShard, was
    <2>2. Items(opts, is) = Items(opts, was) \cup {item}
      BY <1>2 DEF Items
    <2> QED BY <1>6, <2>1, <2>2
  <1>8. Bytes(is) = Bytes(was) \cup Block(hash, e.size) /\ Bytes(was) \cap Block(hash, e.size) = {}
    <2>1. hash \notin DOMAIN was
      BY DEF was
    <2>2. ASSUME NEW x \in Bytes(is) PROVE x \in Bytes(was) \cup Block(hash, e.size)
      <3>1. PICK h \in DOMAIN is : x \in {h} \X (1 .. is[h].size)
        BY DEF Bytes
      <3>2. CASE h = hash
        BY <1>2, <3>1, <3>2 DEF Block
      <3>3. CASE h # hash
        BY <1>2, <3>1, <3>3 DEF Bytes
      <3> QED BY <3>2, <3>3
    <2>3. Bytes(was) \subseteq Bytes(is)
      BY <1>2 DEF Bytes
    <2>4. Block(hash, e.size) \subseteq Bytes(is)
      BY <1>2 DEF Bytes, Block
    <2>5. ASSUME NEW x \in Bytes(was), x \in Block(hash, e.size) PROVE FALSE
      BY <2>1, <2>5 DEF Bytes, Block
    <2> QED BY <2>2, <2>3, <2>4, <2>5
  <1>9. IsFiniteSet(Bytes(is)) /\ t.memory = Cardinality(Bytes(is))
    <2>1. e.size \in Nat /\ IsFiniteSet(Bytes(was)) /\ s.memory = Cardinality(Bytes(was))
      BY DEF IsShard, IsEntry, was
    <2>2. IsFiniteSet(Block(hash, e.size)) /\ Cardinality(Block(hash, e.size)) = e.size
      BY <2>1, BlockSize
    <2>3. /\ IsFiniteSet(Bytes(was) \cup Block(hash, e.size))
          /\ Cardinality(Bytes(was) \cup Block(hash, e.size))
               = Cardinality(Bytes(was)) + Cardinality(Block(hash, e.size))
                 - Cardinality(Bytes(was) \cap Block(hash, e.size))
      BY <2>1, <2>2, FS_Union
    <2>4. Cardinality(Bytes(was) \cap Block(hash, e.size)) = 0
      BY <1>8, FS_EmptySet
    <2>5. Cardinality(Bytes(was)) \in Nat
      BY <2>1, FS_CardinalityType
    <2>6. Cardinality(Bytes(is)) = Cardinality(Bytes(was)) + e.size
      <3>1. \A a, b \in Nat : a + b - 0 = a + b
        OBVIOUS
      <3>2. Cardinality(Bytes(is)) = Cardinality(Bytes(was)) + e.size - 0
        BY <1>8, <2>2, <2>3, <2>4
      <3> QED BY <2>1, <2>5, <3>1, <3>2
    <2>7. t.memory = s.memory + e.size
      BY <1>1
    <2> QED BY <1>8, <2>1, <2>3, <2>6, <2>7
  <1>10. IsShard(opts, t)
    BY <1>1, <1>2, <1>3, <1>4, <1>6, <1>7, <1>9 DEF IsShard, is
  <1> QED BY <1>3, <1>10 DEF was, is

LEMMA ShrunkenWithin ==
    ASSUME NEW opts, IsOptions(opts), NEW s, IsShard(opts, s), WithinLimits(opts, s),
           NEW d, IsShard(opts, d), Shrinks(d, s)
    PROVE  WithinLimits(opts, d)
  <1>1. Bytes(d.entries) \subseteq Bytes(s.entries)
    BY DEF Bytes, Shrinks
  <1>2. /\ Cardinality(Bytes(d.entries)) <= Cardinality(Bytes(s.entries))
        /\ Cardinality(Bytes(d.entries)) \in Nat /\ Cardinality(Bytes(s.entries)) \in Nat
    BY <1>1, FS_Subset, FS_CardinalityType DEF IsShard
  <1>3. /\ Cardinality(DOMAIN d.entries) <= Cardinality(DOMAIN s.entries)
        /\ Cardinality(DOMAIN d.entries) \in Nat /\ Cardinality(DOMAIN s.entries) \in Nat
    BY FS_Subset, FS_CardinalityType DEF IsShard, Shrinks
  <1>4. d.memory = Cardinality(Bytes(d.entries)) /\ s.memory = Cardinality(Bytes(s.entries))
    BY DEF IsShard
  <1> QED BY <1>2, <1>3, <1>4 DEF WithinLimits, IsOptions

\* Storing an answer keeps the shard, and it holds nothing but that answer
\* and what it held.
LEMMA SetKeeps ==
    ASSUME NEW opts, IsOptions(opts), NEW s, IsShard(opts, s), WithinLimits(opts, s),
           NEW hash \in Nat, NEW given, IsEntry(given), NEW clock \in Int
    PROVE  LET after == ShardSet(opts, s, hash, given, clock)
           IN /\ IsShard(opts, after) /\ WithinLimits(opts, after)
              /\ \A h \in DOMAIN after.entries :
                    \/ h = hash /\ after.entries[h] = applyTTLPolicy(opts, given, clock)
                    \/ h \in DOMAIN s.entries /\ after.entries[h] = s.entries[h]
  <1> DEFINE after == ShardSet(opts, s, hash, given, clock)
             e == applyTTLPolicy(opts, given, clock)
             gone == Delete(s, hash)
             room == MakeRoom(opts, gone, e.size)
  <1>1. CASE ~Admitted(opts, given)
    <2>1. after = s
      BY <1>1 DEF ShardSet
    <2> HIDE DEF after
    <2>2. IsShard(opts, after) /\ WithinLimits(opts, after)
      BY <2>1
    <2> QED BY <2>1, <2>2 DEF after
  <1>2. CASE Admitted(opts, given)
    <2>1. /\ after.entries = [h \in DOMAIN room.entries \cup {hash} |->
                                 IF h = hash THEN e ELSE room.entries[h]]
          /\ after = [entries |-> [h \in DOMAIN room.entries \cup {hash} |->
                                      IF h = hash THEN e ELSE room.entries[h]],
                      items |-> queueSet(room.items, hash, removeAfter(opts, e)),
                      memory |-> room.memory + e.size]
      BY <1>2 DEF ShardSet
    <2>2. IsEntry(e) /\ e.size = given.size
      <3>1. "size" \in EntryFields \ {"expiresAt"}
        BY DEF EntryFields
      <3> QED BY <3>1, PolicyKeepsEntry
    <2> HIDE DEF e
    <2>3. IsShard(opts, gone) /\ Shrinks(gone, s) /\ hash \notin DOMAIN gone.entries
      BY DeleteKeeps
    <2> HIDE DEF gone
    <2>4. IsShard(opts, room) /\ Shrinks(room, gone) /\ ~Full(opts, room, e.size)
      BY <2>3, MakeRoomMakesRoom
    <2> HIDE DEF room, after
    <2>5. hash \notin DOMAIN room.entries /\ Shrinks(room, s)
      BY <2>3, <2>4 DEF Shrinks
    <2>6. /\ IsShard(opts, after)
          /\ Cardinality(DOMAIN after.entries) = Cardinality(DOMAIN room.entries) + 1
      BY <2>1, <2>2, <2>4, <2>5, AddKeeps
    <2>7. after.memory = room.memory + e.size
      BY <2>1
    <2>8. WithinLimits(opts, after)
      <3>1. /\ Cardinality(DOMAIN room.entries) \in Nat /\ room.memory \in Nat
            /\ e.size \in Nat /\ opts.maxSize \in Nat \ {0} /\ opts.maxMemory \in Nat
        BY <2>2, <2>4, FS_CardinalityType DEF IsShard, IsEntry, IsOptions
      <3>2. opts.maxMemory > 0 => e.size <= opts.maxMemory
        BY <1>2, <2>2 DEF Admitted
      <3>3. CASE room.items = <<>>
        <4>1. DOMAIN room.entries = {}
          BY <2>4, <3>3, QueueIndexesMap
        <4>2. Bytes(room.entries) = {}
          BY <4>1 DEF Bytes
        <4>3. Cardinality(DOMAIN room.entries) = 0 /\ room.memory = 0
          BY <2>4, <4>1, <4>2, FS_EmptySet DEF IsShard
        <4> QED BY <2>6, <2>7, <3>1, <3>2, <4>3 DEF WithinLimits
      <3>4. CASE room.items # <<>>
        <4>1. /\ Cardinality(DOMAIN room.entries) < opts.maxSize
              /\ opts.maxMemory > 0 => room.memory + e.size <= opts.maxMemory
          BY <2>4, <3>1, <3>4 DEF Full
        <4> QED BY <2>6, <2>7, <3>1, <4>1 DEF WithinLimits
      <3> QED BY <3>3, <3>4
    <2>9. \A h \in DOMAIN after.entries :
             \/ h = hash /\ after.entries[h] = e
             \/ h \in DOMAIN s.entries /\ after.entries[h] = s.entries[h]
      BY <2>1, <2>5 DEF Shrinks
    <2> QED BY <2>6, <2>8, <2>9 DEF after, e
  <1> QED BY <1>1, <1>2

\* A refreshing flag is no concern of the heap or of the limits.
LEMMA FlagKeeps ==
    ASSUME NEW opts, NEW s, IsShard(opts, s), NEW hash, NEW flag,
           \A h \in DOMAIN s.entries : DOMAIN s.entries[h] = EntryFields,
           NEW after, after = [s EXCEPT !.entries[hash].refreshing = flag]
    PROVE  /\ IsShard(opts, after) /\ (WithinLimits(opts, s) => WithinLimits(opts, after))
           /\ DOMAIN after.entries = DOMAIN s.entries
           /\ \A h \in DOMAIN s.entries :
                 after.entries[h] = IF h = hash THEN [s.entries[h] EXCEPT !.refreshing = flag]
                                    ELSE s.entries[h]
  <1> DEFINE was == s.entries
             is == after.entries
  <1>1. s = [entries |-> was, items |-> s.items, memory |-> s.memory]
    BY DEF IsShard
  <1>2. /\ after = [entries |-> is, items |-> s.items, memory |-> s.memory]
        /\ is = [was EXCEPT ![hash] = [was[hash] EXCEPT !.refreshing = flag]]
    BY <1>1
  <1>7. after.items = s.items /\ after.memory = s.memory /\ after.entries = is
    BY <1>2
  <1> HIDE DEF is, was
  <1>3. /\ DOMAIN is = DOMAIN was /\ is = [h \in DOMAIN is |-> is[h]]
        /\ \A h \in DOMAIN was : is[h] = IF h = hash THEN [was[h] EXCEPT !.refreshing = flag]
                                          ELSE was[h]
    BY <1>2
  <1>4. \A h \in DOMAIN was : is[h].expiresAt = was[h].expiresAt /\ is[h].size = was[h].size
    <2>1. \A h \in DOMAIN was : "expiresAt" \in DOMAIN was[h] /\ "size" \in DOMAIN was[h]
      BY DEF was, EntryFields
    <2> QED BY <1>3, <2>1
  <1>5. Items(opts, is) = Items(opts, was)
    BY <1>3, <1>4 DEF Items, removeAfter
  <1>6. Bytes(is) = Bytes(was)
    BY <1>3, <1>4 DEF Bytes
  <1>8. IsShard(opts, after)
    <2>1. after = [entries |-> after.entries, items |-> after.items, memory |-> after.memory]
      BY <1>2, <1>7
    <2> HIDE DEF Items
    <2> QED BY <1>3, <1>4, <1>5, <1>6, <1>7, <2>1 DEF IsShard, was
  <1>9. WithinLimits(opts, s) => WithinLimits(opts, after)
    BY <1>3, <1>7 DEF WithinLimits, was
  <1> QED BY <1>3, <1>7, <1>8, <1>9 DEF was

-----------------------------------------------------------------------------
(* What servers send.                                                      *)

IsMessage(m) == IsSequence(m.answer) /\ IsSequence(m.ns)

LEMMA RecordsAreSequences ==
    ASSUME NEW owner, NEW type, NEW data, IsSequence(data)
    PROVE  IsSequence(Records(owner, type, data))
  <1> DEFINE f == Records(owner, type, data)
  <1>1. Len(data) \in Nat /\ f = [i \in 1 .. Len(data) |-> f[i]]
    BY Sequences DEF Records
  <1> QED BY <1>1, Enumerated

\* The longest of some names is one of them.
LEMMA LongestExists ==
    ASSUME NEW names, names # {}, \A n \in names : Len(n) \in 0 .. MaxLabels
    PROVE  Longest(names) \in names
  <1> DEFINE rest == {MaxLabels - Len(n) : n \in names}
  <1>0. \A i \in 0 .. 127 : 127 - i \in Nat
    OBVIOUS
  <1>1. rest \subseteq Nat /\ rest # {}
    BY <1>0 DEF MaxLabels
  <1>2. PICK r \in rest : \A y \in rest : r <= y
    BY <1>1, LeastNumber
  <1>3. PICK n \in names : r = MaxLabels - Len(n)
    OBVIOUS
  <1>4. ASSUME NEW m \in names PROVE Len(m) <= Len(n)
    <2>1. \A i, j \in 0 .. 127 : 127 - i <= 127 - j => j <= i
      OBVIOUS
    <2>2. 127 - Len(n) <= 127 - Len(m)
      BY <1>2, <1>3 DEF MaxLabels
    <2> QED BY <2>1, <2>2 DEF MaxLabels
  <1> QED BY <1>3, <1>4 DEF Longest

LEMMA ServerFailureIsMessage == IsMessage(ServerFailure)
  BY Sequences DEF IsMessage, ServerFailure, Message

LEMMA ServeZoneIsMessage ==
    ASSUME NEW origin, NEW zone, NEW name, NEW type, IsZone(zone)
    PROVE  IsMessage(ServeZone(origin, zone, name, type))
  <1> DEFINE cuts == {c \in DOMAIN zone.cuts : IsSuffix(c, name)}
             soa == IF zone.soa THEN Records(origin, "SOA", <<origin>>) ELSE <<>>
             nsecs == IF name \in DOMAIN zone.denial THEN zone.denial[name] ELSE <<>>
             above == {k[1] : k \in {j \in DOMAIN zone.data :
                          j[2] = "DNAME" /\ j[1] # name /\ IsSuffix(j[1], name)}}
             m == ServeZone(origin, zone, name, type)
  <1>1. IsSequence(soa \o nsecs)
    <2>1. IsSequence(soa)
      BY Sequences, RecordsAreSequences
    <2>2. IsSequence(nsecs)
      BY Sequences DEF IsZone
    <2> QED BY <2>1, <2>2, ConcatIsSequence
  <1>2. \A k \in DOMAIN zone.data : IsSequence(Records(k[1], k[2], zone.data[k]))
    BY RecordsAreSequences DEF IsZone
  <1>3. ASSUME cuts # {}
        PROVE  IsSequence(Records(Longest(cuts), "NS", zone.cuts[Longest(cuts)].ns))
    <2>1. Longest(cuts) \in cuts
      BY <1>3, LongestExists DEF IsZone
    <2> QED BY <2>1, RecordsAreSequences DEF IsZone
  <1>4. ASSUME above # {}
        PROVE  IsSequence(Records(Longest(above), "DNAME", zone.data[<<Longest(above), "DNAME">>]))
    <2>1. Longest(above) \in above
      BY <1>4, LongestExists DEF IsZone
    <2>2. PICK k \in DOMAIN zone.data : k[2] = "DNAME" /\ k[1] = Longest(above)
      BY <2>1
    <2>3. k = <<Longest(above), "DNAME">>
      BY <2>2 DEF IsZone
    <2> QED BY <2>2, <2>3, RecordsAreSequences DEF IsZone
  <1>5. \A t : <<name, t>> \in DOMAIN zone.data => IsSequence(Records(name, t, zone.data[<<name, t>>]))
    BY RecordsAreSequences DEF IsZone
  <1> HIDE DEF cuts, soa, nsecs, above
  <1>6. m = IF cuts # {}
            THEN Message("NOERROR", <<>>, Records(Longest(cuts), "NS", zone.cuts[Longest(cuts)].ns),
                         zone.cuts[Longest(cuts)].extra)
            ELSE IF <<name, type>> \in DOMAIN zone.data
            THEN Message("NOERROR", Records(name, type, zone.data[<<name, type>>]), <<>>, <<>>)
            ELSE IF <<name, "CNAME">> \in DOMAIN zone.data
            THEN Message("NOERROR", Records(name, "CNAME", zone.data[<<name, "CNAME">>]), <<>>, <<>>)
            ELSE IF above # {}
            THEN Message("NOERROR", Records(Longest(above), "DNAME",
                                            zone.data[<<Longest(above), "DNAME">>]), <<>>, <<>>)
            ELSE Message(IF Exists(zone, name) THEN "NOERROR" ELSE "NXDOMAIN", <<>>, soa \o nsecs, <<>>)
    BY DEF ServeZone, cuts, soa, nsecs, above
  <1> HIDE DEF m
  <1>7. \A r, a, n, x : IsSequence(a) /\ IsSequence(n) => IsMessage(Message(r, a, n, x))
    BY DEF IsMessage, Message
  <1>8. IsSequence(<<>>)
    BY Sequences
  <1> HIDE DEF IsMessage, Message
  <1>9. IsMessage(m)
    BY <1>1, <1>3, <1>4, <1>5, <1>6, <1>7, <1>8
  <1> QED BY <1>9 DEF m

LEMMA OutcomesAreMessages ==
    ASSUME NEW env, NEW server, NEW name, NEW type, NEW cancel, IsEnvironment(env),
           NEW out \in Outcomes(env, server, name, type, cancel)
    PROVE  IsMessage(out.msg)
  <1>1. ASSUME server \in DOMAIN env.servers
        PROVE  IsMessage(Serve(env.servers[server], name, type))
    <2> DEFINE zones == env.servers[server]
               served == {o \in DOMAIN zones : IsSuffix(o, name)}
    <2>1. CASE served = {}
      BY <2>1, Sequences DEF IsMessage, Serve, Message
    <2>2. CASE served # {}
      <3>1. \A o \in served : Len(o) \in 0 .. MaxLabels /\ IsZone(zones[o])
        BY <1>1 DEF IsEnvironment
      <3>2. Longest(served) \in served
        BY <2>2, <3>1, LongestExists
      <3>3. IsMessage(ServeZone(Longest(served), zones[Longest(served)], name, type))
        BY <3>1, <3>2, ServeZoneIsMessage
      <3> QED BY <2>2, <3>3 DEF Serve
    <2> QED BY <2>1, <2>2
  <1>2. IsMessage(ServerFailure)
    BY ServerFailureIsMessage
  <1> QED BY <1>1, <1>2 DEF Outcomes, Success, Failure

-----------------------------------------------------------------------------
(* The hedged query of one hop: queries outstanding and results in the     *)
(* channel together fit the channel.                                       *)

HopFields == {"servers", "name", "type", "single", "next", "running", "results"}
Room(env, hop) == IF hop.single THEN 1 ELSE parallelism(env, hop)
IsHop(env, hop) ==
    /\ DOMAIN hop = HopFields
    /\ IsSequence(hop.servers) /\ hop.single \in BOOLEAN
    /\ hop.next \in Nat \ {0} /\ hop.running \subseteq 1 .. hop.next - 1
    /\ IsSequence(hop.results)
    /\ \A i \in DOMAIN hop.results : IsMessage(hop.results[i].msg)
    /\ active(hop) <= Room(env, hop)

LEMMA Counts ==
    ASSUME NEW env, NEW hop, IsEnvironment(env), IsHop(env, hop)
    PROVE  /\ IsFiniteSet(hop.running) /\ Cardinality(hop.running) \in Nat
           /\ Len(hop.results) \in Nat /\ active(hop) \in Nat
           /\ Len(hop.servers) \in Nat /\ parallelism(env, hop) \in Nat /\ Room(env, hop) \in Nat
  <1>1. IsFiniteSet(1 .. hop.next - 1)
    BY FS_Interval DEF IsHop
  <1>2. IsFiniteSet(hop.running) /\ Cardinality(hop.running) \in Nat
    BY <1>1, FS_Subset, FS_CardinalityType DEF IsHop
  <1>3. Len(hop.results) \in Nat /\ Len(hop.servers) \in Nat
    BY Sequences DEF IsHop
  <1>4. active(hop) \in Nat
    BY <1>2, <1>3 DEF active
  <1>5. parallelism(env, hop) \in Nat
    BY <1>3 DEF parallelism, IsEnvironment
  <1> QED BY <1>2, <1>3, <1>4, <1>5 DEF Room

\* One query more, while there is room for its result.
LEMMA LaunchKeepsHop ==
    ASSUME NEW env, NEW hop, IsEnvironment(env), IsHop(env, hop), active(hop) < Room(env, hop)
    PROVE  IsHop(env, launch(hop))
  <1> DEFINE h == launch(hop)
  <1>1. /\ DOMAIN h = HopFields /\ h.servers = hop.servers /\ h.single = hop.single
        /\ h.results = hop.results
    BY DEF launch, IsHop, HopFields
  <1>2. h.next = hop.next + 1 /\ h.running = hop.running \cup {hop.next}
    BY DEF launch, IsHop, HopFields
  <1>3. hop.next \notin hop.running
    BY DEF IsHop
  <1>4. Cardinality(h.running) = Cardinality(hop.running) + 1
    BY <1>2, <1>3, Counts, FS_AddElement
  <1>5. active(h) = active(hop) + 1
    BY <1>1, <1>4, Counts DEF active
  <1>6. Room(env, h) = Room(env, hop)
    BY <1>1 DEF Room, parallelism
  <1>7. active(h) <= Room(env, h)
    BY <1>5, <1>6, Counts
  <1>8. h.next \in Nat \ {0} /\ h.running \subseteq 1 .. h.next - 1
    <2>1. hop.next \in Nat \ {0} /\ hop.running \subseteq 1 .. hop.next - 1
      BY DEF IsHop
    <2> QED BY <1>2, <2>1
  <1> HIDE DEF h
  <1>9. IsHop(env, h)
    BY <1>1, <1>7, <1>8 DEF IsHop
  <1> QED BY <1>9 DEF h

\* A hop begins with one query.
LEMMA HopBegins ==
    ASSUME NEW env, IsEnvironment(env), NEW servers, IsSequence(servers), servers # <<>>,
           NEW name, NEW type, NEW single \in BOOLEAN
    PROVE  IsHop(env, queryNameservers(servers, name, type, single))
  <1> DEFINE h == queryNameservers(servers, name, type, single)
             base == [servers |-> servers, name |-> name, type |-> type, single |-> single,
                      next |-> 1, running |-> {}, results |-> <<>>]
  <1>1. h = launch(base)
    BY DEF queryNameservers
  <1>0. /\ DOMAIN base = HopFields /\ base.servers = servers /\ base.single = single
        /\ base.next = 1 /\ base.running = {} /\ base.results = <<>>
    BY DEF HopFields
  <1> HIDE DEF h, base
  <1>2. /\ DOMAIN h = HopFields /\ h.servers = servers /\ h.single = single /\ h.next = 2
        /\ h.running = {1} /\ h.results = <<>>
    BY <1>0, <1>1 DEF HopFields, launch
  <1>3. active(h) = 1
    <2>1. Cardinality({1}) = 1
      BY FS_Singleton
    <2>2. Len(<<>>) = 0
      OBVIOUS
    <2> QED BY <1>2, <2>1, <2>2 DEF active
  <1>4. Room(env, h) >= 1
    <2>1. Len(servers) \in Nat /\ Len(servers) # 0
      BY Sequences
    <2>2. env.parallelism \in Nat \ {0}
      BY DEF IsEnvironment
    <2> QED BY <1>2, <2>1, <2>2 DEF Room, parallelism
  <1>5. IsSequence(h.results) /\ DOMAIN h.results = {}
    BY <1>2, Sequences
  <1>6. Room(env, h) \in Nat
    <2>1. Len(servers) \in Nat
      BY Sequences
    <2> QED BY <1>2, <2>1 DEF Room, parallelism, IsEnvironment
  <1>7. IsHop(env, h)
    BY <1>2, <1>3, <1>4, <1>5, <1>6 DEF IsHop
  <1> QED BY <1>7 DEF h

\* The select loop takes a result from the channel.
LEMMA TakingKeepsHop ==
    ASSUME NEW env, NEW hop, IsEnvironment(env), IsHop(env, hop), hop.results # <<>>
    PROVE  LET rest == [hop EXCEPT !.results = Tail(@)]
           IN /\ IsHop(env, rest) /\ active(rest) = active(hop) - 1
              /\ Room(env, rest) = Room(env, hop)
              /\ IsMessage(Head(hop.results).msg)
  <1> DEFINE h == [hop EXCEPT !.results = Tail(@)]
  <1>1. /\ DOMAIN h = HopFields /\ h.servers = hop.servers /\ h.single = hop.single
        /\ h.next = hop.next /\ h.running = hop.running /\ h.results = Tail(hop.results)
    BY DEF IsHop, HopFields
  <1> HIDE DEF h
  <1>2. /\ IsSequence(h.results) /\ Len(h.results) = Len(hop.results) - 1
        /\ \A i \in 1 .. Len(hop.results) - 1 : h.results[i] = hop.results[i + 1]
        /\ Head(hop.results) = hop.results[1] /\ 1 \in DOMAIN hop.results
    BY <1>1, TailIsSequence DEF IsHop
  <1>3. \A i \in DOMAIN h.results : IsMessage(h.results[i].msg)
    <2>1. DOMAIN h.results = 1 .. Len(hop.results) - 1 /\ DOMAIN hop.results = 1 .. Len(hop.results)
          /\ Len(hop.results) \in Nat
      BY <1>2, Sequences DEF IsHop
    <2>2. \A i \in 1 .. Len(hop.results) - 1 : i + 1 \in 1 .. Len(hop.results)
      BY <2>1
    <2>3. \A i \in 1 .. Len(hop.results) : IsMessage(hop.results[i].msg)
      BY <2>1 DEF IsHop
    <2> QED BY <1>2, <2>1, <2>2, <2>3
  <1>4. active(h) = active(hop) - 1
    BY <1>1, <1>2, Counts DEF active
  <1>5. Room(env, h) = Room(env, hop)
    BY <1>1 DEF Room, parallelism
  <1>6. active(h) <= Room(env, h)
    <2>1. active(hop) <= Room(env, hop) /\ active(hop) \in Nat /\ Room(env, hop) \in Nat
      BY Counts DEF IsHop
    <2> QED BY <1>4, <1>5, <2>1
  <1>7. IsHop(env, h)
    BY <1>1, <1>2, <1>3, <1>6 DEF IsHop
  <1>8. IsMessage(Head(hop.results).msg)
    BY <1>2 DEF IsHop
  <1> QED BY <1>4, <1>5, <1>7, <1>8 DEF h

\* A query goroutine reports: its place in the channel was reserved.
LEMMA ReportingKeepsHop ==
    ASSUME NEW env, NEW hop, IsEnvironment(env), IsHop(env, hop), NEW s \in hop.running,
           NEW result, IsMessage(result.msg)
    PROVE  IsHop(env, [hop EXCEPT !.running = @ \ {s}, !.results = Append(@, result)])
  <1> DEFINE h == [hop EXCEPT !.running = @ \ {s}, !.results = Append(@, result)]
  <1>1. /\ DOMAIN h = HopFields /\ h.servers = hop.servers /\ h.single = hop.single
        /\ h.next = hop.next /\ h.running = hop.running \ {s}
        /\ h.results = Append(hop.results, result)
    BY DEF IsHop, HopFields
  <1> HIDE DEF h
  <1>2. /\ IsSequence(h.results) /\ Len(h.results) = Len(hop.results) + 1
        /\ \A i \in 1 .. Len(hop.results) : h.results[i] = hop.results[i]
        /\ h.results[Len(hop.results) + 1] = result
    BY <1>1, AppendIsSequence DEF IsHop
  <1>3. \A i \in DOMAIN h.results : IsMessage(h.results[i].msg)
    <2>1. DOMAIN h.results = 1 .. Len(hop.results) + 1 /\ DOMAIN hop.results = 1 .. Len(hop.results)
          /\ Len(hop.results) \in Nat
      BY <1>2, Sequences DEF IsHop
    <2>2. \A i \in 1 .. Len(hop.results) : IsMessage(hop.results[i].msg)
      BY <2>1 DEF IsHop
    <2>3. \A i \in 1 .. Len(hop.results) + 1 : i \in 1 .. Len(hop.results) \/ i = Len(hop.results) + 1
      BY <2>1
    <2> QED BY <1>2, <2>1, <2>2, <2>3
  <1>4. Cardinality(h.running) = Cardinality(hop.running) - 1
    BY <1>1, Counts, FS_RemoveElement
  <1>5. active(h) = active(hop)
    <2>1. Cardinality(hop.running) \in Nat /\ Len(hop.results) \in Nat
      BY Counts
    <2>2. Cardinality(h.running) + Len(h.results)
          = (Cardinality(hop.running) - 1) + (Len(hop.results) + 1)
      BY <1>2, <1>4
    <2>3. \A a, b \in Nat : (a - 1) + (b + 1) = a + b
      OBVIOUS
    <2> QED BY <2>1, <2>2, <2>3 DEF active
  <1>6. Room(env, h) = Room(env, hop)
    BY <1>1 DEF Room, parallelism
  <1>7. active(h) <= Room(env, h)
    BY <1>5, <1>6 DEF IsHop
  <1>8. h.next \in Nat \ {0} /\ h.running \subseteq 1 .. h.next - 1
    BY <1>1 DEF IsHop
  <1>9. IsHop(env, h)
    BY <1>1, <1>2, <1>3, <1>7, <1>8 DEF IsHop
  <1> QED BY <1>9 DEF h

-----------------------------------------------------------------------------
(* One lookup: every part of it leaves a lookup of the same job, whose     *)
(* calls all have servers to ask.                                          *)

LookupFields == {"at", "q", "awaited", "name", "seen", "depth", "msg", "todo", "stack", "hop", "out"}
FrameFields == {"name", "type", "budget", "iterations", "zone", "servers", "child", "todo",
                "wanted", "found"}
Busy == {"forward", "hop", "return", "conclude", "failed"}

IsFrame(f) ==
    /\ DOMAIN f = FrameFields
    /\ IsSequence(f.servers) /\ f.servers # <<>> /\ IsSequence(f.found)
Carries(l) ==
    /\ DOMAIN l = LookupFields
    /\ IsSequence(l.stack) /\ \A i \in DOMAIN l.stack : IsFrame(l.stack[i])
IsLookup(env, l) ==
    /\ Carries(l) /\ l.at \in Busy
    /\ l.at = "hop" => l.stack # <<>> /\ IsHop(env, l.hop)
    /\ l.at = "return" => IsMessage(l.out.msg)

SameJob(l, before) == l.q = before.q /\ l.awaited = before.awaited
Continues(env, l, before) == IsLookup(env, l) /\ SameJob(l, before)

LEMMA TopIsFrame ==
    ASSUME NEW l, Carries(l), l.stack # <<>>
    PROVE  IsFrame(Top(l))
  BY FrontIsSequence DEF Carries, Top

LEMMA ReturnContinues ==
    ASSUME NEW env, NEW l, Carries(l), NEW out, IsMessage(out.msg)
    PROVE  Continues(env, Return(l, out), l)
  <1> DEFINE r == Return(l, out)
  <1>1. /\ DOMAIN r = LookupFields /\ r.at = "return" /\ r.out = out /\ r.stack = l.stack
        /\ SameJob(r, l)
    BY DEF Return, Carries, LookupFields, SameJob
  <1> HIDE DEF r
  <1>2. IsLookup(env, r)
    BY <1>1 DEF IsLookup, Carries, Busy
  <1> QED BY <1>1, <1>2 DEF r, Continues

\* A stack of calls grows by a call.
LEMMA FramesAppend ==
    ASSUME NEW s, IsSequence(s), \A i \in DOMAIN s : IsFrame(s[i]), NEW f, IsFrame(f)
    PROVE  /\ IsSequence(Append(s, f)) /\ Append(s, f) # <<>>
           /\ \A i \in DOMAIN Append(s, f) : IsFrame(Append(s, f)[i])
           /\ Last(Append(s, f)) = f
  <1> DEFINE t == Append(s, f)
  <1>1. /\ IsSequence(t) /\ Len(t) = Len(s) + 1 /\ Len(s) \in Nat /\ DOMAIN s = 1 .. Len(s)
        /\ DOMAIN t = 1 .. Len(t)
        /\ \A i \in 1 .. Len(s) : t[i] = s[i]
        /\ t[Len(s) + 1] = f
    BY AppendIsSequence, Sequences
  <1> HIDE DEF t
  <1>2. t # <<>>
    BY <1>1, Sequences
  <1>3. ASSUME NEW i \in DOMAIN t PROVE IsFrame(t[i])
    <2>1. i \in 1 .. Len(s) \/ i = Len(s) + 1
      BY <1>1
    <2> QED BY <1>1, <2>1
  <1>4. Last(t) = f
    BY <1>1 DEF Last
  <1> QED BY <1>1, <1>2, <1>3, <1>4 DEF t

LEMMA FramesFront ==
    ASSUME NEW s, IsSequence(s), s # <<>>, \A i \in DOMAIN s : IsFrame(s[i])
    PROVE  IsSequence(Front(s)) /\ \A i \in DOMAIN Front(s) : IsFrame(Front(s)[i])
  <1> DEFINE t == Front(s)
  <1>1. /\ IsSequence(t) /\ Len(t) = Len(s) - 1 /\ Len(s) \in Nat /\ DOMAIN s = 1 .. Len(s)
        /\ DOMAIN t = 1 .. Len(t)
        /\ \A i \in 1 .. Len(s) - 1 : t[i] = s[i]
    BY FrontIsSequence, Sequences
  <1> HIDE DEF t
  <1>2. ASSUME NEW i \in DOMAIN t PROVE IsFrame(t[i])
    BY <1>1
  <1> QED BY <1>1, <1>2 DEF t

LEMMA SetTopCarries ==
    ASSUME NEW l, Carries(l), l.stack # <<>>, NEW f, IsFrame(f)
    PROVE  LET t == SetTop(l, f)
           IN /\ Carries(t) /\ t.stack # <<>> /\ Top(t) = f /\ SameJob(t, l)
  <1> DEFINE t == SetTop(l, f)
  <1>1. /\ DOMAIN t = LookupFields /\ t.stack = Append(Front(l.stack), f) /\ SameJob(t, l)
    BY DEF SetTop, Carries, LookupFields, SameJob
  <1>2. IsSequence(Front(l.stack)) /\ \A i \in DOMAIN Front(l.stack) : IsFrame(Front(l.stack)[i])
    BY FramesFront DEF Carries
  <1> HIDE DEF t
  <1>3. /\ IsSequence(t.stack) /\ t.stack # <<>> /\ Last(t.stack) = f
        /\ \A i \in DOMAIN t.stack : IsFrame(t.stack[i])
    BY <1>1, <1>2, FramesAppend
  <1> QED BY <1>1, <1>3 DEF t, Carries, Top

LEMMA IterateContinues ==
    ASSUME NEW env, IsEnvironment(env), NEW l, Carries(l), l.stack # <<>>
    PROVE  Continues(env, Iterate(env, l), l)
  <1> DEFINE f == Top(l)
             g == [f EXCEPT !.iterations = @ + 1]
             send == IF env.minimize THEN ApplyQNAMEMinimization(f.name, f.zone) ELSE f.name
             hop == queryNameservers(f.servers, send, IF send = f.name THEN f.type ELSE "A", FALSE)
             t == SetTop(l, g)
  <1>1. IsFrame(f)
    BY TopIsFrame
  <1>2. IsFrame(g)
    BY <1>1 DEF IsFrame, FrameFields
  <1>3. Carries(t) /\ t.stack # <<>> /\ SameJob(t, l)
    BY <1>2, SetTopCarries
  <1>4. IsHop(env, hop)
    BY <1>1, HopBegins DEF IsFrame
  <1>5. Continues(env, Return(l, Failure), l)
    BY ReturnContinues, ServerFailureIsMessage DEF Failure
  <1>6. Iterate(env, l) = IF f.iterations >= f.budget THEN Return(l, Failure)
                          ELSE [t EXCEPT !.at = "hop", !.hop = hop]
    BY DEF Iterate
  <1> HIDE DEF t, hop
  <1> DEFINE r == [t EXCEPT !.at = "hop", !.hop = hop]
  <1>7. /\ DOMAIN r = LookupFields /\ r.at = "hop" /\ r.hop = hop /\ r.stack = t.stack
        /\ SameJob(r, l)
    BY <1>3 DEF Carries, LookupFields, SameJob
  <1> HIDE DEF r
  <1>8. Continues(env, r, l)
    BY <1>3, <1>4, <1>7 DEF Continues, IsLookup, Carries, Busy
  <1> QED BY <1>5, <1>6, <1>8 DEF r

LEMMA NewFrameIsFrame ==
    ASSUME NEW env, IsEnvironment(env), NEW name, NEW type, NEW budget
    PROVE  IsFrame(NewFrame(env, name, type, budget))
  BY Sequences DEF NewFrame, IsFrame, FrameFields, IsEnvironment

LEMMA DescendContinues ==
    ASSUME NEW env, IsEnvironment(env), NEW l, Carries(l), l.stack # <<>>,
           NEW servers, IsSequence(servers), servers # <<>>, NEW zone
    PROVE  Continues(env, Descend(env, l, servers, zone), l)
  <1> DEFINE f == Top(l)
             g == [f EXCEPT !.servers = servers, !.zone = zone,
                            !.todo = <<>>, !.found = <<>>, !.wanted = "A"]
             t == SetTop(l, g)
  <1>1. IsFrame(f)
    BY TopIsFrame
  <1> HIDE DEF f
  <1>2. DOMAIN g = FrameFields /\ g.servers = servers /\ g.found = <<>>
    BY <1>1 DEF IsFrame, FrameFields
  <1> HIDE DEF g
  <1>3. IsFrame(g)
    BY <1>2, Sequences DEF IsFrame
  <1>4. Carries(t) /\ t.stack # <<>> /\ SameJob(t, l)
    BY <1>3, SetTopCarries
  <1> HIDE DEF t
  <1>5. Continues(env, Iterate(env, t), t)
    BY <1>4, IterateContinues
  <1>6. Descend(env, l, servers, zone) = Iterate(env, t)
    BY DEF Descend, t, g, f
  <1> QED BY <1>4, <1>5, <1>6 DEF Continues, SameJob

LEMMA PushContinues ==
    ASSUME NEW env, IsEnvironment(env), NEW l, Carries(l), NEW type
    PROVE  Continues(env, Push(env, l, type), l)
  <1> DEFINE f == Top(l)
             g == NewFrame(env, Head(f.todo), type, f.budget - f.iterations)
             t == [l EXCEPT !.stack = Append(@, g)]
  <1>1. IsFrame(g)
    BY NewFrameIsFrame
  <1> HIDE DEF g
  <1>2. /\ DOMAIN t = LookupFields /\ t.stack = Append(l.stack, g) /\ SameJob(t, l)
    BY DEF Carries, LookupFields, SameJob
  <1> HIDE DEF t
  <1>3. Carries(t) /\ t.stack # <<>>
    BY <1>1, <1>2, FramesAppend DEF Carries
  <1>4. Continues(env, Iterate(env, t), t)
    BY <1>3, IterateContinues
  <1>5. Push(env, l, type) = Iterate(env, t)
    BY DEF Push, t, g
  <1> QED BY <1>2, <1>4, <1>5 DEF Continues, SameJob

LEMMA NextTargetContinues ==
    ASSUME NEW env, IsEnvironment(env), NEW l, Carries(l), l.stack # <<>>
    PROVE  Continues(env, NextTarget(env, l), l)
  <1> DEFINE f == Top(l)
  <1>1. IsFrame(f)
    BY TopIsFrame
  <1>2. Continues(env, Push(env, l, "A"), l)
    BY PushContinues
  <1>3. Continues(env, Return(l, Failure), l)
    BY ReturnContinues, ServerFailureIsMessage DEF Failure
  <1>4. ASSUME f.found # <<>> PROVE Continues(env, Descend(env, l, f.found, f.child), l)
    BY <1>1, <1>4, DescendContinues DEF IsFrame
  <1>5. NextTarget(env, l) =
          IF f.todo # <<>> /\ f.iterations < f.budget THEN Push(env, l, "A")
          ELSE IF f.found = <<>> THEN Return(l, Failure)
          ELSE Descend(env, l, f.found, f.child)
    BY DEF NextTarget
  <1> QED BY <1>2, <1>3, <1>4, <1>5

LEMMA FollowReferralContinues ==
    ASSUME NEW env, IsEnvironment(env), NEW l, Carries(l), l.stack # <<>>,
           NEW m, IsMessage(m)
    PROVE  Continues(env, FollowReferral(env, l, m), l)
  <1> DEFINE f == Top(l)
             positions == {i \in DOMAIN m.ns : /\ m.ns[i].type = "NS"
                                               /\ env.scrub => IsSuffix(f.zone, m.ns[i].owner)}
             records == Picked(m.ns, positions)
             targets == [i \in DOMAIN records |-> records[i].data]
             child == records[1].owner
             glue == IF env.scrub THEN HardenGlue(m.extra, child, targets) ELSE m.extra
             known == {i \in DOMAIN targets : findGlue(glue, targets[i]) # <<>>}
             glued == Picked(targets, known)
             addresses == [i \in DOMAIN glued |-> findGlue(glue, glued[i])[1]]
             g == [f EXCEPT !.todo = targets, !.child = child]
             t == SetTop(l, g)
  <1>1. FollowReferral(env, l, m) =
          IF records = <<>> THEN Return(l, Failure)
          ELSE IF addresses # <<>> THEN Descend(env, l, addresses, child)
          ELSE NextTarget(env, t)
    BY DEF FollowReferral
  <1>2. IsFrame(f)
    BY TopIsFrame
  <1>3. IsSequence(records)
    <2>1. positions \subseteq DOMAIN m.ns /\ IsSequence(m.ns)
      BY DEF IsMessage
    <2> HIDE DEF positions
    <2> QED BY <2>1, PickedIsSequence
  <1> HIDE DEF records, f
  <1>4. IsSequence(targets)
    <2>1. Len(records) \in Nat /\ targets = [i \in 1 .. Len(records) |-> targets[i]]
      BY <1>3, Sequences
    <2> HIDE DEF targets
    <2> QED BY <2>1, Enumerated
  <1>5. IsSequence(glued)
    <2>1. known \subseteq DOMAIN targets
      OBVIOUS
    <2> HIDE DEF known, targets
    <2> QED BY <1>4, <2>1, PickedIsSequence
  <1> HIDE DEF glued, glue, targets, child
  <1>6. IsSequence(addresses)
    <2>1. Len(glued) \in Nat /\ addresses = [i \in 1 .. Len(glued) |-> addresses[i]]
      BY <1>5, Sequences
    <2> HIDE DEF addresses
    <2> QED BY <2>1, Enumerated
  <1> HIDE DEF addresses
  <1>7. IsFrame(g)
    BY <1>2 DEF IsFrame, FrameFields
  <1> HIDE DEF g
  <1>8. Carries(t) /\ t.stack # <<>> /\ SameJob(t, l)
    BY <1>7, SetTopCarries
  <1> HIDE DEF t
  <1>9. Continues(env, NextTarget(env, t), l)
    BY <1>8, NextTargetContinues DEF Continues, SameJob
  <1>10. Continues(env, Return(l, Failure), l)
    BY ReturnContinues, ServerFailureIsMessage DEF Failure
  <1>11. ASSUME addresses # <<>> PROVE Continues(env, Descend(env, l, addresses, child), l)
    BY <1>6, <1>11, DescendContinues
  <1> QED BY <1>1, <1>9, <1>10, <1>11

\* A query re-issued or a hop repeated: the lookup stays at its hop.
LEMMA RehopContinues ==
    ASSUME NEW env, NEW l, IsLookup(env, l), l.at = "hop", NEW hop, IsHop(env, hop)
    PROVE  Continues(env, [l EXCEPT !.hop = hop], l)
  <1> DEFINE r == [l EXCEPT !.hop = hop]
  <1>1. /\ DOMAIN r = LookupFields /\ r.at = "hop" /\ r.hop = hop /\ r.stack = l.stack
        /\ SameJob(r, l)
    BY DEF IsLookup, Carries, LookupFields, SameJob
  <1> HIDE DEF r
  <1>2. IsLookup(env, r)
    BY <1>1 DEF IsLookup, Carries, Busy
  <1> QED BY <1>1, <1>2 DEF r, Continues

LEMMA RespondContinues ==
    ASSUME NEW env, IsEnvironment(env), NEW l, IsLookup(env, l), l.at = "hop",
           NEW server, NEW m, IsMessage(m)
    PROVE  Continues(env, Respond(env, l, server, m), l)
  <1> DEFINE f == Top(l)
             partial == l.hop.name # f.name
             again == queryNameservers(<<server>>, f.name, f.type, TRUE)
             g == [f EXCEPT !.zone = l.hop.name]
             t == SetTop(l, g)
  <1>1. Carries(l) /\ l.stack # <<>>
    BY DEF IsLookup
  <1>2. IsFrame(f)
    BY <1>1, TopIsFrame
  <1>3. IsHop(env, again)
    BY HopBegins, Sequences
  <1>4. IsFrame(g)
    BY <1>2 DEF IsFrame, FrameFields
  <1>5. Carries(t) /\ t.stack # <<>> /\ SameJob(t, l)
    BY <1>1, <1>4, SetTopCarries
  <1>6. Continues(env, Return(l, Success(m)), l)
    BY <1>1, ReturnContinues DEF Success
  <1>7. Continues(env, FollowReferral(env, l, m), l)
    BY <1>1, FollowReferralContinues
  <1> HIDE DEF again, t
  <1>8. Continues(env, [l EXCEPT !.hop = again], l)
    BY <1>3, RehopContinues
  <1>9. Continues(env, Iterate(env, t), l)
    BY <1>5, IterateContinues DEF Continues, SameJob
  <1>10. Respond(env, l, server, m) =
           IF env.minimize /\ partial /\ m.answer = <<>> /\ m.rcode = "NOERROR" /\ m.ns = <<>>
           THEN [l EXCEPT !.hop = again]
           ELSE IF m.answer # <<>> /\ partial THEN Iterate(env, t)
           ELSE IF m.answer # <<>> \/ m.rcode = "NXDOMAIN" THEN Return(l, Success(m))
           ELSE IF m.ns # <<>> THEN FollowReferral(env, l, m)
           ELSE Return(l, Success(m))
    BY DEF Respond, again, t
  <1> QED BY <1>6, <1>7, <1>8, <1>9, <1>10

LEMMA ReceiveContinues ==
    ASSUME NEW env, IsEnvironment(env), NEW l, IsLookup(env, l), l.at = "hop",
           l.hop.results # <<>>, NEW stopped
    PROVE  Continues(env, Receive(env, l, stopped), l)
  <1> DEFINE h == l.hop
             r == Head(h.results)
             rest == [h EXCEPT !.results = Tail(@)]
             f == Top(l)
             again == queryNameservers(f.servers, f.name, f.type, FALSE)
  <1>1. Carries(l) /\ l.stack # <<>> /\ IsHop(env, h)
    BY DEF IsLookup
  <1>2. IsFrame(f)
    BY <1>1, TopIsFrame
  <1>3. /\ IsHop(env, rest) /\ active(rest) = active(h) - 1
        /\ Room(env, rest) = Room(env, h) /\ IsMessage(r.msg)
    BY <1>1, TakingKeepsHop
  <1>4. active(rest) < Room(env, rest)
    <2>1. active(h) \in Nat /\ Room(env, h) \in Nat /\ active(h) <= Room(env, h)
      BY <1>1, Counts DEF IsHop
    <2> QED BY <1>3, <2>1
  <1>5. IsHop(env, again)
    BY <1>2, HopBegins DEF IsFrame
  <1>6. IsHop(env, launch(rest))
    BY <1>3, <1>4, LaunchKeepsHop
  <1>7. Continues(env, Respond(env, l, h.servers[r.from], r.msg), l)
    BY <1>3, RespondContinues
  <1>8. Continues(env, Return(l, Failure), l)
    BY <1>1, ReturnContinues, ServerFailureIsMessage DEF Failure
  <1> HIDE DEF rest, again
  <1>9. /\ Continues(env, [l EXCEPT !.hop = again], l)
        /\ Continues(env, [l EXCEPT !.hop = launch(rest)], l)
        /\ Continues(env, [l EXCEPT !.hop = rest], l)
    BY <1>3, <1>5, <1>6, RehopContinues
  <1>10. Receive(env, l, stopped) =
           IF r.ok /\ (h.single \/ ~isRetryable(r.msg))
           THEN Respond(env, l, h.servers[r.from], r.msg)
           ELSE IF h.single THEN [l EXCEPT !.hop = again]
           ELSE IF stopped THEN Return(l, Failure)
           ELSE IF h.next <= Len(h.servers) THEN [l EXCEPT !.hop = launch(rest)]
           ELSE IF active(rest) = 0 THEN Return(l, Failure)
           ELSE [l EXCEPT !.hop = rest]
    BY DEF Receive, rest, again
  <1> QED BY <1>7, <1>8, <1>9, <1>10

LEMMA ResumeReferralContinues ==
    ASSUME NEW env, IsEnvironment(env), NEW l, IsLookup(env, l), l.at = "return",
           Len(l.stack) > 1
    PROVE  Continues(env, ResumeReferral(env, l), l)
  <1> DEFINE back == [l EXCEPT !.stack = Front(@)]
             f == Top(back)
             answer == l.out.msg.answer
             positions == {i \in DOMAIN answer : answer[i].type \in Address}
             addresses == Picked(answer, positions)
             data == [i \in DOMAIN addresses |-> addresses[i].data]
             six == [f EXCEPT !.wanted = "AAAA"]
             g == [f EXCEPT !.wanted = "A", !.todo = Tail(@), !.found = @ \o data]
  <1>1. Carries(l) /\ l.stack # <<>> /\ Len(l.stack) \in Nat
    <2>1. Carries(l)
      BY DEF IsLookup
    <2> QED BY <2>1, Sequences DEF Carries
  <1>2. IsSequence(Front(l.stack)) /\ \A i \in DOMAIN Front(l.stack) : IsFrame(Front(l.stack)[i])
    BY <1>1, FramesFront DEF Carries
  <1>3. Front(l.stack) # <<>>
    BY <1>1, <1>2, FrontIsSequence, Sequences DEF Carries
  <1>4. DOMAIN back = LookupFields /\ back.stack = Front(l.stack) /\ SameJob(back, l)
    BY <1>1 DEF Carries, LookupFields, SameJob
  <1> HIDE DEF back
  <1>5. Carries(back) /\ back.stack # <<>>
    BY <1>2, <1>3, <1>4 DEF Carries
  <1>6. IsFrame(f)
    BY <1>5, TopIsFrame
  <1>7. IsSequence(addresses)
    <2>1. positions \subseteq DOMAIN answer /\ IsSequence(answer)
      BY DEF IsLookup, IsMessage
    <2> HIDE DEF positions, answer
    <2> QED BY <2>1, PickedIsSequence
  <1> HIDE DEF addresses
  <1>8. IsSequence(data)
    <2>1. Len(addresses) \in Nat /\ data = [i \in 1 .. Len(addresses) |-> data[i]]
      BY <1>7, Sequences
    <2> HIDE DEF data
    <2> QED BY <2>1, Enumerated
  <1> HIDE DEF data, f
  <1>9. IsFrame(six)
    BY <1>6 DEF IsFrame, FrameFields
  <1>10. IsFrame(g)
    <2>1. DOMAIN g = FrameFields /\ g.servers = f.servers /\ g.found = f.found \o data
      BY <1>6 DEF IsFrame, FrameFields
    <2> HIDE DEF g
    <2> QED BY <1>6, <1>8, <2>1, ConcatIsSequence DEF IsFrame
  <1> HIDE DEF six, g
  <1>11. /\ Carries(SetTop(back, six)) /\ SetTop(back, six).stack # <<>>
         /\ SameJob(SetTop(back, six), back)
         /\ Carries(SetTop(back, g)) /\ SetTop(back, g).stack # <<>>
         /\ SameJob(SetTop(back, g), back)
    BY <1>5, <1>9, <1>10, SetTopCarries
  <1>12. /\ Continues(env, Push(env, SetTop(back, six), "AAAA"), l)
         /\ Continues(env, NextTarget(env, SetTop(back, g)), l)
    BY <1>4, <1>11, PushContinues, NextTargetContinues DEF Continues, SameJob
  <1>13. ResumeReferral(env, l) =
           IF ~l.out.ok /\ f.wanted = "A" THEN Push(env, SetTop(back, six), "AAAA")
           ELSE NextTarget(env, SetTop(back, g))
    BY DEF ResumeReferral, back, f, six, g, addresses, data
  <1> QED BY <1>12, <1>13

LEMMA ResolveIterativeContinues ==
    ASSUME NEW env, IsEnvironment(env), NEW l, DOMAIN l = LookupFields
    PROVE  Continues(env, resolveIterative(env, l), l)
  <1> DEFINE f == NewFrame(env, l.name, l.q.type, env.budget)
             t == [l EXCEPT !.stack = <<f>>]
  <1>1. IsFrame(f)
    BY NewFrameIsFrame
  <1> HIDE DEF f
  <1>2. DOMAIN t = LookupFields /\ t.stack = <<f>> /\ SameJob(t, l)
    BY DEF LookupFields, SameJob
  <1> HIDE DEF t
  <1>3. Carries(t) /\ t.stack # <<>>
    <2>1. IsSequence(<<f>>) /\ <<f>> # <<>> /\ DOMAIN <<f>> = {1} /\ <<f>>[1] = f
      BY Sequences
    <2> QED BY <1>1, <1>2, <2>1 DEF Carries
  <1>4. Continues(env, Iterate(env, t), t)
    BY <1>3, IterateContinues
  <1>5. resolveIterative(env, l) = Iterate(env, t)
    BY DEF resolveIterative, t, f
  <1> QED BY <1>2, <1>4, <1>5 DEF Continues, SameJob

LEMMA ResolveUpstreamContinues ==
    ASSUME NEW env, IsEnvironment(env), NEW before, Carries(before),
           NEW l \in resolveUpstream(env, before)
    PROVE  Continues(env, l, before)
  <1>1. CASE forwardRulesFor(env, before.name) = {}
    <2>1. l = resolveIterative(env, before)
      BY <1>1 DEF resolveUpstream
    <2> QED BY <2>1, ResolveIterativeContinues DEF Carries
  <1>2. CASE forwardRulesFor(env, before.name) # {}
    <2>1. PICK todo : l = [before EXCEPT !.at = "forward", !.todo = todo]
      BY <1>2 DEF resolveUpstream
    <2>2. /\ DOMAIN l = LookupFields /\ l.at = "forward" /\ l.stack = before.stack
          /\ SameJob(l, before)
      BY <2>1 DEF Carries, LookupFields, SameJob
    <2> QED BY <2>2 DEF Continues, IsLookup, Carries, Busy
  <1> QED BY <1>1, <1>2

LEMMA LookupBegins ==
    ASSUME NEW env, IsEnvironment(env), NEW job, NEW l \in resolveUpstream(env, Lookup(job))
    PROVE  IsLookup(env, l) /\ l.q = job.q /\ l.awaited = job.awaited
  <1> DEFINE t == Lookup(job)
  <1>1. DOMAIN t = LookupFields /\ t.stack = <<>> /\ t.q = job.q /\ t.awaited = job.awaited
    BY DEF Lookup, LookupFields
  <1> HIDE DEF t
  <1>2. Carries(t)
    BY <1>1, Sequences DEF Carries
  <1>3. Continues(env, l, t)
    BY <1>2, ResolveUpstreamContinues DEF t
  <1> QED BY <1>1, <1>3 DEF Continues, SameJob

LEMMA ForwarderAnswersContinues ==
    ASSUME NEW env, IsEnvironment(env), NEW l, IsLookup(env, l), l.at = "forward",
           NEW out, IsMessage(out.msg)
    PROVE  Continues(env, ForwarderAnswers(env, l, out), l)
  <1> DEFINE answered(o) == [Return(l, o) EXCEPT !.todo = <<>>]
             next == [l EXCEPT !.todo = Tail(@)]
             none == [l EXCEPT !.todo = <<>>]
  <1>1. Carries(l)
    BY DEF IsLookup
  <1>2. ASSUME NEW o, IsMessage(o.msg) PROVE Continues(env, answered(o), l)
    <2> DEFINE r == Return(l, o)
               a == [r EXCEPT !.todo = <<>>]
    <2>1. Continues(env, r, l) /\ r.at = "return"
      <3>1. r.at = "return"
        BY <1>1 DEF Return, Carries, LookupFields
      <3> QED BY <1>1, <1>2, <3>1, ReturnContinues
    <2> HIDE DEF r
    <2>2. DOMAIN r = LookupFields
      BY <2>1 DEF Continues, IsLookup, Carries
    <2>3. /\ DOMAIN a = LookupFields /\ a.at = "return" /\ a.out = r.out /\ a.stack = r.stack
          /\ a.q = r.q /\ a.awaited = r.awaited
      BY <2>1, <2>2 DEF LookupFields
    <2> HIDE DEF a
    <2>4. Continues(env, a, l)
      BY <2>1, <2>3 DEF Continues, IsLookup, Carries, SameJob
    <2> QED BY <2>4 DEF a, r
  <1>3. Continues(env, next, l)
    <2>1. /\ DOMAIN next = LookupFields /\ next.at = "forward" /\ next.stack = l.stack
          /\ SameJob(next, l)
      BY <1>1 DEF Carries, LookupFields, SameJob
    <2> HIDE DEF next
    <2> QED BY <1>1, <2>1 DEF Continues, IsLookup, Carries, Busy
  <1>4. DOMAIN none = LookupFields /\ SameJob(none, l)
    BY <1>1 DEF Carries, LookupFields, SameJob
  <1> HIDE DEF none
  <1>5. Continues(env, resolveIterative(env, none), l)
    BY <1>4, ResolveIterativeContinues DEF Continues, SameJob
  <1>6. Continues(env, answered(out), l) /\ Continues(env, answered(Failure), l)
    BY <1>2, ServerFailureIsMessage DEF Failure
  <1> HIDE DEF answered, next
  <1>7. ForwarderAnswers(env, l, out) =
          IF out.ok /\ out.msg.rcode \notin {"SERVFAIL", "REFUSED"} THEN answered(out)
          ELSE IF Len(l.todo) > 1 THEN next
          ELSE IF forwardRuleFor(env, l.name).mode = "only" THEN answered(Failure)
          ELSE resolveIterative(env, none)
    BY DEF ForwarderAnswers, answered, next, none
  <1> QED BY <1>3, <1>5, <1>6, <1>7

LEMMA FollowAliasesContinues ==
    ASSUME NEW env, IsEnvironment(env), NEW before, IsLookup(env, before),
           NEW l \in followAliases(env, before)
    PROVE  Continues(env, l, before)
  <1> DEFINE m == Combine(before)
             alias == aliasTarget(m.answer, before.name)
             target == CHOOSE t \in alias.target : TRUE
             popped == [before EXCEPT !.stack = <<>>, !.msg = m]
             failed == [popped EXCEPT !.at = "failed"]
             done == [popped EXCEPT !.at = "conclude"]
             chased == [popped EXCEPT !.msg.answer = @ \o alias.synthesized,
                               !.name = target, !.seen = @ \cup {target}, !.depth = @ + 1]
  <1>1. l \in {failed} \cup {done} \cup resolveUpstream(env, chased)
    BY DEF followAliases
  <1> HIDE DEF m, target, alias
  <1>2. DOMAIN popped = LookupFields /\ popped.stack = <<>> /\ SameJob(popped, before)
    BY DEF IsLookup, Carries, LookupFields, SameJob
  <1> HIDE DEF popped
  <1>3. /\ DOMAIN failed = LookupFields /\ failed.stack = <<>> /\ failed.at = "failed"
        /\ SameJob(failed, before)
        /\ DOMAIN done = LookupFields /\ done.stack = <<>> /\ done.at = "conclude"
        /\ SameJob(done, before)
    BY <1>2 DEF LookupFields, SameJob
  <1>4. DOMAIN chased = LookupFields /\ chased.stack = <<>> /\ SameJob(chased, before)
    BY <1>2 DEF LookupFields, SameJob
  <1> HIDE DEF failed, done, chased
  <1>5. Continues(env, failed, before) /\ Continues(env, done, before)
    BY <1>3, Sequences DEF Continues, IsLookup, Carries, Busy
  <1>6. ASSUME l \in resolveUpstream(env, chased) PROVE Continues(env, l, before)
    <2>1. Carries(chased)
      BY <1>4, Sequences DEF Carries
    <2>2. Continues(env, l, chased)
      BY <1>6, <2>1, ResolveUpstreamContinues
    <2> QED BY <1>4, <2>2 DEF Continues, SameJob
  <1> QED BY <1>1, <1>5, <1>6

\* In step with the hop's query goroutines and its timer.
LEMMA ReplyContinues ==
    ASSUME NEW env, IsEnvironment(env), NEW l, IsLookup(env, l), l.at = "hop",
           NEW s \in l.hop.running, NEW result, IsMessage(result.msg)
    PROVE  Continues(env, [l EXCEPT !.hop.running = @ \ {s},
                                    !.hop.results = Append(@, result)], l)
  <1> DEFINE hop == [l.hop EXCEPT !.running = @ \ {s}, !.results = Append(@, result)]
             r == [l EXCEPT !.hop.running = @ \ {s}, !.hop.results = Append(@, result)]
  <1>1. IsHop(env, hop)
    BY ReportingKeepsHop DEF IsLookup
  <1>2. r = [l EXCEPT !.hop = hop]
    BY DEF IsLookup, Carries, LookupFields
  <1> HIDE DEF hop, r
  <1>3. Continues(env, r, l)
    BY <1>1, <1>2, RehopContinues
  <1> QED BY <1>3 DEF r

LEMMA HedgeContinues ==
    ASSUME NEW env, IsEnvironment(env), NEW l, IsLookup(env, l), l.at = "hop",
           HedgeArmed(env, l.hop)
    PROVE  Continues(env, [l EXCEPT !.hop = launch(@)], l)
  <1>1. active(l.hop) < Room(env, l.hop)
    BY DEF HedgeArmed, Room
  <1>2. IsHop(env, launch(l.hop))
    BY <1>1, LaunchKeepsHop DEF IsLookup
  <1> QED BY <1>2, RehopContinues

-----------------------------------------------------------------------------
(* Flights, queue and workers.  A job somebody waits for has its flight,   *)
(* which waits and has no result; no two such jobs have the same flight;   *)
(* and until Close nobody stops waiting.                                   *)

FlightFields == {"at", "q", "waiters", "result"}
IsFlight(c, k, f) ==
    /\ DOMAIN f = FlightFields
    /\ FlightKey(f.q) = k /\ f.q \in ToSet(c.questions)
    /\ f.at \in {"submit", "wait"}
    /\ IsSequence(f.result) /\ Len(f.result) <= 1
    /\ f.at = "submit" => f.result = <<>>
IsQueued(c, j) ==
    DOMAIN j = {"q", "awaited"} /\ j.q \in ToSet(c.questions) /\ j.awaited \in BOOLEAN
IsWork(c, l) ==
    \/ l = Idle \/ l = Exited
    \/ IsLookup(c.env, l) /\ l.q \in ToSet(c.questions) /\ l.awaited \in BOOLEAN

Key(job) == FlightKey(job.q)
Expects(f) == f.at = "wait" /\ f.result = <<>>
Expecting(k) == k \in DOMAIN flights /\ Expects(flights[k])

FlightsOK == \A k \in DOMAIN flights : IsFlight(cfg, k, flights[k])
QueueOK ==
    /\ IsSequence(queue) /\ Len(queue) <= cfg.queueSize
    /\ \A i \in DOMAIN queue : IsQueued(cfg, queue[i])
WorkersOK ==
    /\ DOMAIN work = cfg.workers
    /\ \A w \in DOMAIN work : IsWork(cfg, work[w])
AwaitedExpected ==
    /\ \A i \in DOMAIN queue : queue[i].awaited => Expecting(Key(queue[i]))
    /\ \A w \in DOMAIN work : work[w].awaited => Expecting(Key(work[w]))
AwaitedDistinct ==
    /\ \A i, j \in DOMAIN queue :
          i # j /\ queue[i].awaited /\ queue[j].awaited => Key(queue[i]) # Key(queue[j])
    /\ \A i \in DOMAIN queue, w \in DOMAIN work :
          queue[i].awaited /\ work[w].awaited => Key(queue[i]) # Key(work[w])
    /\ \A v, w \in DOMAIN work :
          v # w /\ work[v].awaited /\ work[w].awaited => Key(work[v]) # Key(work[w])
OpenAwaits ==
    closer = "open" =>
        /\ \A i \in DOMAIN queue : queue[i].awaited
        /\ \A w \in DOMAIN work : work[w].at \in Busy => work[w].awaited

PoolInv ==
    /\ cfg \in ToSet(Settings) /\ closer \in {"open", "cancelled", "stopped", "closed", "done"}
    /\ FlightsOK /\ QueueOK /\ WorkersOK
    /\ AwaitedExpected /\ AwaitedDistinct /\ OpenAwaits

poolVars == <<cfg, flights, queue, work, closer>>

LEMMA PoolRests ==
    ASSUME PoolInv, UNCHANGED poolVars
    PROVE  PoolInv'
  BY DEF PoolInv, poolVars, FlightsOK, QueueOK, WorkersOK, AwaitedExpected, AwaitedDistinct,
         OpenAwaits, Expecting

LEMMA ChosenSettings ==
    ASSUME PoolInv
    PROVE  IsEnvironment(cfg.env) /\ IsFiniteSet(cfg.workers) /\ cfg.queueSize \in Nat
  BY SettingsAssumption DEF PoolInv

LEMMA WorkingFacts ==
    /\ Idle.at = "idle" /\ Idle.awaited = FALSE /\ Exited.at = "exited" /\ Exited.awaited = FALSE
    /\ "idle" \notin Busy /\ "exited" \notin Busy
    /\ \A env, l : IsLookup(env, l) => l.at \in Busy
  BY DEF Idle, Exited, Busy, IsLookup

\* A worker goes on with its lookup.
LEMMA WorkerGoesOn ==
    ASSUME PoolInv, NEW w \in DOMAIN work, work[w].at \in Busy, NEW l,
           Continues(cfg.env, l, work[w]), work' = [work EXCEPT ![w] = l],
           UNCHANGED <<cfg, flights, queue, closer>>
    PROVE  PoolInv'
  <1>1. /\ DOMAIN work' = DOMAIN work /\ work'[w] = l
        /\ \A v \in DOMAIN work \ {w} : work'[v] = work[v]
    BY DEF PoolInv
  <1>2. /\ IsLookup(cfg.env, l) /\ l.q = work[w].q /\ l.awaited = work[w].awaited
        /\ l.at \in Busy
    BY WorkingFacts DEF Continues, SameJob
  <1>3. IsWork(cfg, l)
    BY <1>2, WorkingFacts DEF PoolInv, WorkersOK, IsWork
  <1>4. WorkersOK'
    BY <1>1, <1>3 DEF PoolInv, WorkersOK
  <1>5. AwaitedExpected'
    BY <1>1, <1>2 DEF PoolInv, AwaitedExpected, Expecting, Key
  <1>6. AwaitedDistinct'
    BY <1>1, <1>2 DEF PoolInv, AwaitedDistinct, Key
  <1>7. OpenAwaits'
    BY <1>1, <1>2 DEF PoolInv, OpenAwaits
  <1> QED BY <1>4, <1>5, <1>6, <1>7 DEF PoolInv, FlightsOK, QueueOK

\* What a worker at work is doing.
LEMMA WorkerLooksUp ==
    ASSUME PoolInv, NEW w \in DOMAIN work, work[w].at \in Busy
    PROVE  IsLookup(cfg.env, work[w]) /\ Carries(work[w]) /\ IsEnvironment(cfg.env)
  <1>1. IsWork(cfg, work[w])
    BY DEF PoolInv, WorkersOK
  <1> QED BY <1>1, ChosenSettings, WorkingFacts DEF IsWork, IsLookup

LEMMA ReplyKeeps ==
    ASSUME PoolInv, NEW w \in DOMAIN work, NEW s, Reply(w, s)
    PROVE  PoolInv'
  <1> DEFINE l == work[w]
             h == l.hop
  <1>1. l.at \in Busy /\ IsLookup(cfg.env, l) /\ IsEnvironment(cfg.env) /\ Carries(l)
    BY WorkerLooksUp DEF Reply, Busy
  <1>2. PICK out \in Outcomes(cfg.env, h.servers[s], h.name, h.type, cancelled) :
             work' = [work EXCEPT ![w].hop.running = @ \ {s},
                                  ![w].hop.results = Append(@, [ok |-> out.ok, msg |-> out.msg, from |-> s])]
    BY DEF Reply
  <1>3. IsMessage(out.msg)
    BY <1>1, <1>2, OutcomesAreMessages
  <1> DEFINE result == [ok |-> out.ok, msg |-> out.msg, from |-> s]
             r == [l EXCEPT !.hop.running = @ \ {s}, !.hop.results = Append(@, result)]
  <1>4. IsMessage(result.msg) /\ l.at = "hop" /\ s \in l.hop.running
    BY <1>3 DEF Reply
  <1>5. Continues(cfg.env, r, l)
    BY <1>1, <1>4, ReplyContinues
  <1>6. work' = [work EXCEPT ![w] = r]
    BY <1>2 DEF PoolInv, WorkersOK
  <1> HIDE DEF r
  <1> QED BY <1>1, <1>5, <1>6, WorkerGoesOn DEF Reply, others

LEMMA HedgeKeeps ==
    ASSUME PoolInv, NEW w \in DOMAIN work, Hedge(w)
    PROVE  PoolInv'
  <1>1. work[w].at \in Busy /\ IsLookup(cfg.env, work[w]) /\ IsEnvironment(cfg.env)
    BY WorkerLooksUp DEF Hedge, Busy
  <1> DEFINE r == [work[w] EXCEPT !.hop = launch(@)]
  <1>2. Continues(cfg.env, r, work[w])
    BY <1>1, HedgeContinues DEF Hedge
  <1>3. work' = [work EXCEPT ![w] = r]
    BY DEF Hedge
  <1> HIDE DEF r
  <1> QED BY <1>1, <1>2, <1>3, WorkerGoesOn DEF Hedge, others

LEMMA ReceiveResultKeeps ==
    ASSUME PoolInv, NEW w \in DOMAIN work, ReceiveResult(w)
    PROVE  PoolInv'
  <1>1. work[w].at \in Busy /\ IsLookup(cfg.env, work[w]) /\ IsEnvironment(cfg.env)
    BY WorkerLooksUp DEF ReceiveResult, Busy
  <1> DEFINE r == Receive(cfg.env, work[w], cancelled)
  <1>2. Continues(cfg.env, r, work[w])
    BY <1>1, ReceiveContinues DEF ReceiveResult
  <1>3. work' = [work EXCEPT ![w] = r]
    BY DEF ReceiveResult
  <1> HIDE DEF r
  <1> QED BY <1>1, <1>2, <1>3, WorkerGoesOn DEF ReceiveResult, others

LEMMA CancelledKeeps ==
    ASSUME PoolInv, NEW w \in DOMAIN work, Cancelled(w)
    PROVE  PoolInv'
  <1>1. work[w].at \in Busy /\ Carries(work[w])
    BY WorkerLooksUp DEF Cancelled, Busy
  <1> DEFINE r == Return(work[w], Failure)
  <1>2. Continues(cfg.env, r, work[w])
    BY <1>1, ReturnContinues, ServerFailureIsMessage DEF Failure
  <1>3. work' = [work EXCEPT ![w] = r]
    BY DEF Cancelled
  <1> HIDE DEF r
  <1> QED BY <1>1, <1>2, <1>3, WorkerGoesOn DEF Cancelled, others

LEMMA ForwardKeeps ==
    ASSUME PoolInv, NEW w \in DOMAIN work, Forward(w)
    PROVE  PoolInv'
  <1>1. /\ work[w].at \in Busy /\ IsLookup(cfg.env, work[w]) /\ IsEnvironment(cfg.env)
        /\ work[w].at = "forward"
    BY WorkerLooksUp DEF Forward, Busy
  <1>2. PICK out \in Outcomes(cfg.env, Head(work[w].todo), work[w].name, work[w].q.type, cancelled) :
             work' = [work EXCEPT ![w] = ForwarderAnswers(cfg.env, @, out)]
    BY DEF Forward
  <1>3. IsMessage(out.msg)
    BY <1>1, <1>2, OutcomesAreMessages
  <1> DEFINE r == ForwarderAnswers(cfg.env, work[w], out)
  <1>4. Continues(cfg.env, r, work[w])
    BY <1>1, <1>3, ForwarderAnswersContinues
  <1>5. work' = [work EXCEPT ![w] = r]
    BY <1>2
  <1> HIDE DEF r
  <1> QED BY <1>1, <1>4, <1>5, WorkerGoesOn DEF Forward, others

LEMMA ReturnFromLookupKeeps ==
    ASSUME PoolInv, NEW w \in DOMAIN work, ReturnFromLookup(w)
    PROVE  PoolInv'
  <1>1. /\ work[w].at \in Busy /\ IsLookup(cfg.env, work[w]) /\ IsEnvironment(cfg.env)
        /\ work[w].at = "return"
    BY WorkerLooksUp DEF ReturnFromLookup, Busy
  <1>2. CASE Len(work[w].stack) > 1
    <2> DEFINE r == ResumeReferral(cfg.env, work[w])
    <2>1. Continues(cfg.env, r, work[w])
      BY <1>1, <1>2, ResumeReferralContinues
    <2>2. work' = [work EXCEPT ![w] = r]
      BY <1>2 DEF ReturnFromLookup
    <2> HIDE DEF r
    <2> QED BY <1>1, <2>1, <2>2, WorkerGoesOn DEF ReturnFromLookup, others
  <1>3. CASE ~(Len(work[w].stack) > 1)
    <2>1. PICK l \in followAliases(cfg.env, work[w]) : work' = [work EXCEPT ![w] = l]
      BY <1>3 DEF ReturnFromLookup
    <2>2. Continues(cfg.env, l, work[w])
      BY <1>1, <2>1, FollowAliasesContinues
    <2> QED BY <1>1, <2>1, <2>2, WorkerGoesOn DEF ReturnFromLookup, others
  <1> QED BY <1>2, <1>3

\* A worker takes the first job.
LEMMA ExecuteKeeps ==
    ASSUME PoolInv, NEW w \in DOMAIN work, Execute(w)
    PROVE  PoolInv'
  <1>1. work[w].at = "idle" /\ queue # <<>> /\ queue' = Tail(queue)
        /\ UNCHANGED <<cfg, flights, closer>>
    BY DEF Execute
  <1>2. PICK l \in Begin(Head(queue)) : work' = [work EXCEPT ![w] = l]
    BY DEF Execute
  <1>3. Len(queue) \in Nat /\ DOMAIN queue = 1 .. Len(queue) /\ Len(queue) > 0
        /\ Head(queue) = queue[1]
    BY <1>1, Sequences DEF PoolInv, QueueOK
  <1>4. IsLookup(cfg.env, l) /\ l.q = queue[1].q /\ l.awaited = queue[1].awaited /\ l.at \in Busy
    BY <1>2, <1>3, LookupBegins, ChosenSettings, WorkingFacts DEF Begin
  <1>5. /\ DOMAIN work' = DOMAIN work /\ work'[w] = l
        /\ \A v \in DOMAIN work \ {w} : work'[v] = work[v]
    BY <1>2
  <1>6. /\ IsSequence(queue') /\ Len(queue') = Len(queue) - 1 /\ DOMAIN queue' = 1 .. Len(queue) - 1
        /\ \A i \in 1 .. Len(queue) - 1 : queue'[i] = queue[i + 1] /\ i + 1 \in DOMAIN queue
    BY <1>1, <1>3, TailIsSequence, Sequences DEF PoolInv, QueueOK
  <1>7. 1 \in DOMAIN queue /\ IsQueued(cfg, queue[1])
    BY <1>3 DEF PoolInv, QueueOK
  <1>8. QueueOK'
    <2>1. Len(queue) - 1 <= cfg.queueSize
      BY <1>3, ChosenSettings DEF PoolInv, QueueOK
    <2> QED BY <1>1, <1>6, <2>1 DEF PoolInv, QueueOK
  <1>9. WorkersOK'
    BY <1>1, <1>4, <1>5, <1>7 DEF PoolInv, WorkersOK, IsWork, IsQueued
  <1>10. AwaitedExpected'
    BY <1>1, <1>4, <1>5, <1>6, <1>7 DEF PoolInv, AwaitedExpected, Expecting, Key
  <1>11. AwaitedDistinct'
    <2>0. \A i, j \in DOMAIN queue' : /\ queue'[i] = queue[i + 1] /\ i + 1 \in DOMAIN queue
                                      /\ i + 1 # 1 /\ (i # j => i + 1 # j + 1)
      BY <1>3, <1>6
    <2>1. ASSUME NEW i \in DOMAIN queue', NEW j \in DOMAIN queue', i # j,
                 queue'[i].awaited, queue'[j].awaited
          PROVE  Key(queue'[i]) # Key(queue'[j])
      BY <2>0, <2>1 DEF PoolInv, AwaitedDistinct
    <2>2. ASSUME NEW i \in DOMAIN queue', NEW v \in DOMAIN work, queue'[i].awaited, work'[v].awaited
          PROVE  Key(queue'[i]) # Key(work'[v])
      <3>1. CASE v = w
        BY <1>4, <1>5, <1>7, <2>0, <2>2, <3>1 DEF PoolInv, AwaitedDistinct, Key
      <3>2. CASE v # w
        BY <1>5, <2>0, <2>2, <3>2 DEF PoolInv, AwaitedDistinct
      <3> QED BY <3>1, <3>2
    <2>3. ASSUME NEW u \in DOMAIN work, NEW v \in DOMAIN work, u # v, work'[u].awaited, work'[v].awaited
          PROVE  Key(work'[u]) # Key(work'[v])
      BY <1>4, <1>5, <1>7, <2>3 DEF PoolInv, AwaitedDistinct, Key
    <2> QED BY <1>5, <2>1, <2>2, <2>3 DEF AwaitedDistinct
  <1>12. OpenAwaits'
    BY <1>1, <1>4, <1>5, <1>6, <1>7 DEF PoolInv, OpenAwaits
  <1> QED BY <1>1, <1>8, <1>9, <1>10, <1>11, <1>12 DEF PoolInv, FlightsOK

LEMMA ExitKeeps ==
    ASSUME PoolInv, NEW w \in DOMAIN work, Exit(w)
    PROVE  PoolInv'
  <1>1. /\ work' = [work EXCEPT ![w] = Exited] /\ UNCHANGED <<cfg, flights, queue, closer>>
        /\ Exited.awaited = FALSE /\ Exited.at \notin Busy
    BY WorkingFacts DEF Exit, others
  <1> QED BY <1>1 DEF PoolInv, FlightsOK, QueueOK, WorkersOK, IsWork, AwaitedExpected,
                      AwaitedDistinct, OpenAwaits, Expecting

\* A worker ends its lookup and reports to the flight that waits for it.
LEMMA ReportKeeps ==
    ASSUME PoolInv, NEW w \in DOMAIN work, NEW result, Report(w, result),
           UNCHANGED <<cfg, queue, closer>>
    PROVE  PoolInv'
  <1>1. /\ DOMAIN work' = DOMAIN work /\ work'[w] = Idle
        /\ \A v \in DOMAIN work \ {w} : work'[v] = work[v]
    BY DEF Report
  <1>2. Idle.awaited = FALSE /\ Idle.at \notin Busy
    BY WorkingFacts
  <1>3. WorkersOK' /\ OpenAwaits' /\ AwaitedDistinct' /\ QueueOK'
    BY <1>1, <1>2 DEF PoolInv, WorkersOK, IsWork, OpenAwaits, AwaitedDistinct, QueueOK
  <1>4. CASE work[w].awaited
    <2> DEFINE k == Key(work[w])
    <2>1. Expecting(k)
      BY <1>4 DEF PoolInv, AwaitedExpected
    <2>2. flights' = [flights EXCEPT ![k].result = <<result>>]
      BY <1>4 DEF Report, Key
    <2>3. /\ DOMAIN flights' = DOMAIN flights
          /\ \A j \in DOMAIN flights \ {k} : flights'[j] = flights[j]
          /\ flights'[k] = [flights[k] EXCEPT !.result = <<result>>]
      BY <2>1, <2>2 DEF Expecting
    <2>4. IsFlight(cfg, k, flights'[k])
      <3>1. IsFlight(cfg, k, flights[k]) /\ flights[k].at = "wait"
        BY <2>1 DEF PoolInv, FlightsOK, Expecting, Expects
      <3>2. /\ DOMAIN flights'[k] = FlightFields /\ flights'[k].q = flights[k].q
            /\ flights'[k].at = "wait" /\ flights'[k].result = <<result>>
        BY <2>3, <3>1 DEF IsFlight, FlightFields
      <3>3. IsSequence(<<result>>) /\ Len(<<result>>) <= 1
        BY Sequences
      <3> QED BY <3>1, <3>2, <3>3 DEF IsFlight
    <2>5. FlightsOK'
      BY <2>3, <2>4 DEF PoolInv, FlightsOK
    <2>6. \A j \in DOMAIN flights : j # k /\ Expecting(j) => Expecting(j)'
      BY <2>3 DEF Expecting
    <2>7. AwaitedExpected'
      <3>1. ASSUME NEW i \in DOMAIN queue, queue[i].awaited PROVE Expecting(Key(queue[i]))'
        BY <1>4, <2>6, <3>1 DEF PoolInv, AwaitedExpected, AwaitedDistinct, Expecting
      <3>2. ASSUME NEW v \in DOMAIN work', work'[v].awaited PROVE Expecting(Key(work[v]))'
        BY <1>1, <1>2, <1>4, <2>6, <3>2 DEF PoolInv, AwaitedExpected, AwaitedDistinct, Expecting
      <3> QED BY <3>1, <3>2 DEF AwaitedExpected
    <2> QED BY <1>3, <2>5, <2>7 DEF PoolInv
  <1>5. CASE ~work[w].awaited
    <2>1. flights' = flights
      BY <1>5 DEF Report
    <2>2. FlightsOK' /\ AwaitedExpected'
      BY <1>1, <1>2, <2>1 DEF PoolInv, FlightsOK, AwaitedExpected, Expecting
    <2> QED BY <1>3, <2>2 DEF PoolInv
  <1> QED BY <1>4, <1>5

LEMMA ConcludeReports ==
    ASSUME NEW w \in DOMAIN work, Conclude(w)
    PROVE  \E result : Report(w, result) /\ UNCHANGED <<cfg, queue, closer>>
  BY DEF Conclude

\* Flights that nobody's job expects may land.
LEMMA LandKeeps ==
    ASSUME PoolInv, NEW k \in DOMAIN flights, NEW result, Land(k, result),
           \A i \in DOMAIN queue : queue[i].awaited => Key(queue[i]) # k,
           \A w \in DOMAIN work : work[w].awaited => Key(work[w]) # k,
           UNCHANGED <<cfg, queue, work, closer>>
    PROVE  PoolInv'
  <1>1. /\ DOMAIN flights' = DOMAIN flights \ {k}
        /\ \A j \in DOMAIN flights \ {k} : flights'[j] = flights[j]
    BY DEF Land, Restrict
  <1>2. FlightsOK'
    BY <1>1 DEF PoolInv, FlightsOK
  <1>3. AwaitedExpected'
    BY <1>1 DEF PoolInv, AwaitedExpected, Expecting
  <1> QED BY <1>2, <1>3 DEF PoolInv, QueueOK, WorkersOK, AwaitedDistinct, OpenAwaits

LEMMA TrySubmitKeeps ==
    ASSUME PoolInv, NEW k \in DOMAIN flights, TrySubmit(k)
    PROVE  PoolInv'
  <1>0. /\ flights[k].at = "submit" /\ UNCHANGED <<cfg, work, closer>>
        /\ Len(queue) \in Nat /\ DOMAIN queue = 1 .. Len(queue) /\ cfg.queueSize \in Nat
    BY Sequences, ChosenSettings DEF TrySubmit, PoolInv, QueueOK
  <1>1. /\ \A i \in DOMAIN queue : queue[i].awaited => Key(queue[i]) # k
        /\ \A w \in DOMAIN work : work[w].awaited => Key(work[w]) # k
    BY <1>0 DEF PoolInv, AwaitedExpected, Expecting, Expects
  <1>2. CASE closer \in {"closed", "done"} \/ Len(queue) >= cfg.queueSize
    BY <1>0, <1>1, <1>2, LandKeeps DEF TrySubmit
  <1>3. CASE ~(closer \in {"closed", "done"} \/ Len(queue) >= cfg.queueSize)
    <2> DEFINE job == [q |-> flights[k].q, awaited |-> TRUE]
    <2>1. /\ queue' = Append(queue, job) /\ flights' = [flights EXCEPT ![k].at = "wait"]
          /\ Len(queue) < cfg.queueSize
      BY <1>0, <1>3 DEF TrySubmit
    <2>2. IsFlight(cfg, k, flights[k])
      BY DEF PoolInv, FlightsOK
    <2>3. /\ DOMAIN flights' = DOMAIN flights
          /\ \A j \in DOMAIN flights \ {k} : flights'[j] = flights[j]
          /\ flights'[k] = [flights[k] EXCEPT !.at = "wait"]
      BY <2>1
    <2>4. IsFlight(cfg, k, flights'[k]) /\ Expects(flights'[k])
      <3>1. /\ DOMAIN flights'[k] = FlightFields /\ flights'[k].q = flights[k].q
            /\ flights'[k].at = "wait" /\ flights'[k].result = <<>>
        BY <1>0, <2>2, <2>3 DEF IsFlight, FlightFields
      <3>2. IsSequence(flights'[k].result) /\ Len(flights'[k].result) <= 1
        BY <1>0, <2>2, <3>1 DEF IsFlight
      <3> QED BY <2>2, <3>1, <3>2 DEF IsFlight, Expects
    <2>5. /\ DOMAIN job = {"q", "awaited"} /\ job.q \in ToSet(cfg.questions) /\ Key(job) = k
          /\ job.awaited = TRUE
      BY <2>2 DEF IsFlight, Key
    <2> HIDE DEF job
    <2>6. /\ IsSequence(queue') /\ DOMAIN queue' = 1 .. Len(queue) + 1
          /\ Len(queue') = Len(queue) + 1 /\ queue'[Len(queue) + 1] = job
          /\ \A i \in 1 .. Len(queue) : queue'[i] = queue[i]
      <3>1. IsSequence(queue)
        BY DEF PoolInv, QueueOK
      <3>2. queue \in Seq(ToSet(queue) \cup {job}) /\ job \in ToSet(queue) \cup {job}
        BY <3>1 DEF IsSequence
      <3>3. IsSequence(queue')
        BY <2>1, <3>1, AppendIsSequence
      <3> QED BY <1>0, <2>1, <3>2, <3>3
    <2>7. FlightsOK'
      BY <1>0, <2>3, <2>4 DEF PoolInv, FlightsOK
    <2>8. QueueOK'
      <3>1. \A i \in DOMAIN queue' : queue'[i] = job \/ (i \in DOMAIN queue /\ queue'[i] = queue[i])
        BY <1>0, <2>6
      <3>2. IsQueued(cfg, job)
        BY <2>5 DEF IsQueued
      <3>3. Len(queue') <= cfg.queueSize
        BY <1>0, <2>1, <2>6
      <3> QED BY <1>0, <2>6, <3>1, <3>2, <3>3 DEF PoolInv, QueueOK
    <2>9. \A i \in DOMAIN queue' : (i = Len(queue) + 1 /\ queue'[i] = job)
                                   \/ (i \in DOMAIN queue /\ i # Len(queue) + 1 /\ queue'[i] = queue[i])
      BY <1>0, <2>6
    <2>10. \A j : Expecting(j) => Expecting(j)'
      BY <1>0, <2>3 DEF Expecting, Expects
    <2>11. AwaitedExpected'
      <3>1. Expecting(k)'
        BY <2>3, <2>4 DEF Expecting
      <3>2. ASSUME NEW i \in DOMAIN queue', queue'[i].awaited PROVE Expecting(Key(queue[i]))'
        BY <2>5, <2>9, <2>10, <3>1, <3>2 DEF PoolInv, AwaitedExpected
      <3>3. ASSUME NEW w \in DOMAIN work', work'[w].awaited PROVE Expecting(Key(work[w]))'
        BY <1>0, <2>10, <3>3 DEF PoolInv, AwaitedExpected
      <3> QED BY <3>2, <3>3 DEF AwaitedExpected
    <2>12. AwaitedDistinct'
      <3>1. ASSUME NEW i \in DOMAIN queue', NEW j \in DOMAIN queue', i # j,
                   queue'[i].awaited, queue'[j].awaited
            PROVE  Key(queue'[i]) # Key(queue'[j])
        BY <1>1, <2>5, <2>9, <3>1 DEF PoolInv, AwaitedDistinct
      <3>2. ASSUME NEW i \in DOMAIN queue', NEW w \in DOMAIN work, queue'[i].awaited, work[w].awaited
            PROVE  Key(queue'[i]) # Key(work[w])
        BY <1>1, <2>5, <2>9, <3>2 DEF PoolInv, AwaitedDistinct
      <3> QED BY <1>0, <3>1, <3>2 DEF PoolInv, AwaitedDistinct
    <2>13. OpenAwaits'
      BY <1>0, <2>5, <2>9 DEF PoolInv, OpenAwaits
    <2> QED BY <1>0, <2>7, <2>8, <2>11, <2>12, <2>13 DEF PoolInv, WorkersOK
  <1> QED BY <1>2, <1>3

LEMMA JobResultKeeps ==
    ASSUME PoolInv, NEW k \in DOMAIN flights, JobResult(k)
    PROVE  PoolInv'
  <1>1. /\ \A i \in DOMAIN queue : queue[i].awaited => Key(queue[i]) # k
        /\ \A w \in DOMAIN work : work[w].awaited => Key(work[w]) # k
    BY DEF JobResult, PoolInv, AwaitedExpected, Expecting, Expects
  <1> QED BY <1>1, LandKeeps DEF JobResult

LEMMA AbandonJobKeeps ==
    ASSUME PoolInv, NEW k \in DOMAIN flights, AbandonJob(k)
    PROVE  PoolInv'
  <1> DEFINE left(job) == [job EXCEPT !.awaited = FALSE]
  <1>1. /\ closer # "open" /\ UNCHANGED <<cfg, closer>>
        /\ queue' = [i \in DOMAIN queue |-> IF Key(queue[i]) = k THEN left(queue[i]) ELSE queue[i]]
        /\ work' = [w \in DOMAIN work |->
                      IF work[w].awaited /\ Key(work[w]) = k THEN left(work[w]) ELSE work[w]]
        /\ DOMAIN flights' = DOMAIN flights \ {k}
        /\ \A j \in DOMAIN flights \ {k} : flights'[j] = flights[j]
    BY DEF AbandonJob, cancelled, Land, Restrict, Key
  <1>2. DOMAIN queue' = DOMAIN queue /\ DOMAIN work' = DOMAIN work
    BY <1>1
  <1>3. ASSUME NEW i \in DOMAIN queue
        PROVE  /\ IsQueued(cfg, queue'[i]) /\ Key(queue'[i]) = Key(queue[i])
               /\ queue'[i].awaited => queue[i].awaited /\ Key(queue[i]) # k
    <2>1. IsQueued(cfg, queue[i])
      BY DEF PoolInv, QueueOK
    <2>2. queue'[i] = IF Key(queue[i]) = k THEN left(queue[i]) ELSE queue[i]
      BY <1>1
    <2> QED BY <2>1, <2>2 DEF IsQueued, Key
  <1>4. ASSUME NEW w \in DOMAIN work
        PROVE  /\ IsWork(cfg, work'[w]) /\ Key(work'[w]) = Key(work[w])
               /\ work'[w].awaited => work[w].awaited /\ Key(work[w]) # k
    <2>1. IsWork(cfg, work[w])
      BY DEF PoolInv, WorkersOK
    <2>2. work'[w] = IF work[w].awaited /\ Key(work[w]) = k THEN left(work[w]) ELSE work[w]
      BY <1>1
    <2>3. CASE ~(work[w].awaited /\ Key(work[w]) = k)
      BY <2>1, <2>2, <2>3
    <2>4. CASE work[w].awaited /\ Key(work[w]) = k
      <3>1. IsLookup(cfg.env, work[w]) /\ work[w].q \in ToSet(cfg.questions)
        BY <2>1, <2>4, WorkingFacts DEF IsWork
      <3> DEFINE l == left(work[w])
      <3>2. /\ DOMAIN l = LookupFields /\ l.q = work[w].q /\ l.awaited = FALSE
            /\ l.at = work[w].at /\ l.stack = work[w].stack /\ l.hop = work[w].hop
            /\ l.out = work[w].out
        BY <3>1 DEF IsLookup, Carries, LookupFields
      <3> HIDE DEF l
      <3>3. IsLookup(cfg.env, l)
        BY <3>1, <3>2 DEF IsLookup, Carries
      <3>4. work'[w] = l
        BY <2>2, <2>4 DEF l
      <3> QED BY <3>1, <3>2, <3>3, <3>4 DEF IsWork, Key
    <2> QED BY <2>3, <2>4
  <1>5. QueueOK'
    <2>1. Len(queue) \in Nat /\ DOMAIN queue = 1 .. Len(queue)
      BY Sequences DEF PoolInv, QueueOK
    <2>2. queue' = [i \in 1 .. Len(queue) |-> queue'[i]]
      BY <1>1, <2>1
    <2>3. IsSequence(queue') /\ Len(queue') = Len(queue)
      BY <2>1, <2>2, Enumerated
    <2> QED BY <1>1, <1>2, <1>3, <2>3 DEF PoolInv, QueueOK
  <1>6. WorkersOK'
    BY <1>1, <1>2, <1>4 DEF PoolInv, WorkersOK
  <1>7. FlightsOK'
    BY <1>1 DEF PoolInv, FlightsOK
  <1>8. \A j : j # k /\ Expecting(j) => Expecting(j)'
    BY <1>1 DEF Expecting
  <1>9. AwaitedExpected'
    <2>1. ASSUME NEW i \in DOMAIN queue, queue'[i].awaited PROVE Expecting(Key(queue[i]))'
      BY <1>3, <1>8, <2>1 DEF PoolInv, AwaitedExpected
    <2>2. ASSUME NEW w \in DOMAIN work, work'[w].awaited PROVE Expecting(Key(work[w]))'
      BY <1>4, <1>8, <2>2 DEF PoolInv, AwaitedExpected
    <2> QED BY <1>2, <2>1, <2>2 DEF AwaitedExpected
  <1>10. AwaitedDistinct'
    <2> HIDE DEF left
    <2> QED BY <1>2, <1>3, <1>4 DEF PoolInv, AwaitedDistinct
  <1>11. OpenAwaits'
    BY <1>1 DEF OpenAwaits
  <1> QED BY <1>1, <1>5, <1>6, <1>7, <1>9, <1>10, <1>11 DEF PoolInv

\* Somebody joins a flight, or starts it.
LEMMA JoinedKeeps ==
    ASSUME PoolInv, NEW q \in ToSet(cfg.questions), NEW waiter,
           flights' = Over(Joined(q, waiter), flights), UNCHANGED <<cfg, queue, work, closer>>
    PROVE  PoolInv'
  <1> DEFINE k == FlightKey(q)
             f == IF k \in DOMAIN flights
                  THEN [flights[k] EXCEPT !.waiters = @ \cup {waiter}]
                  ELSE [at |-> "submit", q |-> q, waiters |-> {waiter}, result |-> <<>>]
  <1>1. Joined(q, waiter) = [y \in {k} |-> f]
    BY DEF Joined, At
  <1>2. IsFlight(cfg, k, f) /\ (k \in DOMAIN flights /\ Expects(flights[k]) => Expects(f))
    <2>1. CASE k \in DOMAIN flights
      <3>1. IsFlight(cfg, k, flights[k])
        BY <2>1 DEF PoolInv, FlightsOK
      <3>2. /\ DOMAIN f = FlightFields /\ f.at = flights[k].at /\ f.q = flights[k].q
            /\ f.result = flights[k].result
        BY <2>1, <3>1 DEF IsFlight, FlightFields
      <3> HIDE DEF f
      <3> QED BY <3>1, <3>2 DEF IsFlight, Expects
    <2>2. CASE k \notin DOMAIN flights
      <3>1. /\ DOMAIN f = FlightFields /\ f.at = "submit" /\ f.q = q /\ f.result = <<>>
        BY <2>2 DEF FlightFields
      <3>2. IsSequence(f.result) /\ Len(f.result) <= 1
        BY <3>1, Sequences
      <3> HIDE DEF f
      <3>3. FlightKey(f.q) = k
        BY <3>1
      <3> QED BY <2>2, <3>1, <3>2, <3>3 DEF IsFlight
    <2> QED BY <2>1, <2>2
  <1> HIDE DEF f
  <1>3. /\ DOMAIN flights' = DOMAIN flights \cup {k} /\ flights'[k] = f
        /\ \A j \in DOMAIN flights \ {k} : flights'[j] = flights[j]
    BY <1>1 DEF Over
  <1> HIDE DEF k
  <1>4. FlightsOK'
    BY <1>2, <1>3 DEF PoolInv, FlightsOK
  <1>5. \A j : Expecting(j) => Expecting(j)'
    BY <1>2, <1>3 DEF Expecting
  <1>6. AwaitedExpected'
    BY <1>5 DEF PoolInv, AwaitedExpected
  <1> QED BY <1>4, <1>6 DEF PoolInv, QueueOK, WorkersOK, AwaitedDistinct, OpenAwaits

\* A caller gives up: its flight goes on.
LEMMA TimeoutKeeps ==
    ASSUME PoolInv, NEW c, Timeout(c)
    PROVE  PoolInv'
  <1>1. /\ flights' = [k \in DOMAIN flights |-> [flights[k] EXCEPT !.waiters = @ \ {c}]]
        /\ UNCHANGED <<cfg, queue, work, closer>>
    BY DEF Timeout
  <1>2. ASSUME NEW k \in DOMAIN flights
        PROVE  IsFlight(cfg, k, flights'[k]) /\ (Expects(flights[k]) => Expects(flights'[k]))
    <2> DEFINE f == [flights[k] EXCEPT !.waiters = @ \ {c}]
    <2>1. IsFlight(cfg, k, flights[k]) /\ flights'[k] = f
      BY <1>1 DEF PoolInv, FlightsOK
    <2>2. /\ DOMAIN f = FlightFields /\ f.at = flights[k].at /\ f.q = flights[k].q
          /\ f.result = flights[k].result
      BY <2>1 DEF IsFlight, FlightFields
    <2> HIDE DEF f
    <2> QED BY <2>1, <2>2 DEF IsFlight, Expects
  <1>3. DOMAIN flights' = DOMAIN flights
    BY <1>1
  <1>4. FlightsOK' /\ AwaitedExpected'
    <2>1. FlightsOK'
      BY <1>1, <1>2, <1>3 DEF PoolInv, FlightsOK
    <2>2. \A k : Expecting(k) => Expecting(k)'
      BY <1>2, <1>3 DEF Expecting
    <2> QED BY <1>1, <2>1, <2>2 DEF PoolInv, AwaitedExpected
  <1> QED BY <1>1, <1>4 DEF PoolInv, QueueOK, WorkersOK, AwaitedDistinct, OpenAwaits

LEMMA AdvanceKeeps ==
    ASSUME PoolInv, NEW from, NEW to \in {"cancelled", "stopped", "closed", "done"},
           Advance(from, to)
    PROVE  PoolInv'
  BY DEF Advance, PoolInv, FlightsOK, QueueOK, WorkersOK, AwaitedExpected, AwaitedDistinct,
         OpenAwaits, Expecting

-----------------------------------------------------------------------------
(* Callers, refreshers and the bounds.                                     *)

CallerFields == {"at", "kind", "q", "box", "got"}
IsCaller(c, r) ==
    /\ DOMAIN r = CallerFields
    /\ r.at \in {"joining", "waiting", "done"} /\ IsSequence(r.box) /\ Len(r.box) <= 1
    /\ r.at # "done" => r.q \in ToSet(c.questions)
IsRefresher(c, r) ==
    /\ DOMAIN r = {"q", "at", "owner"}
    /\ r.at \in {"joining", "waiting", "ending"} /\ r.owner \in BOOLEAN
    /\ r.q \in ToSet(c.questions)

ClientsInv ==
    /\ DOMAIN callers = cfg.callers
    /\ \A c \in DOMAIN callers : IsCaller(cfg, callers[c])
    /\ \A r \in refreshers : IsRefresher(cfg, r)
BoundsInv == now \in 0 .. cfg.maxTime /\ asks \in 0 .. cfg.maxAsks

LEMMA CallerChanges ==
    ASSUME ClientsInv, NEW c \in DOMAIN callers, NEW r, IsCaller(cfg, r),
           callers' = [callers EXCEPT ![c] = r], UNCHANGED cfg,
           \A s \in refreshers' : IsRefresher(cfg, s)
    PROVE  ClientsInv'
  BY DEF ClientsInv

\* A caller that rests with an answer, or whose call begins.
LEMMA CallerBegins ==
    ASSUME NEW c, NEW kind, NEW q, NEW got
    PROVE  /\ IsCaller(c, [Resting EXCEPT !.kind = kind, !.q = q, !.got = got])
           /\ q \in ToSet(c.questions) =>
                IsCaller(c, [Resting EXCEPT !.kind = kind, !.q = q, !.at = "joining"])
  BY Sequences DEF IsCaller, CallerFields, Resting

LEMMA StartRefreshKeeps ==
    ASSUME ClientsInv, NEW q \in ToSet(cfg.questions), NEW entry, StartRefresh(q, entry)
    PROVE  \A s \in refreshers' : IsRefresher(cfg, s)
  <1> DEFINE new == [q |-> q, at |-> "joining", owner |-> TRUE]
  <1>1. IsRefresher(cfg, new)
    BY DEF IsRefresher
  <1>2. refreshers' = refreshers \/ refreshers' = refreshers \cup {new}
    BY DEF StartRefresh
  <1> HIDE DEF new
  <1> QED BY <1>1, <1>2 DEF ClientsInv

LEMMA FinishKeeps ==
    ASSUME ClientsInv, NEW c \in DOMAIN callers, NEW got, Finish(c, got), UNCHANGED cfg,
           \A s \in refreshers' : IsRefresher(cfg, s)
    PROVE  ClientsInv'
  <1> DEFINE r == [callers[c] EXCEPT !.at = "done", !.got = got, !.box = <<>>]
  <1>1. IsCaller(cfg, callers[c])
    BY DEF ClientsInv
  <1>2. DOMAIN r = CallerFields /\ r.at = "done" /\ r.box = <<>>
    BY <1>1 DEF IsCaller, CallerFields
  <1>3. callers' = [callers EXCEPT ![c] = r]
    BY DEF Finish
  <1> HIDE DEF r
  <1>4. IsCaller(cfg, r)
    BY <1>2, Sequences DEF IsCaller
  <1> QED BY <1>3, <1>4, CallerChanges

LEMMA LastResortKeeps ==
    ASSUME ClientsInv, NEW c \in DOMAIN callers, callers[c].at = "waiting", LastResort(c),
           UNCHANGED cfg
    PROVE  ClientsInv'
  <1>1. callers[c].q \in ToSet(cfg.questions)
    BY DEF ClientsInv, IsCaller
  <1>2. \A s \in refreshers : IsRefresher(cfg, s)
    BY DEF ClientsInv
  <1>3. CASE callers[c].kind = "resolve" /\ cfg.opts.serveStale /\ Found(callers[c].q) # {}
    <2>1. PICK entry \in Found(callers[c].q) :
            /\ Finish(c, Given(entry, "stale", 0))
            /\ StartRefresh(callers[c].q, entry)
      BY <1>3 DEF LastResort
    <2>2. \A s \in refreshers' : IsRefresher(cfg, s)
      BY <1>1, <2>1, StartRefreshKeeps
    <2> QED BY <2>1, <2>2, FinishKeeps
  <1>4. CASE ~(callers[c].kind = "resolve" /\ cfg.opts.serveStale /\ Found(callers[c].q) # {})
    <2>1. Finish(c, Error) /\ refreshers' = refreshers
      BY <1>4 DEF LastResort
    <2>2. \A s \in refreshers' : IsRefresher(cfg, s)
      BY <1>2, <2>1
    <2> QED BY <2>1, <2>2, FinishKeeps
  <1> QED BY <1>3, <1>4

LEMMA LandServes ==
    ASSUME ClientsInv, NEW key, NEW result, Land(key, result), UNCHANGED cfg
    PROVE  ClientsInv'
  <1>1. DOMAIN callers' = DOMAIN callers
    BY DEF Land
  <1>2. ASSUME NEW c \in DOMAIN callers PROVE IsCaller(cfg, callers'[c])
    <2> DEFINE r == [callers[c] EXCEPT !.box = <<result>>]
    <2>1. IsCaller(cfg, callers[c])
      BY DEF ClientsInv
    <2>2. /\ DOMAIN r = CallerFields /\ r.at = callers[c].at /\ r.box = <<result>>
          /\ r.q = callers[c].q
      BY <2>1 DEF IsCaller, CallerFields
    <2>3. callers'[c] = r \/ callers'[c] = callers[c]
      BY DEF Land
    <2>4. IsSequence(<<result>>) /\ Len(<<result>>) <= 1
      BY Sequences
    <2> HIDE DEF r
    <2> QED BY <2>1, <2>2, <2>3, <2>4 DEF IsCaller
  <1>3. \A s \in refreshers' : IsRefresher(cfg, s)
    BY DEF ClientsInv, Land, IsRefresher
  <1> QED BY <1>1, <1>2, <1>3 DEF ClientsInv

LEMMA DisownKeeps ==
    ASSUME ClientsInv, NEW after, refreshers' = Disown(refreshers, after),
           UNCHANGED <<cfg, callers>>
    PROVE  ClientsInv'
  BY DEF ClientsInv, Disown, IsRefresher

-----------------------------------------------------------------------------
(* Every step.                                                             *)

ControlInv == PoolInv /\ ClientsInv /\ BoundsInv

LEMMA ClientsRest ==
    ASSUME ClientsInv, UNCHANGED <<cfg, callers, refreshers>>
    PROVE  ClientsInv'
  BY DEF ClientsInv

LEMMA BoundsRest ==
    ASSUME BoundsInv, UNCHANGED <<cfg, now, asks>>
    PROVE  BoundsInv'
  BY DEF BoundsInv

LEMMA ControlBegins == ASSUME Init PROVE ControlInv
  <1>1. PICK s \in ToSet(Settings) : cfg = s
    BY DEF Init
  <1>2. /\ cfg \in ToSet(Settings) /\ cfg.maxTime \in Nat /\ cfg.maxAsks \in Nat
        /\ cfg.queueSize \in Nat
    BY <1>1, SettingsAssumption
  <1>3. PoolInv
    <2>1. IsSequence(<<>>) /\ Len(<<>>) = 0 /\ DOMAIN <<>> = {}
      BY Sequences
    <2>2. FlightsOK /\ QueueOK /\ WorkersOK /\ AwaitedExpected /\ AwaitedDistinct /\ OpenAwaits
      BY <1>2, <2>1, WorkingFacts DEF Init, FlightsOK, QueueOK, WorkersOK, IsWork, AwaitedExpected,
                                  AwaitedDistinct, OpenAwaits
    <2> QED BY <1>2, <2>2 DEF PoolInv, Init
  <1>4. ClientsInv
    <2>1. IsCaller(cfg, Resting)
      BY Sequences DEF IsCaller, CallerFields, Resting
    <2> QED BY <2>1 DEF Init, ClientsInv
  <1>5. BoundsInv
    BY <1>2 DEF Init, BoundsInv
  <1> QED BY <1>3, <1>4, <1>5 DEF ControlInv

\* The steps of callers.
LEMMA ResolveKeeps ==
    ASSUME ControlInv, NEW c \in DOMAIN callers, NEW q \in ToSet(cfg.questions),
           Resolve(c, q) \/ Prefetch(c, q)
    PROVE  ControlInv'
  <1>1. /\ PoolInv' /\ UNCHANGED <<cfg, now>>
        /\ asks' = asks + 1 /\ asks < cfg.maxAsks
    BY PoolRests DEF ControlInv, Resolve, Prefetch, poolVars
  <1>2. BoundsInv'
    <2>1. cfg.maxAsks \in Nat
      BY SettingsAssumption DEF ControlInv, PoolInv
    <2> QED BY <1>1, <2>1 DEF ControlInv, BoundsInv
  <1>3. \A s \in refreshers : IsRefresher(cfg, s)
    BY DEF ControlInv, ClientsInv
  <1>4. CASE Prefetch(c, q)
    <2> DEFINE r == [Resting EXCEPT !.kind = "prefetch", !.q = q, !.at = "joining"]
    <2>1. IsCaller(cfg, r) /\ callers' = [callers EXCEPT ![c] = r] /\ refreshers' = refreshers
      BY <1>4, CallerBegins DEF Prefetch
    <2> HIDE DEF r
    <2> QED BY <1>1, <1>2, <1>3, <2>1, CallerChanges DEF ControlInv
  <1>5. CASE Resolve(c, q) /\ Found(q) # {}
    <2>1. PICK entry \in Found(q) :
               /\ callers' = [callers EXCEPT ![c] = [Resting EXCEPT !.kind = "resolve", !.q = q,
                                                                    !.got = FromCache(entry)]]
               /\ StartRefresh(q, entry)
      BY <1>5 DEF Resolve
    <2> DEFINE r == [Resting EXCEPT !.kind = "resolve", !.q = q, !.got = FromCache(entry)]
    <2>2. IsCaller(cfg, r) /\ callers' = [callers EXCEPT ![c] = r]
      BY <2>1, CallerBegins
    <2>3. \A s \in refreshers' : IsRefresher(cfg, s)
      BY <2>1, StartRefreshKeeps DEF ControlInv
    <2> HIDE DEF r
    <2> QED BY <1>1, <1>2, <2>2, <2>3, CallerChanges DEF ControlInv
  <1>6. CASE Resolve(c, q) /\ Found(q) = {}
    <2> DEFINE denied == [Resting EXCEPT !.kind = "resolve", !.q = q,
                          !.got = [NoAnswer EXCEPT !.via = "nsec", !.rcode = "NXDOMAIN", !.at = now]]
               joins == [Resting EXCEPT !.kind = "resolve", !.q = q, !.at = "joining"]
    <2>1. /\ \/ callers' = [callers EXCEPT ![c] = denied]
             \/ callers' = [callers EXCEPT ![c] = joins]
          /\ refreshers' = refreshers
      BY <1>6 DEF Resolve
    <2>2. IsCaller(cfg, denied) /\ IsCaller(cfg, joins)
      BY CallerBegins
    <2> HIDE DEF denied, joins
    <2> QED BY <1>1, <1>2, <1>3, <2>1, <2>2, CallerChanges DEF ControlInv
  <1> QED BY <1>4, <1>5, <1>6

LEMMA JoinKeeps ==
    ASSUME ControlInv, NEW c \in DOMAIN callers, Join(c)
    PROVE  ControlInv'
  <1>1. /\ callers[c].at = "joining" /\ UNCHANGED <<cfg, now, asks, queue, work, closer, refreshers>>
        /\ flights' = Over(Joined(callers[c].q, c), flights)
        /\ callers' = [callers EXCEPT ![c].at = "waiting"]
    BY DEF Join
  <1>2. IsCaller(cfg, callers[c])
    BY DEF ControlInv, ClientsInv
  <1>3. callers[c].q \in ToSet(cfg.questions)
    BY <1>1, <1>2 DEF IsCaller
  <1>4. PoolInv'
    BY <1>1, <1>3, JoinedKeeps DEF ControlInv
  <1> DEFINE r == [callers[c] EXCEPT !.at = "waiting"]
  <1>5. /\ DOMAIN r = CallerFields /\ r.at = "waiting" /\ r.q = callers[c].q
        /\ r.box = callers[c].box /\ callers' = [callers EXCEPT ![c] = r]
    BY <1>1, <1>2 DEF IsCaller, CallerFields
  <1> HIDE DEF r
  <1>6. IsCaller(cfg, r)
    BY <1>2, <1>3, <1>5 DEF IsCaller
  <1>7. \A s \in refreshers : IsRefresher(cfg, s)
    BY DEF ControlInv, ClientsInv
  <1>8. ClientsInv'
    BY <1>1, <1>5, <1>6, <1>7, CallerChanges DEF ControlInv
  <1> QED BY <1>1, <1>4, <1>8, BoundsRest DEF ControlInv

LEMMA DeliverKeeps ==
    ASSUME ControlInv, NEW c \in DOMAIN callers, Deliver(c) \/ Timeout(c)
    PROVE  ControlInv'
  <1>1. callers[c].at = "waiting" /\ UNCHANGED <<cfg, now, asks>>
    BY DEF Deliver, Timeout
  <1>2. PoolInv'
    BY PoolRests, TimeoutKeeps DEF ControlInv, Deliver, poolVars
  <1>3. ClientsInv'
    <2>1. CASE LastResort(c)
      BY <1>1, <2>1, LastResortKeeps DEF ControlInv
    <2>2. CASE ~LastResort(c)
      <3>1. /\ Finish(c, [callers[c].box[1] EXCEPT !.at = now]) /\ refreshers' = refreshers
        BY <2>2 DEF Deliver, Timeout
      <3>2. \A s \in refreshers : IsRefresher(cfg, s)
        BY DEF ControlInv, ClientsInv
      <3> QED BY <1>1, <3>1, <3>2, FinishKeeps DEF ControlInv
    <2> QED BY <2>1, <2>2
  <1> QED BY <1>1, <1>2, <1>3, BoundsRest DEF ControlInv

LEMMA RefresherKeeps ==
    ASSUME ControlInv, NEW r \in refreshers, JoinRefresh(r) \/ EndRefresh(r)
    PROVE  ControlInv'
  <1>1. UNCHANGED <<cfg, now, asks, queue, work, closer, callers>>
    BY DEF JoinRefresh, EndRefresh
  <1>2. IsRefresher(cfg, r)
    BY DEF ControlInv, ClientsInv
  <1>3. PoolInv'
    <2>1. CASE JoinRefresh(r)
      <3>1. flights' = Over(Joined(r.q, "refresh"), flights) /\ r.q \in ToSet(cfg.questions)
        BY <1>2, <2>1 DEF JoinRefresh, IsRefresher
      <3> QED BY <1>1, <3>1, JoinedKeeps DEF ControlInv
    <2>2. CASE EndRefresh(r)
      BY <2>2, PoolRests DEF ControlInv, EndRefresh, poolVars
    <2> QED BY <2>1, <2>2
  <1>4. ClientsInv'
    <2> DEFINE waits == [r EXCEPT !.at = "waiting"]
    <2>1. IsRefresher(cfg, waits)
      BY <1>2 DEF IsRefresher
    <2>2. refreshers' \subseteq refreshers \cup {waits}
      BY DEF JoinRefresh, EndRefresh
    <2> HIDE DEF waits
    <2> QED BY <1>1, <2>1, <2>2 DEF ControlInv, ClientsInv
  <1> QED BY <1>1, <1>3, <1>4, BoundsRest DEF ControlInv

LEMMA FlightStepKeeps ==
    ASSUME ControlInv, NEW k \in DOMAIN flights, FlightStep(k)
    PROVE  ControlInv'
  <1>1. UNCHANGED <<cfg, now, asks>>
    BY DEF FlightStep, TrySubmit, JobResult, AbandonJob
  <1>2. PoolInv'
    BY TrySubmitKeeps, JobResultKeeps, AbandonJobKeeps DEF ControlInv, FlightStep
  <1>3. (\E result : Land(k, result)) \/ UNCHANGED <<callers, refreshers>>
    BY DEF FlightStep, TrySubmit, JobResult, AbandonJob
  <1>4. ClientsInv'
    BY <1>1, <1>3, LandServes, ClientsRest DEF ControlInv
  <1> QED BY <1>1, <1>2, <1>4, BoundsRest DEF ControlInv

LEMMA WorkerKeeps ==
    ASSUME ControlInv, NEW w \in DOMAIN work, WorkerStep(w) \/ Hedge(w) \/ Cancelled(w)
    PROVE  ControlInv'
  <1>1. UNCHANGED <<cfg, now, asks, callers>>
    BY DEF WorkerStep, Hedge, Cancelled, Execute, ReceiveResult, Forward, ReturnFromLookup, Fail,
           Conclude, Exit, Reply, others
  <1>2. ClientsInv'
    <2>1. UNCHANGED refreshers \/ \E after : refreshers' = Disown(refreshers, after)
      BY DEF WorkerStep, Hedge, Cancelled, Execute, ReceiveResult, Forward, ReturnFromLookup, Fail,
             Conclude, Exit, Reply, others
    <2> QED BY <1>1, <2>1, ClientsRest, DisownKeeps DEF ControlInv
  <1>3. PoolInv'
    <2>1. CASE Conclude(w)
      BY <2>1, ConcludeReports, ReportKeeps DEF ControlInv
    <2>2. CASE Fail(w)
      BY <2>2, ReportKeeps DEF ControlInv, Fail
    <2> QED BY <2>1, <2>2, ExecuteKeeps, ReceiveResultKeeps, ForwardKeeps, ReturnFromLookupKeeps,
               ExitKeeps, ReplyKeeps, HedgeKeeps, CancelledKeeps DEF ControlInv, WorkerStep
  <1> QED BY <1>1, <1>2, <1>3, BoundsRest DEF ControlInv

LEMMA RestKeeps ==
    ASSUME ControlInv, performCleanup \/ Flush \/ CancelContext \/ CloseStep \/ Tick
    PROVE  ControlInv'
  <1>1. PoolInv' /\ UNCHANGED <<cfg, callers>>
    <2>1. CASE performCleanup \/ Flush \/ Tick
      BY <2>1, PoolRests DEF ControlInv, performCleanup, Flush, Tick, poolVars
    <2>2. CASE CancelContext \/ CloseStep
      <3>1. PICK from \in {"open", "cancelled", "stopped", "closed"},
                 to \in {"cancelled", "stopped", "closed", "done"} : Advance(from, to)
        BY <2>2 DEF CancelContext, CloseStep, CloseCache, ClosePool, PoolClosed
      <3> QED BY <3>1, AdvanceKeeps DEF ControlInv, Advance
    <2> QED BY <2>1, <2>2
  <1>2. ClientsInv'
    <2>1. UNCHANGED refreshers \/ \E after : refreshers' = Disown(refreshers, after)
      BY DEF performCleanup, Flush, CancelContext, CloseStep, CloseCache, ClosePool, PoolClosed,
             Advance, Tick
    <2> QED BY <1>1, <2>1, ClientsRest, DisownKeeps DEF ControlInv
  <1>3. BoundsInv'
    <2>1. CASE Tick
      <3>1. cfg.maxTime \in Nat
        BY SettingsAssumption DEF ControlInv, PoolInv
      <3> QED BY <2>1, <3>1 DEF ControlInv, BoundsInv, Tick
    <2>2. CASE ~Tick
      BY <2>2, BoundsRest DEF ControlInv, performCleanup, Flush, CancelContext, CloseStep,
                             CloseCache, ClosePool, PoolClosed, Advance
    <2> QED BY <2>1, <2>2
  <1> QED BY <1>1, <1>2, <1>3 DEF ControlInv

LEMMA ControlKept == ASSUME ControlInv, [Next]_vars PROVE ControlInv'
  <1>1. CASE UNCHANGED vars
    BY <1>1, PoolRests, ClientsRest, BoundsRest DEF ControlInv, vars, poolVars
  <1>2. ASSUME NEW c \in DOMAIN callers, NEW i \in DOMAIN cfg.questions,
               Resolve(c, cfg.questions[i]) \/ Prefetch(c, cfg.questions[i])
        PROVE  ControlInv'
    <2>1. cfg.questions[i] \in ToSet(cfg.questions)
      BY DEF ToSet
    <2> QED BY <1>2, <2>1, ResolveKeeps
  <1> QED BY <1>1, <1>2, JoinKeeps, DeliverKeeps, RefresherKeeps, FlightStepKeeps, WorkerKeeps,
             RestKeeps DEF Next

-----------------------------------------------------------------------------
(* What the cache holds, and for how long.                                 *)

\* An entry lives no longer than the answer it was made of may.
Origin(e) == [upstream |-> e.data.ttl, negative |-> e.negative, bogus |-> e.bogus]
IsStored(e) ==
    /\ IsEntry(e)
    /\ e.refreshing \in BOOLEAN /\ e.negative \in BOOLEAN /\ e.bogus \in BOOLEAN
    /\ e.data.born \in Nat /\ e.data.ttl \in Nat
    /\ e.expiresAt - e.data.born <= Lifetime(Origin(e))

StoreInv ==
    /\ IsShard(cfg.opts, shard) /\ WithinLimits(cfg.opts, shard)
    /\ \A h \in DOMAIN shard.entries :
          h \in DOMAIN cfg.questions /\ IsStored(shard.entries[h])

\* What a flight is told comes from upstream.
Told(result) == "via" \in DOMAIN result /\ result.via \in {"upstream", "error"}
FromUpstream(box) == box # <<>> => Told(box[1])
AnswersInv ==
    /\ \A k \in DOMAIN flights : FromUpstream(flights[k].result)
    /\ \A c \in DOMAIN callers : FromUpstream(callers[c].box) /\ GivenInTime(callers[c].got)

\* The configuration, for what concerns the cache.
LEMMA CacheSettings ==
    ASSUME cfg \in ToSet(Settings)
    PROVE  /\ IsOptions(cfg.opts) /\ cfg.ttls \subseteq Nat /\ cfg.maxTime \in Nat
           /\ IsSequence(cfg.questions)
           /\ \A i \in DOMAIN cfg.questions : cfg.size[i] \in Nat
           /\ \A q \in ToSet(cfg.questions) :
                 HashQuery(q) \in DOMAIN cfg.questions /\ HashQuery(q) \in Nat
  <1>1. /\ IsOptions(cfg.opts) /\ cfg.ttls \subseteq Nat /\ cfg.maxTime \in Nat
        /\ IsSequence(cfg.questions)
        /\ \A i \in DOMAIN cfg.questions : cfg.size[i] \in Nat
    BY SettingsAssumption
  <1>2. DOMAIN cfg.questions \subseteq Nat
    <2>1. DOMAIN cfg.questions = 1 .. Len(cfg.questions) /\ Len(cfg.questions) \in Nat
      BY <1>1, Sequences
    <2> QED BY <2>1
  <1>3. ASSUME NEW q \in ToSet(cfg.questions) PROVE HashQuery(q) \in DOMAIN cfg.questions
    <2>1. \E i \in DOMAIN cfg.questions : cfg.questions[i] = q
      BY DEF ToSet
    <2> QED BY <2>1 DEF HashQuery
  <1> QED BY <1>1, <1>2, <1>3

\* What getTTL makes of the TTL upstream gave.
Granted(m, ttl) ==
    IF negative(m) THEN Smaller(Larger(Larger(ttl, NegativeFloor), DefaultNegative), NegativeCeiling)
    ELSE Smaller(ttl, PositiveCeiling)

LEMMA TTLGranted ==
    ASSUME NEW m, NEW ttl \in Nat
    PROVE  getTTL(m, ttl) \in Nat /\ Granted(m, ttl) \in Nat /\ getTTL(m, ttl) <= Granted(m, ttl)
  <1> DEFINE f == NegativeFloor
             d == DefaultNegative
             c == NegativeCeiling
             p == PositiveCeiling
             signed == \E i \in DOMAIN m.ns : m.ns[i].type = "SOA"
  <1>1. f \in Nat /\ d \in Nat /\ c \in Nat /\ p \in Nat /\ f <= d /\ d <= c
    BY BoundsAssumption
  <1>2. CASE ~negative(m)
    <2>1. getTTL(m, ttl) = IF ttl < p THEN ttl ELSE p
      BY <1>2 DEF getTTL
    <2>2. Granted(m, ttl) = IF ttl < p THEN ttl ELSE p
      BY <1>2 DEF Granted, Smaller
    <2> QED BY <1>1, <2>1, <2>2
  <1>3. CASE negative(m)
    <2>1. Granted(m, ttl) = Smaller(Larger(Larger(ttl, f), d), c)
      BY <1>3 DEF Granted
    <2>2. CASE signed
      <3>1. getTTL(m, ttl) = IF ttl < f THEN f ELSE IF ttl > c THEN c ELSE ttl
        BY <1>3, <2>2 DEF getTTL
      <3> HIDE DEF f, d, c, p, signed
      <3> QED BY <1>1, <2>1, <3>1 DEF Smaller, Larger
    <2>3. CASE ~signed
      <3>1. getTTL(m, ttl) = d
        BY <1>3, <2>3 DEF getTTL
      <3> HIDE DEF f, d, c, p, signed
      <3> QED BY <1>1, <2>1, <3>1 DEF Smaller, Larger
    <2> QED BY <2>2, <2>3
  <1> QED BY <1>2, <1>3

LEMMA ClampBounds ==
    ASSUME NEW least \in Nat, NEW most \in Nat, NEW r \in Nat, NEW g \in Nat, r <= g
    PROVE  Clamp(r, least, most) <= Larger(IF most > 0 THEN Smaller(g, most) ELSE g, least)
  BY DEF Clamp, Larger, Smaller

\* The policy keeps a fresh answer within its lifetime.
LEMMA EntryStored ==
    ASSUME cfg \in ToSet(Settings), now \in Nat, NEW q \in ToSet(cfg.questions), NEW m,
           NEW ttl \in Nat, NEW verdict
    PROVE  LET given == Entry(q, m, ttl, verdict)
               e == applyTTLPolicy(cfg.opts, given, now)
           IN IsEntry(given) /\ IsStored(e) /\ e.refreshing = FALSE
  <1> DEFINE given == Entry(q, m, ttl, verdict)
             e == applyTTLPolicy(cfg.opts, given, now)
             r == getTTL(m, ttl)
             g == Granted(m, ttl)
             opts == cfg.opts
             o == [upstream |-> ttl, negative |-> negative(m), bogus |-> verdict = "bogus"]
             bogus == verdict = "bogus"
  <1>1. r \in Nat /\ g \in Nat /\ r <= g
    BY TTLGranted
  <1>2. cfg.size[HashQuery(q)] \in Nat
    BY CacheSettings
  <1>3. negative(m) \in BOOLEAN
    BY DEF negative
  <1>4. /\ DOMAIN given = EntryFields /\ given.expiresAt = now + r
        /\ given.data.born = now /\ given.data.ttl = ttl /\ given.negative = negative(m)
        /\ given.bogus = bogus /\ given.refreshing = FALSE
        /\ given.size = cfg.size[HashQuery(q)]
    BY DEF Entry, EntryFields
  <1> HIDE DEF given, r, g
  <1>5. IsEntry(given)
    BY <1>1, <1>2, <1>4 DEF IsEntry
  <1>6. given.expiresAt - now = r
    BY <1>1, <1>4
  <1>7. IsOptions(opts)
    BY CacheSettings
  <1>8. /\ IsEntry(e) /\ e.expiresAt = now + PolicyTTL(opts, given, r)
        /\ \A f \in EntryFields \ {"expiresAt"} : e[f] = given[f]
    BY <1>5, <1>6, <1>7, PolicyKeepsEntry
  <1> HIDE DEF e
  <1>9. /\ e.data = given.data /\ e.negative = negative(m) /\ e.bogus = bogus
        /\ e.refreshing = FALSE
    BY <1>4, <1>8 DEF EntryFields
  <1>10. Origin(e) = o
    BY <1>4, <1>9 DEF Origin
  <1>11. PolicyTTL(opts, given, r) \in Int /\ PolicyTTL(opts, given, r) <= Lifetime(o)
    <2>1. o.upstream = ttl /\ o.negative = negative(m) /\ o.bogus = bogus
      OBVIOUS
    <2> HIDE DEF o
    <2>2. CASE bogus /\ opts.bogusTTL > 0
      <3>1. PolicyTTL(opts, given, r) = opts.bogusTTL /\ Lifetime(o) = opts.bogusTTL
        BY <1>4, <2>1, <2>2 DEF PolicyTTL, Lifetime
      <3> QED BY <1>7, <3>1 DEF IsOptions
    <2>3. CASE ~(bogus /\ opts.bogusTTL > 0) /\ negative(m)
      <3> DEFINE least == opts.minNegative
                 most == opts.maxNegative
      <3>1. least \in Nat /\ most \in Nat
        BY <1>7 DEF IsOptions
      <3>2. PolicyTTL(opts, given, r) = Clamp(r, least, most)
        BY <1>4, <2>3 DEF PolicyTTL
      <3>3. Lifetime(o) = Larger(IF most > 0 THEN Smaller(g, most) ELSE g, least)
        BY <2>1, <2>3 DEF Lifetime, g, Granted
      <3> HIDE DEF least, most
      <3>4. Clamp(r, least, most) \in Int
        BY <1>1, <3>1 DEF Clamp
      <3> QED BY <1>1, <3>1, <3>2, <3>3, <3>4, ClampBounds
    <2>4. CASE ~(bogus /\ opts.bogusTTL > 0) /\ ~negative(m)
      <3> DEFINE least == opts.minTTL
                 most == opts.maxTTL
      <3>1. least \in Nat /\ most \in Nat
        BY <1>7 DEF IsOptions
      <3>2. PolicyTTL(opts, given, r) = Clamp(r, least, most)
        BY <1>4, <2>4 DEF PolicyTTL
      <3>3. Lifetime(o) = Larger(IF most > 0 THEN Smaller(g, most) ELSE g, least)
        BY <2>1, <2>4 DEF Lifetime, g, Granted
      <3> HIDE DEF least, most
      <3>4. Clamp(r, least, most) \in Int
        BY <1>1, <3>1 DEF Clamp
      <3> QED BY <1>1, <3>1, <3>2, <3>3, <3>4, ClampBounds
    <2> QED BY <2>2, <2>3, <2>4
  <1>12. e.expiresAt - e.data.born = PolicyTTL(opts, given, r)
    <2>1. e.data.born = now
      BY <1>4, <1>9
    <2>2. \A a \in Nat, b \in Int : (a + b) - a = b
      OBVIOUS
    <2> QED BY <1>8, <1>11, <2>1, <2>2
  <1>13. IsStored(e)
    <2>1. e.data.born \in Nat /\ e.data.ttl \in Nat
      BY <1>4, <1>9
    <2>2. e.refreshing \in BOOLEAN /\ e.negative \in BOOLEAN /\ e.bogus \in BOOLEAN
      BY <1>3, <1>9
    <2>3. e.expiresAt - e.data.born <= Lifetime(Origin(e))
      BY <1>10, <1>11, <1>12
    <2> QED BY <1>8, <2>1, <2>2, <2>3 DEF IsStored
  <1> QED BY <1>5, <1>9, <1>13 DEF given, e

-----------------------------------------------------------------------------
(* The shard through the resolver's steps.                                 *)

LEMMA StoreShrinks ==
    ASSUME StoreInv, cfg \in ToSet(Settings), UNCHANGED cfg,
           IsShard(cfg.opts, shard'), Shrinks(shard', shard)
    PROVE  StoreInv'
  <1>1. WithinLimits(cfg.opts, shard')
    BY CacheSettings, ShrunkenWithin DEF StoreInv
  <1>2. \A h \in DOMAIN shard'.entries :
           h \in DOMAIN cfg.questions /\ IsStored(shard'.entries[h])
    BY DEF StoreInv, Shrinks
  <1>3. \A e : IsStored(e)' <=> IsStored(e)
    BY DEF IsStored, Lifetime, IsEntry, Origin
  <1> QED BY <1>1, <1>2, <1>3 DEF StoreInv

LEMMA StoreRests ==
    ASSUME StoreInv, UNCHANGED <<cfg, shard>>
    PROVE  StoreInv'
  <1>1. \A e : IsStored(e)' <=> IsStored(e)
    BY DEF IsStored, Lifetime, IsEntry, Origin
  <1> QED BY <1>1 DEF StoreInv

\* An answer is stored.
LEMMA StoreGrows ==
    ASSUME StoreInv, cfg \in ToSet(Settings), now \in Nat, UNCHANGED cfg,
           NEW q \in ToSet(cfg.questions), NEW m, NEW ttl \in Nat, NEW verdict,
           shard' = ShardSet(cfg.opts, shard, HashQuery(q), Entry(q, m, ttl, verdict), now)
    PROVE  /\ StoreInv'
           /\ \A h \in DOMAIN shard'.entries :
                 \/ ~shard'.entries[h].refreshing
                 \/ h \in DOMAIN shard.entries /\ shard'.entries[h] = shard.entries[h]
  <1> DEFINE given == Entry(q, m, ttl, verdict)
             e == applyTTLPolicy(cfg.opts, given, now)
             hash == HashQuery(q)
  <1>1. hash \in DOMAIN cfg.questions /\ hash \in Nat /\ IsOptions(cfg.opts)
    BY CacheSettings
  <1>2. IsEntry(given) /\ IsStored(e) /\ e.refreshing = FALSE
    BY EntryStored
  <1>3. IsShard(cfg.opts, shard) /\ WithinLimits(cfg.opts, shard) /\ now \in Int
    BY DEF StoreInv
  <1>4. shard' = ShardSet(cfg.opts, shard, hash, given, now)
    OBVIOUS
  <1> HIDE DEF given, hash
  <1>5. /\ IsShard(cfg.opts, shard') /\ WithinLimits(cfg.opts, shard')
        /\ \A h \in DOMAIN shard'.entries :
              \/ h = hash /\ shard'.entries[h] = e
              \/ h \in DOMAIN shard.entries /\ shard'.entries[h] = shard.entries[h]
    BY <1>1, <1>2, <1>3, <1>4, SetKeeps
  <1> HIDE DEF e
  <1>6. \A h \in DOMAIN shard'.entries :
           h \in DOMAIN cfg.questions /\ IsStored(shard'.entries[h])
    BY <1>1, <1>2, <1>5 DEF StoreInv
  <1>7. \A f : IsStored(f)' <=> IsStored(f)
    BY DEF IsStored, Lifetime, IsEntry, Origin
  <1> QED BY <1>2, <1>5, <1>6, <1>7 DEF StoreInv

\* A refreshing flag is set or cleared.
LEMMA StoreFlags ==
    ASSUME StoreInv, UNCHANGED cfg, NEW hash, NEW flag \in BOOLEAN,
           shard' = [shard EXCEPT !.entries[hash].refreshing = flag]
    PROVE  /\ StoreInv' /\ DOMAIN shard'.entries = DOMAIN shard.entries
           /\ \A h \in DOMAIN shard.entries :
                 /\ h # hash => shard'.entries[h] = shard.entries[h]
                 /\ h = hash => shard'.entries[h].refreshing = flag
  <1>1. \A h \in DOMAIN shard.entries : DOMAIN shard.entries[h] = EntryFields
    BY DEF StoreInv, IsStored, IsEntry
  <1>2. /\ IsShard(cfg.opts, shard') /\ WithinLimits(cfg.opts, shard')
        /\ DOMAIN shard'.entries = DOMAIN shard.entries
        /\ \A h \in DOMAIN shard.entries :
              shard'.entries[h] = IF h = hash THEN [shard.entries[h] EXCEPT !.refreshing = flag]
                                  ELSE shard.entries[h]
    BY <1>1, FlagKeeps DEF StoreInv
  <1>3. ASSUME NEW h \in DOMAIN shard.entries
        PROVE  /\ IsStored(shard'.entries[h])
               /\ h = hash => shard'.entries[h].refreshing = flag
    <2>1. CASE h # hash
      BY <1>2, <2>1 DEF StoreInv
    <2>2. CASE h = hash
      <3> DEFINE e == shard.entries[h]
                 f == [e EXCEPT !.refreshing = flag]
      <3>1. IsStored(e)
        BY DEF StoreInv
      <3>2. DOMAIN f = DOMAIN e /\ f.refreshing = flag
            /\ \A x \in EntryFields \ {"refreshing"} : f[x] = e[x]
        BY <3>1 DEF IsStored, IsEntry, EntryFields
      <3> HIDE DEF e, f
      <3>3. /\ f.data = e.data /\ f.expiresAt = e.expiresAt /\ f.negative = e.negative
            /\ f.bogus = e.bogus /\ f.size = e.size
        BY <3>2 DEF EntryFields
      <3>4. Origin(f) = Origin(e)
        BY <3>3 DEF Origin
      <3>5. IsStored(f)
        BY <3>1, <3>2, <3>3, <3>4 DEF IsStored, IsEntry
      <3>6. shard'.entries[h] = f
        BY <1>2, <2>2 DEF e, f
      <3> QED BY <3>2, <3>5, <3>6
    <2> QED BY <2>1, <2>2
  <1>4. \A f : IsStored(f)' <=> IsStored(f)
    BY DEF IsStored, Lifetime, IsEntry, Origin
  <1>5. StoreInv'
    BY <1>2, <1>3, <1>4 DEF StoreInv
  <1> QED BY <1>2, <1>3, <1>5

-----------------------------------------------------------------------------
(* What callers are given.                                                 *)

LEMMA SameLifetime ==
    ASSUME NEW g, NEW e, g.upstream = e.data.ttl, g.negative = e.negative, g.bogus = e.bogus
    PROVE  Lifetime(g) = Lifetime(Origin(e))
  BY DEF Lifetime, Origin

LEMMA LifetimeIsTime ==
    ASSUME cfg \in ToSet(Settings), NEW e, IsStored(e)
    PROVE  Lifetime(Origin(e)) \in Nat
  <1>1. /\ NegativeFloor \in Nat /\ DefaultNegative \in Nat /\ NegativeCeiling \in Nat
        /\ PositiveCeiling \in Nat
    BY BoundsAssumption
  <1>2. IsOptions(cfg.opts) /\ e.data.ttl \in Nat
    BY CacheSettings DEF IsStored
  <1> QED BY <1>1, <1>2 DEF Lifetime, Origin, Larger, Smaller, IsOptions

\* An entry that may be used is given out in time, fresh or stale.
LEMMA UsableInTime ==
    ASSUME cfg \in ToSet(Settings), now \in Nat, NEW e, IsStored(e), Usable(cfg.opts, e, now)
    PROVE  GivenInTime(FromCache(e)) /\ GivenInTime(Given(e, "stale", 0))
  <1> DEFINE L == Lifetime(Origin(e))
             stale == cfg.opts.maxStale
             born == e.data.born
             ends == e.expiresAt
             ttl == e.data.ttl
  <1>1. /\ L \in Nat /\ stale \in Nat /\ born \in Nat /\ ends \in Int /\ ttl \in Nat
        /\ ends - born <= L
    BY LifetimeIsTime, CacheSettings DEF IsStored, IsEntry, IsOptions
  <1>2. now > ends => cfg.opts.serveStale /\ now - ends < stale
    BY DEF Usable, IsExpired, IsStale
  <1>3. /\ ageCachedTTL(e) \in Nat /\ ageCachedTTL(e) <= ttl
        /\ now > ends => ageCachedTTL(e) = 0
        /\ now <= ends => now + ageCachedTTL(e) <= ends
    BY <1>1 DEF ageCachedTTL
  <1>4. ASSUME NEW left \in Nat, left <= ttl, now > ends => left = 0,
               now <= ends => now + left <= ends,
               NEW got, got.at = now, got.born = born, got.ttl = left, got.upstream = ttl,
               got.negative = e.negative, got.bogus = e.bogus
        PROVE  GivenInTime(got)
    <2>1. Lifetime(got) = L
      BY <1>4, SameLifetime
    <2> HIDE DEF L, stale, born, ends, ttl
    <2>2. now - born > L => now > ends
      BY <1>1
    <2>3. now - born > L => now - born < L + stale
      BY <1>1, <1>2, <2>2
    <2>4. now - born + left <= L + stale
      <3>1. CASE now > ends
        BY <1>1, <1>2, <1>4, <3>1
      <3>2. CASE now <= ends
        BY <1>1, <1>4, <3>2
      <3> QED BY <1>1, <3>1, <3>2
    <2> QED BY <1>2, <1>4, <2>1, <2>2, <2>3, <2>4 DEF GivenInTime, stale
  <1> HIDE DEF L, stale, born, ends, ttl
  <1>5. GivenInTime(FromCache(e))
    <2>1. CASE e.bogus
      <3>1. FromCache(e).via = "quarantine"
        BY <2>1 DEF FromCache, NoAnswer
      <3> QED BY <3>1 DEF GivenInTime
    <2>2. CASE ~e.bogus
      <3> DEFINE got == Given(e, "cache", ageCachedTTL(e))
      <3>1. /\ got.at = now /\ got.born = born /\ got.ttl = ageCachedTTL(e) /\ got.upstream = ttl
            /\ got.negative = e.negative /\ got.bogus = e.bogus
        BY DEF Given, born, ttl
      <3>2. FromCache(e) = got
        BY <2>2 DEF FromCache
      <3> HIDE DEF got
      <3> QED BY <1>3, <1>4, <3>1, <3>2
    <2> QED BY <2>1, <2>2
  <1>6. GivenInTime(Given(e, "stale", 0))
    <2> DEFINE got == Given(e, "stale", 0)
    <2>1. /\ got.at = now /\ got.born = born /\ got.ttl = 0 /\ got.upstream = ttl
          /\ got.negative = e.negative /\ got.bogus = e.bogus
      BY DEF Given, born, ttl
    <2>2. now <= ends => now + 0 <= ends
      BY <1>1
    <2> HIDE DEF got
    <2>3. 0 \in Nat /\ 0 <= ttl
      BY <1>1
    <2>4. GivenInTime(got)
      BY <1>4, <2>1, <2>2, <2>3
    <2> QED BY <2>4 DEF got
  <1> QED BY <1>5, <1>6

\* Answers that do not come from the cache promise nothing of the kind.
LEMMA OthersInTime ==
    /\ \A got : got.via \notin {"cache", "stale"} => GivenInTime(got)
    /\ GivenInTime(NoAnswer) /\ GivenInTime(Error) /\ GivenInTime(Resting.got)
  BY DEF GivenInTime, NoAnswer, Error, Resting

LEMMA AnswersRest ==
    ASSUME AnswersInv, UNCHANGED cfg,
           \A k \in DOMAIN flights' : FromUpstream(flights'[k].result),
           \A c \in DOMAIN callers' :
              FromUpstream(callers'[c].box) /\ GivenInTime(callers'[c].got)
    PROVE  AnswersInv'
  <1>1. \A got : GivenInTime(got)' <=> GivenInTime(got)
    BY DEF GivenInTime, Lifetime
  <1> QED BY <1>1 DEF AnswersInv, FromUpstream, Told

-----------------------------------------------------------------------------
(* Refreshes and the flags they own.                                       *)

Owned(h) == \E r \in refreshers : r.owner /\ HashQuery(r.q) = h

LEMMA FlagsRest ==
    ASSUME RefreshFlagsOwned, UNCHANGED <<cfg, shard, refreshers>>
    PROVE  RefreshFlagsOwned'
  BY DEF RefreshFlagsOwned, HashQuery

LEMMA FlagsDisowned ==
    ASSUME RefreshFlagsOwned, UNCHANGED cfg, refreshers' = Disown(refreshers, shard'),
           \A h \in DOMAIN shard'.entries :
              \/ ~shard'.entries[h].refreshing
              \/ h \in DOMAIN shard.entries /\ shard'.entries[h] = shard.entries[h]
    PROVE  RefreshFlagsOwned'
  <1>1. ASSUME NEW h \in DOMAIN shard'.entries, shard'.entries[h].refreshing
        PROVE  \E r \in refreshers' : r.owner /\ HashQuery(r.q) = h
    <2>1. h \in DOMAIN shard.entries /\ shard.entries[h].refreshing
      BY <1>1
    <2>2. PICK r \in refreshers : r.owner /\ HashQuery(r.q) = h
      BY <2>1 DEF RefreshFlagsOwned
    <2>3. r \in refreshers'
      BY <1>1, <2>2 DEF Disown
    <2> QED BY <2>2, <2>3
  <1> QED BY <1>1 DEF RefreshFlagsOwned, HashQuery

\* The refreshers keep their flags, whatever they do next.
LEMMA FlagsFollow ==
    ASSUME RefreshFlagsOwned, UNCHANGED <<cfg, shard>>,
           \A r \in refreshers : \E s \in refreshers' : s.q = r.q /\ s.owner = r.owner
    PROVE  RefreshFlagsOwned'
  <1>1. ASSUME NEW h \in DOMAIN shard.entries, shard.entries[h].refreshing
        PROVE  \E s \in refreshers' : s.owner /\ HashQuery(s.q) = h
    <2>1. PICK r \in refreshers : r.owner /\ HashQuery(r.q) = h
      BY <1>1 DEF RefreshFlagsOwned
    <2>2. PICK s \in refreshers' : s.q = r.q /\ s.owner = r.owner
      OBVIOUS
    <2> QED BY <2>1, <2>2
  <1> QED BY <1>1 DEF RefreshFlagsOwned, HashQuery

LEMMA FlagsStart ==
    ASSUME StoreInv, RefreshFlagsOwned, UNCHANGED cfg, NEW q, NEW entry, StartRefresh(q, entry)
    PROVE  StoreInv' /\ RefreshFlagsOwned'
  <1>1. CASE ~WantsPrefetch(cfg.opts, entry, now)
    <2>1. UNCHANGED <<cfg, shard, refreshers>>
      BY <1>1 DEF StartRefresh
    <2> QED BY <2>1, StoreRests, FlagsRest
  <1>2. CASE WantsPrefetch(cfg.opts, entry, now)
    <2> DEFINE new == [q |-> q, at |-> "joining", owner |-> TRUE]
               hash == HashQuery(q)
    <2>1. /\ shard' = [shard EXCEPT !.entries[hash].refreshing = TRUE]
          /\ refreshers' = refreshers \cup {new}
      BY <1>2 DEF StartRefresh
    <2> HIDE DEF hash
    <2>2. /\ StoreInv' /\ DOMAIN shard'.entries = DOMAIN shard.entries
          /\ \A h \in DOMAIN shard.entries : h # hash => shard'.entries[h] = shard.entries[h]
      BY <2>1, StoreFlags
    <2>3. new \in refreshers' /\ new.owner /\ HashQuery(new.q) = hash
      BY <2>1 DEF hash
    <2> HIDE DEF new
    <2>4. ASSUME NEW h \in DOMAIN shard'.entries, shard'.entries[h].refreshing
          PROVE  \E r \in refreshers' : r.owner /\ HashQuery(r.q) = h
      <3>1. CASE h = hash
        BY <2>3, <3>1
      <3>2. CASE h # hash
        BY <2>1, <2>2, <2>4, <3>2 DEF RefreshFlagsOwned
      <3> QED BY <3>1, <3>2
    <2>5. RefreshFlagsOwned'
      BY <2>4 DEF RefreshFlagsOwned, HashQuery
    <2> QED BY <2>2, <2>5
  <1> QED BY <1>1, <1>2

LEMMA FlagsEnd ==
    ASSUME StoreInv, RefreshFlagsOwned, NEW r \in refreshers, r.owner \in BOOLEAN, EndRefresh(r)
    PROVE  StoreInv' /\ RefreshFlagsOwned'
  <1>1. UNCHANGED cfg /\ refreshers' = refreshers \ {r}
    BY DEF EndRefresh
  <1>2. CASE ~r.owner
    <2>1. shard' = shard
      BY <1>2 DEF EndRefresh
    <2>2. StoreInv'
      BY <1>1, <2>1, StoreRests
    <2>3. ASSUME NEW h \in DOMAIN shard.entries, shard.entries[h].refreshing
          PROVE  \E s \in refreshers' : s.owner /\ HashQuery(s.q) = h
      <3>1. PICK s \in refreshers : s.owner /\ HashQuery(s.q) = h
        BY <2>3 DEF RefreshFlagsOwned
      <3> QED BY <1>1, <1>2, <3>1
    <2>4. RefreshFlagsOwned'
      BY <1>1, <2>1, <2>3 DEF RefreshFlagsOwned, HashQuery
    <2> QED BY <2>2, <2>4
  <1>3. CASE r.owner
    <2> DEFINE hash == HashQuery(r.q)
    <2>1. shard' = [shard EXCEPT !.entries[hash].refreshing = FALSE]
      BY <1>3 DEF EndRefresh
    <2> HIDE DEF hash
    <2>2. /\ StoreInv' /\ DOMAIN shard'.entries = DOMAIN shard.entries
          /\ \A h \in DOMAIN shard.entries :
                /\ h # hash => shard'.entries[h] = shard.entries[h]
                /\ h = hash => shard'.entries[h].refreshing = FALSE
      BY <1>1, <2>1, StoreFlags
    <2>3. ASSUME NEW h \in DOMAIN shard'.entries, shard'.entries[h].refreshing
          PROVE  \E s \in refreshers' : s.owner /\ HashQuery(s.q) = h
      <3>1. h \in DOMAIN shard.entries /\ h # hash /\ shard.entries[h].refreshing
        BY <2>2, <2>3
      <3>2. PICK s \in refreshers : s.owner /\ HashQuery(s.q) = h
        BY <3>1 DEF RefreshFlagsOwned
      <3>3. s # r
        BY <3>1, <3>2 DEF hash
      <3> QED BY <1>1, <3>2, <3>3
    <2>4. RefreshFlagsOwned'
      BY <1>1, <2>3 DEF RefreshFlagsOwned, HashQuery
    <2> QED BY <2>2, <2>4
  <1> QED BY <1>2, <1>3

LEMMA FlagsLand ==
    ASSUME ClientsInv, RefreshFlagsOwned, UNCHANGED <<cfg, shard>>,
           NEW key, NEW result, Land(key, result)
    PROVE  RefreshFlagsOwned'
  <1>1. ASSUME NEW r \in refreshers
        PROVE  \E s \in refreshers' : s.q = r.q /\ s.owner = r.owner
    <2> DEFINE s == IF r.at = "waiting" /\ FlightKey(r.q) = key
                    THEN [r EXCEPT !.at = "ending"] ELSE r
    <2>1. DOMAIN r = {"q", "at", "owner"}
      BY DEF ClientsInv, IsRefresher
    <2>2. s.q = r.q /\ s.owner = r.owner
      BY <2>1
    <2>3. s \in refreshers'
      BY DEF Land
    <2> HIDE DEF s
    <2> QED BY <2>2, <2>3
  <1> QED BY <1>1, FlagsFollow

LEMMA FlagsJoin ==
    ASSUME ClientsInv, RefreshFlagsOwned, NEW r \in refreshers, JoinRefresh(r)
    PROVE  RefreshFlagsOwned'
  <1> DEFINE w == [r EXCEPT !.at = "waiting"]
  <1>1. DOMAIN r = {"q", "at", "owner"}
    BY DEF ClientsInv, IsRefresher
  <1>2. w.q = r.q /\ w.owner = r.owner
    BY <1>1
  <1>3. refreshers' = (refreshers \ {r}) \cup {w} /\ UNCHANGED <<cfg, shard>>
    BY DEF JoinRefresh
  <1> HIDE DEF w
  <1>4. \A s \in refreshers : \E t \in refreshers' : t.q = s.q /\ t.owner = s.owner
    BY <1>2, <1>3
  <1> QED BY <1>3, <1>4, FlagsFollow

-----------------------------------------------------------------------------
(* Answers, flights and the calls that take them.                          *)

LEMMA FoundInTime ==
    ASSUME StoreInv, cfg \in ToSet(Settings), now \in Nat, NEW q, NEW entry \in Found(q)
    PROVE  GivenInTime(FromCache(entry)) /\ GivenInTime(Given(entry, "stale", 0))
  <1>1. IsStored(entry) /\ Usable(cfg.opts, entry, now)
    BY DEF StoreInv, Found
  <1> QED BY <1>1, UsableInTime

\* One caller moves, flights are told nothing new.
LEMMA CallerAnswered ==
    ASSUME AnswersInv, UNCHANGED cfg, NEW c \in DOMAIN callers, NEW r,
           callers' = [callers EXCEPT ![c] = r], FromUpstream(r.box), GivenInTime(r.got),
           \A k \in DOMAIN flights' : FromUpstream(flights'[k].result)
    PROVE  AnswersInv'
  <1>1. DOMAIN callers' = DOMAIN callers /\ callers'[c] = r
        /\ \A d \in DOMAIN callers : d # c => callers'[d] = callers[d]
    OBVIOUS
  <1>2. \A d \in DOMAIN callers' :
           FromUpstream(callers'[d].box) /\ GivenInTime(callers'[d].got)
    BY <1>1 DEF AnswersInv
  <1> QED BY <1>2, AnswersRest

LEMMA AnswersUnchanged ==
    ASSUME AnswersInv, UNCHANGED <<cfg, flights, callers>>
    PROVE  AnswersInv'
  BY AnswersRest DEF AnswersInv

LEMMA FinishAnswers ==
    ASSUME AnswersInv, ClientsInv, UNCHANGED cfg, NEW c \in DOMAIN callers, NEW got,
           Finish(c, got), GivenInTime(got),
           \A k \in DOMAIN flights' : FromUpstream(flights'[k].result)
    PROVE  AnswersInv'
  <1> DEFINE r == [callers[c] EXCEPT !.at = "done", !.got = got, !.box = <<>>]
  <1>1. DOMAIN callers[c] = CallerFields
    BY DEF ClientsInv, IsCaller
  <1>2. r.box = <<>> /\ r.got = got
    BY <1>1 DEF CallerFields
  <1>3. callers' = [callers EXCEPT ![c] = r]
    BY DEF Finish
  <1> HIDE DEF r
  <1>4. FromUpstream(r.box)
    BY <1>2 DEF FromUpstream
  <1> QED BY <1>2, <1>3, <1>4, CallerAnswered

\* The last resort answers from the cache, or with the error.
LEMMA LastResortAnswers ==
    ASSUME StoreInv, RefreshFlagsOwned, AnswersInv, ClientsInv, cfg \in ToSet(Settings),
           now \in Nat, UNCHANGED cfg, NEW c \in DOMAIN callers, LastResort(c),
           \A k \in DOMAIN flights' : FromUpstream(flights'[k].result)
    PROVE  StoreInv' /\ RefreshFlagsOwned' /\ AnswersInv'
  <1> DEFINE q == callers[c].q
             answers == callers[c].kind = "resolve" /\ cfg.opts.serveStale /\ Found(q) # {}
  <1>1. CASE answers
    <2>1. PICK entry \in Found(q) : Finish(c, Given(entry, "stale", 0)) /\ StartRefresh(q, entry)
      BY <1>1 DEF LastResort
    <2>2. GivenInTime(Given(entry, "stale", 0))
      BY FoundInTime
    <2>3. AnswersInv'
      BY <2>1, <2>2, FinishAnswers
    <2>4. StoreInv' /\ RefreshFlagsOwned'
      BY <2>1, FlagsStart
    <2> QED BY <2>3, <2>4
  <1>2. CASE ~answers
    <2>1. Finish(c, Error) /\ UNCHANGED <<shard, refreshers>>
      BY <1>2 DEF LastResort
    <2>2. AnswersInv'
      BY <2>1, OthersInTime, FinishAnswers
    <2> QED BY <2>1, <2>2, StoreRests, FlagsRest
  <1> QED BY <1>1, <1>2

\* A flight lands with what it was told, or with the error.
LEMMA ErrorIsTold == Told(Error)
  BY DEF Told, Error, NoAnswer

LEMMA LandAnswers ==
    ASSUME AnswersInv, ClientsInv, UNCHANGED cfg, NEW key, NEW result, Told(result),
           Land(key, result)
    PROVE  AnswersInv'
  <1>1. \A k \in DOMAIN flights' : k \in DOMAIN flights /\ flights'[k] = flights[k]
    BY DEF Land, Restrict
  <1>2. FromUpstream(<<result>>)
    BY DEF FromUpstream
  <1>3. ASSUME NEW c \in DOMAIN callers'
        PROVE  FromUpstream(callers'[c].box) /\ GivenInTime(callers'[c].got)
    <2> DEFINE r == [callers[c] EXCEPT !.box = <<result>>]
    <2>1. c \in DOMAIN callers /\ (callers'[c] = r \/ callers'[c] = callers[c])
      BY DEF Land
    <2>2. DOMAIN callers[c] = CallerFields
      BY <2>1 DEF ClientsInv, IsCaller
    <2>3. r.box = <<result>> /\ r.got = callers[c].got
      BY <2>2 DEF CallerFields
    <2> HIDE DEF r
    <2> QED BY <1>2, <2>1, <2>3 DEF AnswersInv
  <1> QED BY <1>1, <1>3, AnswersRest DEF AnswersInv

LEMMA JoinedAnswers ==
    ASSUME AnswersInv, PoolInv, NEW q, NEW waiter, flights' = Over(Joined(q, waiter), flights)
    PROVE  \A k \in DOMAIN flights' : FromUpstream(flights'[k].result)
  <1> DEFINE key == FlightKey(q)
             f == flights'[key]
  <1>1. \A k \in DOMAIN flights' : k # key => k \in DOMAIN flights /\ flights'[k] = flights[k]
    BY DEF Over, Joined, At
  <1>2. f = IF key \in DOMAIN flights THEN [flights[key] EXCEPT !.waiters = @ \cup {waiter}]
            ELSE [at |-> "submit", q |-> q, waiters |-> {waiter}, result |-> <<>>]
    BY DEF Over, Joined, At
  <1> HIDE DEF key, f
  <1>3. FromUpstream(f.result)
    <2>1. CASE key \in DOMAIN flights
      <3>1. DOMAIN flights[key] = FlightFields
        BY <2>1 DEF PoolInv, FlightsOK, IsFlight
      <3>2. f.result = flights[key].result
        BY <1>2, <2>1, <3>1 DEF FlightFields
      <3> QED BY <2>1, <3>2 DEF AnswersInv
    <2>2. CASE key \notin DOMAIN flights
      <3>1. f.result = <<>>
        BY <1>2, <2>2
      <3> QED BY <3>1 DEF FromUpstream
    <2> QED BY <2>1, <2>2
  <1> QED BY <1>1, <1>3 DEF AnswersInv, f

LEMMA ReportAnswers ==
    ASSUME AnswersInv, PoolInv, UNCHANGED <<cfg, callers>>, NEW w \in DOMAIN work, NEW result,
           Told(result), Report(w, result)
    PROVE  AnswersInv'
  <1> DEFINE key == FlightKey(work[w].q)
  <1>1. FromUpstream(<<result>>)
    BY DEF FromUpstream
  <1>2. CASE ~work[w].awaited
    BY <1>2, AnswersUnchanged DEF Report
  <1>3. CASE work[w].awaited
    <2>1. flights' = [flights EXCEPT ![key].result = <<result>>]
      BY <1>3 DEF Report
    <2> HIDE DEF key
    <2>2. DOMAIN flights' = DOMAIN flights
          /\ \A k \in DOMAIN flights :
                flights'[k] = IF k = key THEN [flights[k] EXCEPT !.result = <<result>>]
                              ELSE flights[k]
      BY <2>1
    <2>3. ASSUME NEW k \in DOMAIN flights' PROVE FromUpstream(flights'[k].result)
      <3>1. DOMAIN flights[k] = FlightFields
        BY <2>2 DEF PoolInv, FlightsOK, IsFlight
      <3>2. CASE k = key
        <4>1. flights'[k].result = <<result>>
          BY <2>2, <3>1, <3>2 DEF FlightFields
        <4> QED BY <1>1, <4>1
      <3>3. CASE k # key
        BY <2>2, <3>3 DEF AnswersInv
      <3> QED BY <3>2, <3>3
    <2> QED BY <2>3, AnswersRest DEF AnswersInv
  <1> QED BY <1>2, <1>3

-----------------------------------------------------------------------------
(* The cache through every step.                                           *)

CacheInv == StoreInv /\ RefreshFlagsOwned /\ AnswersInv

\* A cache filled by earlier lookups is one the resolver could have filled.
LEMMA WarmKeeps ==
    ASSUME cfg \in ToSet(Settings), now = 0, NEW preload \in cfg.preloads, shard = Warm(preload)
    PROVE  StoreInv /\ \A h \in DOMAIN shard.entries : ~shard.entries[h].refreshing
  <1> DEFINE n == Len(preload)
             Step(s, i) == Preloaded(s, i, preload[i])
             Follows(f, m) == /\ f[0] = EmptyShard
                              /\ \A i \in 1 .. m : f[i] = Step(f[i - 1], i)
             Runs(f, m) == f = [i \in 0 .. m |-> IF i = 0 THEN EmptyShard ELSE Step(f[i - 1], i)]
             after == CHOOSE f : Runs(f, n)
             Good(s) == /\ IsShard(cfg.opts, s) /\ WithinLimits(cfg.opts, s)
                        /\ \A h \in DOMAIN s.entries :
                              /\ h \in DOMAIN cfg.questions /\ IsStored(s.entries[h])
                              /\ ~s.entries[h].refreshing
  <1>1. /\ n \in Nat /\ n <= Len(cfg.questions) /\ \A i \in 1 .. n : preload[i] \in Nat
        /\ DOMAIN cfg.questions = 1 .. Len(cfg.questions) /\ Len(cfg.questions) \in Nat
    <2>1. /\ IsSequence(preload) /\ Len(preload) <= Len(cfg.questions)
          /\ \A i \in DOMAIN preload : preload[i] \in Nat
          /\ IsSequence(cfg.questions)
      BY SettingsAssumption
    <2> QED BY <2>1, Sequences
  <1>2. \A s, i : Step(s, i) = Preloaded(s, i, preload[i])
    OBVIOUS
  <1> HIDE DEF n, Step
  <1>3. \A m \in 0 .. n : \E f : Runs(f, m)
    <2> DEFINE bad == {m \in Nat : ~\E f : Runs(f, m)}
    <2>1. bad = {}
      <3> SUFFICES ASSUME bad # {} PROVE FALSE
        OBVIOUS
      <3>1. PICK m \in bad : \A k \in bad : m <= k
        BY LeastNumber
      <3>2. m # 0
        <4> DEFINE f == [i \in 0 .. 0 |-> EmptyShard]
        <4>1. f[0] = EmptyShard
          OBVIOUS
        <4>2. f = [i \in 0 .. 0 |-> IF i = 0 THEN EmptyShard ELSE Step(f[i - 1], i)]
          OBVIOUS
        <4> QED BY <3>1, <4>2
      <3>3. m \in Nat /\ m - 1 \in Nat /\ m - 1 \notin bad
        <4>1. m \in Nat
          BY <3>1
        <4>2. m - 1 \in Nat
          BY <3>2, <4>1
        <4> HIDE DEF bad
        <4>3. ~(m <= m - 1)
          BY <4>1
        <4> QED BY <3>1, <4>1, <4>2, <4>3
      <3>4. PICK g : Runs(g, m - 1)
        BY <3>3
      <3> DEFINE h == [i \in 0 .. m |-> IF i = 0 THEN EmptyShard ELSE Step(g[i - 1], i)]
      <3>5. ASSUME NEW i \in 0 .. m - 1 PROVE h[i] = g[i]
        BY <3>3, <3>4
      <3>6. h = [i \in 0 .. m |-> IF i = 0 THEN EmptyShard ELSE Step(h[i - 1], i)]
        <4>1. ASSUME NEW i \in 0 .. m, i # 0 PROVE h[i - 1] = g[i - 1]
          <5>1. i - 1 \in 0 .. m - 1
            BY <3>3, <4>1
          <5> QED BY <3>5, <5>1
        <4> QED BY <4>1
      <3>7. Runs(h, m)
        BY <3>6
      <3> QED BY <3>1, <3>7
    <2> HIDE DEF Runs
    <2>2. 0 .. n \subseteq Nat
      BY <1>1
    <2> QED BY <2>1, <2>2
  <1>4. Runs(after, n)
    <2>1. n \in 0 .. n
      BY <1>1
    <2> HIDE DEF Runs
    <2> QED BY <1>3, <2>1
  <1>5. Warm(preload) = after[n]
    BY DEF Warm, after, Runs, Step, n
  <1> HIDE DEF after
  <1>6. Follows(after, n)
    BY <1>1, <1>4
  <1>7. Good(EmptyShard)
    <2>1. DOMAIN EmptyShard.entries = {} /\ EmptyShard.memory = 0
      BY DEF EmptyShard
    <2>2. IsOptions(cfg.opts)
      BY CacheSettings
    <2>3. WithinLimits(cfg.opts, EmptyShard)
      BY <2>1, <2>2, FS_EmptySet DEF WithinLimits, IsOptions
    <2> QED BY <2>1, <2>3, EmptyIsShard
  <1>8. ASSUME NEW s, Good(s), NEW i \in 1 .. n PROVE Good(Step(s, i))
    <2> DEFINE q == cfg.questions[i]
               m == Serve(cfg.env.servers[cfg.env.roots[1]], q.name, q.type)
               given == Entry(q, m, preload[i], "none")
               t == ShardSet(cfg.opts, s, i, given, 0)
               e == applyTTLPolicy(cfg.opts, given, 0)
    <2>1. i \in DOMAIN cfg.questions /\ i \in Nat /\ preload[i] \in Nat
      BY <1>1
    <2>2. q \in ToSet(cfg.questions)
      BY <2>1 DEF ToSet
    <2>3. Step(s, i) = t
      BY <1>2 DEF Preloaded
    <2> HIDE DEF q, m
    <2>4. IsEntry(given) /\ IsStored(e) /\ e.refreshing = FALSE
      BY <2>1, <2>2, EntryStored
    <2> HIDE DEF given
    <2>5. IsOptions(cfg.opts) /\ IsShard(cfg.opts, s) /\ WithinLimits(cfg.opts, s) /\ 0 \in Int
      BY <1>8, CacheSettings
    <2>6. /\ IsShard(cfg.opts, t) /\ WithinLimits(cfg.opts, t)
          /\ \A h \in DOMAIN t.entries :
                \/ h = i /\ t.entries[h] = e
                \/ h \in DOMAIN s.entries /\ t.entries[h] = s.entries[h]
      BY <2>1, <2>4, <2>5, SetKeeps
    <2> HIDE DEF t, e
    <2>7. \A h \in DOMAIN t.entries :
             /\ h \in DOMAIN cfg.questions /\ IsStored(t.entries[h])
             /\ ~t.entries[h].refreshing
      BY <1>8, <2>1, <2>4, <2>6
    <2> QED BY <2>3, <2>6, <2>7
  <1> HIDE DEF Good
  <1>9. \A i \in 0 .. n : Good(after[i])
    <2> DEFINE wrong == {i \in 0 .. n : ~Good(after[i])}
    <2>1. wrong = {}
      <3> SUFFICES ASSUME wrong # {} PROVE FALSE
        OBVIOUS
      <3>1. wrong \subseteq Nat
        BY <1>1
      <3>2. PICK i \in wrong : \A k \in wrong : i <= k
        <4> HIDE DEF wrong
        <4> QED BY <3>1, LeastNumber
      <3>3. i \in 0 .. n /\ ~Good(after[i])
        BY <3>2
      <3>4. i # 0
        BY <1>6, <1>7, <3>3
      <3>5. i \in 1 .. n /\ i - 1 \in 0 .. n /\ ~(i <= i - 1)
        BY <1>1, <3>3, <3>4
      <3>6. Good(after[i - 1])
        BY <3>2, <3>5
      <3>7. after[i] = Step(after[i - 1], i)
        BY <1>6, <3>5
      <3> QED BY <1>8, <3>3, <3>5, <3>6, <3>7
    <2> QED BY <2>1
  <1>10. Good(shard)
    <2>1. n \in 0 .. n
      BY <1>1
    <2> QED BY <1>5, <1>9, <2>1
  <1> QED BY <1>10 DEF Good, StoreInv

LEMMA CacheBegins == ASSUME Init PROVE CacheInv
  <1>1. cfg \in ToSet(Settings) /\ now = 0 /\ DOMAIN flights = {} /\ refreshers = {}
    BY DEF Init
  <1>2. PICK preload \in cfg.preloads : shard = Warm(preload)
    BY DEF Init
  <1>3. StoreInv /\ \A h \in DOMAIN shard.entries : ~shard.entries[h].refreshing
    BY <1>1, <1>2, WarmKeeps
  <1>4. RefreshFlagsOwned
    BY <1>3 DEF RefreshFlagsOwned
  <1>5. AnswersInv
    <2>1. Resting.box = <<>>
      BY DEF Resting
    <2>2. \A c \in DOMAIN callers : callers[c] = Resting
      BY DEF Init
    <2> QED BY <1>1, <2>1, <2>2, OthersInTime DEF AnswersInv, FromUpstream
  <1> QED BY <1>3, <1>4, <1>5 DEF CacheInv

LEMMA CacheRests ==
    ASSUME CacheInv, UNCHANGED <<cfg, shard, flights, callers, refreshers>>
    PROVE  CacheInv'
  BY StoreRests, FlagsRest, AnswersUnchanged DEF CacheInv

\* What the control invariant says to the lemmas on the cache.
LEMMA CacheContext ==
    ASSUME ControlInv, CacheInv
    PROVE  /\ cfg \in ToSet(Settings) /\ now \in Nat
           /\ PoolInv /\ ClientsInv /\ StoreInv /\ RefreshFlagsOwned /\ AnswersInv
           /\ \A k \in DOMAIN flights : FromUpstream(flights[k].result)
  <1>1. cfg \in ToSet(Settings) /\ now \in 0 .. cfg.maxTime
    BY DEF ControlInv, PoolInv, BoundsInv
  <1>2. now \in Nat
    BY <1>1, CacheSettings
  <1> QED BY <1>1, <1>2 DEF ControlInv, CacheInv, AnswersInv

LEMMA ResolveCaches ==
    ASSUME ControlInv, CacheInv, NEW c \in DOMAIN callers, NEW q,
           Resolve(c, q) \/ Prefetch(c, q)
    PROVE  CacheInv'
  <1>1. /\ cfg \in ToSet(Settings) /\ now \in Nat
        /\ StoreInv /\ RefreshFlagsOwned /\ AnswersInv
        /\ \A k \in DOMAIN flights : FromUpstream(flights[k].result)
    BY CacheContext
  <1>2. UNCHANGED <<cfg, now, flights>>
    BY DEF Resolve, Prefetch
  <1>3. \A k \in DOMAIN flights' : FromUpstream(flights'[k].result)
    BY <1>1, <1>2
  <1>4. \A kind : LET r == [Resting EXCEPT !.kind = kind, !.q = q, !.at = "joining"]
                  IN FromUpstream(r.box) /\ GivenInTime(r.got)
    BY OthersInTime DEF FromUpstream, Resting
  <1>5. CASE Prefetch(c, q)
    <2> DEFINE r == [Resting EXCEPT !.kind = "prefetch", !.q = q, !.at = "joining"]
    <2>1. callers' = [callers EXCEPT ![c] = r] /\ UNCHANGED <<shard, refreshers>>
      BY <1>5 DEF Prefetch
    <2>2. FromUpstream(r.box) /\ GivenInTime(r.got)
      BY <1>4
    <2> HIDE DEF r
    <2>3. AnswersInv'
      BY <1>1, <1>2, <1>3, <2>1, <2>2, CallerAnswered
    <2> QED BY <1>1, <1>2, <2>1, <2>3, StoreRests, FlagsRest DEF CacheInv
  <1>6. CASE Resolve(c, q) /\ Found(q) # {}
    <2>1. PICK entry \in Found(q) :
               /\ callers' = [callers EXCEPT ![c] = [Resting EXCEPT !.kind = "resolve", !.q = q,
                                                                    !.got = FromCache(entry)]]
               /\ StartRefresh(q, entry)
      BY <1>6 DEF Resolve
    <2> DEFINE r == [Resting EXCEPT !.kind = "resolve", !.q = q, !.got = FromCache(entry)]
    <2>2. callers' = [callers EXCEPT ![c] = r] /\ r.box = <<>> /\ r.got = FromCache(entry)
      BY <2>1 DEF Resting
    <2> HIDE DEF r
    <2>3. FromUpstream(r.box) /\ GivenInTime(r.got)
      BY <1>1, <2>2, FoundInTime DEF FromUpstream
    <2>4. AnswersInv'
      BY <1>1, <1>2, <1>3, <2>2, <2>3, CallerAnswered
    <2>5. StoreInv' /\ RefreshFlagsOwned'
      BY <1>1, <1>2, <2>1, FlagsStart
    <2> QED BY <2>4, <2>5 DEF CacheInv
  <1>7. CASE Resolve(c, q) /\ Found(q) = {}
    <2> DEFINE denied == [Resting EXCEPT !.kind = "resolve", !.q = q,
                          !.got = [NoAnswer EXCEPT !.via = "nsec", !.rcode = "NXDOMAIN", !.at = now]]
               joins == [Resting EXCEPT !.kind = "resolve", !.q = q, !.at = "joining"]
    <2>1. /\ \/ callers' = [callers EXCEPT ![c] = denied]
             \/ callers' = [callers EXCEPT ![c] = joins]
          /\ UNCHANGED <<shard, refreshers>>
      BY <1>7 DEF Resolve
    <2>2. FromUpstream(joins.box) /\ GivenInTime(joins.got)
      BY <1>4
    <2>3. denied.box = <<>> /\ denied.got.via = "nsec"
      BY DEF Resting, NoAnswer
    <2> HIDE DEF denied, joins
    <2>4. FromUpstream(denied.box) /\ GivenInTime(denied.got)
      BY <2>3, OthersInTime DEF FromUpstream
    <2>5. AnswersInv'
      BY <1>1, <1>2, <1>3, <2>1, <2>2, <2>4, CallerAnswered
    <2> QED BY <1>1, <1>2, <2>1, <2>5, StoreRests, FlagsRest DEF CacheInv
  <1> QED BY <1>5, <1>6, <1>7

LEMMA JoinCaches ==
    ASSUME ControlInv, CacheInv, NEW c \in DOMAIN callers, Join(c)
    PROVE  CacheInv'
  <1> DEFINE r == [callers[c] EXCEPT !.at = "waiting"]
  <1>1. PoolInv /\ ClientsInv /\ StoreInv /\ RefreshFlagsOwned /\ AnswersInv
    BY CacheContext
  <1>2. /\ flights' = Over(Joined(callers[c].q, c), flights)
        /\ callers' = [callers EXCEPT ![c] = r]
        /\ UNCHANGED <<cfg, shard, refreshers>>
    BY DEF Join
  <1>3. \A k \in DOMAIN flights' : FromUpstream(flights'[k].result)
    BY <1>1, <1>2, JoinedAnswers
  <1>4. DOMAIN callers[c] = CallerFields
    BY <1>1 DEF ClientsInv, IsCaller
  <1>5. r.box = callers[c].box /\ r.got = callers[c].got
    BY <1>4 DEF CallerFields
  <1> HIDE DEF r
  <1>6. FromUpstream(r.box) /\ GivenInTime(r.got)
    BY <1>1, <1>5 DEF AnswersInv
  <1>7. AnswersInv'
    BY <1>1, <1>2, <1>3, <1>6, CallerAnswered
  <1> QED BY <1>1, <1>2, <1>7, StoreRests, FlagsRest DEF CacheInv

LEMMA DeliverCaches ==
    ASSUME ControlInv, CacheInv, NEW c \in DOMAIN callers, Deliver(c) \/ Timeout(c)
    PROVE  CacheInv'
  <1>1. /\ cfg \in ToSet(Settings) /\ now \in Nat /\ PoolInv /\ ClientsInv
        /\ StoreInv /\ RefreshFlagsOwned /\ AnswersInv
        /\ \A k \in DOMAIN flights : FromUpstream(flights[k].result)
    BY CacheContext
  <1>2. UNCHANGED cfg
    BY DEF Deliver, Timeout
  <1>3. \A k \in DOMAIN flights' : FromUpstream(flights'[k].result)
    <2>1. CASE Deliver(c)
      BY <1>1, <2>1 DEF Deliver
    <2>2. CASE Timeout(c)
      <3>1. flights' = [k \in DOMAIN flights |-> [flights[k] EXCEPT !.waiters = @ \ {c}]]
        BY <2>2 DEF Timeout
      <3>2. ASSUME NEW k \in DOMAIN flights' PROVE FromUpstream(flights'[k].result)
        <4>1. DOMAIN flights[k] = FlightFields /\ k \in DOMAIN flights
          BY <1>1, <3>1 DEF PoolInv, FlightsOK, IsFlight
        <4>2. flights'[k].result = flights[k].result
          BY <3>1, <4>1 DEF FlightFields
        <4> QED BY <1>1, <4>1, <4>2
      <3> QED BY <3>2
    <2> QED BY <2>1, <2>2
  <1>4. CASE LastResort(c)
    BY <1>1, <1>2, <1>3, <1>4, LastResortAnswers DEF CacheInv
  <1>5. CASE ~LastResort(c)
    <2> DEFINE told == callers[c].box[1]
               got == [told EXCEPT !.at = now]
    <2>1. /\ callers[c].box # <<>> /\ told.via # "error"
          /\ Finish(c, got) /\ UNCHANGED <<shard, refreshers>>
      BY <1>5 DEF Deliver, Timeout
    <2>2. "via" \in DOMAIN told /\ told.via = "upstream"
      BY <1>1, <2>1 DEF AnswersInv, FromUpstream, Told
    <2>3. got.via = "upstream"
      BY <2>2
    <2> HIDE DEF got
    <2>4. GivenInTime(got)
      BY <2>3, OthersInTime
    <2>5. AnswersInv'
      BY <1>1, <1>2, <1>3, <2>1, <2>4, FinishAnswers
    <2> QED BY <1>1, <1>2, <2>1, <2>5, StoreRests, FlagsRest DEF CacheInv
  <1> QED BY <1>4, <1>5

LEMMA RefresherCaches ==
    ASSUME ControlInv, CacheInv, NEW r \in refreshers, JoinRefresh(r) \/ EndRefresh(r)
    PROVE  CacheInv'
  <1>1. PoolInv /\ ClientsInv /\ StoreInv /\ RefreshFlagsOwned /\ AnswersInv
    BY CacheContext
  <1>2. UNCHANGED <<cfg, callers>>
    BY DEF JoinRefresh, EndRefresh
  <1>3. CASE JoinRefresh(r)
    <2>1. flights' = Over(Joined(r.q, "refresh"), flights) /\ shard' = shard
      BY <1>3 DEF JoinRefresh
    <2>2. AnswersInv'
      BY <1>1, <1>2, <2>1, JoinedAnswers, AnswersRest DEF AnswersInv
    <2> QED BY <1>1, <1>2, <1>3, <2>1, <2>2, StoreRests, FlagsJoin DEF CacheInv
  <1>4. CASE EndRefresh(r)
    <2>1. flights' = flights
      BY <1>4 DEF EndRefresh
    <2>2. r.owner \in BOOLEAN
      BY <1>1 DEF ClientsInv, IsRefresher
    <2> QED BY <1>1, <1>2, <1>4, <2>1, <2>2, AnswersUnchanged, FlagsEnd DEF CacheInv
  <1> QED BY <1>3, <1>4

LEMMA FlightStepCaches ==
    ASSUME ControlInv, CacheInv, NEW k \in DOMAIN flights, FlightStep(k)
    PROVE  CacheInv'
  <1>1. PoolInv /\ ClientsInv /\ StoreInv /\ RefreshFlagsOwned /\ AnswersInv
    BY CacheContext
  <1>2. UNCHANGED <<cfg, shard>>
    BY DEF FlightStep, TrySubmit, JobResult, AbandonJob
  <1>3. CASE \E result : Told(result) /\ Land(k, result)
    <2>1. PICK result : Told(result) /\ Land(k, result)
      BY <1>3
    <2>2. AnswersInv' /\ RefreshFlagsOwned'
      BY <1>1, <1>2, <2>1, LandAnswers, FlagsLand
    <2> QED BY <1>1, <1>2, <2>2, StoreRests DEF CacheInv
  <1>4. CASE ~\E result : Told(result) /\ Land(k, result)
    <2>1. /\ flights' = [flights EXCEPT ![k].at = "wait"]
          /\ UNCHANGED <<callers, refreshers>>
      <3>1. JobResult(k) => Told(flights[k].result[1]) /\ Land(k, flights[k].result[1])
        BY <1>1 DEF JobResult, AnswersInv, FromUpstream
      <3>2. AbandonJob(k) => Land(k, Error)
        BY DEF AbandonJob
      <3> QED BY <1>4, <3>1, <3>2, ErrorIsTold DEF FlightStep, TrySubmit
    <2>2. ASSUME NEW j \in DOMAIN flights' PROVE FromUpstream(flights'[j].result)
      <3>1. DOMAIN flights[j] = FlightFields /\ j \in DOMAIN flights
        BY <1>1, <2>1 DEF PoolInv, FlightsOK, IsFlight
      <3>2. flights'[j].result = flights[j].result
        BY <2>1, <3>1 DEF FlightFields
      <3> QED BY <1>1, <3>1, <3>2 DEF AnswersInv
    <2>3. AnswersInv'
      BY <1>1, <1>2, <2>1, <2>2, AnswersRest DEF AnswersInv
    <2> QED BY <1>1, <1>2, <2>1, <2>3, StoreRests, FlagsRest DEF CacheInv
  <1> QED BY <1>3, <1>4

\* A worker stores what it found, and tells the flight.
LEMMA ConcludeCaches ==
    ASSUME ControlInv, CacheInv, NEW w \in DOMAIN work, Conclude(w)
    PROVE  CacheInv'
  <1>1. /\ cfg \in ToSet(Settings) /\ now \in Nat
        /\ PoolInv /\ StoreInv /\ RefreshFlagsOwned /\ AnswersInv
    BY CacheContext
  <1>2. UNCHANGED <<cfg, callers>>
    BY DEF Conclude
  <1>3. work[w].q \in ToSet(cfg.questions)
    <2>1. IsWork(cfg, work[w]) /\ work[w].at = "conclude"
      BY <1>1 DEF PoolInv, WorkersOK, Conclude
    <2> QED BY <2>1 DEF IsWork, Idle, Exited
  <1> DEFINE q == work[w].q
             m == work[w].msg
             refused == [NoAnswer EXCEPT !.via = "upstream", !.rcode = "SERVFAIL"]
             verdicts == cfg.verdicts \cup (IF cancelled /\ "none" \notin cfg.verdicts
                                            THEN {"error"} ELSE {})
  <1>4. PICK verdict \in verdicts, ttl \in cfg.ttls :
           LET entry == Entry(q, m, ttl, verdict)
               stored == ShardSet(cfg.opts, shard, HashQuery(q), entry, now)
           IN IF ~IsSafe(m) \/ verdict = "error"
              THEN Report(w, refused) /\ UNCHANGED <<shard, nsec, refreshers>>
              ELSE /\ shard' = stored /\ refreshers' = Disown(refreshers, stored)
                   /\ Report(w, [Given(entry, "upstream", ttl) EXCEPT !.ad = entry.secure])
    BY DEF Conclude
  <1> DEFINE answer == [Given(Entry(q, m, ttl, verdict), "upstream", ttl)
                           EXCEPT !.ad = Entry(q, m, ttl, verdict).secure]
  <1>41. \/ Report(w, refused) /\ UNCHANGED <<shard, refreshers>>
         \/ /\ shard' = ShardSet(cfg.opts, shard, HashQuery(q), Entry(q, m, ttl, verdict), now)
            /\ refreshers' = Disown(refreshers, shard') /\ Report(w, answer)
    BY <1>4
  <1>5. ttl \in Nat
    BY <1>1, CacheSettings
  <1>6. Told(refused)
    BY DEF Told, NoAnswer
  <1>7. Told(answer)
    BY DEF Told, Given
  <1> HIDE DEF q, m, refused, answer
  <1>8. CASE Report(w, refused) /\ UNCHANGED <<shard, refreshers>>
    <2>1. AnswersInv'
      BY <1>1, <1>2, <1>6, <1>8, ReportAnswers
    <2> QED BY <1>1, <1>2, <1>8, <2>1, StoreRests, FlagsRest DEF CacheInv
  <1>9. CASE /\ shard' = ShardSet(cfg.opts, shard, HashQuery(q), Entry(q, m, ttl, verdict), now)
             /\ refreshers' = Disown(refreshers, shard') /\ Report(w, answer)
    <2>2. AnswersInv'
      BY <1>1, <1>2, <1>7, <1>9, ReportAnswers
    <2>3. q \in ToSet(cfg.questions)
      BY <1>3 DEF q
    <2>4. /\ StoreInv'
          /\ \A h \in DOMAIN shard'.entries :
                \/ ~shard'.entries[h].refreshing
                \/ h \in DOMAIN shard.entries /\ shard'.entries[h] = shard.entries[h]
      BY <1>1, <1>2, <1>5, <1>9, <2>3, StoreGrows
    <2>5. RefreshFlagsOwned'
      BY <1>1, <1>2, <1>9, <2>4, FlagsDisowned
    <2> QED BY <2>2, <2>4, <2>5 DEF CacheInv
  <1> QED BY <1>41, <1>8, <1>9

LEMMA WorkerCaches ==
    ASSUME ControlInv, CacheInv, NEW w \in DOMAIN work, WorkerStep(w) \/ Hedge(w) \/ Cancelled(w)
    PROVE  CacheInv'
  <1>1. CASE Conclude(w)
    BY <1>1, ConcludeCaches
  <1>2. CASE Fail(w)
    <2>1. Report(w, Error) /\ UNCHANGED <<cfg, shard, callers, refreshers>>
      BY <1>2 DEF Fail
    <2>2. AnswersInv'
      BY <2>1, CacheContext, ErrorIsTold, ReportAnswers
    <2> QED BY <2>1, <2>2, StoreRests, FlagsRest DEF CacheInv
  <1>3. CASE ~Conclude(w) /\ ~Fail(w)
    BY <1>3, CacheRests DEF WorkerStep, Hedge, Cancelled, Execute, ReceiveResult, Forward,
                            ReturnFromLookup, Exit, Reply, others
  <1> QED BY <1>1, <1>2, <1>3

LEMMA RestCaches ==
    ASSUME ControlInv, CacheInv, performCleanup \/ Flush \/ CancelContext \/ CloseStep \/ Tick
    PROVE  CacheInv'
  <1>1. cfg \in ToSet(Settings) /\ StoreInv /\ RefreshFlagsOwned /\ AnswersInv
    BY CacheContext
  <1>2. CASE performCleanup \/ Flush
    <2>1. /\ UNCHANGED <<cfg, flights, callers>> /\ refreshers' = Disown(refreshers, shard')
          /\ shard' = ShardCleanup(shard, now) \/ shard' = EmptyShard
      BY <1>2 DEF performCleanup, Flush
    <2>2. IsShard(cfg.opts, shard') /\ Shrinks(shard', shard)
      <3>1. Shrinks(EmptyShard, shard)
        BY DEF Shrinks, EmptyShard
      <3>2. IsShard(cfg.opts, shard)
        BY <1>1 DEF StoreInv
      <3> QED BY <2>1, <3>1, <3>2, CleanupKeeps, EmptyIsShard
    <2>3. StoreInv'
      BY <1>1, <2>1, <2>2, StoreShrinks
    <2>4. RefreshFlagsOwned'
      BY <1>1, <2>1, <2>2, FlagsDisowned DEF Shrinks
    <2>5. AnswersInv'
      BY <1>1, <2>1, AnswersUnchanged
    <2> QED BY <2>3, <2>4, <2>5 DEF CacheInv
  <1>3. CASE CancelContext \/ CloseStep \/ Tick
    BY <1>3, CacheRests DEF CancelContext, CloseStep, CloseCache, ClosePool, PoolClosed, Advance,
                            Tick
  <1> QED BY <1>2, <1>3

LEMMA CacheKept == ASSUME ControlInv, CacheInv, [Next]_vars PROVE CacheInv'
  <1>1. CASE UNCHANGED vars
    BY <1>1, CacheRests DEF vars
  <1> QED BY <1>1, ResolveCaches, JoinCaches, DeliverCaches, RefresherCaches, FlightStepCaches,
             WorkerCaches, RestCaches DEF Next

-----------------------------------------------------------------------------
(* The theorems.                                                           *)

ResolverInv == ControlInv /\ CacheInv

LEMMA ResolverInvariant == Spec => []ResolverInv
  <1>1. Init => ResolverInv
    BY ControlBegins, CacheBegins DEF ResolverInv
  <1>2. ResolverInv /\ [Next]_vars => ResolverInv'
    BY ControlKept, CacheKept DEF ResolverInv
  <1> QED BY <1>1, <1>2, PTL DEF Spec

LEMMA TypesFollow == ASSUME ResolverInv PROVE TypeOK
  <1>1. /\ cfg \in ToSet(Settings) /\ ControlInv /\ CacheInv /\ StoreInv
        /\ PoolInv /\ ClientsInv /\ BoundsInv
    BY DEF ResolverInv, ControlInv, CacheInv, PoolInv
  <1>2. DOMAIN shard.entries \subseteq DOMAIN cfg.questions
    BY <1>1 DEF StoreInv
  <1>3. DOMAIN flights \subseteq {FlightKey(cfg.questions[i]) : i \in DOMAIN cfg.questions}
    <2> SUFFICES ASSUME NEW k \in DOMAIN flights
                 PROVE  \E i \in DOMAIN cfg.questions : k = FlightKey(cfg.questions[i])
      OBVIOUS
    <2>1. FlightKey(flights[k].q) = k /\ flights[k].q \in ToSet(cfg.questions)
      BY <1>1 DEF PoolInv, FlightsOK, IsFlight
    <2> QED BY <2>1 DEF ToSet
  <1>4. \A k \in DOMAIN flights :
           flights[k].at \in {"submit", "wait"} /\ Len(flights[k].result) <= 1
    BY <1>1 DEF PoolInv, FlightsOK, IsFlight
  <1>5. \A w \in cfg.workers :
           work[w].at \in {"idle", "exited", "forward", "hop", "return", "conclude", "failed"}
    <2> SUFFICES ASSUME NEW w \in cfg.workers
                 PROVE  work[w].at \in {"idle", "exited"} \cup Busy
      BY DEF Busy
    <2>1. IsWork(cfg, work[w])
      BY <1>1 DEF PoolInv, WorkersOK
    <2> QED BY <2>1, WorkingFacts DEF IsWork
  <1>6. \A c \in cfg.callers :
           callers[c].at \in {"joining", "waiting", "done"} /\ Len(callers[c].box) <= 1
    BY <1>1 DEF ClientsInv, IsCaller
  <1>7. now \in 0 .. cfg.maxTime /\ asks \in 0 .. cfg.maxAsks
    BY <1>1 DEF BoundsInv
  <1>8. Len(queue) <= cfg.queueSize /\ closer \in {"open", "cancelled", "stopped", "closed", "done"}
    BY <1>1 DEF PoolInv, QueueOK
  <1> QED BY <1>1, <1>2, <1>3, <1>4, <1>5, <1>6, <1>7, <1>8 DEF TypeOK

\* Two lookups of one question would await the same result.
LEMMA OneLookupFollows == ASSUME ResolverInv PROVE OneLookupPerQuestion
  <1>1. PoolInv
    BY DEF ResolverInv, ControlInv
  <1> SUFFICES ASSUME closer = "open", NEW q \in DOMAIN cfg.questions
               PROVE  LET key == FlightKey(cfg.questions[q])
                          queued == {j \in DOMAIN queue : FlightKey(queue[j].q) = key}
                          busy == {w \in cfg.workers : /\ work[w].at \notin {"idle", "exited"}
                                                       /\ FlightKey(work[w].q) = key}
                      IN Cardinality(queued) + Cardinality(busy) <= 1
    BY DEF OneLookupPerQuestion
  <1> DEFINE key == FlightKey(cfg.questions[q])
             queued == {j \in DOMAIN queue : FlightKey(queue[j].q) = key}
             busy == {w \in cfg.workers : /\ work[w].at \notin {"idle", "exited"}
                                          /\ FlightKey(work[w].q) = key}
  <1>2. \A i \in queued : i \in DOMAIN queue /\ queue[i].awaited /\ Key(queue[i]) = key
    BY <1>1 DEF PoolInv, OpenAwaits, Key
  <1>3. ASSUME NEW w \in busy PROVE w \in DOMAIN work /\ work[w].awaited /\ Key(work[w]) = key
    <2>1. w \in DOMAIN work /\ IsWork(cfg, work[w]) /\ work[w].at \notin {"idle", "exited"}
      BY <1>1 DEF PoolInv, WorkersOK
    <2>2. work[w].at \in Busy
      BY <2>1, WorkingFacts DEF IsWork
    <2> QED BY <1>1, <2>1, <2>2 DEF PoolInv, OpenAwaits, Key
  <1> HIDE DEF key, queued, busy
  <1>4. \A i, j \in queued : i = j
    BY <1>1, <1>2 DEF PoolInv, AwaitedDistinct
  <1>5. \A v, w \in busy : v = w
    BY <1>1, <1>3 DEF PoolInv, AwaitedDistinct
  <1>6. queued = {} \/ busy = {}
    BY <1>1, <1>2, <1>3 DEF PoolInv, AwaitedDistinct
  <1>7. /\ Cardinality({}) = 0 /\ \A x : Cardinality({x}) = 1
    BY FS_EmptySet, FS_Singleton
  <1>8. queued = {} \/ \E i : queued = {i}
    BY <1>4
  <1>9. busy = {} \/ \E w : busy = {w}
    BY <1>5
  <1>10. Cardinality(queued) \in {0, 1} /\ Cardinality(busy) \in {0, 1}
    BY <1>7, <1>8, <1>9
  <1>11. Cardinality(queued) = 0 \/ Cardinality(busy) = 0
    BY <1>6, <1>7
  <1>12. Cardinality(queued) + Cardinality(busy) <= 1
    BY <1>10, <1>11
  <1> QED BY <1>12 DEF key, queued, busy

LEMMA SendersFollow == ASSUME ResolverInv PROVE SendersNeverBlock
  <1> SUFFICES ASSUME NEW w \in cfg.workers, work[w].at = "hop"
               PROVE  active(work[w].hop) <= (IF work[w].hop.single THEN 1
                                              ELSE parallelism(cfg.env, work[w].hop))
    BY DEF SendersNeverBlock
  <1>1. IsWork(cfg, work[w])
    BY DEF ResolverInv, ControlInv, PoolInv, WorkersOK
  <1>2. IsLookup(cfg.env, work[w])
    BY <1>1 DEF IsWork, Idle, Exited
  <1>3. IsHop(cfg.env, work[w].hop)
    BY <1>2 DEF IsLookup
  <1> QED BY <1>3 DEF IsHop, Room

LEMMA CacheFollows == ASSUME ResolverInv PROVE CacheSound
  <1>1. /\ IsShard(cfg.opts, shard) /\ WithinLimits(cfg.opts, shard) /\ RefreshFlagsOwned
        /\ AnswersInv /\ ClientsInv
    BY DEF ResolverInv, ControlInv, CacheInv, StoreInv
  <1>2. CacheConsistent
    <2>1. /\ {shard.items[i].hash : i \in DOMAIN shard.items} = DOMAIN shard.entries
          /\ Len(shard.items) = Cardinality(DOMAIN shard.entries)
          /\ \A i \in DOMAIN shard.items :
                shard.items[i].removeAfter
                   = removeAfter(cfg.opts, shard.entries[shard.items[i].hash])
      BY <1>1, QueueIndexesMap
    <2>2. \A i \in DOMAIN shard.items : i > 1 => ~less(shard.items, i, i \div 2)
      BY <1>1 DEF IsShard, IsHeap
    <2>3. shard.memory = Cardinality(Bytes(shard.entries))
      BY <1>1 DEF IsShard
    <2> QED BY <1>1, <2>1, <2>2, <2>3 DEF CacheConsistent, ShardConsistent, WithinLimits
  <1>3. CachedInTime
    BY <1>1 DEF CachedInTime, AnswersInv, ClientsInv
  <1> QED BY <1>1, <1>2, <1>3 DEF CacheSound

\* However many clients, prefetches and refreshes ask, in whatever order callers
\* give up, jobs finish and Close lands flights: while the resolver is open no
\* question is looked up twice at once (resolveCoalesced), queue and flights
\* keep their bounds, and no query goroutine finds the results channel of its
\* hop full (queryNameservers).
THEOREM LookupsStayDisciplined == Spec => []LookupsDisciplined
  <1>1. ResolverInv => LookupsDisciplined
    BY TypesFollow, OneLookupFollows, SendersFollow DEF LookupsDisciplined
  <1> QED BY <1>1, ResolverInvariant, PTL

\* After any order of stores, replacements, evictions, cleanups, flushes and
\* refreshes, map, expiry heap and memory count of the shard agree within both
\* limits (sharded.go), a refreshing flag has the goroutine that will clear it,
\* and an answer given from the cache, fresh or stale, is within the lifetime
\* that getTTL and applyTTLPolicy granted it.
THEOREM CacheStaysSound == Spec => []CacheSound
  <1>1. ResolverInv => CacheSound
    BY CacheFollows
  <1> QED BY <1>1, ResolverInvariant, PTL
=============================================================================
