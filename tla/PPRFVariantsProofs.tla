-------------------------- MODULE PPRFVariantsProofs --------------------------
(***************************************************************************)
(* Proofs about the prototypes: node by node the tree of pprf-tree.c is    *)
(* the kernel's; the array of pprf.c and the list of pprf.py keep their    *)
(* labels in order and cover what has not been punctured, so that their    *)
(* searches find the one key that covers a tag.  The array and the list    *)
(* share the order of labels, the sorting of new keys and their splicing   *)
(* in the place of the old one; the library's inductions take an operator, *)
(* so that each induction here is over a set of numbers (UpTo).            *)
(***************************************************************************)
EXTENDS PPRFVariants, PPRFProofs

-----------------------------------------------------------------------------
(* SortedBy sorts.                                                         *)

\* An order of the members of S.
OrderOn(S, R) ==
  /\ \A x \in S : <<x, x>> \notin R
  /\ \A x, y \in S : x # y => <<x, y>> \in R \/ <<y, x>> \in R
  /\ \A x, y, z \in S : <<x, y>> \in R /\ <<y, z>> \in R => <<x, z>> \in R

\* Of finitely many one is behind all the others.
LEMMA LastExists ==
  ASSUME NEW S, IsFiniteSet(S), NEW R, OrderOn(S, R),
         NEW T \in SUBSET S, T # {}
  PROVE  \E m \in T : \A y \in T : y # m => <<y, m>> \in R
<1> DEFINE Has(U) == \E m \in U : \A y \in U : y # m => <<y, m>> \in R
           N == {n \in Nat : \A U \in SUBSET S : Cardinality(U) = n + 1 => Has(U)}
<1>1. \A U \in SUBSET S : IsFiniteSet(U) /\ Cardinality(U) \in Nat
  BY FS_Subset, FS_CardinalityType
<1>2. 0 \in N
  <2>1. ASSUME NEW U \in SUBSET S, Cardinality(U) = 1 PROVE Has(U)
    <3>1. PICK x : U = {x}
      BY <1>1, <2>1, FS_Singleton
    <3> QED
      BY <3>1
  <2> HIDE DEF Has
  <2> QED
    BY <2>1
<1>3. ASSUME NEW n \in Nat, n \in N PROVE n + 1 \in N
  <2>1. ASSUME NEW U \in SUBSET S, Cardinality(U) = n + 2 PROVE Has(U)
    <3>1. IsFiniteSet(U) /\ U # {}
      <4>1. U = {} => Cardinality(U) = 0
        BY FS_EmptySet
      <4> QED
        BY <1>1, <2>1, <4>1
    <3>2. PICK x \in U : TRUE
      BY <3>1
    <3>3. U \ {x} \in SUBSET S /\ Cardinality(U \ {x}) = n + 1
      <4>1. Cardinality(U \ {x}) = Cardinality(U) - 1
        BY <3>1, <3>2, FS_RemoveElement
      <4>2. Cardinality(U \ {x}) = n + 1
        BY <2>1, <4>1
      <4> QED
        BY <4>2
    <3>4. PICK m \in U \ {x} : \A y \in U \ {x} : y # m => <<y, m>> \in R
      BY <1>3, <3>3
    <3>5. x \in S /\ m \in S /\ x # m
      BY <3>2, <3>4
    <3>6. CASE <<x, m>> \in R
      BY <3>4, <3>6
    <3>7. CASE <<m, x>> \in R
      <4>1. ASSUME NEW y \in U, y # x PROVE <<y, x>> \in R
        BY <3>4, <3>5, <3>7, <4>1 DEF OrderOn
      <4> QED
        BY <4>1
    <3>8. <<x, m>> \in R \/ <<m, x>> \in R
      BY <3>5 DEF OrderOn
    <3> QED
      BY <3>6, <3>7, <3>8
  <2> HIDE DEF Has
  <2>2. n + 1 + 1 = n + 2
    OBVIOUS
  <2> QED
    BY <2>1, <2>2
<1>4. PICK n \in Nat : Cardinality(T) = n + 1
  <2>1. Cardinality(T) \in Nat /\ Cardinality(T) # 0
    BY <1>1, FS_EmptySet
  <2> QED
    BY <2>1
<1>5. n \in N
  <2> HIDE DEF N
  <2>1. 0 .. n \subseteq N
    BY <1>2, <1>3, UpTo
  <2> QED
    BY <2>1
<1> QED
  BY <1>4, <1>5

\* SortedBy sorts: what is in front comes first, and everything comes.
LEMMA Sorts ==
  ASSUME NEW S, IsFiniteSet(S), NEW R, OrderOn(S, R),
         NEW s, s = SortedBy(S, R)
  PROVE  /\ Cardinality(S) \in Nat /\ s \in [1 .. Cardinality(S) -> S]
         /\ \A i, j \in 1 .. Cardinality(S) : i < j => <<s[i], s[j]>> \in R
         /\ \A x \in S : \E i \in 1 .. Cardinality(S) : s[i] = x
<1> DEFINE In(f, n) == \A i, j \in 1 .. n : i < j => <<f[i], f[j]>> \in R
           N == {n \in Nat : \A U \in SUBSET S : Cardinality(U) = n => \E f \in [1 .. n -> U] : In(f, n)}
<1>1. \A U \in SUBSET S : IsFiniteSet(U) /\ Cardinality(U) \in Nat
  BY FS_Subset, FS_CardinalityType
<1>2. 0 \in N
  <2>1. ASSUME NEW U \in SUBSET S PROVE \E f \in [1 .. 0 -> U] : In(f, 0)
    <3>1. PICK f : f = [i \in 1 .. 0 |-> i]
      OBVIOUS
    <3>2. f \in [1 .. 0 -> U] /\ In(f, 0)
      BY <3>1
    <3> QED
      BY <3>2
  <2> HIDE DEF In
  <2> QED
    BY <2>1
<1>3. ASSUME NEW n \in Nat, n \in N PROVE n + 1 \in N
  <2>1. ASSUME NEW U \in SUBSET S, Cardinality(U) = n + 1
        PROVE  \E f \in [1 .. n + 1 -> U] : In(f, n + 1)
    <3>1. IsFiniteSet(U) /\ U # {}
      <4>1. U = {} => Cardinality(U) = 0
        BY FS_EmptySet
      <4> QED
        BY <1>1, <2>1, <4>1
    <3>2. PICK m \in U : \A y \in U : y # m => <<y, m>> \in R
      BY <3>1, LastExists
    <3>3. U \ {m} \in SUBSET S /\ Cardinality(U \ {m}) = n
      <4>1. Cardinality(U \ {m}) = Cardinality(U) - 1
        BY <3>1, <3>2, FS_RemoveElement
      <4>2. Cardinality(U \ {m}) = n
        BY <2>1, <4>1
      <4> QED
        BY <4>2
    <3>4. PICK g \in [1 .. n -> U \ {m}] : In(g, n)
      BY <1>3, <3>3
    <3>5. PICK f : f = [i \in 1 .. n + 1 |-> IF i = n + 1 THEN m ELSE g[i]]
      OBVIOUS
    <3>6. f \in [1 .. n + 1 -> U]
      BY <3>2, <3>4, <3>5
    <3>7. ASSUME NEW i \in 1 .. n + 1, NEW j \in 1 .. n + 1, i < j PROVE <<f[i], f[j]>> \in R
      <4>1. i \in 1 .. n /\ f[i] = g[i] /\ g[i] \in U \ {m}
        BY <3>4, <3>5, <3>7
      <4>2. CASE j = n + 1
        BY <3>2, <3>5, <4>1, <4>2
      <4>3. CASE j \in 1 .. n
        <5>1. f[j] = g[j]
          BY <3>5, <4>3
        <5> QED
          BY <3>4, <3>7, <4>1, <4>3, <5>1
      <4>4. n + 1 \in 1 .. n + 1 /\ (j = n + 1 \/ j \in 1 .. n)
        OBVIOUS
      <4> QED
        BY <4>2, <4>3, <4>4
    <3>8. In(f, n + 1)
      BY <3>7
    <3> QED
      BY <3>6, <3>8
  <2> HIDE DEF In
  <2> QED
    BY <2>1
<1>4. PICK n \in Nat : n = Cardinality(S)
  BY <1>1
<1>5. n \in N
  <2> HIDE DEF N
  <2>1. 0 .. n \subseteq N
    BY <1>2, <1>3, UpTo
  <2> QED
    BY <2>1
<1>6. \E f \in [1 .. n -> S] : In(f, n)
  BY <1>4, <1>5
<1>7. s \in [1 .. n -> S] /\ In(s, n)
  <2>1. s = CHOOSE f \in [1 .. n -> S] : \A i, j \in DOMAIN f : i < j => <<f[i], f[j]>> \in R
    BY <1>4 DEF SortedBy
  <2>2. \A f \in [1 .. n -> S] : DOMAIN f = 1 .. n
    OBVIOUS
  <2>3. \E f \in [1 .. n -> S] : \A i, j \in DOMAIN f : i < j => <<f[i], f[j]>> \in R
    BY <1>6, <2>2
  <2>4. s \in [1 .. n -> S] /\ \A i, j \in DOMAIN s : i < j => <<s[i], s[j]>> \in R
    BY <2>1, <2>3
  <2> QED
    BY <2>2, <2>4
<1>8. \A i, j \in 1 .. n : s[i] = s[j] => i = j
  <2> SUFFICES ASSUME NEW i \in 1 .. n, NEW j \in 1 .. n, s[i] = s[j], i # j PROVE FALSE
    OBVIOUS
  <2>1. i < j \/ j < i
    OBVIOUS
  <2>2. s[i] \in S
    BY <1>7
  <2> QED
    BY <1>7, <2>1, <2>2 DEF OrderOn
<1>9. ASSUME NEW x \in S PROVE \E i \in 1 .. n : s[i] = x
  <2>1. s \in Injection(1 .. n, S)
    BY <1>7, <1>8 DEF Injection, IsInjective
  <2>2. Cardinality(1 .. n) = n
    <3>1. Cardinality(1 .. n) = IF 1 > n THEN 0 ELSE n - 1 + 1
      BY FS_Interval
    <3> QED
      BY <3>1
  <2>3. s \in Surjection(1 .. n, S)
    BY <1>4, <2>1, <2>2, FS_Injection
  <2> QED
    BY <2>3 DEF Surjection
<1> QED
  BY <1>4, <1>7, <1>9

-----------------------------------------------------------------------------
(* The order of labels: where two paths part, the one that takes 0 is in   *)
(* front.                                                                  *)

PartAt(l, m, p) ==
  p <= Len(l) /\ p <= Len(m) /\ l[p] = 0 /\ m[p] = 1 /\ \A i \in 1 .. p - 1 : l[i] = m[i]
Before(l, m) == \E p \in 1 .. Depth : PartAt(l, m, p)

\* Two labels are one above the other, or one in front of the other.
LEMMA Total ==
  ASSUME NEW l \in Labels, NEW m \in Labels
  PROVE  Above(l, m) \/ Above(m, l) \/ Before(l, m) \/ Before(m, l)
<1>1. /\ Len(l) \in 0 .. Depth /\ Len(m) \in 0 .. Depth /\ Depth \in Nat
      /\ l \in [1 .. Len(l) -> Bit] /\ m \in [1 .. Len(m) -> Bit]
  BY LabelLen, DepthAssumption
<1> DEFINE D == {p \in 1 .. Depth : p <= Len(l) /\ p <= Len(m) /\ l[p] # m[p]}
<1>2. CASE D = {}
  <2>1. \A p \in 1 .. Depth : p <= Len(l) /\ p <= Len(m) => l[p] = m[p]
    BY <1>2
  <2> QED
    BY <1>1, <2>1 DEF Above
<1>3. CASE D # {}
  <2>1. D \subseteq Nat
    OBVIOUS
  <2> HIDE DEF D
  <2>2. PICK p \in D : \A q \in D : p <= q
    BY <1>3, <2>1, Least
  <2> USE DEF D
  <2>3. p \in 1 .. Depth /\ p <= Len(l) /\ p <= Len(m) /\ l[p] # m[p]
    OBVIOUS
  <2>4. ASSUME NEW i \in 1 .. p - 1 PROVE l[i] = m[i]
    <3>1. i \in 1 .. Depth /\ i <= Len(l) /\ i <= Len(m) /\ ~(p <= i)
      BY <1>1, <2>3
    <3> QED
      BY <2>2, <3>1
  <2>5. l[p] \in Bit /\ m[p] \in Bit
    BY <1>1, <2>3
  <2>6. PartAt(l, m, p) \/ PartAt(m, l, p)
    BY <2>3, <2>4, <2>5 DEF PartAt, Bit
  <2> QED
    BY <2>3, <2>6 DEF Before
<1> QED
  BY <1>2, <1>3

\* In front is an order, and not above or below.
LEMMA Parted ==
  ASSUME NEW l \in Labels, NEW m \in Labels, Before(l, m)
  PROVE  ~Before(m, l) /\ ~Above(l, m) /\ ~Above(m, l) /\ l # m
<1>1. Len(l) \in Nat /\ Len(m) \in Nat /\ Depth \in Nat
  BY LabelLen, DepthAssumption
<1>2. PICK p \in 1 .. Depth : PartAt(l, m, p)
  BY DEF Before
<1>3. p \in 1 .. Len(l) /\ p \in 1 .. Len(m) /\ l[p] # m[p]
  BY <1>1, <1>2 DEF PartAt
<1>4. ASSUME NEW q \in 1 .. Depth, PartAt(m, l, q) PROVE FALSE
  <2>1. p = q \/ p \in 1 .. q - 1 \/ q \in 1 .. p - 1
    BY <1>1
  <2> QED
    BY <1>2, <1>4, <2>1 DEF PartAt
<1> QED
  BY <1>3, <1>4 DEF Above, Before

\* Being in front carries over to a third label: one behind or below the second, and
\* one below the first.
LEMMA Transits ==
  ASSUME NEW l \in Labels, NEW m \in Labels, NEW o \in Labels, Before(l, m)
  PROVE  /\ Before(m, o) => Before(l, o)
         /\ Above(m, o) => Before(l, o)
         /\ Above(l, o) => Before(o, m)
<1>1. Len(l) \in Nat /\ Len(m) \in Nat /\ Len(o) \in Nat /\ Depth \in Nat
  BY LabelLen, DepthAssumption
<1>2. PICK p \in 1 .. Depth : PartAt(l, m, p)
  BY DEF Before
<1>3. ASSUME NEW q \in 1 .. Depth, PartAt(m, o, q) PROVE Before(l, o)
  <2>1. CASE p <= q
    <3>1. p < q => o[p] = m[p]
      BY <1>1, <1>3, <2>1 DEF PartAt
    <3>2. p = q => FALSE
      BY <1>2, <1>3 DEF PartAt
    <3>3. \A i \in 1 .. p - 1 : i \in 1 .. q - 1
      BY <2>1
    <3> QED
      BY <1>1, <1>2, <1>3, <2>1, <3>1, <3>2, <3>3 DEF PartAt, Before
  <2>2. CASE q < p
    <3>1. l[q] = m[q] /\ \A i \in 1 .. q - 1 : i \in 1 .. p - 1
      BY <1>1, <1>2, <2>2 DEF PartAt
    <3> QED
      BY <1>1, <1>2, <1>3, <2>2, <3>1 DEF PartAt, Before
  <2> QED
    BY <1>1, <2>1, <2>2
<1>4. ASSUME Above(m, o) PROVE Before(l, o)
  <2>1. p \in 1 .. Len(m) /\ \A i \in 1 .. p - 1 : i \in 1 .. Len(m)
    BY <1>1, <1>2 DEF PartAt
  <2> QED
    BY <1>1, <1>2, <1>4, <2>1 DEF PartAt, Before, Above
<1>5. ASSUME Above(l, o) PROVE Before(o, m)
  <2>1. p \in 1 .. Len(l) /\ \A i \in 1 .. p - 1 : i \in 1 .. Len(l)
    BY <1>1, <1>2 DEF PartAt
  <2> QED
    BY <1>1, <1>2, <1>5, <2>1 DEF PartAt, Before, Above
<1> QED
  BY <1>3, <1>4, <1>5 DEF Before

\* compare_node_labels is that order, a label in front of those below it.
LEMMA LeqIs ==
  ASSUME NEW l \in Labels, NEW m \in Labels
  PROVE  LabelLeq(l, m) <=> Above(l, m) \/ Before(l, m)
<1>1. /\ Len(l) \in Nat /\ Len(m) \in Nat /\ Depth \in Nat
      /\ Len(l) \in 0 .. Depth /\ Len(m) \in 0 .. Depth
      /\ l \in [1 .. Len(l) -> Bit] /\ m \in [1 .. Len(m) -> Bit]
      /\ DOMAIN l = 1 .. Len(l) /\ DOMAIN m = 1 .. Len(m)
  BY LabelLen, DepthAssumption
<1>2. PICK D : D = {i \in DOMAIN l \cap DOMAIN m : l[i] # m[i]}
  OBVIOUS
<1>3. LabelLeq(l, m) <=> IF D = {} THEN Len(l) <= Len(m)
                         ELSE \E i \in D : l[i] < m[i] /\ \A j \in D : i <= j
  BY <1>2 DEF LabelLeq
<1>4. \A i : i \in D <=> i \in 1 .. Len(l) /\ i \in 1 .. Len(m) /\ l[i] # m[i]
  BY <1>1, <1>2
<1>5. Above(l, m) <=> D = {} /\ Len(l) <= Len(m)
  BY <1>1, <1>4 DEF Above
<1>6. ASSUME Before(l, m) PROVE D # {} /\ LabelLeq(l, m)
  <2>1. PICK p \in 1 .. Depth : PartAt(l, m, p)
    BY <1>6 DEF Before
  <2>2. p \in D /\ l[p] < m[p]
    BY <1>1, <1>4, <2>1 DEF PartAt
  <2>3. ASSUME NEW j \in D PROVE p <= j
    <3>1. j \in 1 .. Len(l) /\ l[j] # m[j]
      BY <1>4
    <3>2. j \notin 1 .. p - 1
      BY <2>1, <3>1 DEF PartAt
    <3> QED
      BY <1>1, <3>1, <3>2
  <2> QED
    BY <1>3, <2>2, <2>3
<1>7. ASSUME D # {}, LabelLeq(l, m) PROVE Before(l, m)
  <2>1. PICK p \in D : l[p] < m[p] /\ \A j \in D : p <= j
    BY <1>3, <1>7
  <2>2. p \in 1 .. Len(l) /\ p \in 1 .. Len(m) /\ p \in 1 .. Depth
    BY <1>1, <1>4
  <2>3. l[p] \in Bit /\ m[p] \in Bit
    BY <1>1, <2>2
  <2>4. ASSUME NEW i \in 1 .. p - 1 PROVE l[i] = m[i]
    <3>1. i \in 1 .. Len(l) /\ i \in 1 .. Len(m) /\ ~(p <= i)
      BY <1>1, <2>2
    <3> QED
      BY <1>4, <2>1, <3>1
  <2>5. l[p] = 0 /\ m[p] = 1
    BY <2>1, <2>3 DEF Bit
  <2>6. PartAt(l, m, p)
    BY <2>2, <2>4, <2>5 DEF PartAt
  <2> QED
    BY <2>2, <2>6 DEF Before
<1> QED
  BY <1>3, <1>5, <1>6, <1>7

-----------------------------------------------------------------------------
(* A list of labels in order: the keys an array or a list has left.        *)

Code(lab, n) ==
  /\ n \in Nat /\ lab \in [1 .. n -> Labels]
  /\ \A i, j \in 1 .. n : i < j => Before(lab[i], lab[j])
Covered(lab, n, c) == \E i \in 1 .. n : Above(lab[i], c)

\* A label above a path is a prefix of it.
LEMMA AboveIs ==
  ASSUME NEW l \in Labels, NEW b \in Bits
  PROVE  /\ b \in Labels /\ Len(b) = Depth
         /\ Above(l, b) <=> l = Pre(b, Len(l))
<1>1. /\ Len(l) \in 0 .. Depth /\ Depth \in Nat /\ b \in Labels /\ Len(b) = Depth
      /\ l \in [1 .. Len(l) -> Bit]
  BY LabelLen, Parts, DepthAssumption
<1>2. \A i \in 1 .. Len(l) : Pre(b, Len(l))[i] = b[i]
  BY DEF Pre
<1>3. ASSUME Above(l, b) PROVE l = Pre(b, Len(l))
  BY <1>1, <1>3 DEF Above, Pre
<1> QED
  BY <1>1, <1>2, <1>3 DEF Above

\* Nothing is covered twice.
LEMMA OneCovers ==
  ASSUME NEW lab, NEW n, Code(lab, n), NEW c \in Labels,
         NEW i \in 1 .. n, NEW j \in 1 .. n, Above(lab[i], c), Above(lab[j], c)
  PROVE  i = j
<1>1. n \in Nat /\ lab[i] \in Labels /\ lab[j] \in Labels
  BY DEF Code
<1>2. Above(lab[i], lab[j]) \/ Above(lab[j], lab[i])
  BY <1>1, Orders
<1>3. ~Before(lab[i], lab[j]) /\ ~Before(lab[j], lab[i])
  BY <1>1, <1>2, Parted
<1>4. i < j \/ j < i \/ i = j
  OBVIOUS
<1> QED
  BY <1>3, <1>4 DEF Code

\* If some are not behind a path, neither are those in front of them.
LEMMA FrontToo ==
  ASSUME NEW lab, NEW n, Code(lab, n), NEW c \in Labels,
         NEW i \in 1 .. n, NEW j \in 1 .. n, i < j, LabelLeq(lab[j], c)
  PROVE  LabelLeq(lab[i], c)
<1>1. n \in Nat /\ lab[i] \in Labels /\ lab[j] \in Labels /\ Before(lab[i], lab[j])
  BY DEF Code
<1>2. Above(lab[j], c) \/ Before(lab[j], c)
  BY <1>1, LeqIs
<1>3. Before(lab[i], c)
  BY <1>1, <1>2, Transits
<1> QED
  BY <1>1, <1>3, LeqIs

\* Of those not behind a path the last one covers it, or none does: what a search by
\* halves rests on.
LEMMA LastCovers ==
  ASSUME NEW lab, NEW n, Code(lab, n), NEW c \in Labels, NEW r \in 0 .. n,
         \A j \in 1 .. n : LabelLeq(lab[j], c) <=> j <= r,
         NEW j \in 1 .. n, Above(lab[j], c)
  PROVE  j = r
<1>1. n \in Nat /\ lab[j] \in Labels
  BY DEF Code
<1>2. j <= r
  BY <1>1, LeqIs
<1> SUFFICES ASSUME j < r PROVE FALSE
  BY <1>1, <1>2
<1>3. r \in 1 .. n
  BY <1>1
<1>4. lab[r] \in Labels /\ Before(lab[j], lab[r]) /\ LabelLeq(lab[r], c)
  BY <1>1, <1>3 DEF Code
<1>5. Above(lab[r], c) \/ Before(lab[r], c)
  BY <1>4, LeqIs
<1>6. Before(lab[j], c)
  BY <1>1, <1>4, <1>5, Transits
<1> QED
  BY <1>1, <1>6, Parted

-----------------------------------------------------------------------------
(* What a puncture puts where a label was: the siblings below it, which    *)
(* cover all it covered but the one path.                                  *)

\* A sibling of the path below the label.
LEMMA SibIsBelow ==
  ASSUME NEW b \in Bits, NEW k \in 0 .. Depth, NEW d \in k + 1 .. Depth
  PROVE  /\ d \in 1 .. Depth /\ d \in 0 .. Depth
         /\ Sib(b, d) \in Labels /\ Len(Sib(b, d)) = d /\ Pre(b, k) \in Labels
         /\ Above(Pre(b, k), Sib(b, d)) /\ ~Above(Sib(b, d), b)
<1>1. d \in 1 .. Depth /\ d \in 0 .. Depth /\ d # 0 /\ Depth \in Nat /\ k <= d /\ k < d
  BY DepthAssumption
<1>2. /\ Sib(b, d) \in Labels /\ Len(Sib(b, d)) = d /\ Pre(b, k) \in Labels /\ Len(Pre(b, k)) = k
      /\ Pre(b, Depth) = b
  BY <1>1, Parts
<1>3. \A i \in 1 .. k : Pre(b, k)[i] = b[i] /\ Sib(b, d)[i] = b[i]
  BY <1>1 DEF Pre, Sib
<1>4. Above(Pre(b, k), Sib(b, d))
  BY <1>1, <1>2, <1>3 DEF Above
<1>5. ~Above(Sib(b, d), b)
  <2>1. Depth \in 1 .. Depth
    BY <1>1
  <2> QED
    BY <1>1, <1>2, <2>1, PathLabels
<1> QED
  BY <1>1, <1>2, <1>4, <1>5

\* Two of them part.
LEMMA SibsPart ==
  ASSUME NEW b \in Bits, NEW d \in 1 .. Depth, NEW e \in 1 .. Depth, d # e
  PROVE  /\ Sib(b, d) \in Labels /\ Sib(b, e) \in Labels /\ Sib(b, d) # Sib(b, e)
         /\ ~Above(Sib(b, d), Sib(b, e))
         /\ Before(Sib(b, d), Sib(b, e)) \/ Before(Sib(b, e), Sib(b, d))
<1>1. d \in 0 .. Depth /\ e \in 0 .. Depth /\ d # 0 /\ e # 0
  BY DepthAssumption
<1>2. /\ Sib(b, d) \in Labels /\ Sib(b, e) \in Labels
      /\ Len(Sib(b, d)) = d /\ Len(Sib(b, e)) = e
  BY <1>1, Parts
<1>3. ~Above(Sib(b, d), Sib(b, e)) /\ ~Above(Sib(b, e), Sib(b, d))
  BY PathLabels
<1> QED
  BY <1>2, <1>3, Total

\* Another path that the label covers has one of them above it.
LEMMA SibCovers ==
  ASSUME NEW b \in Bits, NEW c \in Bits, b # c, NEW k \in 0 .. Depth, Above(Pre(b, k), c)
  PROVE  \E d \in k + 1 .. Depth : Above(Sib(b, d), c)
<1>1. Depth \in Nat /\ Len(Pre(b, k)) = k /\ \A d \in 1 .. Depth : b[d] \in Bit /\ c[d] \in Bit
  BY Parts, DepthAssumption DEF Bits
<1>2. \A i \in 1 .. k : b[i] = c[i]
  BY <1>1 DEF Above, Pre
<1> DEFINE D == {d \in 1 .. Depth : b[d] # c[d]}
<1>3. D \subseteq Nat /\ D # {}
  <2>1. ASSUME D = {} PROVE FALSE
    <3>1. \A d \in 1 .. Depth : b[d] = c[d]
      BY <2>1
    <3>2. /\ b \in Labels /\ Len(b) = Depth /\ c \in Labels /\ Len(c) = Depth
          /\ Above(b, c)
      <4>1. Depth \in 0 .. Depth
        BY <1>1
      <4>2. b \in Labels /\ Len(b) = Depth /\ c \in Labels /\ Len(c) = Depth
        BY <4>1, Parts
      <4> QED
        BY <1>1, <3>1, <4>2 DEF Above
    <3>3. b = c
      BY <3>2, SameLabel
    <3> QED
      BY <3>3
  <2> QED
    BY <2>1
<1> HIDE DEF D
<1>4. PICK d \in D : \A e \in D : d <= e
  BY <1>3, Least
<1> USE DEF D
<1>5. d \in 1 .. Depth /\ b[d] # c[d] /\ d \in k + 1 .. Depth
  BY <1>1, <1>2
<1>6. ASSUME NEW i \in 1 .. d - 1 PROVE b[i] = c[i]
  <2>1. i \in 1 .. Depth /\ ~(d <= i)
    BY <1>1, <1>5
  <2> QED
    BY <1>4, <2>1
<1>7. 1 - b[d] = c[d]
  BY <1>1, <1>5 DEF Bit
<1>8. Len(Sib(b, d)) = d /\ Len(c) = Depth
  <2>1. d \in 0 .. Depth /\ d # 0
    BY <1>1, <1>5
  <2>2. Depth \in 0 .. Depth
    BY <1>1
  <2> QED
    BY <2>1, <2>2, Parts
<1>9. ASSUME NEW i \in 1 .. d PROVE Sib(b, d)[i] = c[i]
  BY <1>5, <1>6, <1>7, <1>9 DEF Sib
<1> QED
  BY <1>1, <1>5, <1>8, <1>9 DEF Above

\* The siblings in order.
SibsOK(T, m, b, k) ==
  /\ Code(T, m)
  /\ \A x \in 1 .. m : \E d \in k + 1 .. Depth : T[x] = Sib(b, d)
  /\ \A d \in k + 1 .. Depth : \E x \in 1 .. m : T[x] = Sib(b, d)
\* What is at place x after T, of length m, has taken the place of the i-th of s.
Spliced(s, i, T, m, x) ==
  IF x < i THEN s[x] ELSE IF x < i + m THEN T[x - i + 1] ELSE s[x - m + 1]

SplicedIs(u, N, s, n, i, T, m) ==
  N = n - 1 + m /\ \A x \in 1 .. N : u[x] = Spliced(s, i, T, m, x)

AllPlaced(u, N, s, n, i, T, m) ==
  /\ N \in Nat
  /\ \A x \in 1 .. N : \/ \E j \in 1 .. n : j # i /\ u[x] = s[j]
                       \/ \E y \in 1 .. m : u[x] = T[y]
  /\ \A j \in 1 .. n : j # i => \E x \in 1 .. N : u[x] = s[j]
  /\ \A y \in 1 .. m : \E x \in 1 .. N : u[x] = T[y]

\* Who is where after the splice.
LEMMA Places ==
  ASSUME NEW n \in Nat, NEW m \in Nat, NEW i \in 1 .. n, NEW s, NEW T, NEW N, NEW u,
         SplicedIs(u, N, s, n, i, T, m)
  PROVE  AllPlaced(u, N, s, n, i, T, m)
<1> USE DEF SplicedIs
<1>1. ASSUME NEW x \in 1 .. N
      PROVE  \/ \E j \in 1 .. n : j # i /\ u[x] = s[j]
             \/ \E y \in 1 .. m : u[x] = T[y]
  <2>1. CASE x < i
    BY <2>1 DEF Spliced
  <2>2. CASE ~(x < i) /\ x < i + m
    <3>1. x - i + 1 \in 1 .. m
      BY <2>2
    <3> QED
      BY <2>2, <3>1 DEF Spliced
  <2>3. CASE ~(x < i + m)
    <3>1. x - m + 1 \in 1 .. n /\ x - m + 1 # i /\ ~(x < i)
      BY <2>3
    <3> QED
      BY <2>3, <3>1 DEF Spliced
  <2> QED
    BY <2>1, <2>2, <2>3
<1>2. ASSUME NEW j \in 1 .. n, j # i PROVE \E x \in 1 .. N : u[x] = s[j]
  <2>1. CASE j < i
    <3>1. j \in 1 .. N
      BY <2>1
    <3> QED
      BY <2>1, <3>1 DEF Spliced
  <2>2. CASE ~(j < i)
    <3>1. PICK x \in 1 .. N : x = j + m - 1
      BY <1>2, <2>2
    <3>2. ~(x < i) /\ ~(x < i + m) /\ x - m + 1 = j
      BY <1>2, <2>2, <3>1
    <3> QED
      BY <3>2 DEF Spliced
  <2> QED
    BY <2>1, <2>2
<1>3. ASSUME NEW y \in 1 .. m PROVE \E x \in 1 .. N : u[x] = T[y]
  <2>1. PICK x \in 1 .. N : x = y + i - 1
    OBVIOUS
  <2>2. ~(x < i) /\ x < i + m /\ x - i + 1 = y
    BY <2>1
  <2> QED
    BY <2>2 DEF Spliced
<1>4. N \in Nat
  OBVIOUS
<1> QED
  BY <1>1, <1>2, <1>3, <1>4 DEF AllPlaced

\* The siblings in the place of the label leave the list in order, and cover what it
\* covered without the path.
LEMMA SplicedCode ==
  ASSUME NEW lab, NEW n, Code(lab, n), NEW b \in Bits, NEW k \in 0 .. Depth,
         NEW i \in 1 .. n, lab[i] = Pre(b, k), NEW T, NEW m, SibsOK(T, m, b, k),
         NEW N, N = n - 1 + m,
         NEW new, new = [x \in 1 .. N |-> Spliced(lab, i, T, m, x)]
  PROVE  /\ Code(new, N)
         /\ \A c \in Bits : Covered(new, N, c) <=> Covered(lab, n, c) /\ c # b
<1>1. /\ n \in Nat /\ m \in Nat /\ N \in Nat /\ Depth \in Nat
      /\ lab \in [1 .. n -> Labels] /\ T \in [1 .. m -> Labels]
  BY DepthAssumption DEF Code, SibsOK
<1>2. /\ \A x \in 1 .. N : \/ \E j \in 1 .. n : j # i /\ new[x] = lab[j]
                           \/ \E y \in 1 .. m : new[x] = T[y]
      /\ \A j \in 1 .. n : j # i => \E x \in 1 .. N : new[x] = lab[j]
      /\ \A y \in 1 .. m : \E x \in 1 .. N : new[x] = T[y]
  <2>1. SplicedIs(new, N, lab, n, i, T, m)
    BY DEF SplicedIs
  <2>2. AllPlaced(new, N, lab, n, i, T, m)
    BY <1>1, <2>1, Places
  <2> QED
    BY <2>2 DEF AllPlaced
<1>3. ASSUME NEW y \in 1 .. m PROVE Above(lab[i], T[y]) /\ ~Above(T[y], b)
  <2>1. PICK d \in k + 1 .. Depth : T[y] = Sib(b, d)
    BY DEF SibsOK
  <2> QED
    BY <2>1, SibIsBelow
<1>4. new \in [1 .. N -> Labels]
  <2>1. ASSUME NEW x \in 1 .. N PROVE new[x] \in Labels
    BY <1>1, <1>2
  <2> QED
    BY <2>1
<1>5. ASSUME NEW x \in 1 .. N, NEW y \in 1 .. N, x < y
      PROVE  Before(new[x], new[y])
  <2> DEFINE B(j) == Before(lab[j], lab[i])
  <2>1. new[x] = Spliced(lab, i, T, m, x) /\ new[y] = Spliced(lab, i, T, m, y)
    OBVIOUS
  <2>2. ASSUME NEW j \in 1 .. n, NEW z \in 1 .. m
        PROVE  (j < i => Before(lab[j], T[z])) /\ (i < j => Before(T[z], lab[j]))
    <3>1. lab[i] \in Labels /\ lab[j] \in Labels /\ T[z] \in Labels /\ Above(lab[i], T[z])
      BY <1>1, <1>3
    <3>2. (j < i => Before(lab[j], lab[i])) /\ (i < j => Before(lab[i], lab[j]))
      BY DEF Code
    <3> QED
      BY <3>1, <3>2, Transits
  <2>3. CASE y < i
    <3>1. new[x] = lab[x] /\ new[y] = lab[y] /\ x \in 1 .. n /\ y \in 1 .. n
      BY <1>1, <1>5, <2>1, <2>3 DEF Spliced
    <3> QED
      BY <1>5, <3>1 DEF Code
  <2>4. CASE x < i /\ ~(y < i) /\ y < i + m
    <3>1. new[x] = lab[x] /\ new[y] = T[y - i + 1] /\ x \in 1 .. n /\ y - i + 1 \in 1 .. m
      BY <1>1, <2>1, <2>4 DEF Spliced
    <3> QED
      BY <2>2, <2>4, <3>1
  <2>5. CASE x < i /\ ~(y < i + m)
    <3>1. /\ new[x] = lab[x] /\ new[y] = lab[y - m + 1]
          /\ x \in 1 .. n /\ y - m + 1 \in 1 .. n /\ x < y - m + 1
      BY <1>1, <2>1, <2>5 DEF Spliced
    <3> QED
      BY <3>1 DEF Code
  <2>6. CASE ~(x < i) /\ y < i + m
    <3>1. /\ new[x] = T[x - i + 1] /\ new[y] = T[y - i + 1]
          /\ x - i + 1 \in 1 .. m /\ y - i + 1 \in 1 .. m /\ x - i + 1 < y - i + 1
      BY <1>1, <1>5, <2>1, <2>6 DEF Spliced
    <3> QED
      BY <3>1 DEF SibsOK, Code
  <2>7. CASE ~(x < i) /\ x < i + m /\ ~(y < i + m)
    <3>1. /\ new[x] = T[x - i + 1] /\ new[y] = lab[y - m + 1]
          /\ x - i + 1 \in 1 .. m /\ y - m + 1 \in 1 .. n /\ i < y - m + 1
      BY <1>1, <2>1, <2>7 DEF Spliced
    <3> QED
      BY <2>2, <3>1
  <2>8. CASE ~(x < i + m)
    <3>1. /\ new[x] = lab[x - m + 1] /\ new[y] = lab[y - m + 1]
          /\ x - m + 1 \in 1 .. n /\ y - m + 1 \in 1 .. n /\ x - m + 1 < y - m + 1
      BY <1>1, <1>5, <2>1, <2>8 DEF Spliced
    <3> QED
      BY <3>1 DEF Code
  <2> QED
    BY <1>1, <1>5, <2>3, <2>4, <2>5, <2>6, <2>7, <2>8
<1>6. ASSUME NEW c \in Bits, Covered(new, N, c) PROVE Covered(lab, n, c) /\ c # b
  <2>1. PICK x \in 1 .. N : Above(new[x], c)
    BY <1>6 DEF Covered
  <2>2. c \in Labels /\ b \in Labels /\ lab[i] \in Labels /\ Above(lab[i], b)
    BY <1>1, AboveIs, Parts
  <2>3. CASE \E j \in 1 .. n : j # i /\ new[x] = lab[j]
    <3>1. PICK j \in 1 .. n : j # i /\ Above(lab[j], c)
      BY <2>1, <2>3
    <3>2. c # b
      BY <2>2, <3>1, OneCovers
    <3> QED
      BY <3>1, <3>2 DEF Covered
  <2>4. CASE \E y \in 1 .. m : new[x] = T[y]
    <3>1. PICK y \in 1 .. m : Above(T[y], c)
      BY <2>1, <2>4
    <3>2. Above(lab[i], c) /\ c # b
      BY <1>1, <1>3, <2>2, <3>1, Orders
    <3> QED
      BY <3>2 DEF Covered
  <2> QED
    BY <1>2, <2>3, <2>4
<1>7. ASSUME NEW c \in Bits, Covered(lab, n, c), c # b PROVE Covered(new, N, c)
  <2>1. PICK j \in 1 .. n : Above(lab[j], c)
    BY <1>7 DEF Covered
  <2>2. CASE j # i
    <3>1. PICK x \in 1 .. N : new[x] = lab[j]
      BY <1>2, <2>2
    <3> QED
      BY <2>1, <3>1 DEF Covered
  <2>3. CASE j = i
    <3>1. PICK d \in k + 1 .. Depth : Above(Sib(b, d), c)
      BY <1>7, <2>1, <2>3, SibCovers
    <3>2. PICK y \in 1 .. m : T[y] = Sib(b, d)
      BY DEF SibsOK
    <3>3. PICK x \in 1 .. N : new[x] = T[y]
      BY <1>2
    <3> QED
      BY <3>1, <3>2, <3>3 DEF Covered
  <2> QED
    BY <2>2, <2>3
<1> QED
  BY <1>1, <1>4, <1>5, <1>6, <1>7 DEF Code

\* The code's splice, as sequences.
LEMMA SpliceIs ==
  ASSUME NEW E, NEW s \in Seq(E), NEW i \in 1 .. Len(s), NEW m \in Nat, NEW T \in [1 .. m -> E],
         NEW u, u = SubSeq(s, 1, i - 1) \o T \o SubSeq(s, i + 1, Len(s))
  PROVE  u \in Seq(E) /\ SplicedIs(u, Len(u), s, Len(s), i, T, m)
<1>1. PICK n \in Nat : n = Len(s)
  BY LenProperties
<1>2. T \in Seq(E) /\ Len(T) = m
  <2>1. T \in Seq(E)
    BY SeqDef
  <2> QED
    BY <2>1, LenProperties
<1>3. PICK f : f = SubSeq(s, 1, i - 1)
  OBVIOUS
<1>4. PICK g : g = SubSeq(s, i + 1, n)
  OBVIOUS
<1>5. \A x \in 1 .. n : s[x] \in E
  BY <1>1, ElementOfSeq
<1>6. f \in Seq(E) /\ Len(f) = i - 1 /\ \A x \in 1 .. i - 1 : f[x] = s[x]
  <2>1. \A x \in 1 .. i - 1 : s[x] \in E
    BY <1>1, <1>5
  <2>2. /\ f \in Seq(E) /\ Len(f) = IF 1 <= i - 1 THEN i - 1 - 1 + 1 ELSE 0
        /\ \A x \in 1 .. i - 1 - 1 + 1 : f[x] = s[1 + x - 1]
    BY <1>3, <2>1, SubSeqProperties
  <2> QED
    BY <1>1, <2>2
<1>7. g \in Seq(E) /\ Len(g) = n - i /\ \A x \in 1 .. n - i : g[x] = s[i + x]
  <2>1. \A x \in i + 1 .. n : s[x] \in E
    BY <1>1, <1>5
  <2>2. /\ g \in Seq(E) /\ Len(g) = IF i + 1 <= n THEN n - (i + 1) + 1 ELSE 0
        /\ \A x \in 1 .. n - (i + 1) + 1 : g[x] = s[i + 1 + x - 1]
    BY <1>1, <1>4, <2>1, SubSeqProperties
  <2>3. \A x \in 1 .. n - i : i + 1 + x - 1 = i + x /\ x \in 1 .. n - (i + 1) + 1
    BY <1>1
  <2>4. (IF i + 1 <= n THEN n - (i + 1) + 1 ELSE 0) = n - i
    BY <1>1
  <2> QED
    BY <2>2, <2>3, <2>4
<1>8. PICK h : h = f \o T
  OBVIOUS
<1>9. /\ h \in Seq(E) /\ Len(h) = i - 1 + m
      /\ \A x \in 1 .. i - 1 + m : h[x] = IF x <= i - 1 THEN f[x] ELSE T[x - (i - 1)]
  <2>1. /\ h \in Seq(E) /\ Len(h) = Len(f) + Len(T)
        /\ \A x \in 1 .. Len(f) + Len(T) : h[x] = IF x <= Len(f) THEN f[x] ELSE T[x - Len(f)]
    BY <1>2, <1>6, <1>8, ConcatProperties
  <2> QED
    BY <1>2, <1>6, <2>1
<1>10. u = h \o g
  BY <1>1, <1>3, <1>4, <1>8
<1>11. /\ u \in Seq(E) /\ Len(u) = i - 1 + m + (n - i)
       /\ \A x \in 1 .. i - 1 + m + (n - i) :
            u[x] = IF x <= i - 1 + m THEN h[x] ELSE g[x - (i - 1 + m)]
  <2>1. /\ u \in Seq(E) /\ Len(u) = Len(h) + Len(g)
        /\ \A x \in 1 .. Len(h) + Len(g) : u[x] = IF x <= Len(h) THEN h[x] ELSE g[x - Len(h)]
    <3>1. h \in Seq(E) /\ g \in Seq(E)
      BY <1>7, <1>9
    <3>2. PICK v : v = h \o g
      OBVIOUS
    <3>3. /\ v \in Seq(E) /\ Len(v) = Len(h) + Len(g)
          /\ \A x \in 1 .. Len(h) + Len(g) : v[x] = IF x <= Len(h) THEN h[x] ELSE g[x - Len(h)]
      BY <3>1, <3>2, ConcatProperties
    <3> QED
      BY <1>10, <3>2, <3>3
  <2>2. Len(h) = i - 1 + m /\ Len(g) = n - i
    BY <1>7, <1>9
  <2> QED
    BY <2>1, <2>2
<1>12. ASSUME NEW x \in 1 .. n - 1 + m PROVE u[x] = Spliced(s, i, T, m, x)
  <2>1. x \in 1 .. i - 1 + m + (n - i) /\ i \in Nat
    BY <1>1
  <2>2. u[x] = IF x <= i - 1 + m THEN h[x] ELSE g[x - (i - 1 + m)]
    BY <1>11, <2>1
  <2>3. CASE x < i
    <3>1. x <= i - 1 + m /\ x \in 1 .. i - 1 + m /\ x <= i - 1 /\ x \in 1 .. i - 1
      BY <1>1, <2>3
    <3> QED
      BY <1>6, <1>9, <2>2, <2>3, <3>1 DEF Spliced
  <2>4. CASE ~(x < i) /\ x < i + m
    <3>1. x <= i - 1 + m /\ x \in 1 .. i - 1 + m /\ ~(x <= i - 1) /\ x - (i - 1) = x - i + 1
      BY <1>1, <2>4
    <3> QED
      BY <1>9, <2>2, <2>4, <3>1 DEF Spliced
  <2>5. CASE ~(x < i + m)
    <3>1. /\ ~(x <= i - 1 + m) /\ ~(x < i) /\ x - (i - 1 + m) \in 1 .. n - i
          /\ i + (x - (i - 1 + m)) = x - m + 1
      BY <1>1, <2>5
    <3> QED
      BY <1>7, <2>2, <2>5, <3>1 DEF Spliced
  <2> QED
    BY <2>3, <2>4, <2>5
<1>13. i - 1 + m + (n - i) = n - 1 + m
  BY <1>1
<1> QED
  BY <1>1, <1>11, <1>12, <1>13 DEF SplicedIs

-----------------------------------------------------------------------------
(* pprf-tree.c of ggm_prf: the kernel's tree, node by node.                *)

\* The key of a sibling: that of the node that is split and what comes below it.
LEMMA SibRejoined ==
  ASSUME NEW b \in Bits, NEW k \in 0 .. Depth, NEW d \in k + 1 .. Depth
  PROVE  Pre(b, k) \o SubSeq(Sib(b, d), k + 1, d) = Sib(b, d)
<1>1. d \in 0 .. Depth /\ d # 0 /\ d \in Nat /\ k \in Nat /\ k < d /\ Depth \in Nat
  BY DepthAssumption
<1>2. PICK l : l = Sib(b, d)
  OBVIOUS
<1>3. /\ l \in [1 .. d -> Bit] /\ l \in Seq(Bit) /\ Len(l) = d
      /\ Pre(b, k) \in [1 .. k -> Bit]
  <2>1. l \in [1 .. d -> Bit] /\ Pre(b, k) \in [1 .. k -> Bit]
    BY <1>1, <1>2, Parts
  <2> QED
    BY <1>1, <2>1, Lengths
<1>4. SubSeq(l, 1, k) \o SubSeq(l, k + 1, d) = SubSeq(l, 1, d)
  <2>1. 1 \in 1 .. Len(l) + 1 /\ k \in 1 - 1 .. Len(l) /\ d \in k .. Len(l)
    BY <1>1, <1>3
  <2> QED
    BY <1>3, <2>1, ConcatAdjacentSubSeq
<1>5. SubSeq(l, 1, d) = l
  BY <1>3, SubSeqFull
<1>6. SubSeq(l, 1, k) = Pre(b, k)
  <2>1. \A i \in 1 .. k : l[i] \in Bit
    BY <1>1, <1>3
  <2>2. /\ SubSeq(l, 1, k) \in Seq(Bit) /\ Len(SubSeq(l, 1, k)) = IF 1 <= k THEN k - 1 + 1 ELSE 0
        /\ \A i \in 1 .. k - 1 + 1 : SubSeq(l, 1, k)[i] = l[1 + i - 1]
    BY <1>1, <2>1, SubSeqProperties
  <2>3. Len(SubSeq(l, 1, k)) = k /\ \A i \in 1 .. k : SubSeq(l, 1, k)[i] = l[i]
    BY <1>1, <2>2
  <2>4. \A i \in 1 .. k : l[i] = b[i]
    BY <1>1, <1>2 DEF Sib
  <2>5. SubSeq(l, 1, k) = [i \in 1 .. k |-> SubSeq(l, 1, k)[i]]
    BY <2>2, <2>3, LenProperties
  <2> QED
    BY <2>3, <2>4, <2>5 DEF Pre
<1> QED
  BY <1>2, <1>4, <1>5, <1>6

\* TreeAt is a function, so it is what its definition says.
LEMMA TreeAtIs ==
  ASSUME NEW t, NEW b
  PROVE  \A d \in 0 .. Depth :
           TreeAt(t, b)[d] = IF d = 0 THEN 0 ELSE ChildAt(t, b, TreeAt(t, b)[d - 1], d - 1)
<1> DEFINE Is(g, n) == g = [d \in 0 .. n |-> IF d = 0 THEN 0 ELSE ChildAt(t, b, g[d - 1], d - 1)]
           S == {n \in Nat : \E g : Is(g, n)}
<1>0. Depth \in Nat
  BY DepthAssumption
<1>1. 0 \in S
  <2>1. Is([d \in 0 .. 0 |-> 0], 0)
    OBVIOUS
  <2> QED
    BY <2>1
<1>2. ASSUME NEW n \in Nat, n \in S PROVE n + 1 \in S
  <2>1. PICK g : Is(g, n)
    BY <1>2
  <2>2. PICK h : h = [d \in 0 .. n + 1 |-> IF d = n + 1 THEN ChildAt(t, b, g[n], n) ELSE g[d]]
    OBVIOUS
  <2>3. ASSUME NEW d \in 0 .. n + 1
        PROVE  h[d] = IF d = 0 THEN 0 ELSE ChildAt(t, b, h[d - 1], d - 1)
    <3>1. CASE d = n + 1
      <4>1. h[d] = ChildAt(t, b, g[n], n) /\ h[n] = g[n] /\ d - 1 = n /\ d # 0
        BY <2>2, <3>1
      <4> QED
        BY <3>1, <4>1
    <3>2. CASE d \in 0 .. n
      <4>1. g[d] = IF d = 0 THEN 0 ELSE ChildAt(t, b, g[d - 1], d - 1)
        BY <2>1, <3>2
      <4>2. d # 0 => d - 1 \in 0 .. n + 1 /\ d - 1 # n + 1
        BY <3>2
      <4> QED
        BY <2>2, <3>2, <4>1, <4>2
    <3> QED
      BY <3>1, <3>2
  <2>4. Is(h, n + 1)
    <3>1. h = [d \in 0 .. n + 1 |-> h[d]]
      BY <2>2
    <3> QED
      BY <2>3, <3>1
  <2> HIDE DEF Is
  <2> QED
    BY <2>4
<1> HIDE DEF S
<1>3. Depth \in S
  <2>1. \A n \in 0 .. Depth - 1 : n \in S => n + 1 \in S
    BY <1>0, <1>2
  <2>2. 0 .. Depth \subseteq S
    BY <1>0, <1>1, <2>1, UpTo
  <2> QED
    BY <1>0, <2>2
<1> USE DEF S
<1>4. Is(TreeAt(t, b), Depth)
  BY <1>3 DEF TreeAt
<1> QED
  BY <1>4

\* The prototype's nodes and the kernel's.
TreeNode == [key : Labels \cup {NoKey}, il : Int, ir : Int]
SameNode(m, q) ==
  /\ TypeOfLinks(m) = q.type
  /\ q.type = KEYLEAF => m.key = q.key /\ m.ir = 0
  /\ q.type = INTERNAL => m.il = q.il /\ m.ir = q.ir
Mirrors(t, p, n) ==
  /\ t \in [0 .. MaxNodes - 1 -> TreeNode]
  /\ \A i \in 0 .. n - 1 : SameNode(t[i], p[i])

\* What the links say, read backwards.
LEMMA LinksTell ==
  ASSUME NEW m \in TreeNode
  PROVE  /\ TypeOfLinks(m) = KEYLEAF <=> m.il = 0
         /\ TypeOfLinks(m) = PUNCTURE <=> m.il = PUNCTURED
         /\ TypeOfLinks(m) = INTERNAL <=> m.il # 0 /\ m.il # PUNCTURED
<1>1. PUNCTURED # 0
  BY DEF PUNCTURED
<1>2. m.il = 0 => TypeOfLinks(m) = KEYLEAF
  BY <1>1 DEF TypeOfLinks
<1>3. m.il = PUNCTURED => TypeOfLinks(m) = PUNCTURE
  BY <1>1 DEF TypeOfLinks
<1>4. m.il # 0 /\ m.il # PUNCTURED => TypeOfLinks(m) = INTERNAL
  BY DEF TypeOfLinks
<1> QED
  BY <1>1, <1>2, <1>3, <1>4 DEF KEYLEAF, PUNCTURE, INTERNAL

\* Down the path both come by the same nodes, as far as the node find_key ends at.
LEMMA SamePath ==
  ASSUME NEW p, NEW n, NEW P, NEW L, NEW b, NEW f, NEW k, Splits(p, n, P, L, b, f, k),
         NEW t, Mirrors(t, p, n)
  PROVE  /\ TreeAt(t, b)[k] = f
         /\ \A d \in 0 .. k - 1 :
              /\ ChildAt(t, b, TreeAt(t, b)[d], d) = TreeAt(t, b)[d + 1]
              /\ TreeAt(t, b)[d + 1] # 0
<1>1. /\ n \in Nat \ {0} /\ k \in 0 .. Depth /\ k \in Nat /\ Depth \in Nat /\ b \in Bits
      /\ f \in 0 .. n - 1 /\ L[f] = Pre(b, k) /\ p[f].type # INTERNAL /\ TreeOK(p, n, P, L)
      /\ L \in [0 .. n - 1 -> Labels] /\ Len(L[0]) = 0
      /\ \A i, j \in 0 .. n - 1 : L[i] = L[j] => i = j
  BY DepthAssumption DEF Splits, TreeOK, LabelsOK
<1> DEFINE At(d) == TreeAt(t, b)[d]
           S == {d \in Nat : At(d) \in 0 .. n - 1 /\ L[At(d)] = Pre(b, d)}
<1>2. At(0) = 0
  BY <1>1, TreeAtIs
<1>3. 0 \in S
  <2>1. 0 \in 0 .. n - 1 /\ L[0] \in Labels /\ 0 \in 0 .. Depth
    BY <1>1
  <2>2. Pre(b, 0) \in Labels /\ Len(Pre(b, 0)) = 0
    BY <1>1, <2>1, Parts
  <2>3. L[0] = Pre(b, 0)
    BY <1>1, <2>1, <2>2, SameLabel DEF Above
  <2> QED
    BY <1>2, <2>1, <2>3
<1>4. ASSUME NEW d \in 0 .. k - 1, d \in S
      PROVE  d + 1 \in S /\ ChildAt(t, b, At(d), d) = At(d + 1) /\ At(d + 1) # 0
  <2>1. PICK i \in 0 .. n - 1 : i = At(d) /\ L[i] = Pre(b, d)
    BY <1>4
  <2>2. d \in 0 .. Depth /\ d + 1 \in 0 .. Depth /\ d + 1 # 0 /\ d + 1 - 1 = d /\ d < k
    BY <1>1
  <2>3. p[i].type = INTERNAL
    <3>1. Len(Pre(b, d)) = d /\ Len(Pre(b, k)) = k
      BY <1>1, <2>2, Parts
    <3>2. Above(L[i], L[f]) /\ i # f
      BY <1>1, <2>1, <2>2, <3>1 DEF Above, Pre
    <3> QED
      BY <1>1, <3>2 DEF TreeOK, EndsOK
  <2>4. PICK c : c = [at |-> i, depth |-> d]
    OBVIOUS
  <2>5. PICK j \in 0 .. n - 1 : /\ Descend(p, c, b) = [at |-> j, depth |-> d + 1]
                                /\ L[j] = Pre(b, d + 1)
    <3>1. TreeOK(p, n, P, L) /\ b \in Bits /\ d \in 0 .. Depth
      BY <1>1, <2>2
    <3>2. p[i].type = INTERNAL =>
            \E j \in 0 .. n - 1 : /\ Descend(p, c, b) = [at |-> j, depth |-> d + 1]
                                  /\ L[j] = Pre(b, d + 1)
      BY <2>1, <2>4, <3>1, Descends
    <3> QED
      BY <2>3, <3>2
  <2>6. j = IF b[d + 1] = 1 THEN p[i].ir ELSE p[i].il
    <3>1. /\ c.at = i /\ c.depth = d /\ p[i].type # KEYLEAF
      BY <2>3, <2>4 DEF INTERNAL, KEYLEAF
    <3>2. Descend(p, c, b) = [at |-> IF b[d + 1] = 1 THEN p[i].ir ELSE p[i].il, depth |-> d + 1]
      BY <2>3, <3>1 DEF Descend
    <3> QED
      BY <2>5, <3>2
  <2>7. ChildAt(t, b, i, d) = j
    <3>1. SameNode(t[i], p[i])
      BY DEF Mirrors
    <3>2. t[i].il = p[i].il /\ t[i].ir = p[i].ir
      BY <2>3, <3>1 DEF SameNode
    <3> QED
      BY <2>6, <3>2 DEF ChildAt
  <2>8. At(d + 1) = j
    <3>1. At(d + 1) = ChildAt(t, b, At(d), d)
      BY <2>2, TreeAtIs
    <3> QED
      BY <2>1, <2>7, <3>1
  <2>9. j # 0
    <3>1. Len(L[j]) = d + 1
      BY <1>1, <2>2, <2>5, Parts
    <3> QED
      BY <1>1, <2>2, <3>1
  <2> QED
    BY <1>4, <2>1, <2>5, <2>7, <2>8, <2>9
<1> HIDE DEF S
<1>5. 0 .. k \subseteq S
  BY <1>1, <1>3, <1>4, UpTo
<1>6. At(k) = f
  <2>1. At(k) \in 0 .. n - 1 /\ L[At(k)] = Pre(b, k)
    BY <1>1, <1>5 DEF S
  <2> QED
    BY <1>1, <2>1
<1>7. ASSUME NEW d \in 0 .. k - 1 PROVE ChildAt(t, b, At(d), d) = At(d + 1) /\ At(d + 1) # 0
  <2>1. d \in S
    BY <1>1, <1>5
  <2> QED
    BY <1>4, <2>1
<1> QED
  BY <1>6, <1>7

\* find_key of the prototype: the leaf, or NULL for a punctured tag.
LEMMA TreeFinds ==
  ASSUME NEW p, NEW n, NEW P, NEW L, NEW b, NEW f, NEW k, Splits(p, n, P, L, b, f, k),
         p[f].type = PUNCTURE => k = Depth, NEW t, Mirrors(t, p, n)
  PROVE  /\ p[f].type = KEYLEAF => TreeFind(t, b).at = f /\ TreeFind(t, b).depth = k
         /\ p[f].type = PUNCTURE => TreeFind(t, b).at = NULL
<1>1. /\ n \in Nat \ {0} /\ k \in 0 .. Depth /\ k \in Nat /\ Depth \in Nat /\ b \in Bits
      /\ f \in 0 .. n - 1 /\ p[f].type # INTERNAL /\ ArrayOK(p, n)
  BY DepthAssumption DEF Splits, TreeOK, LabelsOK
<1>2. p[f].type \in {KEYLEAF, PUNCTURE} /\ f \in 0 .. MaxNodes - 1
  BY <1>1, NodeType
<1>3. t[f] \in TreeNode /\ SameNode(t[f], p[f])
  BY <1>1, <1>2 DEF Mirrors
<1>4. PICK at : at = TreeAt(t, b)
  OBVIOUS
<1>5. /\ at[k] = f
      /\ \A d \in 0 .. k - 1 : ChildAt(t, b, at[d], d) = at[d + 1] /\ at[d + 1] # 0
  BY <1>4, SamePath
<1>6. PICK leaf : leaf = {d \in 0 .. Depth - 1 :
                            /\ ChildAt(t, b, at[d], d) = 0
                            /\ \A c \in 0 .. d - 1 : ChildAt(t, b, at[c], c) # 0}
  OBVIOUS
<1>7. TreeFind(t, b) =
        IF leaf # {}
        THEN LET d == CHOOSE x \in leaf : TRUE IN [at |-> at[d], depth |-> d, index |-> at[d]]
        ELSE [at |-> IF t[at[Depth]].il = 0 THEN at[Depth] ELSE NULL,
              depth |-> Depth, index |-> at[Depth - 1]]
  BY <1>4, <1>6 DEF TreeFind
<1>8. ASSUME k < Depth PROVE TreeFind(t, b).at = f /\ TreeFind(t, b).depth = k
  <2>1. p[f].type = KEYLEAF
    BY <1>1, <1>2, <1>8
  <2>2. t[f].il = 0 /\ t[f].ir = 0
    BY <1>3, <2>1, LinksTell DEF SameNode
  <2>3. ChildAt(t, b, at[k], k) = 0
    BY <1>5, <2>2 DEF ChildAt
  <2>4. \A c \in 0 .. k - 1 : ChildAt(t, b, at[c], c) # 0
    BY <1>5
  <2>5. ASSUME NEW d \in leaf PROVE d = k
    <3>1. d \in 0 .. Depth - 1 /\ ChildAt(t, b, at[d], d) = 0
      BY <1>6
    <3>2. ~(d < k)
      BY <1>1, <2>4, <3>1
    <3>3. ~(k < d)
      BY <1>1, <1>6, <2>3, <3>1
    <3> QED
      BY <1>1, <3>1, <3>2, <3>3
  <2>6. k \in leaf
    BY <1>1, <1>6, <1>8, <2>3, <2>4
  <2>7. leaf # {} /\ (CHOOSE x \in leaf : TRUE) = k
    BY <2>5, <2>6
  <2>8. TreeFind(t, b) = [at |-> at[k], depth |-> k, index |-> at[k]]
    BY <1>7, <2>7
  <2> QED
    BY <1>5, <2>8
<1>9. ASSUME k = Depth
      PROVE  /\ p[f].type = KEYLEAF => TreeFind(t, b).at = f /\ TreeFind(t, b).depth = k
             /\ p[f].type = PUNCTURE => TreeFind(t, b).at = NULL
  <2>1. leaf = {}
    BY <1>5, <1>6, <1>9
  <2>2. TreeFind(t, b) = [at |-> IF t[f].il = 0 THEN f ELSE NULL, depth |-> Depth,
                          index |-> at[Depth - 1]]
    BY <1>5, <1>7, <1>9, <2>1
  <2>3. (p[f].type = KEYLEAF => t[f].il = 0) /\ (p[f].type = PUNCTURE => t[f].il # 0)
    BY <1>3, LinksTell DEF SameNode, KEYLEAF, PUNCTURE
  <2> QED
    BY <1>9, <2>2, <2>3
<1>10. k < Depth \/ k = Depth
  BY <1>1
<1> QED
  BY <1>1, <1>8, <1>9, <1>10

\* A node of the path gets the same links in both, and is punctured in both.
LEMMA SameOnPath ==
  ASSUME NEW n \in Nat \ {0}, NEW b \in Bits, NEW k \in 0 .. Depth, NEW d \in k .. Depth,
         NEW m \in TreeNode, NEW q \in Keynode(MaxNodes), q.type = INTERNAL
  PROVE  Links(m, b, d, n, k) \in TreeNode /\ SameNode(Links(m, b, d, n, k), PathNode(q, n, k, b, d))
<1>1. Depth \in Nat /\ k \in Nat /\ d \in Nat
  BY DepthAssumption
<1>2. PICK l : l = Links(m, b, d, n, k)
  OBVIOUS
<1>3. PICK r : r = PathNode(q, n, k, b, d)
  OBVIOUS
<1>4. m.key \in Labels \cup {NoKey} /\ m = [key |-> m.key, il |-> m.il, ir |-> m.ir]
  BY DEF TreeNode
<1>5. CASE d = Depth
  <2>1. l = [m EXCEPT !.il = PUNCTURED, !.ir = PUNCTURED]
    BY <1>2, <1>5 DEF Links
  <2>2. l \in TreeNode /\ l.il = PUNCTURED
    <3>1. l = [key |-> m.key, il |-> PUNCTURED, ir |-> PUNCTURED]
      BY <1>4, <2>1
    <3> QED
      BY <1>4, <3>1 DEF TreeNode, PUNCTURED
  <2>3. r = [q EXCEPT !.type = PUNCTURE]
    BY <1>3, <1>5 DEF PathNode
  <2>4. r.type = PUNCTURE
    BY <2>3 DEF Keynode
  <2>5. TypeOfLinks(l) = PUNCTURE
    BY <2>2, LinksTell
  <2> QED
    BY <1>2, <1>3, <2>2, <2>4, <2>5 DEF SameNode, KEYLEAF, PUNCTURE, INTERNAL
<1>6. CASE d # Depth
  <2>1. b[d + 1] \in {0, 1}
    BY <1>1, <1>6 DEF Bits, Bit
  <2>2. PICK base \in Nat \ {0} : base = n + 2 * (d - k)
    BY <1>1
  <2>3. l = [m EXCEPT !.il = base + 1 - b[d + 1], !.ir = base + b[d + 1]]
    BY <1>2, <1>6, <2>2 DEF Links
  <2>4. l \in TreeNode /\ l.il = base + 1 - b[d + 1] /\ l.ir = base + b[d + 1]
    <3>1. l = [key |-> m.key, il |-> base + 1 - b[d + 1], ir |-> base + b[d + 1]]
      BY <1>4, <2>3
    <3>2. base + 1 - b[d + 1] \in Int /\ base + b[d + 1] \in Int
      BY <2>1
    <3> QED
      BY <1>4, <3>1, <3>2 DEF TreeNode
  <2>5. PathIndex(n, k, d + 1) - 1 = base
    BY <1>1, <2>2 DEF PathIndex
  <2>6. r = [q EXCEPT !.il = base + 1 - b[d + 1], !.ir = base + b[d + 1]]
    BY <1>3, <1>6, <2>5 DEF PathNode, Linked, Children
  <2>7. r.type = INTERNAL /\ r.il = base + 1 - b[d + 1] /\ r.ir = base + b[d + 1]
    BY <2>6 DEF Keynode
  <2>8. l.il # 0 /\ l.il # PUNCTURED
    BY <2>1, <2>2, <2>4 DEF PUNCTURED
  <2>9. TypeOfLinks(l) = INTERNAL
    BY <2>4, <2>8, LinksTell
  <2> QED
    BY <1>2, <1>3, <2>4, <2>7, <2>9 DEF SameNode, KEYLEAF, PUNCTURE, INTERNAL
<1> QED
  BY <1>5, <1>6

\* What the prototype's puncture does to each node.
LEMMA TreePunctureIs ==
  ASSUME NEW p, NEW n, NEW P, NEW L, NEW b, NEW f, NEW k, Splits(p, n, P, L, b, f, k),
         p[f].type = KEYLEAF, NEW t, Mirrors(t, p, n), NEW u, u = TreePuncture(t, n, b)
  PROVE  /\ u = [i \in 0 .. MaxNodes - 1 |-> u[i]]
         /\ u[f] = Links([t[f] EXCEPT !.key = NoKey], b, k, n, k)
         /\ \A d \in k + 1 .. Depth :
              /\ u[PathIndex(n, k, d)] = Links(t[PathIndex(n, k, d)], b, d, n, k)
              /\ u[PathIndex(n, k, d) - 1] = [key |-> Sib(b, d), il |-> 0, ir |-> 0]
         /\ \A i \in 0 .. MaxNodes - 1 : i # f /\ i \notin n .. Grown(n, k) - 1 => u[i] = t[i]
<1>1. /\ n \in Nat \ {0} /\ k \in 0 .. Depth /\ k \in Nat /\ Depth \in Nat /\ b \in Bits
      /\ f \in 0 .. n - 1 /\ ArrayOK(p, n) /\ L[f] = Pre(b, k) /\ p[f].key = L[f]
      /\ DOMAIN t = 0 .. MaxNodes - 1
  BY DepthAssumption DEF Splits, TreeOK, LabelsOK, NodeOK, Mirrors
<1>2. f \in 0 .. MaxNodes - 1 /\ MaxNodes \in Nat /\ Grown(n, k) \in 1 .. MaxNodes
  BY <1>1, NodeType, LabelsGrow
<1>3. TreeFind(t, b).at = f /\ TreeFind(t, b).depth = k /\ f # NULL
  BY <1>1, TreeFinds DEF NULL, KEYLEAF, PUNCTURE
<1>4. t[f].key = Pre(b, k)
  BY <1>1 DEF Mirrors, SameNode
<1> DEFINE D(i) == k + 1 + (i - n) \div 2
           New(i) ==
             CASE i = f -> Links([t[i] EXCEPT !.key = NoKey], b, k, n, k)
               [] i \in n .. n + 2 * (Depth - k) - 1 ->
                    IF (i - n) % 2 = 0
                    THEN [key |-> t[f].key \o SubSeq(SiblingKey(b, D(i)), k + 1, D(i)),
                          il |-> 0, ir |-> 0]
                    ELSE Links(t[i], b, D(i), n, k)
               [] OTHER -> t[i]
<1>5. u = [i \in 0 .. MaxNodes - 1 |-> New(i)]
  BY <1>1, <1>3 DEF TreePuncture
<1>6. Grown(n, k) = n + 2 * (Depth - k)
  BY DEF Grown, Growth
<1>7. u[f] = Links([t[f] EXCEPT !.key = NoKey], b, k, n, k)
  <2>1. f \notin n .. n + 2 * (Depth - k) - 1
    BY <1>1
  <2> QED
    BY <1>2, <1>5, <2>1
<1>8. ASSUME NEW d \in k + 1 .. Depth
      PROVE  /\ u[PathIndex(n, k, d)] = Links(t[PathIndex(n, k, d)], b, d, n, k)
             /\ u[PathIndex(n, k, d) - 1] = [key |-> Sib(b, d), il |-> 0, ir |-> 0]
  <2>1. PICK i \in Nat : i = PathIndex(n, k, d) /\ i = n + 2 * (d - k) - 1
    BY <1>1 DEF PathIndex
  <2>2. /\ i \in n .. n + 2 * (Depth - k) - 1 /\ i - 1 \in n .. n + 2 * (Depth - k) - 1
        /\ i # f /\ i - 1 # f
    BY <1>1, <2>1
  <2>3. i \in 0 .. MaxNodes - 1 /\ i - 1 \in 0 .. MaxNodes - 1
    BY <1>1, <1>2, <1>6, <2>2
  <2>4. (i - n) % 2 # 0 /\ (i - 1 - n) % 2 = 0 /\ D(i) = d /\ D(i - 1) = d
    BY <1>1, <2>1
  <2>5. u[i] = Links(t[i], b, d, n, k)
    <3>1. u[i] = New(i)
      BY <1>5, <2>3
    <3>2. New(i) = Links(t[i], b, D(i), n, k)
      BY <2>2, <2>4
    <3> QED
      BY <2>4, <3>1, <3>2
  <2>6. SiblingKey(b, d) = Sib(b, d) /\ Pre(b, k) \o SubSeq(Sib(b, d), k + 1, d) = Sib(b, d)
    <3>1. d \in 1 .. Depth
      BY <1>1
    <3> QED
      BY <1>1, <3>1, SibIs, SibRejoined
  <2>7. u[i - 1] = [key |-> Sib(b, d), il |-> 0, ir |-> 0]
    <3>1. u[i - 1] = New(i - 1)
      BY <1>5, <2>3
    <3>2. New(i - 1) = [key |-> t[f].key \o SubSeq(SiblingKey(b, D(i - 1)), k + 1, D(i - 1)),
                        il |-> 0, ir |-> 0]
      BY <2>2, <2>4
    <3> QED
      BY <1>4, <2>4, <2>6, <3>1, <3>2
  <2> QED
    BY <2>1, <2>5, <2>7
<1>9. ASSUME NEW i \in 0 .. MaxNodes - 1, i # f, i \notin n .. Grown(n, k) - 1 PROVE u[i] = t[i]
  <2>1. i \notin n .. n + 2 * (Depth - k) - 1
    BY <1>1, <1>6, <1>9
  <2>2. New(i) = t[i]
    BY <1>9, <2>1
  <2> QED
    BY <1>5, <2>2
<1>10. u = [i \in 0 .. MaxNodes - 1 |-> u[i]]
  <2> HIDE DEF New
  <2> QED
    BY <1>5
<1> QED
  BY <1>7, <1>8, <1>9, <1>10

\* The prototype's puncture leaves the tree the kernel's leaves.
LEMMA MirrorStep ==
  ASSUME NEW p, NEW n, NEW P, NEW L, NEW b, NEW f, NEW k, Splits(p, n, P, L, b, f, k),
         p[f].type = PUNCTURE => k = Depth, NEW t, Mirrors(t, p, n),
         NEW q, SplitInto(q, p, n, b, f, k)
  PROVE  Mirrors(TreePuncture(t, n, b), q, Grown(n, k))
<1>1. /\ n \in Nat \ {0} /\ k \in 0 .. Depth /\ k \in Nat /\ Depth \in Nat /\ b \in Bits
      /\ f \in 0 .. n - 1 /\ p[f].type # INTERNAL /\ ArrayOK(p, n)
      /\ t \in [0 .. MaxNodes - 1 -> TreeNode] /\ p \in [0 .. MaxNodes - 1 -> Keynode(MaxNodes)]
  BY DepthAssumption DEF Splits, TreeOK, LabelsOK, ArrayOK, Mirrors
<1>2. /\ f \in 0 .. MaxNodes - 1 /\ MaxNodes \in Nat /\ Grown(n, k) \in 1 .. MaxNodes
      /\ p[f] \in Keynode(MaxNodes) /\ p[f].type \in {KEYLEAF, PUNCTURE}
  BY <1>1, NodeType, LabelsGrow
<1>3. PICK u : u = TreePuncture(t, n, b)
  OBVIOUS
<1>4. CASE p[f].type = PUNCTURE
  <2>1. k = Depth /\ Grown(n, k) = n
    BY <1>1, <1>4, Indices
  <2>2. u = t
    <3>1. TreeFind(t, b).at = NULL
      BY <1>4, TreeFinds
    <3> QED
      BY <1>3, <3>1 DEF TreePuncture
  <2>3. q[f].type = PUNCTURE
    <3>1. q[f] = [Cleared(p[f]) EXCEPT !.type = PUNCTURE]
      BY <2>1 DEF SplitInto, PathNode
    <3> QED
      BY <1>2, <3>1 DEF Cleared, Keynode
  <2>4. SameNode(t[f], p[f])
    BY <1>1 DEF Mirrors
  <2>5. SameNode(t[f], q[f])
    BY <1>4, <2>3, <2>4 DEF SameNode, KEYLEAF, PUNCTURE, INTERNAL
  <2>6. ASSUME NEW i \in 0 .. n - 1, i # f PROVE SameNode(t[i], q[i])
    <3>1. i \in 0 .. MaxNodes - 1 /\ i \notin n .. Grown(n, k) - 1
      BY <1>1, <2>1, NodeType
    <3>2. q[i] = p[i]
      BY <2>6, <3>1 DEF SplitInto
    <3> QED
      BY <3>2 DEF Mirrors
  <2>7. Mirrors(t, q, n)
    BY <1>1, <2>5, <2>6 DEF Mirrors
  <2> QED
    BY <1>3, <2>1, <2>2, <2>7
<1>5. CASE p[f].type = KEYLEAF
  <2>1. /\ u = [i \in 0 .. MaxNodes - 1 |-> u[i]]
        /\ u[f] = Links([t[f] EXCEPT !.key = NoKey], b, k, n, k)
        /\ \A d \in k + 1 .. Depth :
             /\ u[PathIndex(n, k, d)] = Links(t[PathIndex(n, k, d)], b, d, n, k)
             /\ u[PathIndex(n, k, d) - 1] = [key |-> Sib(b, d), il |-> 0, ir |-> 0]
        /\ \A i \in 0 .. MaxNodes - 1 : i # f /\ i \notin n .. Grown(n, k) - 1 => u[i] = t[i]
    BY <1>3, <1>5, TreePunctureIs
  <2>2. u[f] \in TreeNode /\ SameNode(u[f], q[f])
    <3>1. PICK m : m = [t[f] EXCEPT !.key = NoKey]
      OBVIOUS
    <3>2. m \in TreeNode
      BY <1>1, <1>2, <3>1 DEF TreeNode
    <3>3. Cleared(p[f]) \in Keynode(MaxNodes) /\ Cleared(p[f]).type = INTERNAL
      BY <1>2 DEF Cleared, Keynode
    <3>4. q[f] = PathNode(Cleared(p[f]), n, k, b, k) /\ k \in k .. Depth
      <4>1. k \in k .. Depth
        BY <1>1
      <4> QED
        BY <4>1 DEF SplitInto
    <3> QED
      BY <1>1, <2>1, <3>1, <3>2, <3>3, <3>4, SameOnPath
  <2>3. ASSUME NEW i \in n .. Grown(n, k) - 1 PROVE u[i] \in TreeNode /\ SameNode(u[i], q[i])
    <3>1. i \in 0 .. MaxNodes - 1
      BY <1>1, <1>2
    <3>2. PICK d \in k + 1 .. Depth : i = PathIndex(n, k, d) \/ i = PathIndex(n, k, d) - 1
      BY <1>1, IndexOf
    <3>3. d \in k .. Depth /\ d \in 0 .. Depth /\ d # 0
      BY <1>1
    <3>4. CASE i = PathIndex(n, k, d)
      <4>1. PICK r : r = [p[i] EXCEPT !.type = INTERNAL]
        OBVIOUS
      <4>2. r \in Keynode(MaxNodes) /\ r.type = INTERNAL
        <5>1. p[i] \in Keynode(MaxNodes)
          BY <1>1, <3>1
        <5> QED
          BY <4>1, <5>1 DEF Keynode
      <4>3. q[i] = PathNode(r, n, k, b, d)
        BY <3>4, <4>1 DEF SplitInto
      <4>4. t[i] \in TreeNode
        BY <1>1, <3>1
      <4>5. u[i] = Links(t[i], b, d, n, k)
        BY <2>1, <3>4
      <4> QED
        BY <1>1, <3>3, <4>2, <4>3, <4>4, <4>5, SameOnPath
    <3>5. CASE i = PathIndex(n, k, d) - 1
      <4>1. u[i] = [key |-> Sib(b, d), il |-> 0, ir |-> 0]
        BY <2>1, <3>5
      <4>2. Sib(b, d) \in Labels
        BY <1>1, <3>3, Parts
      <4>3. u[i] \in TreeNode /\ u[i].il = 0 /\ u[i].ir = 0 /\ u[i].key = Sib(b, d)
        BY <4>1, <4>2 DEF TreeNode
      <4>4. q[i] = [p[i] EXCEPT !.type = KEYLEAF, !.key = Sib(b, d)]
        BY <3>5 DEF SplitInto
      <4>5. q[i].type = KEYLEAF /\ q[i].key = Sib(b, d)
        <5>1. p[i] \in Keynode(MaxNodes)
          BY <1>1, <3>1
        <5> QED
          BY <4>4, <5>1 DEF Keynode
      <4>6. TypeOfLinks(u[i]) = KEYLEAF
        BY <4>3, LinksTell
      <4> QED
        BY <4>3, <4>5, <4>6 DEF SameNode, KEYLEAF, INTERNAL
    <3> QED
      BY <3>2, <3>4, <3>5
  <2>4. ASSUME NEW i \in 0 .. MaxNodes - 1, i # f, i \notin n .. Grown(n, k) - 1
        PROVE  u[i] = t[i] /\ q[i] = p[i] /\ u[i] \in TreeNode
    BY <1>1, <2>1, <2>4 DEF SplitInto
  <2>5. ASSUME NEW i \in 0 .. MaxNodes - 1 PROVE u[i] \in TreeNode
    BY <2>2, <2>3, <2>4
  <2>6. ASSUME NEW i \in 0 .. Grown(n, k) - 1 PROVE SameNode(u[i], q[i])
    <3>1. CASE i = f
      BY <2>2, <3>1
    <3>2. CASE i \in n .. Grown(n, k) - 1
      BY <2>3, <3>2
    <3>3. CASE i # f /\ i \notin n .. Grown(n, k) - 1
      <4>1. i \in 0 .. MaxNodes - 1 /\ i \in 0 .. n - 1
        BY <1>1, <1>2, <3>3
      <4> QED
        BY <2>4, <3>3, <4>1 DEF Mirrors
    <3> QED
      BY <3>1, <3>2, <3>3
  <2>7. u \in [0 .. MaxNodes - 1 -> TreeNode]
    BY <2>1, <2>5
  <2> QED
    BY <1>3, <2>6, <2>7 DEF Mirrors
<1> QED
  BY <1>2, <1>4, <1>5

\* Both begin as a root alone.
LEMMA MirrorFresh ==
  ASSUME NEW p, p[0].type = KEYLEAF, p[0].key = <<>>
  PROVE  Mirrors(TreeInit, p, 1)
<1>1. MaxNodes \in Nat \ {0} /\ <<>> \in Labels
  BY ZeroOK, RootLabel
<1>2. TreeLeaf = [key |-> NoKey, il |-> 0, ir |-> 0] /\ TreeLeaf \in TreeNode
  BY DEF TreeLeaf, TreeNode
<1>3. PICK r : r = [TreeLeaf EXCEPT !.key = <<>>]
  OBVIOUS
<1>4. r = [key |-> <<>>, il |-> 0, ir |-> 0]
  BY <1>2, <1>3
<1>5. r \in TreeNode /\ r.il = 0 /\ r.ir = 0 /\ r.key = <<>>
  BY <1>1, <1>4 DEF TreeNode
<1>6. TreeInit = [i \in 0 .. MaxNodes - 1 |-> IF i = 0 THEN r ELSE TreeLeaf]
  BY <1>3 DEF TreeInit
<1>7. TreeInit \in [0 .. MaxNodes - 1 -> TreeNode] /\ TreeInit[0] = r
  <2>1. 0 \in 0 .. MaxNodes - 1
    BY <1>1
  <2> QED
    BY <1>2, <1>5, <1>6, <2>1
<1>8. TypeOfLinks(r) = KEYLEAF
  BY <1>5, LinksTell
<1>9. SameNode(TreeInit[0], p[0])
  BY <1>5, <1>7, <1>8 DEF SameNode, KEYLEAF, INTERNAL
<1> QED
  <2>1. \A i \in 0 .. 1 - 1 : i = 0
    OBVIOUS
  <2> QED
    BY <1>7, <1>9, <2>1 DEF Mirrors

\* The prototype's tree next to the kernel's.
TreesInv == TreeInv /\ DiskInv /\ Mirrors(tree, pprf, size)

\* At first both trees are the root.
LEMMA TreesInit == VariantsInit => TreesInv
<1> SUFFICES ASSUME VariantsInit PROVE TreesInv
  OBVIOUS
<1>1. Init /\ disk = pprf /\ tree = TreeInit
  BY DEF VariantsInit, StoreInit
<1>2. /\ pprf \in [0 .. MaxNodes - 1 -> Keynode(MaxNodes)] /\ size = 1
      /\ pprf[0].type = KEYLEAF /\ pprf[0].key = <<>>
  BY <1>1, InitIs DEF Init
<1>3. Mirrors(tree, pprf, size)
  BY <1>1, <1>2, MirrorFresh
<1> QED
  BY <1>1, <1>2, <1>3, FreshTree DEF TreesInv, DiskInv

\* A puncture of all of them leaves the prototype's tree the kernel's.
LEMMA TreesPuncture ==
  ASSUME TreesInv, NEW t \in Tags, PunctureAll(t) PROVE TreesInv'
<1>1. TreeInv /\ DiskInv /\ Mirrors(tree, pprf, size) /\ Persist(t) /\ PunctureAtTag(t) /\ Next
  BY DEF TreesInv, PunctureAll, Persist, Next
<1>2. TreeInv' /\ DiskInv'
  BY <1>1, PersistStep, TreeStep
<1>3. PICK L : TreeOK(pprf, size, punctured, L)
  BY <1>1 DEF TreeInv
<1>4. PICK f \in 0 .. size - 1, k \in 0 .. Depth :
         /\ Splits(pprf, size, punctured, L, TagBits(t), f, k)
         /\ pprf[f].type = PUNCTURE => k = Depth
         /\ size' = Grown(size, k)
         /\ SplitInto(pprf', pprf, size, TagBits(t), f, k)
  BY <1>1, <1>3, Step
<1>5. PICK q : q = pprf'
  OBVIOUS
<1>6. /\ Splits(pprf, size, punctured, L, TagBits(t), f, k)
      /\ pprf[f].type = PUNCTURE => k = Depth
      /\ SplitInto(q, pprf, size, TagBits(t), f, k)
  BY <1>4, <1>5
<1>7. Mirrors(TreePuncture(tree, size, TagBits(t)), q, Grown(size, k))
  BY <1>1, <1>6, MirrorStep
<1>8. tree' = TreePuncture(tree, size, TagBits(t))
  BY DEF PunctureAll
<1>9. Mirrors(tree', pprf', size')
  BY <1>4, <1>5, <1>7, <1>8
<1> QED
  BY <1>2, <1>9 DEF TreesInv

\* Both start over together.
LEMMA TreesRenew == TreesInv /\ RenewAll => TreesInv'
<1> SUFFICES ASSUME TreesInv, RenewAll PROVE TreesInv'
  OBVIOUS
<1>1. Renew /\ tree' = TreeInit /\ TreeInv /\ DiskInv
  BY DEF RenewAll, TreesInv
<1>2. TreeInv' /\ DiskInv'
  BY <1>1, RenewStep
<1>3. pprf'[0] = InitMasterKey(MaxNodes)[0] /\ size' = 1
  <2>1. DOMAIN pprf = 0 .. MaxNodes - 1
    BY <1>1 DEF TreeInv, TreeOK, ArrayOK
  <2>2. 0 \in 0 .. MaxNodes - 1 /\ 0 < PerSector
    BY ZeroOK, StoreAssumption
  <2> QED
    BY <1>1, <2>1, <2>2 DEF Renew, Renewed
<1>4. pprf'[0].type = KEYLEAF /\ pprf'[0].key = <<>>
  BY <1>3, InitIs
<1>5. PICK q : q = pprf'
  OBVIOUS
<1>6. Mirrors(TreeInit, q, 1)
  BY <1>4, <1>5, MirrorFresh
<1> QED
  BY <1>1, <1>2, <1>3, <1>5, <1>6 DEF TreesInv

\* The two trees are one, whatever is punctured, again and again, and renewed.
THEOREM TreesInvariant == VariantsSpec => []TreesInv
<1>1. TreesInv /\ [VariantsNext]_allVars => TreesInv'
  <2> SUFFICES ASSUME TreesInv, [VariantsNext]_allVars PROVE TreesInv'
    OBVIOUS
  <2>1. CASE RenewAll
    BY <2>1, TreesRenew
  <2>2. ASSUME NEW t \in Tags, PunctureAll(t) PROVE TreesInv'
    BY <2>2, TreesPuncture
  <2>3. CASE UNCHANGED allVars
    BY <2>3 DEF allVars, storeVars, vars, TreesInv, TreeInv, DiskInv
  <2> QED
    BY <2>1, <2>2, <2>3 DEF VariantsNext
<1> QED
  BY <1>1, TreesInit, PTL DEF VariantsSpec

\* What find_key finds in the kernel's tree for each tag.
LEMMA LeafOrGone ==
  ASSUME NEW p, NEW n, NEW P, NEW L, TreeOK(p, n, P, L), NEW t \in Tags
  PROVE  \E f \in 0 .. n - 1, k \in 0 .. Depth :
           /\ Splits(p, n, P, L, TagBits(t), f, k) /\ (p[f].type = PUNCTURE => k = Depth)
           /\ p[f].type = IF t \in P THEN PUNCTURE ELSE KEYLEAF
<1>1. TagBits(t) \in Bits
  BY BitsOf
<1>2. PICK f \in 0 .. n - 1, k \in 0 .. Depth :
        /\ FindKey(p, TagBits(t)) = [at |-> f, depth |-> k] /\ L[f] = Pre(TagBits(t), k)
        /\ p[f].type = KEYLEAF \/ (p[f].type = PUNCTURE /\ k = Depth)
  BY <1>1, Finds
<1>3. Splits(p, n, P, L, TagBits(t), f, k) /\ (p[f].type = PUNCTURE => k = Depth)
  BY <1>1, <1>2 DEF Splits, INTERNAL, KEYLEAF, PUNCTURE
<1>4. CASE t \in P
  <2>1. PICK j \in 0 .. n - 1 : p[j].type = PUNCTURE /\ L[j] = TagBits(t)
    BY <1>4 DEF TreeOK, GoneOK
  <2>2. k = Depth
    BY <1>3, <1>4, FindsPunctured
  <2>3. L[f] = TagBits(t)
    BY <1>1, <1>2, <2>2, Parts
  <2>4. f = j
    BY <2>1, <2>3 DEF TreeOK, LabelsOK
  <2> QED
    BY <1>3, <1>4, <2>1, <2>4
<1>5. CASE t \notin P
  <2>1. PICK i \in 0 .. n - 1, e \in 0 .. Depth :
          FindKey(p, TagBits(t)) = [at |-> i, depth |-> e] /\ p[i].type = KEYLEAF
    BY <1>5, FindsLeaf
  <2>2. i = f
    BY <1>2, <2>1
  <2> QED
    BY <1>3, <1>5, <2>1, <2>2
<1> QED
  BY <1>4, <1>5

\* The prototype's links say what the kernel's types say, node by node, and its
\* evaluation returns every tag's key, -1 for a punctured one
\* (find_key, puncture and evaluate, ggm_prf/pprf-tree.c:106-250).
THEOREM TreeIsKernels == VariantsSpec => []TreeAgrees
<1>1. TreesInv => TreeAgrees
  <2> SUFFICES ASSUME TreesInv PROVE TreeAgrees
    OBVIOUS
  <2>1. TreeInv /\ Mirrors(tree, pprf, size)
    BY DEF TreesInv
  <2>2. PICK L : TreeOK(pprf, size, punctured, L)
    BY <2>1 DEF TreeInv
  <2>3. ASSUME NEW i \in 0 .. size - 1
        PROVE  /\ TypeOfLinks(tree[i]) = pprf[i].type
               /\ pprf[i].type = KEYLEAF => tree[i].key = pprf[i].key
               /\ pprf[i].type = INTERNAL => tree[i].il = pprf[i].il /\ tree[i].ir = pprf[i].ir
    BY <2>1 DEF Mirrors, SameNode
  <2>4. ASSUME NEW t \in Tags
        PROVE  TreeEvaluate(tree, TagBits(t)) =
                 IF t \in punctured THEN [code |-> -1, key |-> NoKey]
                                    ELSE [code |-> 0, key |-> TagBits(t)]
    <3>1. PICK f \in 0 .. size - 1, k \in 0 .. Depth :
            /\ Splits(pprf, size, punctured, L, TagBits(t), f, k)
            /\ pprf[f].type = PUNCTURE => k = Depth
            /\ pprf[f].type = IF t \in punctured THEN PUNCTURE ELSE KEYLEAF
      BY <2>2, LeafOrGone
    <3>2. /\ pprf[f].type = KEYLEAF =>
               TreeFind(tree, TagBits(t)).at = f /\ TreeFind(tree, TagBits(t)).depth = k
          /\ pprf[f].type = PUNCTURE => TreeFind(tree, TagBits(t)).at = NULL
      BY <2>1, <3>1, TreeFinds
    <3>3. CASE t \in punctured
      BY <3>1, <3>2, <3>3 DEF TreeEvaluate
    <3>4. CASE t \notin punctured
      <4>1. pprf[f].type = KEYLEAF /\ f # NULL
        BY <3>1, <3>4 DEF NULL
      <4>2. pprf[f].key = L[f] /\ L[f] = Pre(TagBits(t), k)
        BY <2>2, <3>1, <4>1 DEF TreeOK, NodeOK, Splits
      <4>3. tree[f].key = Pre(TagBits(t), k)
        BY <2>3, <4>1, <4>2
      <4>4. Pre(TagBits(t), k) \o SubSeq(TagBits(t), k + 1, Depth) = TagBits(t)
        BY BitsOf, Rejoined
      <4>5. TreeFind(tree, TagBits(t)).at = f /\ TreeFind(tree, TagBits(t)).depth = k
        BY <3>2, <4>1
      <4> QED
        BY <3>4, <4>1, <4>3, <4>4, <4>5 DEF TreeEvaluate
    <3> QED
      BY <3>3, <3>4
  <2> QED
    BY <2>3, <2>4 DEF TreeAgrees
<1> QED
  BY <1>1, TreesInvariant, PTL

-----------------------------------------------------------------------------
(* What the array of pprf.c and the list of pprf.py have in common: keys   *)
(* of which F tells the label, one of them replaced by sorted siblings.    *)

LabelsIn(F, s, n) == [x \in 1 .. n |-> F[s[x]]]

\* G[d] is the key of the sibling at depth d, and R orders them as their labels.
Keyed(S, G, F, R, b, k) ==
  /\ S = {G[d] : d \in k + 1 .. Depth}
  /\ \A d \in k + 1 .. Depth : F[G[d]] = Sib(b, d)
  /\ \A d, e \in k + 1 .. Depth : <<G[d], G[e]>> \in R <=> Before(Sib(b, d), Sib(b, e))

\* The new keys, sorted, are the siblings in order.
LEMMA SortedSibs ==
  ASSUME NEW b \in Bits, NEW k \in 0 .. Depth, NEW S, NEW G, NEW F, NEW R,
         Keyed(S, G, F, R, b, k), NEW T, T = SortedBy(S, R), NEW m, m = Cardinality(S)
  PROVE  m \in Nat /\ T \in [1 .. m -> S] /\ SibsOK(LabelsIn(F, T, m), m, b, k)
<1>1. /\ Depth \in Nat /\ k \in Nat /\ \A d \in k + 1 .. Depth : d \in 1 .. Depth
      /\ \A d \in k + 1 .. Depth : Sib(b, d) \in Labels
  BY DepthAssumption, SibIsBelow
<1>2. IsFiniteSet(S)
  <2>1. PICK g : g = [d \in k + 1 .. Depth |-> G[d]]
    OBVIOUS
  <2>2. g \in Surjection(k + 1 .. Depth, S)
    BY <2>1 DEF Surjection, Keyed
  <2>3. IsFiniteSet(k + 1 .. Depth)
    <3>1. k + 1 \in Int /\ Depth \in Int
      BY <1>1
    <3> QED
      BY <3>1, FS_Interval
  <2> QED
    BY <2>2, <2>3, FS_Surjection
<1>3. \A d, e \in k + 1 .. Depth : <<G[d], G[e]>> \in R => ~Before(Sib(b, e), Sib(b, d))
  <2>1. \A d, e \in k + 1 .. Depth : <<G[d], G[e]>> \in R => Before(Sib(b, d), Sib(b, e))
    BY DEF Keyed
  <2> QED
    BY <1>1, <2>1, Parted
<1>4. OrderOn(S, R)
  <2>1. \A x \in S : <<x, x>> \notin R
    <3>1. \A d \in k + 1 .. Depth : <<G[d], G[d]>> \notin R
      <4>1. \A d \in k + 1 .. Depth : <<G[d], G[d]>> \in R => Before(Sib(b, d), Sib(b, d))
        BY DEF Keyed
      <4> QED
        BY <1>3, <4>1
    <3> QED
      BY <3>1 DEF Keyed
  <2>2. ASSUME NEW x \in S, NEW y \in S, x # y PROVE <<x, y>> \in R \/ <<y, x>> \in R
    <3>1. PICK d \in k + 1 .. Depth, e \in k + 1 .. Depth : x = G[d] /\ y = G[e] /\ d # e
      BY <2>2 DEF Keyed
    <3>2. Before(Sib(b, d), Sib(b, e)) \/ Before(Sib(b, e), Sib(b, d))
      BY <1>1, <3>1, SibsPart
    <3> QED
      BY <3>1, <3>2 DEF Keyed
  <2>3. ASSUME NEW x \in S, NEW y \in S, NEW z \in S, <<x, y>> \in R, <<y, z>> \in R
        PROVE  <<x, z>> \in R
    <3>1. PICK d \in k + 1 .. Depth, e \in k + 1 .. Depth, c \in k + 1 .. Depth :
            x = G[d] /\ y = G[e] /\ z = G[c]
      BY DEF Keyed
    <3>2. Before(Sib(b, d), Sib(b, e)) /\ Before(Sib(b, e), Sib(b, c))
      BY <2>3, <3>1 DEF Keyed
    <3>3. Before(Sib(b, d), Sib(b, c))
      BY <1>1, <3>2, Transits
    <3> QED
      BY <3>1, <3>3 DEF Keyed
  <2> QED
    BY <2>1, <2>2, <2>3 DEF OrderOn
<1>5. /\ m \in Nat /\ T \in [1 .. m -> S]
      /\ \A i, j \in 1 .. m : i < j => <<T[i], T[j]>> \in R
      /\ \A x \in S : \E i \in 1 .. m : T[i] = x
  BY <1>2, <1>4, Sorts
<1>6. PICK l : l = LabelsIn(F, T, m)
  OBVIOUS
<1>7. ASSUME NEW x \in 1 .. m
      PROVE  \E d \in k + 1 .. Depth : T[x] = G[d] /\ l[x] = Sib(b, d)
  <2>1. T[x] \in S /\ l[x] = F[T[x]]
    BY <1>5, <1>6 DEF LabelsIn
  <2> QED
    BY <2>1 DEF Keyed
<1>8. l \in [1 .. m -> Labels]
  <2>1. l = [x \in 1 .. m |-> l[x]]
    BY <1>6 DEF LabelsIn
  <2>2. \A x \in 1 .. m : l[x] \in Labels
    BY <1>1, <1>7
  <2> QED
    BY <2>1, <2>2
<1>9. ASSUME NEW i \in 1 .. m, NEW j \in 1 .. m, i < j PROVE Before(l[i], l[j])
  <2>1. PICK d \in k + 1 .. Depth, e \in k + 1 .. Depth :
          T[i] = G[d] /\ l[i] = Sib(b, d) /\ T[j] = G[e] /\ l[j] = Sib(b, e)
    BY <1>7
  <2>2. <<G[d], G[e]>> \in R
    BY <1>5, <1>9, <2>1
  <2> QED
    BY <2>1, <2>2 DEF Keyed
<1>10. ASSUME NEW d \in k + 1 .. Depth PROVE \E x \in 1 .. m : l[x] = Sib(b, d)
  <2>1. PICK x \in 1 .. m : T[x] = G[d]
    BY <1>5 DEF Keyed
  <2>2. l[x] = F[T[x]]
    BY <1>6 DEF LabelsIn
  <2> QED
    BY <2>1, <2>2 DEF Keyed
<1>11. Code(l, m)
  BY <1>5, <1>8, <1>9 DEF Code
<1>12. SibsOK(l, m, b, k)
  BY <1>7, <1>10, <1>11 DEF SibsOK
<1> QED
  BY <1>5, <1>6, <1>12

\* The labels of what is spliced are the labels, spliced.
LEMMA LabelsSpliced ==
  ASSUME NEW n \in Nat, NEW m \in Nat, NEW i \in 1 .. n, NEW s, NEW T, NEW N, NEW u,
         SplicedIs(u, N, s, n, i, T, m), NEW F
  PROVE  SplicedIs(LabelsIn(F, u, N), N, LabelsIn(F, s, n), n, i, LabelsIn(F, T, m), m)
<1>1. N = n - 1 + m
  BY DEF SplicedIs
<1>2. PICK l, r : l = LabelsIn(F, s, n) /\ r = LabelsIn(F, T, m)
  OBVIOUS
<1>3. ASSUME NEW x \in 1 .. N PROVE F[u[x]] = Spliced(l, i, r, m, x)
  <2>1. u[x] = Spliced(s, i, T, m, x)
    BY DEF SplicedIs
  <2>2. CASE x < i
    <3>1. u[x] = s[x] /\ x \in 1 .. n /\ Spliced(l, i, r, m, x) = l[x]
      BY <1>1, <2>1, <2>2 DEF Spliced
    <3> QED
      BY <1>2, <3>1 DEF LabelsIn
  <2>3. CASE ~(x < i) /\ x < i + m
    <3>1. PICK y \in 1 .. m : y = x - i + 1
      BY <2>3
    <3>2. u[x] = T[y] /\ Spliced(l, i, r, m, x) = r[y]
      BY <2>1, <2>3, <3>1 DEF Spliced
    <3> QED
      BY <1>2, <3>2 DEF LabelsIn
  <2>4. CASE ~(x < i) /\ ~(x < i + m)
    <3>1. PICK y \in 1 .. n : y = x - m + 1
      BY <1>1, <2>4
    <3>2. u[x] = s[y] /\ Spliced(l, i, r, m, x) = l[y]
      BY <2>1, <2>4, <3>1 DEF Spliced
    <3> QED
      BY <1>2, <3>2 DEF LabelsIn
  <2> QED
    BY <2>2, <2>3, <2>4
<1>4. \A x \in 1 .. N : LabelsIn(F, u, N)[x] = Spliced(l, i, r, m, x)
  BY <1>3 DEF LabelsIn
<1> QED
  BY <1>1, <1>2, <1>4 DEF SplicedIs

\* A key replaced by the siblings below it: what is covered now, and by what.
SplitAt(u, s, E, F, b, i, T, m) ==
  /\ u \in Seq(E) /\ Code(LabelsIn(F, u, Len(u)), Len(u))
  /\ \A c \in Bits : Covered(LabelsIn(F, u, Len(u)), Len(u), c) <=>
                       Covered(LabelsIn(F, s, Len(s)), Len(s), c) /\ c # b
  /\ AllPlaced(u, Len(u), s, Len(s), i, T, m)

\* That is what the splice of the sorted siblings does, in the array and in the list.
LEMMA KeySplit ==
  ASSUME NEW E, NEW s \in Seq(E), NEW F, Code(LabelsIn(F, s, Len(s)), Len(s)),
         NEW i \in 1 .. Len(s), NEW b \in Bits, NEW k \in 0 .. Depth, F[s[i]] = Pre(b, k),
         NEW m \in Nat, NEW T \in [1 .. m -> E], SibsOK(LabelsIn(F, T, m), m, b, k),
         NEW u, u = SubSeq(s, 1, i - 1) \o T \o SubSeq(s, i + 1, Len(s))
  PROVE  SplitAt(u, s, E, F, b, i, T, m)
<1>1. Len(s) \in Nat
  BY LenProperties
<1>3. u \in Seq(E) /\ SplicedIs(u, Len(u), s, Len(s), i, T, m)
  BY SpliceIs
<1>4. PICK n, N : n = Len(s) /\ N = Len(u)
  OBVIOUS
<1>5. PICK l, r, w : l = LabelsIn(F, s, n) /\ r = LabelsIn(F, T, m) /\ w = LabelsIn(F, u, N)
  OBVIOUS
<1>6. N = n - 1 + m /\ w = [x \in 1 .. N |-> Spliced(l, i, r, m, x)]
  <2>1. n \in Nat /\ i \in 1 .. n
    BY <1>1, <1>4
  <2>2. SplicedIs(u, N, s, n, i, T, m)
    BY <1>3, <1>4
  <2>3. SplicedIs(w, N, l, n, i, r, m)
    BY <1>5, <2>1, <2>2, LabelsSpliced
  <2>4. w = [x \in 1 .. N |-> w[x]]
    BY <1>5 DEF LabelsIn
  <2> QED
    BY <2>3, <2>4 DEF SplicedIs
<1>7. l[i] = Pre(b, k)
  BY <1>4, <1>5 DEF LabelsIn
<1>8. Code(l, n) /\ SibsOK(r, m, b, k) /\ i \in 1 .. n
  BY <1>4, <1>5
<1>9. Code(w, N) /\ \A c \in Bits : Covered(w, N, c) <=> Covered(l, n, c) /\ c # b
  BY <1>6, <1>7, <1>8, SplicedCode
<1>10. AllPlaced(u, N, s, n, i, T, m)
  BY <1>1, <1>3, <1>4, Places
<1> QED
  BY <1>3, <1>4, <1>5, <1>9, <1>10 DEF SplitAt

-----------------------------------------------------------------------------
(* The array of pprf.c.                                                    *)

ArrKey == [lbl : Labels, key : Labels]
LblOf == [e \in ArrKey |-> e.lbl]
ArrCode(a) == a \in Seq(ArrKey) /\ Code(LabelsIn(LblOf, a, Len(a)), Len(a))
ArrCovers(a, c) == Covered(LabelsIn(LblOf, a, Len(a)), Len(a), c)

\* The labels in an array.
LEMMA ArrLabels ==
  ASSUME NEW a \in Seq(ArrKey)
  PROVE  /\ Len(a) \in Nat
         /\ \A i \in 1 .. Len(a) :
              /\ a[i] \in ArrKey /\ a[i].lbl \in Labels /\ a[i].key \in Labels
              /\ LblOf[a[i]] = a[i].lbl /\ LabelsIn(LblOf, a, Len(a))[i] = a[i].lbl
         /\ \A c : ArrCovers(a, c) <=> \E i \in 1 .. Len(a) : Above(a[i].lbl, c)
<1>1. Len(a) \in Nat
  BY LenProperties
<1>2. ASSUME NEW i \in 1 .. Len(a)
      PROVE  /\ a[i] \in ArrKey /\ a[i].lbl \in Labels /\ a[i].key \in Labels
             /\ LblOf[a[i]] = a[i].lbl /\ LabelsIn(LblOf, a, Len(a))[i] = a[i].lbl
  <2>1. a[i] \in ArrKey
    BY ElementOfSeq
  <2>2. LblOf[a[i]] = a[i].lbl
    BY <2>1 DEF LblOf
  <2> QED
    BY <2>1, <2>2 DEF ArrKey, LabelsIn
<1>3. ASSUME NEW c PROVE ArrCovers(a, c) <=> \E i \in 1 .. Len(a) : Above(a[i].lbl, c)
  BY <1>2 DEF ArrCovers, Covered
<1> QED
  BY <1>1, <1>2, <1>3

\* The linear search finds the one label that covers a path.
LEMMA LinearIs ==
  ASSUME NEW a, ArrCode(a), NEW c \in Bits
  PROVE  /\ \A i \in 1 .. Len(a) : Above(a[i].lbl, c) => FindLinear(a, c) = i
         /\ ~ArrCovers(a, c) => FindLinear(a, c) = Len(a) + 1
<1>1. a \in Seq(ArrKey) /\ Code(LabelsIn(LblOf, a, Len(a)), Len(a)) /\ DOMAIN a = 1 .. Len(a)
  BY LenProperties DEF ArrCode
<1>2. PICK I : I = {i \in 1 .. Len(a) : Above(a[i].lbl, c)}
  OBVIOUS
<1>3. I = {i \in DOMAIN a : IsPrefixOf(a[i].lbl, c)}
  <2>1. \A i \in 1 .. Len(a) : IsPrefixOf(a[i].lbl, c) <=> Above(a[i].lbl, c)
    BY <1>1, ArrLabels, PrefixIs
  <2> QED
    BY <1>1, <1>2, <2>1
<1>4. FindLinear(a, c) = IF I = {} THEN Len(a) + 1 ELSE CHOOSE i \in I : \A j \in I : i <= j
  BY <1>3 DEF FindLinear
<1>5. ASSUME NEW i \in 1 .. Len(a), Above(a[i].lbl, c) PROVE FindLinear(a, c) = i
  <2>1. c \in Labels
    BY Parts, DepthAssumption
  <2>2. ASSUME NEW j \in I PROVE j = i
    <3>1. j \in 1 .. Len(a) /\ Above(a[j].lbl, c)
      BY <1>2
    <3>2. PICK l : l = LabelsIn(LblOf, a, Len(a))
      OBVIOUS
    <3>3. Above(l[i], c) /\ Above(l[j], c)
      BY <1>1, <1>5, <3>1, <3>2, ArrLabels
    <3> QED
      BY <1>1, <2>1, <3>1, <3>2, <3>3, OneCovers
  <2>3. I = {i} /\ i \in Nat
    BY <1>2, <1>5, <2>2
  <2> QED
    BY <1>4, <2>3
<1>6. ASSUME ~ArrCovers(a, c) PROVE I = {}
  BY <1>1, <1>2, <1>6, ArrLabels
<1> QED
  BY <1>4, <1>5, <1>6

\* The halves of the PRG, the other way round: bit by bit.
LEMMA HalvesIs ==
  ASSUME NEW l \in Seq(Bit)
  PROVE  /\ Halves(l) \in Seq(Bit) /\ Len(Halves(l)) = Len(l)
         /\ \A i \in 1 .. Len(l) : Halves(l)[i] = 1 - l[i]
<1>1. Len(l) \in Nat /\ DOMAIN l = 1 .. Len(l) /\ \A i \in 1 .. Len(l) : l[i] \in Bit
  BY LenProperties, ElementOfSeq
<1>2. Halves(l) = [i \in 1 .. Len(l) |-> 1 - l[i]]
  BY <1>1 DEF Halves
<1>3. \A i \in 1 .. Len(l) : 1 - l[i] \in Bit
  BY <1>1 DEF Bit
<1>4. Halves(l) \in [1 .. Len(l) -> Bit]
  BY <1>2, <1>3
<1> QED
  BY <1>1, <1>2, <1>4, Lengths

\* The key of a label, in these halves, is as long as the label.
LEMMA HalvesLabel == ASSUME NEW l \in Labels PROVE Halves(l) \in Labels
<1>1. Len(l) \in 0 .. Depth /\ l \in Seq(Bit)
  BY LabelLen, Lengths
<1>2. Halves(l) \in [1 .. Len(l) -> Bit]
  <2>1. Halves(l) \in Seq(Bit) /\ Len(Halves(l)) = Len(l)
    BY <1>1, HalvesIs
  <2> QED
    BY <2>1, LenProperties, ElementOfSeq
<1> QED
  BY <1>1, <1>2, LabelIs

\* A key goes on where another ends.
LEMMA HalvesJoined ==
  ASSUME NEW p \in Seq(Bit), NEW q \in Seq(Bit)
  PROVE  Halves(p) \o Halves(q) = Halves(p \o q)
<1>1. Len(p) \in Nat /\ Len(q) \in Nat
  BY LenProperties
<1>2. PICK v : v = p \o q
  OBVIOUS
<1>3. /\ v \in Seq(Bit) /\ Len(v) = Len(p) + Len(q)
      /\ \A i \in 1 .. Len(v) : v[i] = IF i <= Len(p) THEN p[i] ELSE q[i - Len(p)]
  BY <1>2, ConcatProperties
<1>4. PICK g, h : g = Halves(p) /\ h = Halves(q)
  OBVIOUS
<1>5. /\ g \in Seq(Bit) /\ Len(g) = Len(p) /\ \A i \in 1 .. Len(p) : g[i] = 1 - p[i]
      /\ h \in Seq(Bit) /\ Len(h) = Len(q) /\ \A i \in 1 .. Len(q) : h[i] = 1 - q[i]
  BY <1>4, HalvesIs
<1>6. PICK w : w = g \o h
  OBVIOUS
<1>7. /\ w \in Seq(Bit) /\ Len(w) = Len(g) + Len(h)
      /\ \A i \in 1 .. Len(g) + Len(h) : w[i] = IF i <= Len(g) THEN g[i] ELSE h[i - Len(g)]
  <2>1. g \in Seq(Bit) /\ h \in Seq(Bit)
    BY <1>5
  <2> QED
    BY <1>6, <2>1, ConcatProperties
<1>8. PICK u : u = Halves(v)
  OBVIOUS
<1>9. u \in Seq(Bit) /\ Len(u) = Len(v) /\ \A i \in 1 .. Len(v) : u[i] = 1 - v[i]
  BY <1>3, <1>8, HalvesIs
<1>10. Len(w) = Len(u)
  BY <1>3, <1>5, <1>7, <1>9
<1>11. ASSUME NEW i \in 1 .. Len(w) PROVE w[i] = u[i]
  <2>1. i \in 1 .. Len(v) /\ i \in 1 .. Len(g) + Len(h)
    BY <1>1, <1>3, <1>7, <1>9, <1>10
  <2>2. CASE i <= Len(p)
    <3>1. i \in 1 .. Len(p) /\ w[i] = g[i] /\ v[i] = p[i]
      BY <1>1, <1>3, <1>5, <1>7, <2>1, <2>2
    <3> QED
      BY <1>5, <1>9, <2>1, <3>1
  <2>3. CASE ~(i <= Len(p))
    <3>1. PICK j \in 1 .. Len(q) : j = i - Len(p)
      BY <1>1, <1>3, <2>1, <2>3
    <3>2. w[i] = h[j] /\ v[i] = q[j]
      BY <1>1, <1>3, <1>5, <1>7, <2>1, <2>3, <3>1
    <3> QED
      BY <1>5, <1>9, <2>1, <3>1, <3>2
  <2> QED
    BY <2>2, <2>3
<1>12. w = u
  BY <1>7, <1>9, <1>10, <1>11, SeqEqual
<1> QED
  BY <1>2, <1>4, <1>6, <1>8, <1>12

\* The neighbour at depth d: the sibling, with its key.
LEMMA NeighborIs ==
  ASSUME NEW b \in Bits, NEW k \in 0 .. Depth, NEW d \in k + 1 .. Depth,
         NEW r \in ArrKey, r.lbl = Pre(b, k), r.key = Halves(r.lbl)
  PROVE  NeighborAt(r, b, d) = [lbl |-> Sib(b, d), key |-> Halves(Sib(b, d))]
<1>1. /\ d \in 1 .. Depth /\ d \in Nat /\ k \in Nat /\ Depth \in Nat /\ k < d
      /\ k \in 0 .. Depth /\ d \in 0 .. Depth /\ d # 0
  BY DepthAssumption
<1>2. SiblingKey(b, d) = Sib(b, d) /\ Len(r.lbl) = k
  BY <1>1, SibIs, Parts
<1>3. PICK l : l = Sib(b, d)
  OBVIOUS
<1>4. l \in Seq(Bit) /\ Len(l) = d /\ Pre(b, k) \in Seq(Bit)
  <2>1. l \in [1 .. d -> Bit] /\ Pre(b, k) \in [1 .. k -> Bit]
    BY <1>1, <1>3, Parts
  <2> QED
    BY <1>1, <2>1, Lengths
<1>5. SubSeq(l, k + 1, d) \in Seq(Bit)
  <2>1. \A i \in k + 1 .. d : l[i] \in Bit
    <3>1. l \in [1 .. d -> Bit]
      BY <1>1, <1>3, Parts
    <3> QED
      BY <1>1, <3>1
  <2> QED
    BY <1>1, <2>1, SubSeqProperties
<1>6. Pre(b, k) \o SubSeq(l, k + 1, d) = l
  BY <1>3, SibRejoined
<1>7. Halves(Pre(b, k)) \o Halves(SubSeq(l, k + 1, d)) = Halves(l)
  BY <1>4, <1>5, <1>6, HalvesJoined
<1> QED
  BY <1>2, <1>3, <1>7 DEF NeighborAt

-----------------------------------------------------------------------------
(* What the array covers, puncture after puncture.                         *)

\* The inductive invariant of the array, P being what has been punctured: the
\* labels are in order, a tag left is covered, and one punctured is covered only
\* by its own leaf, whose sibling is gone.
LeavesOK(a, P) ==
  \A i \in 1 .. Len(a) : Len(a[i].lbl) = Depth =>
    \E u \in P : a[i].lbl = Sib(TagBits(u), Depth) /\ ~ArrCovers(a, TagBits(u))
GoneOnly(a, P) ==
  \A t \in P : \A i \in 1 .. Len(a) : Above(a[i].lbl, TagBits(t)) => Len(a[i].lbl) = Depth
ArrInv(a, P) ==
  /\ P \subseteq Tags /\ ArrCode(a)
  /\ \A i \in 1 .. Len(a) : a[i].key = Halves(a[i].lbl)
  /\ \A t \in Tags \ P : ArrCovers(a, TagBits(t))
  /\ GoneOnly(a, P) /\ LeavesOK(a, P)

\* The array begins as the root, whose label covers everything.
LEMMA ArrStart == ArrInv(ArrInit, {})
<1>1. PICK r : r = [lbl |-> <<>>, key |-> <<>>]
  OBVIOUS
<1>2. r \in ArrKey /\ r.lbl = <<>> /\ r.key = <<>> /\ <<>> \in Labels /\ Len(<<>>) = 0
  BY <1>1, RootLabel DEF ArrKey
<1>3. PICK a : a = ArrInit
  OBVIOUS
<1>4. a \in Seq(ArrKey) /\ Len(a) = 1 /\ a[1] = r
  BY <1>1, <1>2, <1>3 DEF ArrInit
<1>5. \A i \in 1 .. Len(a) : i = 1 /\ a[i].lbl = <<>> /\ a[i].key = <<>>
  BY <1>2, <1>4
<1>6. Code(LabelsIn(LblOf, a, Len(a)), Len(a))
  <2>1. LabelsIn(LblOf, a, Len(a)) \in [1 .. Len(a) -> Labels]
    <3>1. \A i \in 1 .. Len(a) : LblOf[a[i]] \in Labels
      BY <1>4, ArrLabels
    <3> QED
      BY <3>1 DEF LabelsIn
  <2> QED
    BY <1>4, <2>1 DEF Code
<1>7. Halves(<<>>) = <<>>
  <2>1. <<>> \in Seq(Bit)
    OBVIOUS
  <2>2. Halves(<<>>) \in Seq(Bit) /\ Len(Halves(<<>>)) = Len(<<>>)
    BY <2>1, HalvesIs
  <2> QED
    BY <1>2, <2>1, <2>2, EmptySeq
<1>8. ASSUME NEW t \in Tags PROVE ArrCovers(a, TagBits(t))
  <2>1. Len(TagBits(t)) \in Nat
    BY BitsOf, Parts, DepthAssumption
  <2>2. Above(a[1].lbl, TagBits(t))
    BY <1>2, <1>4, <2>1 DEF Above
  <2> QED
    BY <1>4, <2>2, ArrLabels
<1>9. LeavesOK(a, {})
  BY <1>2, <1>5, DepthAssumption DEF LeavesOK
<1> QED
  BY <1>3, <1>4, <1>5, <1>6, <1>7, <1>8, <1>9 DEF ArrInv, ArrCode, GoneOnly

\* The neighbours of a path below a key are the siblings, in order.
LEMMA NeighborsSorted ==
  ASSUME NEW b \in Bits, NEW k \in 0 .. Depth, NEW r \in ArrKey, r.lbl = Pre(b, k),
         r.key = Halves(r.lbl), NEW S, S = Neighbors(r, b), NEW m, m = Cardinality(S),
         NEW T, T = Sorted(S)
  PROVE  /\ m \in Nat /\ S \subseteq ArrKey /\ T \in [1 .. m -> S]
         /\ SibsOK(LabelsIn(LblOf, T, m), m, b, k)
         /\ \A y \in 1 .. m : \E d \in k + 1 .. Depth :
              T[y].lbl = Sib(b, d) /\ T[y].key = Halves(T[y].lbl)
<1>1. /\ Depth \in Nat /\ k \in Nat /\ Len(r.lbl) = k
      /\ \A d \in k + 1 .. Depth : Sib(b, d) \in Labels /\ d \in 1 .. Depth
      /\ \A d \in k + 1 .. Depth : Len(Sib(b, d)) = d
  BY DepthAssumption, SibIsBelow, Parts
<1>2. PICK G : G = [d \in k + 1 .. Depth |-> [lbl |-> Sib(b, d), key |-> Halves(Sib(b, d))]]
  OBVIOUS
<1>3. ASSUME NEW d \in k + 1 .. Depth
      PROVE  /\ G[d] \in ArrKey /\ G[d].lbl = Sib(b, d) /\ G[d].key = Halves(G[d].lbl)
             /\ LblOf[G[d]] = Sib(b, d) /\ NeighborAt(r, b, d) = G[d]
  <2>1. G[d] = [lbl |-> Sib(b, d), key |-> Halves(Sib(b, d))]
    BY <1>2
  <2>2. NeighborAt(r, b, d) = G[d]
    BY <2>1, NeighborIs
  <2>3. Sib(b, d) \in Labels /\ Halves(Sib(b, d)) \in Labels
    BY <1>1, HalvesLabel
  <2>4. G[d] \in ArrKey /\ G[d].lbl = Sib(b, d) /\ G[d].key = Halves(Sib(b, d))
    BY <2>1, <2>3 DEF ArrKey
  <2> QED
    BY <2>2, <2>4 DEF LblOf
<1>4. S = {G[d] : d \in k + 1 .. Depth}
  BY <1>1, <1>3 DEF Neighbors
<1>5. PICK R : R = {p \in S \X S : p[1] # p[2] /\ LabelLeq(p[1].lbl, p[2].lbl)}
  OBVIOUS
<1>6. T = SortedBy(S, R)
  BY <1>5 DEF Sorted
<1>7. ASSUME NEW d \in k + 1 .. Depth, NEW e \in k + 1 .. Depth
      PROVE  <<G[d], G[e]>> \in R <=> Before(Sib(b, d), Sib(b, e))
  <2>1. <<G[d], G[e]>> \in R <=> G[d] # G[e] /\ LabelLeq(Sib(b, d), Sib(b, e))
    <3>1. G[d] \in S /\ G[e] \in S
      BY <1>4
    <3> QED
      BY <1>3, <1>5, <3>1
  <2>2. LabelLeq(Sib(b, d), Sib(b, e)) <=> Above(Sib(b, d), Sib(b, e)) \/ Before(Sib(b, d), Sib(b, e))
    BY <1>1, LeqIs
  <2>3. CASE d = e
    <3>1. ~Before(Sib(b, d), Sib(b, e))
      BY <1>1, <2>3, Parted
    <3> QED
      BY <2>1, <2>3, <3>1
  <2>4. CASE d # e
    <3>1. ~Above(Sib(b, d), Sib(b, e)) /\ Sib(b, d) # Sib(b, e)
      BY <1>1, <2>4, SibsPart
    <3>2. G[d] # G[e]
      BY <1>3, <3>1
    <3> QED
      BY <2>1, <2>2, <3>1, <3>2
  <2> QED
    BY <2>3, <2>4
<1>8. Keyed(S, G, LblOf, R, b, k)
  BY <1>3, <1>4, <1>7 DEF Keyed
<1>9. m \in Nat /\ T \in [1 .. m -> S] /\ SibsOK(LabelsIn(LblOf, T, m), m, b, k)
  BY <1>6, <1>8, SortedSibs
<1>10. S \subseteq ArrKey
  BY <1>3, <1>4
<1>11. ASSUME NEW y \in 1 .. m
       PROVE  \E d \in k + 1 .. Depth : T[y].lbl = Sib(b, d) /\ T[y].key = Halves(T[y].lbl)
  <2>1. PICK d \in k + 1 .. Depth : T[y] = G[d]
    BY <1>4, <1>9
  <2> QED
    BY <1>3, <2>1
<1> QED
  BY <1>9, <1>10, <1>11

\* A tag that nothing covers, or its own leaf, changes nothing.
LEMMA ArrStays ==
  ASSUME NEW a, NEW P, ArrInv(a, P), NEW t \in Tags,
         \/ ~ArrCovers(a, TagBits(t))
         \/ \E i \in 1 .. Len(a) : Above(a[i].lbl, TagBits(t)) /\ Len(a[i].lbl) = Depth
  PROVE  ArrPuncture(a, TagBits(t)) = a /\ ArrInv(a, P \cup {t})
<1>1. TagBits(t) \in Bits /\ ArrCode(a) /\ a \in Seq(ArrKey) /\ Len(a) \in Nat
  BY BitsOf, ArrLabels DEF ArrInv, ArrCode
<1>2. ArrPuncture(a, TagBits(t)) = a
  <2>1. CASE ~ArrCovers(a, TagBits(t))
    <3>1. FindLinear(a, TagBits(t)) = Len(a) + 1
      BY <1>1, <2>1, LinearIs
    <3>2. FindLinear(a, TagBits(t)) > Len(a)
      BY <1>1, <3>1
    <3> QED
      BY <3>2 DEF ArrPuncture
  <2>2. CASE \E i \in 1 .. Len(a) : Above(a[i].lbl, TagBits(t)) /\ Len(a[i].lbl) = Depth
    <3>1. PICK i \in 1 .. Len(a) : Above(a[i].lbl, TagBits(t)) /\ Len(a[i].lbl) = Depth
      BY <2>2
    <3>2. FindLinear(a, TagBits(t)) = i
      BY <1>1, <3>1, LinearIs
    <3> QED
      BY <3>1, <3>2 DEF ArrPuncture
  <2> QED
    BY <2>1, <2>2
<1>3. ASSUME NEW i \in 1 .. Len(a), Above(a[i].lbl, TagBits(t)) PROVE Len(a[i].lbl) = Depth
  <2>1. ArrCovers(a, TagBits(t))
    BY <1>1, <1>3, ArrLabels
  <2>2. PICK j \in 1 .. Len(a) : Above(a[j].lbl, TagBits(t)) /\ Len(a[j].lbl) = Depth
    BY <2>1
  <2>3. i = j
    <3>1. FindLinear(a, TagBits(t)) = i
      BY <1>1, <1>3, LinearIs
    <3>2. FindLinear(a, TagBits(t)) = j
      BY <1>1, <2>2, LinearIs
    <3> QED
      BY <3>1, <3>2
  <2> QED
    BY <2>2, <2>3
<1>4. GoneOnly(a, P \cup {t}) /\ LeavesOK(a, P \cup {t})
  BY <1>3 DEF ArrInv, GoneOnly, LeavesOK
<1> QED
  BY <1>2, <1>4 DEF ArrInv

\* A key further up is replaced by the neighbours of the path.
LEMMA ArrSplit ==
  ASSUME NEW a, NEW P, ArrInv(a, P), NEW t \in Tags,
         NEW i \in 1 .. Len(a), Above(a[i].lbl, TagBits(t)), Len(a[i].lbl) # Depth
  PROVE  ArrInv(ArrPuncture(a, TagBits(t)), P \cup {t})
<1>1. PICK b : b = TagBits(t)
  OBVIOUS
<1>2. /\ b \in Bits /\ ArrCode(a) /\ a \in Seq(ArrKey) /\ Len(a) \in Nat /\ Depth \in Nat
      /\ Code(LabelsIn(LblOf, a, Len(a)), Len(a)) /\ P \subseteq Tags
      /\ GoneOnly(a, P) /\ LeavesOK(a, P)
  BY <1>1, BitsOf, ArrLabels, DepthAssumption DEF ArrInv, ArrCode
<1>3. PICK k \in 0 .. Depth : k = Len(a[i].lbl) /\ a[i].lbl = Pre(b, k) /\ k # Depth
  <2>1. a[i].lbl \in Labels
    BY <1>2, ArrLabels
  <2> QED
    BY <1>1, <1>2, <2>1, AboveIs, LabelLen
<1>4. a[i] \in ArrKey /\ a[i].key = Halves(a[i].lbl) /\ LblOf[a[i]] = Pre(b, k)
  BY <1>2, <1>3, ArrLabels DEF ArrInv
<1>5. PICK S, m, T : S = Neighbors(a[i], b) /\ m = Cardinality(S) /\ T = Sorted(S)
  OBVIOUS
<1>6. /\ m \in Nat /\ S \subseteq ArrKey /\ T \in [1 .. m -> S]
      /\ SibsOK(LabelsIn(LblOf, T, m), m, b, k)
      /\ \A y \in 1 .. m : \E d \in k + 1 .. Depth :
           T[y].lbl = Sib(b, d) /\ T[y].key = Halves(T[y].lbl)
  <2>1. PICK r : r = a[i]
    OBVIOUS
  <2>2. r \in ArrKey /\ r.lbl = Pre(b, k) /\ r.key = Halves(r.lbl)
    BY <1>3, <1>4, <2>1
  <2>3. S = Neighbors(r, b) /\ m = Cardinality(S) /\ T = Sorted(S)
    BY <1>5, <2>1
  <2> QED
    BY <1>2, <2>2, <2>3, NeighborsSorted
<1>7. PICK u : u = SubSeq(a, 1, i - 1) \o T \o SubSeq(a, i + 1, Len(a))
  OBVIOUS
<1>8. ArrPuncture(a, b) = u
  <2>1. FindLinear(a, b) = i /\ ~(i > Len(a))
    BY <1>1, <1>2, LinearIs
  <2>2. Len(a[i].lbl) # Depth
    OBVIOUS
  <2>3. ArrPuncture(a, b) =
          SubSeq(a, 1, i - 1) \o Sorted(Neighbors(a[i], b)) \o SubSeq(a, i + 1, Len(a))
    BY <2>1, <2>2 DEF ArrPuncture
  <2> QED
    BY <1>5, <1>7, <2>3
<1>9. /\ u \in Seq(ArrKey) /\ Code(LabelsIn(LblOf, u, Len(u)), Len(u))
      /\ \A c \in Bits : Covered(LabelsIn(LblOf, u, Len(u)), Len(u), c) <=>
                           Covered(LabelsIn(LblOf, a, Len(a)), Len(a), c) /\ c # b
      /\ AllPlaced(u, Len(u), a, Len(a), i, T, m)
  <2>1. m \in Nat /\ T \in [1 .. m -> ArrKey]
    BY <1>6
  <2>2. SibsOK(LabelsIn(LblOf, T, m), m, b, k)
    BY <1>6
  <2>3. a \in Seq(ArrKey) /\ Code(LabelsIn(LblOf, a, Len(a)), Len(a)) /\ b \in Bits
    BY <1>2
  <2>4. LblOf[a[i]] = Pre(b, k)
    BY <1>4
  <2>5. SplitAt(u, a, ArrKey, LblOf, b, i, T, m)
    BY <1>7, <2>1, <2>2, <2>3, <2>4, KeySplit
  <2> QED
    BY <2>5 DEF SplitAt
<1>10. \A c \in Bits : ArrCovers(u, c) <=> ArrCovers(a, c) /\ c # b
  BY <1>9 DEF ArrCovers
<1>11. ASSUME NEW x \in 1 .. Len(u)
       PROVE  \/ \E j \in 1 .. Len(a) : u[x] = a[j]
              \/ \E d \in k + 1 .. Depth : u[x].lbl = Sib(b, d) /\ u[x].key = Halves(u[x].lbl)
  <2>1. \/ \E j \in 1 .. Len(a) : j # i /\ u[x] = a[j]
        \/ \E y \in 1 .. m : u[x] = T[y]
    BY <1>9 DEF AllPlaced
  <2> QED
    BY <1>6, <2>1
<1>12. \A x \in 1 .. Len(u) : u[x].key = Halves(u[x].lbl)
  BY <1>11 DEF ArrInv
<1>13. ASSUME NEW v \in Tags \ (P \cup {t}) PROVE ArrCovers(u, TagBits(v))
  <2>1. ArrCovers(a, TagBits(v)) /\ TagBits(v) \in Bits
    BY BitsOf DEF ArrInv
  <2>2. TagBits(v) # b
    BY <1>1, BitsTell
  <2> QED
    BY <1>10, <2>1, <2>2
<1>14. ASSUME NEW v \in P \cup {t}, NEW x \in 1 .. Len(u), Above(u[x].lbl, TagBits(v))
       PROVE  Len(u[x].lbl) = Depth
  <2>1. v \in Tags /\ TagBits(v) \in Bits
    BY <1>2, BitsOf
  <2>2. ArrCovers(u, TagBits(v))
    BY <1>9, <1>14, ArrLabels
  <2>3. TagBits(v) # b /\ v \in P
    BY <1>1, <1>10, <2>1, <2>2
  <2>4. ASSUME NEW d \in k + 1 .. Depth, u[x].lbl = Sib(b, d) PROVE FALSE
    <3>1. /\ Pre(b, k) \in Labels /\ Sib(b, d) \in Labels /\ TagBits(v) \in Labels
          /\ Above(Pre(b, k), Sib(b, d)) /\ Above(Sib(b, d), TagBits(v))
      <4>1. TagBits(v) \in Labels
        BY <2>1, Parts, DepthAssumption
      <4> QED
        BY <1>2, <1>14, <2>4, <4>1, SibIsBelow
    <3>2. Above(Pre(b, k), TagBits(v))
      BY <3>1, Orders
    <3>3. Len(a[i].lbl) = Depth
      BY <1>2, <1>3, <2>3, <3>2 DEF GoneOnly
    <3> QED
      BY <1>3, <3>3
  <2>5. PICK j \in 1 .. Len(a) : u[x] = a[j]
    BY <1>11, <2>4
  <2> QED
    BY <1>2, <1>14, <2>3, <2>5 DEF GoneOnly
<1>15. ASSUME NEW x \in 1 .. Len(u), Len(u[x].lbl) = Depth
       PROVE  \E v \in P \cup {t} : u[x].lbl = Sib(TagBits(v), Depth) /\ ~ArrCovers(u, TagBits(v))
  <2>1. CASE \E j \in 1 .. Len(a) : u[x] = a[j]
    <3>1. PICK j \in 1 .. Len(a) : u[x] = a[j]
      BY <2>1
    <3>2. PICK v \in P : a[j].lbl = Sib(TagBits(v), Depth) /\ ~ArrCovers(a, TagBits(v))
      BY <1>2, <1>15, <3>1 DEF LeavesOK
    <3>3. TagBits(v) \in Bits
      BY <1>2, BitsOf
    <3> QED
      BY <1>10, <3>1, <3>2, <3>3
  <2>2. CASE \E d \in k + 1 .. Depth : u[x].lbl = Sib(b, d)
    <3>1. PICK d \in k + 1 .. Depth : u[x].lbl = Sib(b, d)
      BY <2>2
    <3>2. d = Depth
      BY <1>2, <1>15, <3>1, SibIsBelow
    <3> QED
      BY <1>1, <1>2, <1>10, <3>1, <3>2
  <2> QED
    BY <1>11, <2>1, <2>2
<1>16. P \cup {t} \subseteq Tags
  BY <1>2
<1>17. ArrInv(u, P \cup {t})
  BY <1>9, <1>12, <1>13, <1>14, <1>15, <1>16 DEF ArrInv, ArrCode, GoneOnly, LeavesOK
<1> QED
  BY <1>1, <1>8, <1>17

\* Every puncture keeps it.
LEMMA ArrStep ==
  ASSUME NEW a, NEW P, ArrInv(a, P), NEW t \in Tags
  PROVE  ArrInv(ArrPuncture(a, TagBits(t)), P \cup {t})
<1>1. a \in Seq(ArrKey)
  BY DEF ArrInv, ArrCode
<1>2. CASE ~ArrCovers(a, TagBits(t))
  BY <1>2, ArrStays
<1>3. CASE ArrCovers(a, TagBits(t))
  <2>1. PICK i \in 1 .. Len(a) : Above(a[i].lbl, TagBits(t))
    BY <1>1, <1>3, ArrLabels
  <2>2. CASE Len(a[i].lbl) = Depth
    BY <2>1, <2>2, ArrStays
  <2>3. CASE Len(a[i].lbl) # Depth
    BY <2>1, <2>3, ArrSplit
  <2> QED
    BY <2>2, <2>3
<1> QED
  BY <1>2, <1>3

\* The sibling leaf: the other bit at the end of the path.
LEMMA SiblingIs ==
  ASSUME NEW t \in Tags
  PROVE  Sibling(t) \in Tags /\ TagBits(Sibling(t)) = Sib(TagBits(t), Depth)
<1>1. Depth \in Nat \ {0} /\ t \in Nat /\ t < Pow2[Depth]
  BY DepthAssumption, Pow2Type DEF Tags
<1>2. PICK h \in Nat \ {0} : Pow2[Depth] = 2 * h
  <2>1. Depth - 1 \in 0 .. Depth /\ Depth - 1 \in 0 .. Depth + 1 /\ Depth - 1 + 1 = Depth
    BY <1>1
  <2> QED
    BY <2>1, Pow2Type
<1>3. PICK u : u = Sibling(t)
  OBVIOUS
<1>4. /\ u \in Nat /\ u < Pow2[Depth] /\ u \div 2 = t \div 2 /\ u % 2 = 1 - (t % 2)
      /\ t \div 2 \in Nat
  BY <1>1, <1>2, <1>3 DEF Sibling
<1>5. u \in Tags
  BY <1>1, <1>2, <1>4 DEF Tags
<1> DEFINE S == {e \in Nat : e = 0 \/ t \div Pow2[e] = u \div Pow2[e]}
<1>6. ASSUME NEW e \in 0 .. Depth - 1, e \in S PROVE e + 1 \in S
  <2>1. /\ e \in Nat /\ e \in 0 .. Depth /\ e \in 0 .. Depth + 1
        /\ Pow2[e + 1] = 2 * Pow2[e] /\ Pow2[e] \in Nat \ {0} /\ Pow2[0] = 1
    BY <1>1, Pow2Type
  <2>2. CASE e = 0
    <3>1. Pow2[e + 1] = 2
      BY <2>1, <2>2
    <3> QED
      BY <1>4, <2>1, <3>1
  <2>3. CASE e # 0
    <3>1. t \div Pow2[e] = u \div Pow2[e]
      BY <1>6, <2>3
    <3>2. /\ (t \div Pow2[e]) \div 2 = t \div (2 * Pow2[e])
          /\ (u \div Pow2[e]) \div 2 = u \div (2 * Pow2[e])
      BY <1>1, <1>4, <2>1, Halved
    <3> QED
      BY <2>1, <3>1, <3>2
  <2> QED
    BY <2>2, <2>3
<1>7. 0 \in S
  OBVIOUS
<1> HIDE DEF S
<1>8. 0 .. Depth \subseteq S
  BY <1>1, <1>6, <1>7, UpTo
<1>9. PICK b, c : b = TagBits(t) /\ c = TagBits(u)
  OBVIOUS
<1>10. b \in Bits /\ c \in Bits
  BY <1>5, <1>9, BitsOf
<1>11. ASSUME NEW d \in 1 .. Depth PROVE c[d] = Sib(b, Depth)[d]
  <2>1. b[d] = (t \div Pow2[Depth - d]) % 2 /\ c[d] = (u \div Pow2[Depth - d]) % 2
    BY <1>9 DEF TagBits
  <2>2. CASE d = Depth
    <3>1. Pow2[Depth - d] = 1 /\ t \div 1 = t /\ u \div 1 = u
      <4>1. Depth - d = 0 /\ t \div 1 = t /\ u \div 1 = u
        BY <1>1, <1>4, <2>2
      <4> QED
        BY <4>1, Pow2Type
    <3>2. b[d] = t % 2 /\ c[d] = u % 2
      BY <2>1, <3>1
    <3>3. c[d] = 1 - b[d]
      BY <1>1, <1>4, <3>2
    <3> QED
      BY <2>2, <3>3 DEF Sib
  <2>3. CASE d # Depth
    <3>1. Depth - d \in 0 .. Depth /\ Depth - d # 0
      BY <1>1, <2>3
    <3>2. t \div Pow2[Depth - d] = u \div Pow2[Depth - d]
      BY <1>8, <3>1 DEF S
    <3>3. c[d] = b[d]
      BY <2>1, <3>2
    <3> QED
      BY <2>3, <3>3 DEF Sib
  <2> QED
    BY <2>2, <2>3
<1>12. c = Sib(b, Depth)
  <2>1. Depth \in 0 .. Depth /\ Depth # 0
    BY <1>1
  <2>2. Sib(b, Depth) \in [1 .. Depth -> Bit] /\ c \in [1 .. Depth -> Bit]
    BY <1>10, <2>1, Parts DEF Bits
  <2>3. Above(c, Sib(b, Depth))
    BY <1>1, <1>10, <1>11, <2>1, Parts DEF Above
  <2> QED
    BY <1>10, <2>1, <2>3, Parts, SameLabel
<1> QED
  BY <1>3, <1>5, <1>9, <1>12

\* The sibling of the sibling.
LEMMA SibTwice ==
  ASSUME NEW b \in Bits, NEW c \in Bits, b = Sib(c, Depth) PROVE c = Sib(b, Depth)
<1>1. Depth \in Nat \ {0}
  BY DepthAssumption
<1>2. ASSUME NEW d \in 1 .. Depth PROVE c[d] = Sib(b, Depth)[d]
  <2>1. b[d] = IF d = Depth THEN 1 - c[d] ELSE c[d]
    BY DEF Sib
  <2>2. Sib(b, Depth)[d] = IF d = Depth THEN 1 - b[d] ELSE b[d]
    BY DEF Sib
  <2>3. c[d] \in {0, 1}
    BY DEF Bits, Bit
  <2> QED
    BY <2>1, <2>2, <2>3
<1>3. Depth \in 0 .. Depth /\ Depth # 0
  BY <1>1
<1>4. Above(c, Sib(b, Depth))
  BY <1>1, <1>2, <1>3, Parts DEF Above
<1> QED
  BY <1>3, <1>4, Parts, SameLabel

\* What the array evaluates to.
LEMMA ArrEvaluates ==
  ASSUME NEW a, NEW P, ArrInv(a, P), NEW t \in Tags
  PROVE  /\ ArrEvaluate(a, TagBits(t)).code = 0 <=> ArrCovers(a, TagBits(t))
         /\ ~ArrCovers(a, TagBits(t)) => ArrEvaluate(a, TagBits(t)).code = -1
         /\ ArrCovers(a, TagBits(t)) =>
              ArrEvaluate(a, TagBits(t)).key = Halves(TagBits(t))
<1>1. PICK b : b = TagBits(t)
  OBVIOUS
<1>2. b \in Bits /\ ArrCode(a) /\ a \in Seq(ArrKey) /\ Len(a) \in Nat
  BY <1>1, BitsOf, ArrLabels DEF ArrInv, ArrCode
<1>3. ASSUME ~ArrCovers(a, b) PROVE ArrEvaluate(a, b).code = -1
  <2>1. FindLinear(a, b) > Len(a)
    <3>1. FindLinear(a, b) = Len(a) + 1
      BY <1>2, <1>3, LinearIs
    <3> QED
      BY <1>2, <3>1
  <2> QED
    BY <2>1 DEF ArrEvaluate
<1>4. ASSUME ArrCovers(a, b)
      PROVE  ArrEvaluate(a, b).code = 0 /\ ArrEvaluate(a, b).key = Halves(b)
  <2>1. PICK i \in 1 .. Len(a) : Above(a[i].lbl, b)
    BY <1>2, <1>4, ArrLabels
  <2>2. FindLinear(a, b) = i /\ ~(i > Len(a))
    BY <1>2, <2>1, LinearIs
  <2>3. ArrEvaluate(a, b) =
          [code |-> 0, key |-> a[i].key \o Halves(SubSeq(b, Len(a[i].lbl) + 1, Depth))]
    BY <2>2 DEF ArrEvaluate
  <2>4. PICK k \in 0 .. Depth : k = Len(a[i].lbl) /\ a[i].lbl = Pre(b, k)
    <3>1. PICK l \in Labels : l = a[i].lbl
      BY <1>2, ArrLabels
    <3>2. Len(l) \in 0 .. Depth /\ l = Pre(b, Len(l))
      BY <1>2, <2>1, <3>1, AboveIs, LabelLen
    <3> QED
      BY <3>1, <3>2
  <2>5. a[i].key = Halves(Pre(b, k))
    BY <2>4 DEF ArrInv
  <2>6. Pre(b, k) \o SubSeq(b, k + 1, Depth) = b
    BY <1>2, Rejoined
  <2>7. Pre(b, k) \in Seq(Bit) /\ SubSeq(b, k + 1, Depth) \in Seq(Bit)
    <3>1. Depth \in Nat /\ k \in Nat /\ b \in [1 .. Depth -> Bit]
      BY <1>2, DepthAssumption DEF Bits
    <3>2. b \in Seq(Bit) /\ Len(b) = Depth
      BY <3>1, Lengths
    <3>3. Pre(b, k) \in Seq(Bit)
      <4>1. Pre(b, k) \in [1 .. k -> Bit]
        BY <1>2, Parts
      <4> QED
        BY <3>1, <4>1, Lengths
    <3>4. \A j \in k + 1 .. Depth : b[j] \in Bit
      BY <3>1
    <3> QED
      BY <3>1, <3>2, <3>3, <3>4, SubSeqProperties
  <2>8. Halves(Pre(b, k)) \o Halves(SubSeq(b, k + 1, Depth)) = Halves(b)
    BY <2>6, <2>7, HalvesJoined
  <2>9. a[i].key \o Halves(SubSeq(b, Len(a[i].lbl) + 1, Depth)) = Halves(b)
    BY <2>4, <2>5, <2>8
  <2>10. ArrEvaluate(a, b) = [code |-> 0, key |-> Halves(b)]
    BY <2>3, <2>9
  <2> QED
    BY <2>10
<1> QED
  BY <1>1, <1>3, <1>4

\* A punctured tag is evaluated by its own leaf only, and its sibling is not.
LEMMA ArrLeaf ==
  ASSUME NEW a, NEW P, ArrInv(a, P), NEW t \in P, ArrCovers(a, TagBits(t))
  PROVE  Sibling(t) \in P /\ ~ArrCovers(a, TagBits(Sibling(t)))
<1>1. /\ t \in Tags /\ P \subseteq Tags /\ a \in Seq(ArrKey) /\ Depth \in Nat \ {0}
      /\ GoneOnly(a, P) /\ LeavesOK(a, P)
  BY DepthAssumption DEF ArrInv, ArrCode
<1>2. PICK b \in Bits : b = TagBits(t)
  BY <1>1, BitsOf
<1>3. PICK i \in 1 .. Len(a) : Above(a[i].lbl, b)
  BY <1>1, <1>2, ArrLabels
<1>4. Len(a[i].lbl) = Depth
  BY <1>1, <1>2, <1>3 DEF GoneOnly
<1>5. a[i].lbl = b
  <2>1. b \in Labels /\ Len(b) = Depth
    BY Parts, DepthAssumption
  <2>2. a[i].lbl \in Labels
    BY <1>1, ArrLabels
  <2> QED
    BY <1>3, <1>4, <2>1, <2>2, SameLabel
<1>6. PICK u \in P : a[i].lbl = Sib(TagBits(u), Depth) /\ ~ArrCovers(a, TagBits(u))
  BY <1>1, <1>4 DEF LeavesOK
<1>7. PICK c \in Bits : c = TagBits(u)
  BY <1>1, BitsOf
<1>8. c = Sib(b, Depth)
  BY <1>5, <1>6, <1>7, SibTwice
<1>9. Sibling(t) \in Tags /\ TagBits(Sibling(t)) = Sib(b, Depth)
  BY <1>1, <1>2, SiblingIs
<1>10. u = Sibling(t)
  BY <1>1, <1>7, <1>8, <1>9, BitsTell
<1> QED
  BY <1>6, <1>10

-----------------------------------------------------------------------------
(* The two searches of the array.                                          *)

\* The turns of the binary search are what the definition says.
LEMMA JumpsIs ==
  ASSUME NEW a, Len(a) \in Nat, NEW b
  PROVE  \A k \in 0 .. 2 * Len(a) :
           Jumps(a, b)[k] = IF k = 0 THEN [at |-> 0, step |-> Len(a)]
                            ELSE JumpTurn(a, b, Jumps(a, b)[k - 1])
<1> DEFINE Is(g, n) == g = [k \in 0 .. n |-> IF k = 0 THEN [at |-> 0, step |-> Len(a)]
                                             ELSE JumpTurn(a, b, g[k - 1])]
           S == {n \in Nat : \E g : Is(g, n)}
<1>0. PICK m \in Nat : m = 2 * Len(a)
  OBVIOUS
<1>1. 0 \in S
  <2>1. Is([k \in 0 .. 0 |-> [at |-> 0, step |-> Len(a)]], 0)
    OBVIOUS
  <2> QED
    BY <2>1
<1>2. ASSUME NEW n \in Nat, n \in S PROVE n + 1 \in S
  <2>1. PICK g : Is(g, n)
    BY <1>2
  <2>2. PICK h : h = [k \in 0 .. n + 1 |-> IF k = n + 1 THEN JumpTurn(a, b, g[n]) ELSE g[k]]
    OBVIOUS
  <2>3. ASSUME NEW k \in 0 .. n + 1
        PROVE  h[k] = IF k = 0 THEN [at |-> 0, step |-> Len(a)] ELSE JumpTurn(a, b, h[k - 1])
    <3>1. CASE k = n + 1
      <4>1. h[k] = JumpTurn(a, b, g[n]) /\ h[n] = g[n] /\ k - 1 = n /\ k # 0
        BY <2>2, <3>1
      <4> QED
        BY <3>1, <4>1
    <3>2. CASE k \in 0 .. n
      <4>1. g[k] = IF k = 0 THEN [at |-> 0, step |-> Len(a)] ELSE JumpTurn(a, b, g[k - 1])
        BY <2>1, <3>2
      <4>2. k # 0 => k - 1 \in 0 .. n + 1 /\ k - 1 # n + 1
        BY <3>2
      <4> QED
        BY <2>2, <3>2, <4>1, <4>2
    <3> QED
      BY <3>1, <3>2
  <2>4. Is(h, n + 1)
    <3>1. h = [k \in 0 .. n + 1 |-> h[k]]
      BY <2>2
    <3> QED
      BY <2>3, <3>1
  <2> HIDE DEF Is
  <2> QED
    BY <2>4
<1> HIDE DEF S
<1>3. m \in S
  <2>1. \A n \in 0 .. m - 1 : n \in S => n + 1 \in S
    BY <1>0, <1>2
  <2>2. 0 .. m \subseteq S
    BY <1>0, <1>1, <2>1, UpTo
  <2> QED
    BY <1>0, <2>2
<1> USE DEF S
<1>4. Is(Jumps(a, b), m)
  BY <1>0, <1>3 DEF Jumps
<1> QED
  BY <1>0, <1>4

\* After k turns: what is passed is not behind the path, what is out of reach is.
Jumped(a, b, k, c) ==
  /\ c \in [at : 0 .. Len(a), step : 0 .. Len(a)]
  /\ c.at # 0 => LabelLeq(a[c.at].lbl, b)
  /\ \A j \in 1 .. Len(a) : j > c.at + 2 * c.step => ~LabelLeq(a[j].lbl, b)
  /\ c.step = 0 \/ Len(a) - c.at + c.step <= 2 * Len(a) - k

\* A turn goes on, or halves the step.
LEMMA JumpTurnOK ==
  ASSUME NEW a, ArrCode(a), NEW b \in Bits, NEW k \in 0 .. 2 * Len(a) - 1,
         NEW c, Jumped(a, b, k, c)
  PROVE  Jumped(a, b, k + 1, JumpTurn(a, b, c))
<1>1. PICK n \in Nat : n = Len(a)
  <2>1. a \in Seq(ArrKey)
    BY DEF ArrCode
  <2> QED
    BY <2>1, LenProperties
<1>2. PICK x \in 0 .. n, s \in 0 .. n : c = [at |-> x, step |-> s]
  BY <1>1 DEF Jumped
<1> DEFINE Leq(j) == LabelLeq(a[j].lbl, b)
<1>3. /\ x # 0 => Leq(x)
      /\ \A j \in 1 .. n : j > x + 2 * s => ~Leq(j)
      /\ s = 0 \/ n - x + s <= 2 * n - k
      /\ k \in Nat /\ k < 2 * n
  BY <1>1, <1>2 DEF Jumped
<1>4. \A i, j \in 1 .. n : i < j /\ Leq(j) => Leq(i)
  <2> SUFFICES ASSUME NEW i \in 1 .. n, NEW j \in 1 .. n, i < j, Leq(j) PROVE Leq(i)
    OBVIOUS
  <2>1. PICK l : l = LabelsIn(LblOf, a, n)
    OBVIOUS
  <2>2. l[i] = a[i].lbl /\ l[j] = a[j].lbl /\ Code(l, n)
    BY <1>1, <2>1, ArrLabels DEF ArrCode
  <2>3. b \in Labels
    BY Parts, DepthAssumption
  <2>4. LabelLeq(l[j], b)
    BY <2>2
  <2>5. LabelLeq(l[i], b)
    BY <2>2, <2>3, <2>4, FrontToo
  <2> QED
    BY <2>2, <2>5
<1> HIDE DEF Leq
<1>5. JumpTurn(a, b, c) =
        IF s > 0 /\ x + s <= n /\ Leq(x + s) THEN [at |-> x + s, step |-> s]
                                             ELSE [at |-> x, step |-> s \div 2]
  BY <1>1, <1>2 DEF JumpTurn, Leq
<1>6. ASSUME NEW y \in 0 .. n, NEW r \in 0 .. n, y # 0 => Leq(y),
             \A j \in 1 .. n : j > y + 2 * r => ~Leq(j),
             r = 0 \/ n - y + r <= 2 * n - (k + 1)
      PROVE  Jumped(a, b, k + 1, [at |-> y, step |-> r])
  BY <1>1, <1>6 DEF Jumped, Leq
<1>7. CASE s > 0 /\ x + s <= n /\ Leq(x + s)
  <2>1. x + s \in 0 .. n /\ n - (x + s) + s <= 2 * n - (k + 1)
    BY <1>3, <1>7
  <2>2. \A j \in 1 .. n : j > x + s + 2 * s => ~Leq(j)
    <3>1. \A j \in 1 .. n : j > x + s + 2 * s => j > x + 2 * s
      BY <1>7
    <3> QED
      BY <1>3, <3>1
  <2>3. Jumped(a, b, k + 1, [at |-> x + s, step |-> s])
    BY <1>6, <1>7, <2>1, <2>2
  <2> QED
    BY <1>5, <1>7, <2>3
<1>8. CASE ~(s > 0 /\ x + s <= n /\ Leq(x + s))
  <2>1. PICK r \in 0 .. n : r = s \div 2 /\ s <= 2 * r + 1 /\ (s # 0 => r < s) /\ (s = 0 => r = 0)
    OBVIOUS
  <2>2. r = 0 \/ n - x + r <= 2 * n - (k + 1)
    BY <1>3, <2>1
  <2>3. ASSUME NEW j \in 1 .. n, j > x + 2 * r PROVE ~Leq(j)
    <3>1. CASE s = 0
      <4>1. j > x + 2 * s
        BY <2>1, <2>3, <3>1
      <4> QED
        BY <1>3, <4>1
    <3>2. CASE s # 0
      <4>1. j >= x + s /\ x + s \in 1 .. n
        BY <2>1, <2>3, <3>2
      <4>2. ~Leq(x + s)
        BY <1>8, <3>2, <4>1
      <4>3. j = x + s \/ x + s < j
        BY <4>1
      <4> QED
        BY <1>4, <4>1, <4>2, <4>3
    <3> QED
      BY <3>1, <3>2
  <2>4. Jumped(a, b, k + 1, [at |-> x, step |-> r])
    BY <1>3, <1>6, <2>2, <2>3
  <2> QED
    BY <1>5, <1>8, <2>1, <2>4
<1> QED
  BY <1>7, <1>8

\* The binary search ends at the last label that is not behind the path.
LEMMA JumpIs ==
  ASSUME NEW a, ArrCode(a), NEW b \in Bits
  PROVE  /\ Jump(a, b) \in 0 .. Len(a)
         /\ \A j \in 1 .. Len(a) : LabelLeq(a[j].lbl, b) <=> j <= Jump(a, b)
<1>1. a \in Seq(ArrKey) /\ Len(a) \in Nat
  BY LenProperties DEF ArrCode
<1>2. PICK m \in Nat : m = 2 * Len(a)
  BY <1>1
<1> DEFINE S == {k \in Nat : Jumped(a, b, k, Jumps(a, b)[k])}
<1>3. 0 \in S
  <2>1. Jumps(a, b)[0] = [at |-> 0, step |-> Len(a)]
    BY <1>1, JumpsIs
  <2>2. Jumped(a, b, 0, [at |-> 0, step |-> Len(a)])
    BY <1>1 DEF Jumped
  <2> QED
    BY <2>1, <2>2
<1>4. ASSUME NEW k \in 0 .. m - 1, k \in S PROVE k + 1 \in S
  <2>1. k + 1 \in 0 .. 2 * Len(a) /\ k + 1 # 0 /\ k + 1 - 1 = k /\ k \in 0 .. 2 * Len(a) - 1
    BY <1>2
  <2>2. Jumps(a, b)[k + 1] = JumpTurn(a, b, Jumps(a, b)[k])
    <3>1. \A i \in 0 .. 2 * Len(a) : i # 0 => Jumps(a, b)[i] = JumpTurn(a, b, Jumps(a, b)[i - 1])
      BY <1>1, JumpsIs
    <3> QED
      BY <2>1, <3>1
  <2>3. PICK c : c = Jumps(a, b)[k]
    OBVIOUS
  <2>4. Jumped(a, b, k, c)
    BY <1>4, <2>3
  <2>5. Jumped(a, b, k + 1, JumpTurn(a, b, c))
    BY <2>1, <2>4, JumpTurnOK
  <2> QED
    BY <2>1, <2>2, <2>3, <2>5
<1> HIDE DEF S
<1>5. m \in S
  <2>1. 0 .. m \subseteq S
    BY <1>2, <1>3, <1>4, UpTo
  <2> QED
    BY <1>2, <2>1
<1>6. PICK c : c = Jumps(a, b)[m] /\ Jumped(a, b, m, c)
  BY <1>5 DEF S
<1>7. PICK r \in 0 .. Len(a) : r = c.at /\ r = Jump(a, b)
  BY <1>2, <1>6 DEF Jumped, Jump
<1>8. c.step = 0
  <2>1. c.step \in 0 .. Len(a) /\ (c.step = 0 \/ Len(a) - r + c.step <= 2 * Len(a) - m)
    BY <1>6, <1>7 DEF Jumped
  <2> QED
    BY <1>1, <1>2, <1>7, <2>1
<1>9. ASSUME NEW j \in 1 .. Len(a), j > r PROVE ~LabelLeq(a[j].lbl, b)
  <2>1. j > c.at + 2 * c.step
    BY <1>7, <1>8, <1>9
  <2> QED
    BY <1>6, <2>1 DEF Jumped
<1>10. ASSUME NEW j \in 1 .. Len(a), j <= r PROVE LabelLeq(a[j].lbl, b)
  <2>1. r \in 1 .. Len(a) /\ LabelLeq(a[r].lbl, b)
    BY <1>1, <1>6, <1>7, <1>10 DEF Jumped
  <2>2. PICK l : l = LabelsIn(LblOf, a, Len(a))
    OBVIOUS
  <2>3. l[j] = a[j].lbl /\ l[r] = a[r].lbl /\ Code(l, Len(a))
    BY <1>1, <2>1, <2>2, ArrLabels DEF ArrCode
  <2>4. b \in Labels /\ LabelLeq(l[r], b)
    BY <2>1, <2>3, Parts, DepthAssumption
  <2>5. j < r \/ j = r
    BY <1>10
  <2>6. j < r => LabelLeq(l[j], b)
    BY <2>1, <2>3, <2>4, FrontToo
  <2> QED
    BY <2>1, <2>3, <2>5, <2>6
<1>11. \A j \in 1 .. Len(a) : j <= r \/ j > r
  OBVIOUS
<1> QED
  BY <1>7, <1>9, <1>10, <1>11

\* Both searches find the same.
LEMMA SameSearch ==
  ASSUME NEW a, ArrCode(a), NEW b \in Bits
  PROVE  /\ FindBsearch(a, b) = Outside => ~ArrCovers(a, b)
         /\ FindBsearch(a, b) # Outside => FindBsearch(a, b) = FindLinear(a, b)
<1>1. a \in Seq(ArrKey) /\ Len(a) \in Nat /\ b \in Labels
  BY LenProperties, Parts, DepthAssumption DEF ArrCode
<1>2. PICK r \in 0 .. Len(a) : /\ r = Jump(a, b)
                               /\ \A j \in 1 .. Len(a) : LabelLeq(a[j].lbl, b) <=> j <= r
  BY JumpIs
<1>3. ASSUME NEW j \in 1 .. Len(a), Above(a[j].lbl, b) PROVE j = r
  <2>1. PICK l : l = LabelsIn(LblOf, a, Len(a))
    OBVIOUS
  <2>2. /\ Code(l, Len(a)) /\ Above(l[j], b)
        /\ \A i \in 1 .. Len(a) : LabelLeq(l[i], b) <=> i <= r
    BY <1>1, <1>2, <1>3, <2>1, ArrLabels DEF ArrCode
  <2> QED
    BY <1>1, <2>2, LastCovers
<1>4. CASE r = 0
  <2>1. FindBsearch(a, b) = Outside
    BY <1>2, <1>4 DEF FindBsearch, Outside
  <2>2. ~ArrCovers(a, b)
    BY <1>1, <1>3, <1>4, ArrLabels
  <2> QED
    BY <2>1, <2>2
<1>5. CASE r # 0
  <2>1. r \in 1 .. Len(a) /\ r # Outside /\ Len(a) + 1 # Outside
    BY <1>1, <1>5 DEF Outside
  <2>2. FindBsearch(a, b) = IF IsPrefixOf(a[r].lbl, b) THEN r ELSE Len(a) + 1
    BY <1>2, <2>1 DEF FindBsearch
  <2>3. IsPrefixOf(a[r].lbl, b) <=> Above(a[r].lbl, b)
    BY <1>1, <2>1, ArrLabels, PrefixIs
  <2>4. CASE Above(a[r].lbl, b)
    <3>1. FindLinear(a, b) = r
      BY <2>1, <2>4, LinearIs
    <3> QED
      BY <2>1, <2>2, <2>3, <2>4, <3>1
  <2>5. CASE ~Above(a[r].lbl, b)
    <3>1. ~ArrCovers(a, b)
      BY <1>1, <1>3, <2>5, ArrLabels
    <3>2. FindLinear(a, b) = Len(a) + 1
      BY <3>1, LinearIs
    <3> QED
      BY <2>1, <2>2, <2>3, <2>5, <3>2
  <2> QED
    BY <2>4, <2>5
<1> QED
  BY <1>4, <1>5

-----------------------------------------------------------------------------
(* What is proved of the array.                                            *)

\* The array keeps its invariant whatever is punctured, again and again, and renewed.
THEOREM ArrayInvariant == VariantsSpec => []ArrInv(arr, punctured)
<1>1. VariantsInit => ArrInv(arr, punctured)
  BY ArrStart DEF VariantsInit, StoreInit, Init
<1>2. ArrInv(arr, punctured) /\ [VariantsNext]_allVars => ArrInv(arr, punctured)'
  <2> SUFFICES ASSUME ArrInv(arr, punctured), [VariantsNext]_allVars
               PROVE  ArrInv(arr', punctured')
    OBVIOUS
  <2>1. CASE RenewAll
    <3>1. arr' = ArrInit /\ punctured' = {}
      BY <2>1 DEF RenewAll, Renew
    <3> QED
      BY <3>1, ArrStart
  <2>2. ASSUME NEW t \in Tags, PunctureAll(t) PROVE ArrInv(arr', punctured')
    <3>1. arr' = ArrPuncture(arr, TagBits(t)) /\ punctured' = punctured \cup {t}
      BY <2>2 DEF PunctureAll, Persist, PunctureAtTag
    <3> QED
      BY <3>1, ArrStep
  <2>3. CASE UNCHANGED allVars
    <3>1. arr' = arr /\ punctured' = punctured
      BY <2>3 DEF allVars, storeVars, vars
    <3> QED
      BY <3>1
  <2> QED
    BY <2>1, <2>2, <2>3 DEF VariantsNext
<1> QED
  BY <1>1, <1>2, PTL DEF VariantsSpec

\* The array computes every tag left, and of the punctured ones at most a leaf whose
\* sibling is gone (puncture and evaluate_at_tag, ggm_prf/pprf.c:254-340).
THEOREM ArrayComputes == VariantsSpec => []ArrayAgrees
<1>1. ArrInv(arr, punctured) => ArrayAgrees
  <2> SUFFICES ASSUME ArrInv(arr, punctured), NEW t \in Tags, NEW r, r = ArrEvaluate(arr, TagBits(t))
               PROVE  /\ r.code = 0 => r.key = Halves(TagBits(t))
                      /\ t \notin punctured => r.code = 0
                      /\ t \in punctured /\ r.code = 0 =>
                           /\ Sibling(t) \in punctured
                           /\ ArrEvaluate(arr, TagBits(Sibling(t))).code = -1
    BY DEF ArrayAgrees
  <2>1. /\ r.code = 0 <=> ArrCovers(arr, TagBits(t))
        /\ ArrCovers(arr, TagBits(t)) => r.key = Halves(TagBits(t))
    BY ArrEvaluates
  <2>2. t \notin punctured => ArrCovers(arr, TagBits(t))
    BY DEF ArrInv
  <2>3. ASSUME t \in punctured, r.code = 0
        PROVE  /\ Sibling(t) \in punctured
               /\ ArrEvaluate(arr, TagBits(Sibling(t))).code = -1
    <3>1. Sibling(t) \in punctured /\ ~ArrCovers(arr, TagBits(Sibling(t)))
      BY <2>1, <2>3, ArrLeaf
    <3>2. Sibling(t) \in Tags
      BY SiblingIs
    <3> QED
      BY <3>1, <3>2, ArrEvaluates
  <2> QED
    BY <2>1, <2>2, <2>3
<1> QED
  BY <1>1, ArrayInvariant, PTL

\* The binary search finds what the linear one does, and leaves the array in front only
\* for a tag that was punctured (find_pkey_index_by_prefix_bsearch,
\* ggm_prf/pprf.c:231-249).
THEOREM SearchesFindOne == VariantsSpec => []SearchesAgree
<1>1. ArrInv(arr, punctured) => SearchesAgree
  <2> SUFFICES ASSUME ArrInv(arr, punctured), NEW t \in Tags, NEW b, b = FindBsearch(arr, TagBits(t))
               PROVE  IF b = Outside THEN t \in punctured ELSE b = FindLinear(arr, TagBits(t))
    BY DEF SearchesAgree
  <2>1. TagBits(t) \in Bits /\ ArrCode(arr)
    BY BitsOf DEF ArrInv
  <2>2. /\ b = Outside => ~ArrCovers(arr, TagBits(t))
        /\ b # Outside => b = FindLinear(arr, TagBits(t))
    BY <2>1, SameSearch
  <2> QED
    BY <2>2 DEF ArrInv
<1> QED
  BY <1>1, ArrayInvariant, PTL

-----------------------------------------------------------------------------
(* Tags as numbers: the upper bits of a tag, and the order of tags.        *)

Upper(x, d) == x \div Pow2[Depth - d]

\* One bit at a time.
LEMMA UpperIs ==
  ASSUME NEW x \in Tags
  PROVE  /\ \A d \in 0 .. Depth : Upper(x, d) \in Nat
         /\ Upper(x, 0) = 0 /\ Upper(x, Depth) = x
         /\ \A d \in 1 .. Depth : /\ Upper(x, d - 1) = Upper(x, d) \div 2
                                  /\ TagBits(x)[d] = Upper(x, d) % 2
<1>1. Depth \in Nat \ {0} /\ x \in Nat /\ x < Pow2[Depth]
  BY DepthAssumption, Pow2Type DEF Tags
<1>2. ASSUME NEW d \in 0 .. Depth PROVE Upper(x, d) \in Nat
  <2>1. Depth - d \in 0 .. Depth + 1
    BY <1>1
  <2>2. Pow2[Depth - d] \in Nat \ {0}
    BY <2>1, Pow2Type
  <2> QED
    BY <1>1, <2>2, Halved DEF Upper
<1>3. Upper(x, 0) = 0
  <2>1. Depth - 0 = Depth /\ Depth \in 0 .. Depth + 1
    BY <1>1
  <2>2. PICK q \in Nat \ {0} : q = Pow2[Depth - 0] /\ x < q
    BY <1>1, <2>1, Pow2Type
  <2>3. x \div q = 0
    BY <1>1, <2>2
  <2> QED
    BY <2>2, <2>3 DEF Upper
<1>4. Upper(x, Depth) = x
  <2>1. Depth - Depth = 0 /\ x \div 1 = x
    BY <1>1
  <2> QED
    BY <2>1, Pow2Type DEF Upper
<1>5. ASSUME NEW d \in 1 .. Depth
      PROVE  Upper(x, d - 1) = Upper(x, d) \div 2 /\ TagBits(x)[d] = Upper(x, d) % 2
  <2>1. /\ Depth - d \in 0 .. Depth /\ Depth - d \in 0 .. Depth + 1
        /\ Depth - (d - 1) = Depth - d + 1
    BY <1>1
  <2>2. PICK q \in Nat \ {0} : q = Pow2[Depth - d] /\ Pow2[Depth - (d - 1)] = 2 * q
    BY <2>1, Pow2Type
  <2>3. (x \div q) \div 2 = x \div (2 * q)
    BY <1>1, <2>2, Halved
  <2>4. TagBits(x)[d] = (x \div q) % 2
    BY <2>2 DEF TagBits
  <2> QED
    BY <2>2, <2>3, <2>4 DEF Upper
<1> QED
  BY <1>2, <1>3, <1>4, <1>5

\* Two tags have their first bits in common when their upper bits are one number.
LEMMA UpperTells ==
  ASSUME NEW x \in Tags, NEW y \in Tags, NEW d \in 0 .. Depth
  PROVE  Upper(x, d) = Upper(y, d) <=> \A i \in 1 .. d : TagBits(x)[i] = TagBits(y)[i]
<1>1. Depth \in Nat /\ d \in Nat
  BY DepthAssumption
<1> DEFINE Same(e) == Upper(x, e) = Upper(y, e) <=> \A i \in 1 .. e : TagBits(x)[i] = TagBits(y)[i]
           S == {e \in Nat : Same(e)}
<1>2. 0 \in S
  BY UpperIs
<1>3. ASSUME NEW e \in 0 .. d - 1, e \in S PROVE e + 1 \in S
  <2>1. e + 1 \in 1 .. Depth /\ e + 1 \in 0 .. Depth /\ e \in 0 .. Depth /\ e + 1 - 1 = e
    BY <1>1
  <2>2. PICK m \in Nat, n \in Nat : m = Upper(x, e + 1) /\ n = Upper(y, e + 1)
    BY <2>1, UpperIs
  <2>3. /\ Upper(x, e) = m \div 2 /\ TagBits(x)[e + 1] = m % 2
        /\ Upper(y, e) = n \div 2 /\ TagBits(y)[e + 1] = n % 2
    <3>1. /\ Upper(x, e + 1 - 1) = Upper(x, e + 1) \div 2
          /\ TagBits(x)[e + 1] = Upper(x, e + 1) % 2
          /\ Upper(y, e + 1 - 1) = Upper(y, e + 1) \div 2
          /\ TagBits(y)[e + 1] = Upper(y, e + 1) % 2
      BY <2>1, UpperIs
    <3> QED
      BY <2>1, <2>2, <3>1
  <2>4. m = n <=> m \div 2 = n \div 2 /\ m % 2 = n % 2
    OBVIOUS
  <2>5. (\A i \in 1 .. e + 1 : TagBits(x)[i] = TagBits(y)[i]) <=>
          (\A i \in 1 .. e : TagBits(x)[i] = TagBits(y)[i]) /\ TagBits(x)[e + 1] = TagBits(y)[e + 1]
    <3>1. \A i : i \in 1 .. e + 1 <=> i \in 1 .. e \/ i = e + 1
      OBVIOUS
    <3> QED
      BY <3>1
  <2>6. Upper(x, e) = Upper(y, e) <=> \A i \in 1 .. e : TagBits(x)[i] = TagBits(y)[i]
    BY <1>3
  <2>7. Same(e + 1)
    BY <2>2, <2>3, <2>4, <2>5, <2>6
  <2> QED
    BY <2>1, <2>7
<1> HIDE DEF S
<1>4. d \in S
  <2>1. 0 .. d \subseteq S
    BY <1>1, <1>2, <1>3, UpTo
  <2> QED
    BY <1>1, <2>1
<1> QED
  BY <1>4 DEF S

\* The order of the bits is the order of the numbers.
LEMMA BeforeIsLess ==
  ASSUME NEW x \in Tags, NEW y \in Tags, Before(TagBits(x), TagBits(y))
  PROVE  x < y
<1>1. /\ Depth \in Nat \ {0} /\ x \in Nat /\ y \in Nat
      /\ TagBits(x) \in Bits /\ TagBits(y) \in Bits
  BY DepthAssumption, Pow2Type, BitsOf DEF Tags
<1>2. PICK p \in 1 .. Depth : PartAt(TagBits(x), TagBits(y), p)
  BY DEF Before
<1>3. /\ TagBits(x)[p] = 0 /\ TagBits(y)[p] = 1
      /\ \A i \in 1 .. p - 1 : TagBits(x)[i] = TagBits(y)[i]
  BY <1>2 DEF PartAt
<1>4. p \in 0 .. Depth /\ p - 1 \in 0 .. Depth
  BY <1>1
<1>5. PICK m \in Nat, n \in Nat : m = Upper(x, p) /\ n = Upper(y, p)
  BY <1>4, UpperIs
<1>6. m % 2 = 0 /\ n % 2 = 1 /\ m \div 2 = n \div 2
  <2>1. Upper(x, p - 1) = Upper(y, p - 1)
    BY <1>3, <1>4, UpperTells
  <2>2. /\ Upper(x, p - 1) = m \div 2 /\ TagBits(x)[p] = m % 2
        /\ Upper(y, p - 1) = n \div 2 /\ TagBits(y)[p] = n % 2
    BY <1>5, UpperIs
  <2> QED
    BY <1>3, <2>1, <2>2
<1>7. m < n
  BY <1>6
<1>8. PICK q \in Nat \ {0} : q = Pow2[Depth - p]
  <2>1. Depth - p \in 0 .. Depth + 1
    BY <1>1
  <2> QED
    BY <2>1, Pow2Type
<1>9. m = x \div q /\ n = y \div q
  BY <1>5, <1>8 DEF Upper
<1>10. ASSUME y <= x PROVE y \div q <= x \div q
  BY <1>1, <1>8, <1>10
<1> QED
  BY <1>1, <1>7, <1>9, <1>10

\* Powers of two multiply.
LEMMA Pow2Sum ==
  ASSUME NEW d \in Nat, NEW e \in Nat, d + e <= Depth
  PROVE  Pow2[d] * Pow2[e] = Pow2[d + e]
<1>1. Depth \in Nat /\ e \in 0 .. Depth + 1
  BY DepthAssumption
<1>2. PICK q \in Nat \ {0} : q = Pow2[e]
  BY <1>1, Pow2Type
<1> DEFINE S == {n \in Nat : Pow2[n] * q = Pow2[n + e]}
<1>3. 0 \in S
  BY <1>2, Pow2Type
<1>4. ASSUME NEW n \in 0 .. d - 1, n \in S PROVE n + 1 \in S
  <2>1. n \in 0 .. Depth /\ n \in 0 .. Depth + 1 /\ n + e \in 0 .. Depth /\ n + 1 + e = n + e + 1
    BY <1>1
  <2>2. PICK r \in Nat \ {0} : r = Pow2[n] /\ Pow2[n + 1] = 2 * r
    BY <2>1, Pow2Type
  <2>3. Pow2[n + 1 + e] = 2 * (r * q)
    BY <1>4, <2>1, <2>2, Pow2Type
  <2>4. 2 * r * q = 2 * (r * q)
    OBVIOUS
  <2> QED
    BY <2>2, <2>3, <2>4
<1> HIDE DEF S
<1>5. d \in S
  <2>1. 0 .. d \subseteq S
    BY <1>3, <1>4, UpTo
  <2> QED
    BY <2>1
<1> QED
  BY <1>2, <1>5 DEF S

-----------------------------------------------------------------------------
(* The list of pprf.py.                                                    *)

\* A tuple, its prefix being the first tag below its value.
PyKey == [prefix : Tags, depth : 0 .. Depth, value : Labels]
PyEntry(e) ==
  /\ e \in PyKey /\ e.depth = Len(e.value) /\ Above(e.value, TagBits(e.prefix))
  /\ e.prefix % Pow2[Depth - e.depth] = 0

\* What the arithmetic of a tuple is about.
LEMMA PyParts ==
  ASSUME NEW e, PyEntry(e)
  PROVE  \E f \in Tags, d \in 0 .. Depth, v \in Labels, q \in Nat \ {0} :
           /\ f = e.prefix /\ d = e.depth /\ v = e.value /\ q = Pow2[Depth - d]
           /\ Len(v) = d /\ Above(v, TagBits(f)) /\ f = q * Upper(f, d)
           /\ \A x \in Tags : Above(v, TagBits(x)) <=> Upper(x, d) = Upper(f, d)
<1>1. PICK f \in Tags, d \in 0 .. Depth, v \in Labels : f = e.prefix /\ d = e.depth /\ v = e.value
  BY DEF PyEntry, PyKey
<1>2. Depth \in Nat /\ f \in Nat /\ d \in Nat /\ d <= Depth
  BY DepthAssumption, Pow2Type DEF Tags
<1>3. PICK q \in Nat \ {0} : q = Pow2[Depth - d]
  <2>1. Depth - d \in 0 .. Depth + 1
    BY <1>2
  <2> QED
    BY <2>1, Pow2Type
<1>4. Len(v) = d /\ Above(v, TagBits(f)) /\ f % q = 0
  BY <1>1, <1>3 DEF PyEntry
<1>5. f = q * Upper(f, d)
  <2>1. f = q * (f \div q)
    BY <1>2, <1>4
  <2> QED
    BY <1>3, <2>1 DEF Upper
<1>6. ASSUME NEW x \in Tags PROVE Above(v, TagBits(x)) <=> Upper(x, d) = Upper(f, d)
  <2>1. Len(TagBits(x)) = Depth /\ Len(TagBits(f)) = Depth
    BY BitsOf, Parts, DepthAssumption
  <2>2. \A i \in 1 .. d : v[i] = TagBits(f)[i]
    BY <1>4 DEF Above
  <2>3. Above(v, TagBits(x)) <=> \A i \in 1 .. d : v[i] = TagBits(x)[i]
    BY <1>2, <1>4, <2>1 DEF Above
  <2>4. Upper(x, d) = Upper(f, d) <=> \A i \in 1 .. d : TagBits(x)[i] = TagBits(f)[i]
    BY UpperTells
  <2> QED
    BY <2>2, <2>3, <2>4
<1> QED
  BY <1>1, <1>3, <1>4, <1>5, <1>6

\* The check value is the tag for what the tuple covers, and for nothing else.
LEMMA PyCovers ==
  ASSUME NEW e, PyEntry(e), NEW x \in Tags
  PROVE  Covers(e, x) <=> Above(e.value, TagBits(x))
<1>1. PICK f \in Tags, d \in 0 .. Depth, v \in Labels, q \in Nat \ {0} :
        /\ f = e.prefix /\ d = e.depth /\ v = e.value /\ q = Pow2[Depth - d]
        /\ f = q * Upper(f, d)
        /\ Above(v, TagBits(x)) <=> Upper(x, d) = Upper(f, d)
  BY PyParts
<1>2. x \in Nat /\ f \in Nat
  BY DepthAssumption, Pow2Type DEF Tags
<1>3. PICK m \in Nat, n \in Nat : m = Upper(f, d) /\ n = Upper(x, d)
  BY UpperIs
<1>4. x = q * n + (x % q)
  <2>1. n = x \div q
    BY <1>1, <1>3 DEF Upper
  <2>2. x = q * (x \div q) + (x % q)
    BY <1>2
  <2> QED
    BY <2>1, <2>2
<1>5. x % q \in Nat
  BY <1>2
<1>6. Covers(e, x) <=> f + (x % q) = x
  <2>1. e.prefix = f /\ Pow2[Depth - e.depth] = q
    BY <1>1
  <2>2. Covers(e, x) <=> e.prefix + (x % Pow2[Depth - e.depth]) = x
    BY DEF Covers
  <2> QED
    BY <2>1, <2>2
<1>7. f + (x % q) = x <=> q * m = q * n
  <2>1. f = q * m
    BY <1>1, <1>3
  <2>2. PICK a \in Nat, b \in Nat, r \in Nat : a = q * m /\ b = q * n /\ r = x % q
    <3>1. q * m \in Nat
      OBVIOUS
    <3>2. q * n \in Nat
      OBVIOUS
    <3> QED
      BY <1>5, <3>1, <3>2
  <2>3. f = a /\ x = b + r
    BY <1>4, <2>1, <2>2
  <2>4. a + r = b + r <=> a = b
    OBVIOUS
  <2> QED
    BY <2>2, <2>3, <2>4
<1>8. q * m = q * n <=> m = n
  OBVIOUS
<1> QED
  BY <1>1, <1>3, <1>6, <1>7, <1>8

\* A prefix is behind a tag when the label is.
LEMMA PyOrder ==
  ASSUME NEW e, PyEntry(e), NEW x \in Tags
  PROVE  e.prefix <= x <=> LabelLeq(e.value, TagBits(x))
<1>1. PICK f \in Tags, d \in 0 .. Depth, v \in Labels, q \in Nat \ {0} :
        /\ f = e.prefix /\ d = e.depth /\ v = e.value /\ q = Pow2[Depth - d]
        /\ Len(v) = d /\ Above(v, TagBits(f)) /\ f = q * Upper(f, d)
        /\ Above(v, TagBits(x)) <=> Upper(x, d) = Upper(f, d)
  BY PyParts
<1>2. /\ x \in Nat /\ f \in Nat /\ Depth \in Nat /\ TagBits(x) \in Bits /\ TagBits(f) \in Bits
  BY DepthAssumption, Pow2Type, BitsOf DEF Tags
<1>3. TagBits(x) \in Labels /\ TagBits(f) \in Labels /\ Len(TagBits(x)) = Depth
  BY <1>2, Parts, DepthAssumption
<1>4. LabelLeq(v, TagBits(x)) <=> Above(v, TagBits(x)) \/ Before(v, TagBits(x))
  BY <1>3, LeqIs
<1>5. ASSUME Above(v, TagBits(x)) PROVE f <= x
  <2>1. PICK n \in Nat : n = Upper(x, d) /\ f = q * n
    BY <1>1, <1>5, UpperIs
  <2>2. n = x \div q
    BY <1>1, <2>1 DEF Upper
  <2> QED
    BY <1>2, <2>1, <2>2
<1>6. ASSUME Before(v, TagBits(x)) PROVE f <= x
  <2>1. Before(TagBits(f), TagBits(x))
    BY <1>1, <1>3, <1>6, Transits
  <2>2. f < x
    BY <2>1, BeforeIsLess
  <2> QED
    BY <1>2, <2>2
<1>7. ASSUME ~Above(v, TagBits(x)), ~Before(v, TagBits(x)) PROVE x < f
  <2>1. ~Above(TagBits(x), v)
    <3> SUFFICES ASSUME Above(TagBits(x), v) PROVE FALSE
      OBVIOUS
    <3>1. Len(TagBits(x)) = Len(v)
      BY <1>1, <1>2, <1>3 DEF Above
    <3>2. TagBits(x) = v
      BY <1>3, <3>1, SameLabel
    <3>3. Above(v, TagBits(x))
      BY <3>2, Orders
    <3> QED
      BY <1>7, <3>3
  <2>2. Before(TagBits(x), v)
    BY <1>3, <1>7, <2>1, Total
  <2>3. Before(TagBits(x), TagBits(f))
    BY <1>1, <1>3, <2>2, Transits
  <2> QED
    BY <2>3, BeforeIsLess
<1>8. x < f => ~(f <= x)
  BY <1>2
<1> QED
  BY <1>1, <1>4, <1>5, <1>6, <1>7, <1>8

\* The prefixes are in the order of the labels.
LEMMA PyPrefixes ==
  ASSUME NEW e, PyEntry(e), NEW g, PyEntry(g), Before(e.value, g.value)
  PROVE  e.prefix < g.prefix
<1>1. /\ e.value \in Labels /\ g.value \in Labels /\ e.prefix \in Tags /\ g.prefix \in Tags
      /\ Above(e.value, TagBits(e.prefix)) /\ Above(g.value, TagBits(g.prefix))
  BY DEF PyEntry, PyKey
<1>2. PICK f \in Tags, h \in Tags, l \in Labels, m \in Labels :
        /\ f = e.prefix /\ h = g.prefix /\ l = e.value /\ m = g.value
        /\ Above(l, TagBits(f)) /\ Above(m, TagBits(h)) /\ Before(l, m)
  BY <1>1
<1>3. TagBits(f) \in Labels /\ TagBits(h) \in Labels
  BY BitsOf, Parts, DepthAssumption
<1>4. Before(l, TagBits(h))
  BY <1>2, <1>3, Transits
<1>5. Before(TagBits(f), TagBits(h))
  BY <1>2, <1>3, <1>4, Transits
<1>6. f < h
  BY <1>5, BeforeIsLess
<1> QED
  BY <1>2, <1>6

\* The first tag below a sibling of the path.
LEMMA PyStartIs ==
  ASSUME NEW x \in Tags, NEW d \in 1 .. Depth
  PROVE  /\ PyStart(x, d) \in Tags /\ PyStart(x, d) % Pow2[Depth - d] = 0
         /\ Above(Sib(TagBits(x), d), TagBits(PyStart(x, d)))
<1>1. /\ Depth \in Nat /\ x \in Nat /\ x < Pow2[Depth] /\ TagBits(x) \in Bits
      /\ Depth - d \in 0 .. Depth /\ d \in 0 .. Depth /\ d - 1 \in 0 .. Depth /\ d \in Nat
  BY DepthAssumption, Pow2Type, BitsOf DEF Tags
<1>2. PICK h \in Nat \ {0} : Pow2[d] = 2 * h
  <2>1. d - 1 \in 0 .. Depth /\ d - 1 \in 0 .. Depth + 1 /\ d - 1 + 1 = d
    BY <1>1
  <2> QED
    BY <2>1, Pow2Type
<1>3. PICK q \in Nat \ {0} : q = Pow2[Depth - d] /\ (2 * h) * q = Pow2[Depth]
  <2>1. Depth - d \in Nat /\ d + (Depth - d) <= Depth /\ d + (Depth - d) = Depth
        /\ Depth - d \in 0 .. Depth + 1
    BY <1>1
  <2>2. Pow2[d] * Pow2[Depth - d] = Pow2[Depth]
    BY <1>1, <2>1, Pow2Sum
  <2> QED
    BY <1>2, <2>1, <2>2, Pow2Type
<1>4. PICK n \in Nat : n = Upper(x, d) /\ n = x \div q
  BY <1>1, <1>3, UpperIs DEF Upper
<1>5. n < 2 * h
  <2>1. q * n <= x
    BY <1>1, <1>4
  <2>2. q * n < (2 * h) * q
    BY <1>1, <1>3, <2>1
  <2> QED
    BY <2>2
<1>6. TagBits(x)[d] = n % 2
  BY <1>4, UpperIs
<1>7. PICK m \in Nat : m = n + 1 - 2 * TagBits(x)[d] /\ m < 2 * h /\ m % 2 = 1 - (n % 2) /\ m \div 2 = n \div 2
  BY <1>2, <1>5, <1>6
<1>8. PICK f \in Nat : f = m * q /\ f = PyStart(x, d)
  BY <1>3, <1>4, <1>7 DEF PyStart
<1>9. f % q = 0 /\ f \div q = m
  BY <1>8
<1>10. f < Pow2[Depth]
  <2>1. m * q < (2 * h) * q
    BY <1>7
  <2> QED
    BY <1>3, <1>8, <2>1
<1>11. f \in Tags
  <2>1. Pow2[Depth] \in Nat
    BY <1>1, Pow2Type
  <2> QED
    BY <1>10, <2>1 DEF Tags
<1>12. Upper(f, d) = m
  BY <1>3, <1>9 DEF Upper
<1>13. TagBits(f)[d] = 1 - TagBits(x)[d]
  <2>1. TagBits(f)[d] = m % 2
    BY <1>11, <1>12, UpperIs
  <2> QED
    BY <1>6, <1>7, <2>1
<1>14. \A i \in 1 .. d - 1 : TagBits(f)[i] = TagBits(x)[i]
  <2>1. Upper(f, d - 1) = Upper(f, d) \div 2 /\ Upper(x, d - 1) = Upper(x, d) \div 2
    BY <1>11, UpperIs
  <2>2. Upper(f, d - 1) = Upper(x, d - 1)
    BY <1>4, <1>7, <1>12, <2>1
  <2> QED
    BY <1>1, <1>11, <2>2, UpperTells
<1>15. Above(Sib(TagBits(x), d), TagBits(f))
  <2>1. Len(Sib(TagBits(x), d)) = d /\ Len(TagBits(f)) = Depth
    BY <1>1, <1>11, Parts, BitsOf
  <2>2. ASSUME NEW i \in 1 .. d PROVE Sib(TagBits(x), d)[i] = TagBits(f)[i]
    <3>1. CASE i = d
      BY <1>13, <3>1 DEF Sib
    <3>2. CASE i # d
      <4>1. i \in 1 .. d - 1
        BY <1>1, <3>2
      <4>2. Sib(TagBits(x), d)[i] = TagBits(x)[i]
        BY <3>2 DEF Sib
      <4> QED
        BY <1>14, <4>1, <4>2
    <3> QED
      BY <3>1, <3>2
  <2> QED
    BY <1>1, <2>1, <2>2 DEF Above
<1> QED
  BY <1>3, <1>8, <1>9, <1>11, <1>15

ValOf == [e \in PyKey |-> e.value]
PyCode(l) ==
  /\ l \in Seq(PyKey) /\ Code(LabelsIn(ValOf, l, Len(l)), Len(l))
  /\ \A i \in 1 .. Len(l) : PyEntry(l[i])
PyHas(l, c) == Covered(LabelsIn(ValOf, l, Len(l)), Len(l), c)

\* The labels in a list.
LEMMA PyLabels ==
  ASSUME NEW l \in Seq(PyKey)
  PROVE  /\ Len(l) \in Nat
         /\ \A i \in 1 .. Len(l) :
              /\ l[i] \in PyKey /\ l[i].value \in Labels /\ l[i].prefix \in Nat
              /\ ValOf[l[i]] = l[i].value /\ LabelsIn(ValOf, l, Len(l))[i] = l[i].value
         /\ \A c : PyHas(l, c) <=> \E i \in 1 .. Len(l) : Above(l[i].value, c)
<1>1. Len(l) \in Nat
  BY LenProperties
<1>2. ASSUME NEW i \in 1 .. Len(l)
      PROVE  /\ l[i] \in PyKey /\ l[i].value \in Labels /\ l[i].prefix \in Nat
             /\ ValOf[l[i]] = l[i].value /\ LabelsIn(ValOf, l, Len(l))[i] = l[i].value
  <2>1. l[i] \in PyKey
    BY ElementOfSeq
  <2>2. ValOf[l[i]] = l[i].value
    BY <2>1 DEF ValOf
  <2>3. l[i].prefix \in Tags /\ l[i].value \in Labels
    BY <2>1 DEF PyKey
  <2>4. \A x \in Tags : x \in Nat
    BY DepthAssumption, Pow2Type DEF Tags
  <2> QED
    BY <2>1, <2>2, <2>3, <2>4 DEF LabelsIn
<1>3. ASSUME NEW c PROVE PyHas(l, c) <=> \E i \in 1 .. Len(l) : Above(l[i].value, c)
  BY <1>2 DEF PyHas, Covered
<1> QED
  BY <1>1, <1>2, <1>3

\* The prefixes of those in front are not behind a tag either, and what is found last
\* of them is the one that covers it.
LEMMA PyOrdered ==
  ASSUME NEW l, PyCode(l), NEW x \in Tags
  PROVE  /\ \A i, j \in 1 .. Len(l) : i < j /\ l[j].prefix <= x => l[i].prefix <= x
         /\ \A r \in 0 .. Len(l) : (\A j \in 1 .. Len(l) : l[j].prefix <= x <=> j <= r) =>
              \A j \in 1 .. Len(l) : Above(l[j].value, TagBits(x)) => j = r
         /\ \A j \in 1 .. Len(l) : Covers(l[j], x) <=> Above(l[j].value, TagBits(x))
<1>1. PICK n, lab : n \in Nat /\ n = Len(l) /\ lab = LabelsIn(ValOf, l, n) /\ Code(lab, n)
  BY PyLabels DEF PyCode
<1>2. PICK c \in Bits : c = TagBits(x) /\ c \in Labels
  BY BitsOf, Parts, DepthAssumption
<1>3. ASSUME NEW j \in 1 .. n
      PROVE  /\ l[j].prefix <= x <=> LabelLeq(lab[j], c)
             /\ lab[j] = l[j].value
             /\ Covers(l[j], x) <=> Above(l[j].value, c)
  <2>1. PICK e : e = l[j] /\ PyEntry(e)
    BY <1>1 DEF PyCode
  <2>2. lab[j] = e.value
    BY <1>1, <2>1, PyLabels DEF PyCode
  <2>3. e.prefix <= x <=> LabelLeq(e.value, c)
    BY <1>2, <2>1, PyOrder
  <2>4. Covers(e, x) <=> Above(e.value, c)
    BY <1>2, <2>1, PyCovers
  <2> QED
    BY <2>1, <2>2, <2>3, <2>4
<1>4. ASSUME NEW i \in 1 .. n, NEW j \in 1 .. n, i < j, l[j].prefix <= x PROVE l[i].prefix <= x
  <2>1. LabelLeq(lab[j], c)
    BY <1>3, <1>4
  <2>2. LabelLeq(lab[i], c)
    BY <1>1, <1>2, <1>4, <2>1, FrontToo
  <2> QED
    BY <1>3, <2>2
<1>5. ASSUME NEW r \in 0 .. n, \A j \in 1 .. n : l[j].prefix <= x <=> j <= r,
             NEW j \in 1 .. n, Above(l[j].value, c)
      PROVE  j = r
  <2>1. (\A i \in 1 .. n : LabelLeq(lab[i], c) <=> i <= r) /\ Above(lab[j], c)
    BY <1>3, <1>5
  <2> QED
    BY <1>1, <1>2, <2>1, LastCovers
<1> QED
  BY <1>1, <1>2, <1>3, <1>4, <1>5

-----------------------------------------------------------------------------
(* The bisection of the list.                                              *)

\* The turns of the bisection are what the definition says.
LEMMA BisectsIs ==
  ASSUME NEW l, Len(l) \in Nat, NEW x
  PROVE  \A k \in 0 .. Len(l) :
           Bisects(l, x)[k] = IF k = 0 THEN [lo |-> 0, hi |-> Len(l)]
                            ELSE BisectTurn(l, x, Bisects(l, x)[k - 1])
<1> DEFINE Is(g, n) == g = [k \in 0 .. n |-> IF k = 0 THEN [lo |-> 0, hi |-> Len(l)]
                                             ELSE BisectTurn(l, x, g[k - 1])]
           S == {n \in Nat : \E g : Is(g, n)}
<1>0. PICK m \in Nat : m = Len(l)
  OBVIOUS
<1>1. 0 \in S
  <2>1. Is([k \in 0 .. 0 |-> [lo |-> 0, hi |-> Len(l)]], 0)
    OBVIOUS
  <2> QED
    BY <2>1
<1>2. ASSUME NEW n \in Nat, n \in S PROVE n + 1 \in S
  <2>1. PICK g : Is(g, n)
    BY <1>2
  <2>2. PICK h : h = [k \in 0 .. n + 1 |-> IF k = n + 1 THEN BisectTurn(l, x, g[n]) ELSE g[k]]
    OBVIOUS
  <2>3. ASSUME NEW k \in 0 .. n + 1
        PROVE  h[k] = IF k = 0 THEN [lo |-> 0, hi |-> Len(l)] ELSE BisectTurn(l, x, h[k - 1])
    <3>1. CASE k = n + 1
      <4>1. h[k] = BisectTurn(l, x, g[n]) /\ h[n] = g[n] /\ k - 1 = n /\ k # 0
        BY <2>2, <3>1
      <4> QED
        BY <3>1, <4>1
    <3>2. CASE k \in 0 .. n
      <4>1. g[k] = IF k = 0 THEN [lo |-> 0, hi |-> Len(l)] ELSE BisectTurn(l, x, g[k - 1])
        BY <2>1, <3>2
      <4>2. k # 0 => k - 1 \in 0 .. n + 1 /\ k - 1 # n + 1
        BY <3>2
      <4> QED
        BY <2>2, <3>2, <4>1, <4>2
    <3> QED
      BY <3>1, <3>2
  <2>4. Is(h, n + 1)
    <3>1. h = [k \in 0 .. n + 1 |-> h[k]]
      BY <2>2
    <3> QED
      BY <2>3, <3>1
  <2> HIDE DEF Is
  <2> QED
    BY <2>4
<1> HIDE DEF S
<1>3. m \in S
  <2>1. \A n \in 0 .. m - 1 : n \in S => n + 1 \in S
    BY <1>0, <1>2
  <2>2. 0 .. m \subseteq S
    BY <1>0, <1>1, <2>1, UpTo
  <2> QED
    BY <1>0, <2>2
<1> USE DEF S
<1>4. Is(Bisects(l, x), m)
  BY <1>0, <1>3 DEF Bisects
<1> QED
  BY <1>0, <1>4

\* After k turns: what is in front of lo is not behind the tag, what is at hi and
\* beyond is, and what is left in between is at most what k turns leave.
Bisected(l, x, k, c) ==
  /\ c \in [lo : 0 .. Len(l), hi : 0 .. Len(l)] /\ c.lo <= c.hi
  /\ \A j \in 1 .. Len(l) : j <= c.lo => l[j].prefix <= x
  /\ \A j \in 1 .. Len(l) : j > c.hi => ~(l[j].prefix <= x)
  /\ c.hi - c.lo <= Len(l) - k

\* A turn leaves less between, or ends.
LEMMA BisectTurnOK ==
  ASSUME NEW l, PyCode(l), NEW x \in Tags, NEW k \in 0 .. Len(l) - 1,
         NEW c, Bisected(l, x, k, c)
  PROVE  Bisected(l, x, k + 1, BisectTurn(l, x, c))
<1>1. PICK n \in Nat : n = Len(l)
  BY PyLabels DEF PyCode
<1>2. PICK y \in 0 .. n, z \in 0 .. n : c = [lo |-> y, hi |-> z]
  BY <1>1 DEF Bisected
<1> DEFINE Leq(j) == l[j].prefix <= x
<1>3. /\ y <= z /\ z - y <= n - k /\ k \in Nat /\ k < n
      /\ \A j \in 1 .. n : j <= y => Leq(j)
      /\ \A j \in 1 .. n : j > z => ~Leq(j)
  BY <1>1, <1>2 DEF Bisected
<1>4. \A i, j \in 1 .. n : i < j /\ Leq(j) => Leq(i)
  BY <1>1, PyOrdered
<1> HIDE DEF Leq
<1>5. ASSUME NEW p \in 0 .. n, NEW q \in 0 .. n, p <= q, q - p <= n - (k + 1),
             \A j \in 1 .. n : j <= p => Leq(j), \A j \in 1 .. n : j > q => ~Leq(j)
      PROVE  Bisected(l, x, k + 1, [lo |-> p, hi |-> q])
  BY <1>1, <1>5 DEF Bisected, Leq
<1>6. PICK mid \in 0 .. n : mid = (y + z) \div 2 /\ y <= mid /\ mid <= z /\ (y < z => mid < z)
  BY <1>3
<1>7. BisectTurn(l, x, c) = IF y >= z THEN [lo |-> y, hi |-> z]
                            ELSE IF Leq(mid + 1) THEN [lo |-> mid + 1, hi |-> z]
                            ELSE [lo |-> y, hi |-> mid]
  BY <1>2, <1>6 DEF BisectTurn, Leq
<1>8. CASE y >= z
  <2>1. z - y <= n - (k + 1)
    BY <1>3, <1>8
  <2>2. Bisected(l, x, k + 1, [lo |-> y, hi |-> z])
    BY <1>3, <1>5, <2>1
  <2> QED
    BY <1>7, <1>8, <2>2
<1>9. CASE y < z /\ Leq(mid + 1)
  <2>1. mid + 1 \in 1 .. n /\ mid + 1 <= z /\ z - (mid + 1) <= n - (k + 1) /\ ~(y >= z)
    BY <1>3, <1>6, <1>9
  <2>2. \A j \in 1 .. n : j <= mid + 1 => j < mid + 1 \/ j = mid + 1
    OBVIOUS
  <2>3. \A j \in 1 .. n : j <= mid + 1 => Leq(j)
    BY <1>4, <1>9, <2>1, <2>2
  <2>4. Bisected(l, x, k + 1, [lo |-> mid + 1, hi |-> z])
    BY <1>3, <1>5, <2>1, <2>3
  <2> QED
    BY <1>7, <1>9, <2>1, <2>4
<1>10. CASE y < z /\ ~Leq(mid + 1)
  <2>1. mid + 1 \in 1 .. n /\ mid - y <= n - (k + 1) /\ ~(y >= z)
    BY <1>3, <1>6, <1>10
  <2>2. \A j \in 1 .. n : j > mid => mid + 1 < j \/ j = mid + 1
    OBVIOUS
  <2>3. \A j \in 1 .. n : j > mid => ~Leq(j)
    BY <1>4, <1>10, <2>1, <2>2
  <2>4. Bisected(l, x, k + 1, [lo |-> y, hi |-> mid])
    BY <1>3, <1>5, <1>6, <2>1, <2>3
  <2> QED
    BY <1>7, <1>10, <2>1, <2>4
<1>11. y >= z \/ y < z
  OBVIOUS
<1> QED
  BY <1>8, <1>9, <1>10, <1>11

\* The bisection ends behind the last prefix that is not behind the tag.
LEMMA BisectIs ==
  ASSUME NEW l, PyCode(l), NEW x \in Tags
  PROVE  /\ Bisect(l, x) \in 0 .. Len(l)
         /\ \A j \in 1 .. Len(l) : l[j].prefix <= x <=> j <= Bisect(l, x)
<1>1. PICK n \in Nat : n = Len(l)
  BY PyLabels DEF PyCode
<1> DEFINE S == {k \in Nat : Bisected(l, x, k, Bisects(l, x)[k])}
<1>2. 0 \in S
  <2>1. Bisects(l, x)[0] = [lo |-> 0, hi |-> n]
    BY <1>1, BisectsIs
  <2>2. Bisected(l, x, 0, [lo |-> 0, hi |-> n])
    BY <1>1 DEF Bisected
  <2> QED
    BY <2>1, <2>2
<1>3. ASSUME NEW k \in 0 .. n - 1, k \in S PROVE k + 1 \in S
  <2>1. k + 1 \in 0 .. n /\ k + 1 # 0 /\ k + 1 - 1 = k /\ k \in 0 .. Len(l) - 1
    BY <1>1
  <2>2. Bisects(l, x)[k + 1] = BisectTurn(l, x, Bisects(l, x)[k])
    <3>1. \A i \in 0 .. n : i # 0 => Bisects(l, x)[i] = BisectTurn(l, x, Bisects(l, x)[i - 1])
      BY <1>1, BisectsIs
    <3> QED
      BY <2>1, <3>1
  <2>3. PICK c : c = Bisects(l, x)[k]
    OBVIOUS
  <2>4. Bisected(l, x, k, c)
    BY <1>3, <2>3
  <2>5. Bisected(l, x, k + 1, BisectTurn(l, x, c))
    BY <2>1, <2>4, BisectTurnOK
  <2> QED
    BY <2>1, <2>2, <2>3, <2>5
<1> HIDE DEF S
<1>4. n \in S
  <2>1. 0 .. n \subseteq S
    BY <1>2, <1>3, UpTo
  <2> QED
    BY <2>1
<1>5. PICK c : c = Bisects(l, x)[n] /\ Bisected(l, x, n, c)
  BY <1>4 DEF S
<1>6. PICK r \in 0 .. n : r = c.lo /\ r = Bisect(l, x)
  BY <1>1, <1>5 DEF Bisected, Bisect
<1>7. c.hi = r
  <2>1. c.hi \in 0 .. n /\ r <= c.hi /\ c.hi - r <= n - n
    BY <1>1, <1>5, <1>6 DEF Bisected
  <2> QED
    BY <2>1
<1>8. /\ \A j \in 1 .. n : j <= r => l[j].prefix <= x
      /\ \A j \in 1 .. n : j > r => ~(l[j].prefix <= x)
  BY <1>1, <1>5, <1>6, <1>7 DEF Bisected
<1>9. \A j \in 1 .. n : j <= r \/ j > r
  OBVIOUS
<1>10. \A j \in 1 .. n : l[j].prefix <= x <=> j <= r
  BY <1>8, <1>9
<1> QED
  BY <1>1, <1>6, <1>10

\* What is found covers the tag, or nothing does.
LEMMA PyFinds ==
  ASSUME NEW l, PyCode(l), l # <<>>, NEW x \in Tags
  PROVE  /\ PyFind(l, x) \in 1 .. Len(l)
         /\ Covers(l[PyFind(l, x)], x) <=> Above(l[PyFind(l, x)].value, TagBits(x))
         /\ Covers(l[PyFind(l, x)], x) <=> PyHas(l, TagBits(x))
<1>1. PICK n \in Nat : n = Len(l) /\ n # 0
  <2>1. l \in Seq(PyKey)
    BY DEF PyCode
  <2> QED
    BY <2>1, EmptySeq, LenProperties
<1>2. PICK r \in 0 .. n : r = Bisect(l, x) /\ \A j \in 1 .. n : l[j].prefix <= x <=> j <= r
  BY <1>1, BisectIs
<1>3. \A j \in 1 .. n : Above(l[j].value, TagBits(x)) => j = r
  BY <1>1, <1>2, PyOrdered
<1>4. PICK i \in 1 .. n : i = PyFind(l, x) /\ (r # 0 => i = r)
  <2>1. PyFind(l, x) = IF r = 0 THEN n ELSE r
    BY <1>1, <1>2 DEF PyFind
  <2>2. n \in 1 .. n /\ (r # 0 => r \in 1 .. n)
    BY <1>1
  <2> QED
    BY <1>1, <2>1, <2>2
<1>5. Covers(l[i], x) <=> Above(l[i].value, TagBits(x))
  BY <1>1, PyOrdered
<1>6. PyHas(l, TagBits(x)) <=> \E j \in 1 .. n : Above(l[j].value, TagBits(x))
  BY <1>1, PyLabels DEF PyCode
<1>7. \A j \in 1 .. n : Above(l[j].value, TagBits(x)) => j = i
  <2>1. \A j \in 1 .. n : j = r => r # 0
    OBVIOUS
  <2> QED
    BY <1>3, <1>4, <2>1
<1> QED
  BY <1>1, <1>4, <1>5, <1>6, <1>7

-----------------------------------------------------------------------------
(* What the list covers, puncture after puncture.                          *)

\* What a tuple is split into: the siblings, in order.
LEMMA NewSorted ==
  ASSUME NEW x \in Tags, NEW k \in 0 .. Depth, NEW e, PyEntry(e), e.value = Pre(TagBits(x), k),
         NEW S, S = PyNew(e, x), NEW m, m = Cardinality(S), NEW T, T = PySorted(S)
  PROVE  /\ m \in Nat /\ T \in [1 .. m -> PyKey]
         /\ SibsOK(LabelsIn(ValOf, T, m), m, TagBits(x), k)
         /\ \A y \in 1 .. m : PyEntry(T[y])
<1>1. PICK b \in Bits : b = TagBits(x)
  BY BitsOf
<1>2. /\ Depth \in Nat /\ k \in Nat /\ Len(Pre(b, k)) = k
      /\ \A d \in k + 1 .. Depth : Sib(b, d) \in Labels /\ d \in 1 .. Depth /\ Len(Sib(b, d)) = d
  BY DepthAssumption, SibIsBelow, Parts
<1>3. PICK G : G = [d \in k + 1 .. Depth |->
                      [prefix |-> PyStart(x, d), depth |-> d, value |-> Sib(b, d)]]
  OBVIOUS
<1>4. e.depth = k
  BY <1>1, <1>2 DEF PyEntry
<1>5. ASSUME NEW d \in k + 1 .. Depth
      PROVE  /\ PyEntry(G[d]) /\ G[d].value = Sib(b, d) /\ ValOf[G[d]] = Sib(b, d)
             /\ G[d] = [prefix |-> PyStart(x, d), depth |-> d,
                        value |-> e.value \o SubSeq(SiblingKey(TagBits(x), d), e.depth + 1, d)]
  <2>1. G[d] = [prefix |-> PyStart(x, d), depth |-> d, value |-> Sib(b, d)]
    BY <1>3
  <2>2. d \in 1 .. Depth /\ d \in 0 .. Depth /\ Sib(b, d) \in Labels /\ Len(Sib(b, d)) = d
    BY <1>2
  <2>3. /\ PyStart(x, d) \in Tags /\ PyStart(x, d) % Pow2[Depth - d] = 0
        /\ Above(Sib(b, d), TagBits(PyStart(x, d)))
    BY <1>1, <2>2, PyStartIs
  <2>4. G[d].prefix = PyStart(x, d) /\ G[d].depth = d /\ G[d].value = Sib(b, d)
    BY <2>1
  <2>5. G[d] \in PyKey
    BY <2>1, <2>2, <2>3 DEF PyKey
  <2>6. PyEntry(G[d])
    BY <2>2, <2>3, <2>4, <2>5 DEF PyEntry
  <2>7. e.value \o SubSeq(SiblingKey(TagBits(x), d), e.depth + 1, d) = Sib(b, d)
    <3>1. SiblingKey(b, d) = Sib(b, d)
      BY <2>2, SibIs
    <3>2. Pre(b, k) \o SubSeq(Sib(b, d), k + 1, d) = Sib(b, d)
      BY SibRejoined
    <3> QED
      BY <1>1, <1>4, <3>1, <3>2
  <2>8. ValOf[G[d]] = Sib(b, d)
    BY <2>4, <2>5 DEF ValOf
  <2> QED
    BY <2>1, <2>4, <2>6, <2>7, <2>8
<1>6. S = {G[d] : d \in k + 1 .. Depth}
  <2>1. S = {[prefix |-> PyStart(x, d), depth |-> d,
              value |-> e.value \o SubSeq(SiblingKey(TagBits(x), d), e.depth + 1, d)] :
                d \in k + 1 .. Depth}
    BY <1>4 DEF PyNew
  <2> QED
    BY <1>5, <2>1
<1>7. PICK R : R = {p \in S \X S : p[1].prefix < p[2].prefix}
  OBVIOUS
<1>8. T = SortedBy(S, R)
  BY <1>7 DEF PySorted
<1>9. ASSUME NEW d \in k + 1 .. Depth, NEW c \in k + 1 .. Depth
      PROVE  <<G[d], G[c]>> \in R <=> Before(Sib(b, d), Sib(b, c))
  <2>1. PICK g, h : g = G[d] /\ h = G[c]
    OBVIOUS
  <2>2. /\ PyEntry(g) /\ g.value = Sib(b, d) /\ g.prefix \in Nat
        /\ PyEntry(h) /\ h.value = Sib(b, c) /\ h.prefix \in Nat
    <3>1. PyEntry(g) /\ g.value = Sib(b, d) /\ PyEntry(h) /\ h.value = Sib(b, c)
      BY <1>5, <2>1
    <3>2. g.prefix \in Tags /\ h.prefix \in Tags
      BY <3>1 DEF PyEntry, PyKey
    <3>3. \A t \in Tags : t \in Nat
      BY DepthAssumption, Pow2Type DEF Tags
    <3> QED
      BY <3>1, <3>2, <3>3
  <2>3. <<g, h>> \in R <=> g.prefix < h.prefix
    <3>1. g \in S /\ h \in S
      BY <1>6, <2>1
    <3> QED
      BY <1>7, <3>1
  <2>4. Before(Sib(b, d), Sib(b, c)) => g.prefix < h.prefix
    BY <2>2, PyPrefixes
  <2>5. Before(Sib(b, c), Sib(b, d)) => h.prefix < g.prefix
    BY <2>2, PyPrefixes
  <2>6. CASE d = c
    <3>1. ~Before(Sib(b, d), Sib(b, c))
      BY <1>2, <2>6, Parted
    <3>2. ~(g.prefix < h.prefix)
      BY <2>1, <2>2, <2>6
    <3> QED
      BY <2>1, <2>3, <3>1, <3>2
  <2>7. CASE d # c
    <3>1. Before(Sib(b, d), Sib(b, c)) \/ Before(Sib(b, c), Sib(b, d))
      BY <1>2, <2>7, SibsPart
    <3>2. h.prefix < g.prefix => ~(g.prefix < h.prefix)
      BY <2>2
    <3> QED
      BY <2>1, <2>3, <2>4, <2>5, <3>1, <3>2
  <2> QED
    BY <2>6, <2>7
<1>10. Keyed(S, G, ValOf, R, b, k)
  <2>1. \A d \in k + 1 .. Depth : ValOf[G[d]] = Sib(b, d)
    BY <1>5
  <2> QED
    BY <1>6, <1>9, <2>1 DEF Keyed
<1>11. m \in Nat /\ T \in [1 .. m -> S] /\ SibsOK(LabelsIn(ValOf, T, m), m, b, k)
  BY <1>8, <1>10, SortedSibs
<1>12. \A s \in S : PyEntry(s)
  BY <1>5, <1>6
<1>13. \A s \in S : s \in PyKey
  BY <1>12 DEF PyEntry
<1> QED
  BY <1>1, <1>11, <1>12, <1>13

\* The inductive invariant of the list, P being what has been punctured: the labels
\* are in order, every tuple's prefix is the first tag below its value, and what is
\* covered are the tags left.
PyInv(l, P) ==
  P \subseteq Tags /\ PyCode(l) /\ \A t \in Tags : PyHas(l, TagBits(t)) <=> t \notin P

\* The list begins as the root's tuple, which covers everything.
LEMMA PyBegins == PyInv(PyInit, {})
<1>1. PICK r : r = [prefix |-> 0, depth |-> 0, value |-> <<>>]
  OBVIOUS
<1>2. r.prefix = 0 /\ r.depth = 0 /\ r.value = <<>> /\ <<>> \in Labels /\ Len(<<>>) = 0
  BY <1>1, RootLabel
<1>3. PICK q \in Nat \ {0} : q = Pow2[Depth] /\ Tags = 0 .. q - 1 /\ Depth \in Nat
  <2>1. Depth \in Nat /\ Depth \in 0 .. Depth + 1
    BY DepthAssumption
  <2> QED
    BY <2>1, Pow2Type DEF Tags
<1>4. 0 \in Tags /\ 0 \in 0 .. Depth /\ 0 % Pow2[Depth - 0] = 0
  <2>1. Depth - 0 = Depth /\ 0 % q = 0 /\ 0 \in 0 .. q - 1 /\ 0 \in 0 .. Depth
    BY <1>3
  <2> QED
    BY <1>3, <2>1
<1>5. \A t \in Tags : Above(<<>>, TagBits(t))
  <2>1. \A t \in Tags : Len(TagBits(t)) \in Nat
    BY BitsOf, Parts, DepthAssumption
  <2> QED
    BY <1>2, <2>1 DEF Above
<1>6. PyEntry(r)
  <2>1. r \in PyKey
    BY <1>1, <1>2, <1>4 DEF PyKey
  <2> QED
    BY <1>2, <1>4, <1>5, <2>1 DEF PyEntry
<1>7. PICK l : l = PyInit
  OBVIOUS
<1>8. l \in Seq(PyKey) /\ Len(l) = 1 /\ l[1] = r
  <2>1. r \in PyKey /\ l = <<r>>
    BY <1>1, <1>6, <1>7 DEF PyEntry, PyInit
  <2> QED
    BY <2>1
<1>9. \A i \in 1 .. Len(l) : i = 1 /\ l[i] = r
  BY <1>8
<1>10. Code(LabelsIn(ValOf, l, Len(l)), Len(l))
  <2>1. LabelsIn(ValOf, l, Len(l)) \in [1 .. Len(l) -> Labels]
    <3>1. \A i \in 1 .. Len(l) : ValOf[l[i]] \in Labels
      BY <1>8, PyLabels
    <3> QED
      BY <3>1 DEF LabelsIn
  <2> QED
    BY <1>8, <2>1 DEF Code
<1>11. PyCode(l)
  BY <1>6, <1>8, <1>9, <1>10 DEF PyCode
<1>12. \A t \in Tags : PyHas(l, TagBits(t))
  BY <1>2, <1>5, <1>8, <1>9, PyLabels
<1> QED
  BY <1>7, <1>11, <1>12 DEF PyInv

\* A puncture that puts nothing back out of order keeps it.
LEMMA PyStep ==
  ASSUME NEW l, NEW P, PyInv(l, P), NEW t \in Tags, PyPutBack(l, t) = l
  PROVE  PyInv(PyPuncture(l, t), P \cup {t})
<1>1. PICK b \in Bits : b = TagBits(t)
  BY BitsOf
<1>2. /\ PyCode(l) /\ l \in Seq(PyKey) /\ P \subseteq Tags
      /\ \A u \in Tags : PyHas(l, TagBits(u)) <=> u \notin P
  BY DEF PyInv, PyCode
<1>3. ASSUME ~PyHas(l, b) PROVE PyInv(l, P \cup {t})
  <2>1. t \in P
    BY <1>1, <1>2, <1>3
  <2>2. P \cup {t} = P
    BY <2>1
  <2> QED
    BY <2>2
<1>4. CASE l = <<>>
  <2>1. ~PyHas(l, b)
    <3>1. Len(l) = 0
      BY <1>4
    <3> QED
      BY <3>1 DEF PyHas, Covered
  <2> QED
    BY <1>3, <1>4, <2>1 DEF PyPuncture
<1>5. CASE l # <<>> /\ ~PyHas(l, b)
  <2>1. ~Covers(l[PyFind(l, t)], t)
    BY <1>1, <1>2, <1>5, PyFinds
  <2>2. PyPuncture(l, t) = l
    BY <1>5, <2>1 DEF PyPuncture
  <2> QED
    BY <1>3, <1>5, <2>2
<1>6. CASE l # <<>> /\ PyHas(l, b)
  <2>1. PICK i \in 1 .. Len(l) : i = PyFind(l, t) /\ Covers(l[i], t) /\ Above(l[i].value, b)
    BY <1>1, <1>2, <1>6, PyFinds
  <2>2. PICK e : e = l[i] /\ PyEntry(e)
    BY <1>2 DEF PyCode
  <2>3. PICK k \in 0 .. Depth : e.value = Pre(b, k)
    <3>1. PICK v \in Labels : v = e.value
      BY <2>2 DEF PyEntry, PyKey
    <3>2. Len(v) \in 0 .. Depth /\ v = Pre(b, Len(v))
      BY <2>1, <2>2, <3>1, AboveIs, LabelLen
    <3> QED
      BY <3>1, <3>2
  <2>4. PICK S, m, T : S = PyNew(e, t) /\ m = Cardinality(S) /\ T = PySorted(S)
    OBVIOUS
  <2>5. /\ m \in Nat /\ T \in [1 .. m -> PyKey]
        /\ SibsOK(LabelsIn(ValOf, T, m), m, b, k)
        /\ \A y \in 1 .. m : PyEntry(T[y])
    <3>1. e.value = Pre(TagBits(t), k)
      BY <1>1, <2>3
    <3>2. /\ m \in Nat /\ T \in [1 .. m -> PyKey]
          /\ SibsOK(LabelsIn(ValOf, T, m), m, TagBits(t), k)
          /\ \A y \in 1 .. m : PyEntry(T[y])
      BY <2>2, <2>4, <3>1, NewSorted
    <3> QED
      BY <1>1, <3>2
  <2>6. PICK u : u = SubSeq(l, 1, i - 1) \o T \o SubSeq(l, i + 1, Len(l))
    OBVIOUS
  <2>7. PyPuncture(l, t) = u
    BY <1>6, <2>1, <2>2, <2>4, <2>6 DEF PyPuncture
  <2>8. SplitAt(u, l, PyKey, ValOf, b, i, T, m)
    <3>1. Code(LabelsIn(ValOf, l, Len(l)), Len(l))
      BY <1>2 DEF PyCode
    <3>2. ValOf[l[i]] = Pre(b, k)
      BY <1>2, <2>2, <2>3, PyLabels
    <3>3. m \in Nat /\ T \in [1 .. m -> PyKey]
      BY <2>5
    <3>4. SibsOK(LabelsIn(ValOf, T, m), m, b, k)
      BY <2>5
    <3> QED
      BY <1>2, <2>6, <3>1, <3>2, <3>3, <3>4, KeySplit
  <2>9. /\ u \in Seq(PyKey) /\ Code(LabelsIn(ValOf, u, Len(u)), Len(u))
        /\ \A c \in Bits : PyHas(u, c) <=> PyHas(l, c) /\ c # b
        /\ AllPlaced(u, Len(u), l, Len(l), i, T, m)
    BY <2>8 DEF SplitAt, PyHas
  <2>10. ASSUME NEW j \in 1 .. Len(u) PROVE PyEntry(u[j])
    <3>1. (\E h \in 1 .. Len(l) : u[j] = l[h]) \/ (\E y \in 1 .. m : u[j] = T[y])
      BY <2>9 DEF AllPlaced
    <3>2. \A h \in 1 .. Len(l) : PyEntry(l[h])
      BY <1>2 DEF PyCode
    <3> QED
      BY <2>5, <3>1, <3>2
  <2>11. ASSUME NEW v \in Tags PROVE PyHas(u, TagBits(v)) <=> v \notin P \cup {t}
    <3>1. TagBits(v) \in Bits
      BY BitsOf
    <3>2. TagBits(v) = b <=> v = t
      BY <1>1, BitsTell
    <3> QED
      BY <1>2, <2>9, <3>1, <3>2
  <2>12. PyInv(u, P \cup {t})
    BY <1>2, <2>9, <2>10, <2>11 DEF PyInv, PyCode
  <2> QED
    BY <2>7, <2>12
<1> QED
  BY <1>4, <1>5, <1>6

\* The list keeps its invariant until a tuple has been put back in the wrong place.
PyKept == ~scrambled => PyInv(py, punctured)

\* So it stays, through punctures and renewals (puncture, pprf.py:28-55).
THEOREM ListInvariant == VariantsSpec => []PyKept
<1>1. VariantsInit => PyKept
  BY PyBegins DEF VariantsInit, StoreInit, Init, PyKept
<1>2. PyKept /\ [VariantsNext]_allVars => PyKept'
  <2> SUFFICES ASSUME PyKept, [VariantsNext]_allVars, ~scrambled'
               PROVE  PyInv(py', punctured')
    BY DEF PyKept
  <2>1. CASE RenewAll
    <3>1. py' = PyInit /\ punctured' = {}
      BY <2>1 DEF RenewAll, Renew
    <3> QED
      BY <3>1, PyBegins
  <2>2. ASSUME NEW t \in Tags, PunctureAll(t) PROVE PyInv(py', punctured')
    <3>1. ~scrambled /\ PyPutBack(py, t) = py
      BY <2>2 DEF PunctureAll
    <3>2. py' = PyPuncture(py, t) /\ punctured' = punctured \cup {t}
      BY <2>2 DEF PunctureAll, Persist, PunctureAtTag
    <3>3. PyInv(py, punctured)
      BY <3>1 DEF PyKept
    <3>4. PyInv(PyPuncture(py, t), punctured \cup {t})
      BY <3>1, <3>3, PyStep
    <3> QED
      BY <3>2, <3>4
  <2>3. CASE UNCHANGED allVars
    <3>1. py' = py /\ punctured' = punctured /\ scrambled' = scrambled
      BY <2>3 DEF allVars, storeVars, vars
    <3> QED
      BY <3>1 DEF PyKept
  <2> QED
    BY <2>1, <2>2, <2>3 DEF VariantsNext
<1> QED
  BY <1>1, <1>2, PTL DEF VariantsSpec

\* pprf.py computes every tag left and no other, as long as it has put no tuple back
\* out of order (puncture, __get_longest_matching_prefix and eval, pprf.py:28-86).
THEOREM PythonComputes == VariantsSpec => []PythonAgrees
<1>1. PyKept => PythonAgrees
  <2> SUFFICES ASSUME PyInv(py, punctured), NEW t \in Tags
               PROVE  PyEvaluate(py, t) = IF t \in punctured THEN NoKey ELSE TagBits(t)
    BY DEF PyKept, PythonAgrees
  <2>1. PICK b \in Bits : b = TagBits(t)
    BY BitsOf
  <2>2. PyCode(py) /\ (PyHas(py, b) <=> t \notin punctured)
    BY <2>1 DEF PyInv
  <2>3. CASE py = <<>>
    <3>1. ~PyHas(py, b)
      <4>1. Len(py) = 0
        BY <2>3
      <4> QED
        BY <4>1 DEF PyHas, Covered
    <3> QED
      BY <2>2, <2>3, <3>1 DEF PyEvaluate
  <2>4. CASE py # <<>>
    <3>1. PICK i \in 1 .. Len(py) : /\ i = PyFind(py, t)
                                    /\ Covers(py[i], t) <=> Above(py[i].value, b)
                                    /\ Covers(py[i], t) <=> PyHas(py, b)
      BY <2>1, <2>2, <2>4, PyFinds
    <3>2. PICK e : e = py[i] /\ PyEntry(e)
      BY <2>2 DEF PyCode
    <3>3. PyEvaluate(py, t) =
            IF Covers(e, t) THEN e.value \o SubSeq(b, e.depth + 1, Depth) ELSE NoKey
      BY <2>1, <2>4, <3>1, <3>2 DEF PyEvaluate
    <3>4. ASSUME Covers(e, t) PROVE e.value \o SubSeq(b, e.depth + 1, Depth) = b
      <4>1. PICK v \in Labels : v = e.value /\ e.depth = Len(v)
        BY <3>2 DEF PyEntry, PyKey
      <4>2. PICK k \in 0 .. Depth : k = Len(v) /\ v = Pre(b, k)
        BY <3>1, <3>2, <3>4, <4>1, AboveIs, LabelLen
      <4>3. Pre(b, k) \o SubSeq(b, k + 1, Depth) = b
        BY Rejoined
      <4> QED
        BY <4>1, <4>2, <4>3
    <3> QED
      BY <2>1, <2>2, <3>1, <3>2, <3>3, <3>4
  <2> QED
    BY <2>3, <2>4
<1> QED
  BY <1>1, ListInvariant, PTL

=============================================================================
