------------------------------ MODULE PPRFProofs ------------------------------
(***************************************************************************)
(* Theorems about the PPRF key (PPRFTree, PPRFKey, PPRFStore): a tree of   *)
(* any depth, punctured at any tags in any order; and for the disk any     *)
(* number of nodes a sector, any capacity and any number of renewals.      *)
(*                                                                         *)
(* TreeInv says that the array is a tree: each node in use has a label, the*)
(* path that leads to it, no two the same and none below a node without    *)
(* children.  The array does not store the labels, so TreeInv says that    *)
(* there are some.  From it follow what find_key finds, what evaluate      *)
(* computes, and that there is room for what puncture appends: there are no*)
(* more nodes than labels.                                                 *)
(*                                                                         *)
(* Inductions over the depth go through UpTo, which is about sets of       *)
(* numbers and needs no operator as a parameter.                           *)
(***************************************************************************)
EXTENDS PPRFStore, FiniteSetTheorems, SequenceTheorems, WellFoundedInduction, TLAPS

-----------------------------------------------------------------------------
(* Numbers: powers of two, and the bits of a tag.                          *)

\* A non-empty set of naturals has a least element: induction, without an
\* operator for the prover to instantiate.
LEMMA Least ==
  ASSUME NEW T, T \subseteq Nat, T # {}
  PROVE  \E x \in T : \A y \in T : x <= y
<1> DEFINE R == OpToRel(<, Nat)
<1>1. ASSUME NEW x \in Nat, NEW y \in Nat, x < y PROVE <<x, y>> \in R
  BY <1>1 DEF OpToRel
<1>2. IsWellFoundedOn(R, Nat)
  BY NatLessThanWellFounded
<1> HIDE DEF R
<1>3. PICK x \in T : \A y \in T : ~ (<<y, x>> \in R)
  BY <1>2, WFMin
<1>4. \A y \in T : ~(y < x)
  BY <1>1, <1>3
<1> QED
  BY <1>4

\* A set of numbers with 0, and with n + 1 when with n < m, has all up to m.
LEMMA UpTo ==
  ASSUME NEW m \in Nat, NEW S, 0 \in S, \A n \in 0 .. m - 1 : n \in S => n + 1 \in S
  PROVE  0 .. m \subseteq S
<1> DEFINE T == {n \in 0 .. m : n \notin S}
<1> SUFFICES ASSUME T # {} PROVE FALSE
  OBVIOUS
<1>0. T \subseteq Nat
  OBVIOUS
<1> HIDE DEF T
<1>1. PICK x \in T : \A y \in T : x <= y
  BY <1>0, Least
<1> USE DEF T
<1>2. x # 0 /\ x - 1 \in 0 .. m - 1 /\ x - 1 \in 0 .. m
  BY <1>1
<1>3. x - 1 \in S
  BY <1>1, <1>2
<1>4. x - 1 + 1 \in S
  BY <1>2, <1>3
<1> QED
  BY <1>1, <1>2, <1>4

\* Pow2 is a function, so it is what its definition says.
LEMMA Pow2Is ==
  \A d \in 0 .. Depth + 1 : Pow2[d] = IF d = 0 THEN 1 ELSE 2 * Pow2[d - 1]
<1> DEFINE Is(g, n) == g = [d \in 0 .. n |-> IF d = 0 THEN 1 ELSE 2 * g[d - 1]]
           S == {n \in Nat : \E g : Is(g, n)}
<1>0. PICK m \in Nat : m = Depth + 1
  BY DepthAssumption
<1>1. 0 \in S
  <2>1. Is([d \in 0 .. 0 |-> 1], 0)
    OBVIOUS
  <2> QED
    BY <2>1
<1>2. ASSUME NEW n \in Nat, n \in S PROVE n + 1 \in S
  <2>1. PICK g : Is(g, n)
    BY <1>2
  <2>2. PICK h : h = [d \in 0 .. n + 1 |-> IF d = n + 1 THEN 2 * g[n] ELSE g[d]]
    OBVIOUS
  <2>3. ASSUME NEW d \in 0 .. n + 1 PROVE h[d] = IF d = 0 THEN 1 ELSE 2 * h[d - 1]
    <3>1. CASE d = n + 1
      BY <2>2, <3>1
    <3>2. CASE d \in 0 .. n
      <4>1. g[d] = IF d = 0 THEN 1 ELSE 2 * g[d - 1]
        BY <2>1, <3>2
      <4>2. d # 0 => d - 1 \in 0 .. n + 1 /\ d - 1 # n + 1
        BY <3>2
      <4> QED
        BY <2>2, <3>2, <4>1, <4>2
    <3> QED
      BY <3>1, <3>2
  <2>4. Is(h, n + 1)
    <3>1. h = [d \in 0 .. n + 1 |-> h[d]]
      BY <2>2
    <3> QED
      BY <2>3, <3>1
  <2> HIDE DEF Is
  <2> QED
    BY <2>4
<1> HIDE DEF S
<1>3. Depth + 1 \in S
  <2>1. \A n \in 0 .. m - 1 : n \in S => n + 1 \in S
    BY <1>0, <1>2
  <2>2. 0 .. m \subseteq S
    BY <1>0, <1>1, <2>1, UpTo
  <2> QED
    BY <1>0, <2>2
<1> USE DEF S
<1>4. Is(Pow2, Depth + 1)
  BY <1>3 DEF Pow2
<1> QED
  BY <1>4

\* What is used of Pow2.
LEMMA Pow2Type ==
  /\ \A d \in 0 .. Depth + 1 : Pow2[d] \in Nat \ {0}
  /\ Pow2[0] = 1 /\ \A d \in 0 .. Depth : Pow2[d + 1] = 2 * Pow2[d]
<1>1. PICK m \in Nat : m = Depth + 1 /\ m - 1 = Depth /\ 0 \in 0 .. m
  BY DepthAssumption
<1>2. \A d \in 0 .. Depth : d + 1 \in 0 .. Depth + 1 /\ d + 1 # 0 /\ d + 1 - 1 = d
  BY DepthAssumption
<1>3. Pow2[0] = 1 /\ \A d \in 0 .. Depth : Pow2[d + 1] = 2 * Pow2[d]
  BY <1>1, <1>2, Pow2Is
<1> DEFINE S == {d \in Nat : Pow2[d] \in Nat \ {0}}
<1>4. ASSUME NEW d \in 0 .. m - 1, d \in S PROVE d + 1 \in S
  <2>1. d \in 0 .. Depth /\ Pow2[d + 1] = 2 * Pow2[d] /\ Pow2[d] \in Nat \ {0}
    BY <1>1, <1>3, <1>4
  <2> QED
    BY <2>1
<1>5. 0 \in S
  BY <1>3
<1> HIDE DEF S
<1>6. 0 .. m \subseteq S
  BY <1>1, <1>4, <1>5, UpTo
<1> QED
  BY <1>1, <1>3, <1>6 DEF S

\* Shifting by one more bit.
LEMMA Halved ==
  ASSUME NEW q \in Nat \ {0}, NEW t \in Nat
  PROVE  t \div q \in Nat /\ (t \div q) \div 2 = t \div (2 * q)
OBVIOUS

\* Different tags have different bits.
LEMMA BitsTell ==
  ASSUME NEW t \in Tags, NEW u \in Tags, TagBits(t) = TagBits(u)
  PROVE  t = u
<1> DEFINE At(x, d) == x \div Pow2[Depth - d]
           S == {d \in Nat : At(t, d) = At(u, d)}
<1>1. Depth \in Nat \ {0} /\ t \in Nat /\ u \in Nat /\ t < Pow2[Depth] /\ u < Pow2[Depth]
  BY DepthAssumption, Pow2Type DEF Tags
<1>2. 0 \in S
  <2>1. Pow2[Depth - 0] = Pow2[Depth] /\ Pow2[Depth] \in Nat \ {0}
    BY <1>1, Pow2Type
  <2>2. t \div Pow2[Depth] = 0 /\ u \div Pow2[Depth] = 0
    BY <1>1, <2>1
  <2> QED
    BY <2>1, <2>2
<1>3. ASSUME NEW d \in 0 .. Depth - 1, d \in S PROVE d + 1 \in S
  <2>1. PICK q \in Nat \ {0} : q = Pow2[Depth - (d + 1)] /\ Pow2[Depth - d] = 2 * q
    <3>1. /\ Depth - (d + 1) \in 0 .. Depth + 1 /\ Depth - (d + 1) \in 0 .. Depth
          /\ Depth - (d + 1) + 1 = Depth - d
      BY <1>1
    <3> QED
      BY <3>1, Pow2Type
  <2>2. (t \div q) % 2 = (u \div q) % 2
    <3>1. d + 1 \in 1 .. Depth
      BY <1>1
    <3>2. TagBits(t)[d + 1] = (t \div q) % 2 /\ TagBits(u)[d + 1] = (u \div q) % 2
      BY <2>1, <3>1 DEF TagBits
    <3> QED
      BY <3>2
  <2>3. (t \div q) \div 2 = (u \div q) \div 2
    BY <1>1, <1>3, <2>1, Halved
  <2>4. t \div q \in Nat /\ u \div q \in Nat
    BY <1>1, Halved
  <2>5. t \div q = u \div q
    BY <2>2, <2>3, <2>4
  <2> QED
    BY <2>1, <2>5
<1> HIDE DEF S
<1>4. Depth \in S
  BY <1>1, <1>2, <1>3, UpTo
<1>5. Pow2[Depth - Depth] = 1 /\ t \div 1 = t /\ u \div 1 = u
  BY <1>1, Pow2Type
<1> QED
  BY <1>4, <1>5 DEF S

-----------------------------------------------------------------------------
(* Labels: the paths that lead to the nodes of the GGM tree.               *)

Bits == [1 .. Depth -> Bit]
Pre(b, d) == [i \in 1 .. d |-> b[i]]
Sib(b, d) == [i \in 1 .. d |-> IF i = d THEN 1 - b[i] ELSE b[i]]

\* Label l leads to m, or above it.
Above(l, m) == Len(l) <= Len(m) /\ \A i \in 1 .. Len(l) : l[i] = m[i]

\* A function on 1 .. d is a sequence of length d.
LEMMA Lengths ==
  ASSUME NEW d \in Nat, NEW l \in [1 .. d -> Bit]
  PROVE  l \in Seq(Bit) /\ Len(l) = d
BY DEF Bit

\* A path of at most Depth bits is a label, and no content without a key.
LEMMA LabelIs ==
  ASSUME NEW d \in 0 .. Depth, NEW l \in [1 .. d -> Bit]
  PROVE  l \in Labels /\ Len(l) = d /\ l \in Seq(Bit) /\ l # NoKey
<1>1. d \in Nat
  BY DepthAssumption
<1>2. l \in Labels
  BY DEF Labels
<1> QED
  BY <1>1, <1>2, Lengths, NoKeyAssumption

\* A label is a path of at most Depth bits.
LEMMA LabelLen ==
  ASSUME NEW l \in Labels
  PROVE  Len(l) \in 0 .. Depth /\ Len(l) \in Nat /\ l \in [1 .. Len(l) -> Bit] /\ l # NoKey
<1>1. PICK d \in 0 .. Depth : l \in [1 .. d -> Bit]
  BY DEF Labels
<1> QED
  BY <1>1, LabelIs, DepthAssumption

\* Of one length, a label is above itself alone.
LEMMA SameLabel ==
  ASSUME NEW l \in Labels, NEW m \in Labels, Len(l) = Len(m), Above(l, m)
  PROVE  l = m
BY LabelLen DEF Above

\* TagBits gives the whole path of a tag.
LEMMA BitsOf == ASSUME NEW t \in Tags PROVE TagBits(t) \in Bits
<1>1. Depth \in Nat \ {0} /\ t \in Nat
  BY DepthAssumption, Pow2Type DEF Tags
<1>2. ASSUME NEW d \in 1 .. Depth PROVE (t \div Pow2[Depth - d]) % 2 \in Bit
  <2>1. Depth - d \in 0 .. Depth + 1
    BY <1>1
  <2>2. PICK q \in Nat \ {0} : q = Pow2[Depth - d]
    BY <2>1, Pow2Type
  <2>3. t \div q \in Nat
    BY <1>1, Halved
  <2> QED
    BY <2>2, <2>3 DEF Bit
<1> QED
  BY <1>2 DEF TagBits, Bits

\* The prefixes of a path, and their siblings, are labels.
LEMMA Parts ==
  ASSUME NEW b \in Bits, NEW d \in 0 .. Depth
  PROVE  /\ Pre(b, d) \in [1 .. d -> Bit] /\ Pre(b, d) \in Labels /\ Len(Pre(b, d)) = d
         /\ d # 0 => Sib(b, d) \in [1 .. d -> Bit] /\ Sib(b, d) \in Labels /\ Len(Sib(b, d)) = d
         /\ b \in Labels /\ Len(b) = Depth /\ Pre(b, Depth) = b
<1>1. Depth \in Nat /\ Depth \in 0 .. Depth
  BY DepthAssumption
<1>2. Pre(b, d) \in [1 .. d -> Bit]
  BY <1>1 DEF Pre, Bits
<1>3. d # 0 => Sib(b, d) \in [1 .. d -> Bit]
  BY <1>1 DEF Sib, Bits, Bit
<1>4. Pre(b, Depth) = b
  BY DEF Pre, Bits
<1> QED
  BY <1>1, <1>2, <1>3, <1>4, LabelIs DEF Bits

\* SubSeq, as the model writes it, is Pre.
LEMMA SubSeqIs ==
  ASSUME NEW b \in Bits, NEW d \in 0 .. Depth
  PROVE  SubSeq(b, 1, d) = Pre(b, d)
<1>1. Depth \in Nat /\ b \in Seq(Bit) /\ Len(b) = Depth
  BY DepthAssumption, Lengths DEF Bits
<1>2. /\ SubSeq(b, 1, d) \in Seq(Bit) /\ Len(SubSeq(b, 1, d)) = d
      /\ \A i \in 1 .. d : SubSeq(b, 1, d)[i] = b[i]
  BY <1>1, SubSeqProperties
<1>3. SubSeq(b, 1, d) = [i \in 1 .. d |-> SubSeq(b, 1, d)[i]]
  BY <1>2, LenProperties
<1> QED
  BY <1>2, <1>3 DEF Pre

\* SiblingKey is Sib.
LEMMA SibIs ==
  ASSUME NEW b \in Bits, NEW d \in 1 .. Depth
  PROVE  SiblingKey(b, d) = Sib(b, d)
<1>1. d \in 0 .. Depth
  BY DepthAssumption
<1>2. SubSeq(b, 1, d) = Pre(b, d)
  BY <1>1, SubSeqIs
<1> QED
  BY <1>2 DEF SiblingKey, Pre, Sib

\* IsPrefixOf is Above.
LEMMA PrefixIs ==
  ASSUME NEW l \in Labels, NEW b \in Bits
  PROVE  IsPrefixOf(l, b) <=> Above(l, b)
<1>1. Len(l) \in 0 .. Depth /\ l \in [1 .. Len(l) -> Bit]
  BY LabelLen
<1>2. SubSeq(b, 1, Len(l)) = Pre(b, Len(l)) /\ Len(b) = Depth
  BY <1>1, SubSeqIs, Parts
<1>3. Pre(b, Len(l)) = l <=> \A i \in 1 .. Len(l) : l[i] = b[i]
  BY <1>1 DEF Pre
<1> QED
  BY <1>1, <1>2, <1>3 DEF IsPrefixOf, Above

\* The root's key and what evaluation goes down below it: the whole path.
LEMMA Rejoined ==
  ASSUME NEW b \in Bits, NEW d \in 0 .. Depth
  PROVE  Pre(b, d) \o SubSeq(b, d + 1, Depth) = b
<1>1. /\ Depth \in Nat /\ d \in Nat /\ b \in Seq(Bit) /\ Len(b) = Depth
      /\ Pre(b, d) \in Seq(Bit) /\ Len(Pre(b, d)) = d /\ Pre(b, Depth) = b
  BY DepthAssumption, Lengths, Parts, LabelIs DEF Bits
<1>2. SubSeq(b, 1, d) \o SubSeq(b, d + 1, Depth) = SubSeq(b, 1, Depth)
  <2>1. 1 \in 1 .. Len(b) + 1 /\ d \in 1 - 1 .. Len(b) /\ Depth \in d .. Len(b)
    BY <1>1
  <2> QED
    BY <1>1, <2>1, ConcatAdjacentSubSeq
<1>3. SubSeq(b, 1, d) = Pre(b, d) /\ SubSeq(b, 1, Depth) = b
  BY <1>1, SubSeqIs
<1> QED
  BY <1>2, <1>3

-----------------------------------------------------------------------------
(* How many labels there are: the tree has room for a node for each.       *)

LabelsOf(d) == [1 .. d -> Bit]
LabelsUpTo(d) == UNION {LabelsOf(e) : e \in 0 .. d}

\* There are twice as many labels one level down: half of them end in 0, half
\* in 1.
LEMMA Doubles ==
  ASSUME NEW d \in Nat, IsFiniteSet(LabelsOf(d))
  PROVE  /\ IsFiniteSet(LabelsOf(d + 1))
         /\ Cardinality(LabelsOf(d + 1)) = 2 * Cardinality(LabelsOf(d))
<1> DEFINE With(l, b) == [i \in 1 .. d + 1 |-> IF i = d + 1 THEN b ELSE l[i]]
           Half(b) == {m \in LabelsOf(d + 1) : m[d + 1] = b}
<1>1. ASSUME NEW b \in Bit
      PROVE  IsFiniteSet(Half(b)) /\ Cardinality(Half(b)) = Cardinality(LabelsOf(d))
  <2> DEFINE f == [l \in LabelsOf(d) |-> With(l, b)]
  <2>1. \A l \in LabelsOf(d) : With(l, b) \in Half(b)
    BY DEF LabelsOf
  <2>2. f \in [LabelsOf(d) -> Half(b)]
    BY <2>1
  <2>3. ASSUME NEW l \in LabelsOf(d), NEW m \in LabelsOf(d), f[l] = f[m] PROVE l = m
    <3>1. With(l, b) = With(m, b)
      BY <2>3
    <3>2. ASSUME NEW i \in 1 .. d PROVE l[i] = m[i]
      <4>1. i \in 1 .. d + 1 /\ i # d + 1
        OBVIOUS
      <4>2. With(l, b)[i] = l[i] /\ With(m, b)[i] = m[i]
        BY <4>1
      <4> QED
        BY <3>1, <4>2
    <3> QED
      BY <3>2 DEF LabelsOf
  <2>4. ASSUME NEW m \in Half(b) PROVE \E l \in LabelsOf(d) : f[l] = m
    <3>1. PICK l : l = [i \in 1 .. d |-> m[i]]
      OBVIOUS
    <3>2. m \in [1 .. d + 1 -> Bit] /\ m[d + 1] = b
      BY DEF LabelsOf
    <3>3. l \in LabelsOf(d)
      BY <3>1, <3>2 DEF LabelsOf
    <3>4. ASSUME NEW i \in 1 .. d + 1 PROVE m[i] = IF i = d + 1 THEN b ELSE l[i]
      BY <3>1, <3>2
    <3>5. With(l, b) = m
      BY <3>2, <3>4
    <3> QED
      BY <3>3, <3>5
  <2>5. ExistsBijection(LabelsOf(d), Half(b))
    <3>0. DOMAIN f = LabelsOf(d)
      OBVIOUS
    <3> HIDE DEF f, Half
    <3>1. f \in Bijection(LabelsOf(d), Half(b))
      BY <2>2, <2>3, <2>4, <3>0 DEF Bijection, Injection, Surjection, IsInjective
    <3> QED
      BY <3>1 DEF ExistsBijection
  <2> HIDE DEF Half
  <2> QED
    BY <2>5, FS_Bijection
<1>2. LabelsOf(d + 1) = Half(0) \cup Half(1)
  BY DEF LabelsOf, Bit
<1>3. Half(0) \cap Half(1) = {}
  OBVIOUS
<1> HIDE DEF Half
<1>4. /\ IsFiniteSet(Half(0)) /\ Cardinality(Half(0)) = Cardinality(LabelsOf(d))
      /\ IsFiniteSet(Half(1)) /\ Cardinality(Half(1)) = Cardinality(LabelsOf(d))
  BY <1>1 DEF Bit
<1>5. /\ IsFiniteSet(Half(0) \cup Half(1))
      /\ Cardinality(Half(0) \cup Half(1))
           = Cardinality(Half(0)) + Cardinality(Half(1)) - Cardinality(Half(0) \cap Half(1))
  BY <1>4, FS_Union
<1>6. Cardinality(Half(0) \cap Half(1)) = 0 /\ Cardinality(LabelsOf(d)) \in Nat
  BY <1>3, FS_EmptySet, FS_CardinalityType
<1>7. Cardinality(Half(0) \cup Half(1)) = 2 * Cardinality(LabelsOf(d))
  BY <1>4, <1>5, <1>6
<1> QED
  BY <1>2, <1>5, <1>7

\* There are 2^d labels of length d, and 2^(d+1) - 1 of length d or less.
LEMMA LabelCount ==
  ASSUME NEW d \in 0 .. Depth
  PROVE  /\ IsFiniteSet(LabelsOf(d)) /\ Cardinality(LabelsOf(d)) = Pow2[d]
         /\ IsFiniteSet(LabelsUpTo(d)) /\ Cardinality(LabelsUpTo(d)) = Pow2[d + 1] - 1
<1> DEFINE Count(n) ==
      /\ IsFiniteSet(LabelsOf(n)) /\ Cardinality(LabelsOf(n)) = Pow2[n]
      /\ IsFiniteSet(LabelsUpTo(n)) /\ Cardinality(LabelsUpTo(n)) = Pow2[n + 1] - 1
<1> DEFINE S == {n \in Nat : Count(n)}
<1>0. Depth \in Nat
  BY DepthAssumption
<1>1. Count(0)
  <2>1. LabelsOf(0) = {<<>>}
    <3>2. ASSUME NEW l \in [1 .. 0 -> Bit] PROVE l = <<>>
      BY Lengths, EmptySeq
    <3>3. <<>> \in [1 .. 0 -> Bit]
      BY EmptySeq, LenProperties
    <3> QED
      BY <3>2, <3>3 DEF LabelsOf
  <2>2. LabelsUpTo(0) = LabelsOf(0)
    BY DEF LabelsUpTo
  <2>3. IsFiniteSet(LabelsOf(0)) /\ Cardinality(LabelsOf(0)) = 1
    BY <2>1, FS_Singleton
  <2>4. Pow2[0] = 1 /\ Pow2[0 + 1] = 2
    BY <1>0, Pow2Type
  <2> QED
    BY <2>2, <2>3, <2>4
<1>2. ASSUME NEW n \in 0 .. Depth - 1, Count(n) PROVE Count(n + 1)
  <2>1. n \in Nat /\ n \in 0 .. Depth /\ n + 1 \in 0 .. Depth
    BY <1>0
  <2>2. Pow2[n + 1] = 2 * Pow2[n] /\ Pow2[n + 1 + 1] = 2 * Pow2[n + 1]
    BY <2>1, Pow2Type
  <2>3. IsFiniteSet(LabelsOf(n + 1)) /\ Cardinality(LabelsOf(n + 1)) = 2 * Pow2[n]
    BY <1>2, <2>1, Doubles
  <2>4. LabelsUpTo(n + 1) = LabelsUpTo(n) \cup LabelsOf(n + 1)
    <3>1. 0 .. n + 1 = (0 .. n) \cup {n + 1}
      BY <2>1
    <3> QED
      BY <3>1 DEF LabelsUpTo
  <2>5. LabelsUpTo(n) \cap LabelsOf(n + 1) = {}
    <3>1. ASSUME NEW e \in 0 .. n, NEW l \in LabelsOf(e), l \in LabelsOf(n + 1) PROVE FALSE
      BY <2>1, <3>1, Lengths DEF LabelsOf
    <3> QED
      BY <3>1 DEF LabelsUpTo
  <2>6. Cardinality(LabelsUpTo(n) \cap LabelsOf(n + 1)) = 0
    BY <2>5, FS_EmptySet
  <2>7. /\ IsFiniteSet(LabelsUpTo(n + 1))
        /\ Cardinality(LabelsUpTo(n + 1)) = Pow2[n + 1] - 1 + 2 * Pow2[n] - 0
    BY <1>2, <2>3, <2>4, <2>6, FS_Union
  <2>8. Pow2[n] \in Nat
    <3>1. n \in 0 .. Depth + 1
      BY <1>0
    <3> QED
      BY <3>1, Pow2Type
  <2> QED
    BY <2>2, <2>3, <2>7, <2>8
<1> HIDE DEF Count
<1>3. \A n \in 0 .. Depth - 1 : n \in S => n + 1 \in S
  BY <1>0, <1>2
<1>4. 0 \in S
  BY <1>1
<1> HIDE DEF S
<1>5. 0 .. Depth \subseteq S
  BY <1>0, <1>3, <1>4, UpTo
<1> QED
  BY <1>5 DEF S, Count

\* No more nodes than labels.
LEMMA Fits ==
  ASSUME NEW n \in Nat, NEW f \in [0 .. n - 1 -> Labels],
         \A i, j \in 0 .. n - 1 : f[i] = f[j] => i = j
  PROVE  n <= MaxNodes /\ MaxNodes \in Nat \ {0}
<1>1. Depth \in 0 .. Depth /\ Depth + 1 \in 0 .. Depth + 1
  BY DepthAssumption
<1>2. Labels = LabelsUpTo(Depth)
  BY DEF Labels, LabelsUpTo, LabelsOf
<1>3. IsFiniteSet(Labels) /\ Cardinality(Labels) = MaxNodes
  BY <1>1, <1>2, LabelCount DEF MaxNodes
<1>4. f \in Injection(0 .. n - 1, Labels)
  BY DEF Injection, IsInjective
<1>5. Cardinality(0 .. n - 1) <= MaxNodes
  BY <1>3, <1>4, FS_Injection
<1>6. Cardinality(0 .. n - 1) = n
  <2>1. Cardinality(0 .. n - 1) = IF 0 > n - 1 THEN 0 ELSE n - 1 - 0 + 1
    BY FS_Interval
  <2> QED
    BY <2>1
<1>7. MaxNodes \in Nat \ {0}
  <2>1. Pow2[Depth + 1] = 2 * Pow2[Depth] /\ Pow2[Depth] \in Nat \ {0}
    BY <1>1, DepthAssumption, Pow2Type
  <2> QED
    BY <2>1 DEF MaxNodes
<1> QED
  BY <1>5, <1>6, <1>7

-----------------------------------------------------------------------------
(* The keynode array p, n nodes of it in use, as a tree: L is the label of *)
(* each node in use, P what has been punctured.                            *)

Child(L, i, j, b) ==
  Len(L[j]) = Len(L[i]) + 1 /\ Above(L[i], L[j]) /\ L[j][Len(L[i]) + 1] = b
NodeOK(p, n, P, L, i) ==
  /\ p[i].type = INTERNAL =>
       /\ p[i].key = NoKey /\ Len(L[i]) < Depth
       /\ p[i].il \in 1 .. n - 1 /\ Child(L, i, p[i].il, 0)
       /\ p[i].ir \in 1 .. n - 1 /\ Child(L, i, p[i].ir, 1)
  /\ p[i].type = KEYLEAF => p[i].key = L[i]
  /\ p[i].type = PUNCTURE => p[i].key = NoKey /\ \E t \in P : L[i] = TagBits(t)

\* Each node in use has a label of its own.
LabelsOK(n, L) ==
  /\ n \in Nat \ {0} /\ L \in [0 .. n - 1 -> Labels] /\ Len(L[0]) = 0
  /\ \A i, j \in 0 .. n - 1 : L[i] = L[j] => i = j

\* No node is below one without children.
EndsOK(p, n, L) ==
  \A i, j \in 0 .. n - 1 : p[i].type # INTERNAL /\ Above(L[i], L[j]) => i = j

ArrayOK(p, n) ==
  /\ n \in 1 .. MaxNodes /\ p \in [0 .. MaxNodes - 1 -> Keynode(MaxNodes)]
  /\ \A i \in n .. MaxNodes - 1 : p[i].key = NoKey

\* What has been punctured is a node of its own.
GoneOK(p, n, P, L) ==
  \A t \in P : \E i \in 0 .. n - 1 : p[i].type = PUNCTURE /\ L[i] = TagBits(t)

TreeOK(p, n, P, L) ==
  /\ P \subseteq Tags /\ ArrayOK(p, n) /\ LabelsOK(n, L) /\ EndsOK(p, n, L)
  /\ \A i \in 0 .. n - 1 : NodeOK(p, n, P, L, i)
  /\ GoneOK(p, n, P, L)

\* The inductive invariant of the key.
TreeInv == \E L : TreeOK(pprf, size, punctured, L)

-----------------------------------------------------------------------------
(* find_key.                                                               *)

Go(p, b, c, d) == IF c.depth < d - 1 \/ c.at = NULL THEN c ELSE Descend(p, c, b)
Start == [at |-> 0, depth |-> 0]

\* Walk is a function, so it is what its definition says.
LEMMA WalkIs ==
  ASSUME NEW p, NEW b
  PROVE  \A d \in 0 .. Depth :
           Walk(p, b)[d] = IF d = 0 THEN Start ELSE Go(p, b, Walk(p, b)[d - 1], d)
<1> DEFINE Is(g, n) == g = [d \in 0 .. n |-> IF d = 0 THEN Start ELSE Go(p, b, g[d - 1], d)]
           S == {n \in Nat : \E g : Is(g, n)}
<1>0. Depth \in Nat
  BY DepthAssumption
<1> HIDE DEF Start, Go
<1>1. 0 \in S
  <2>1. Is([d \in 0 .. 0 |-> Start], 0)
    OBVIOUS
  <2> QED
    BY <2>1
<1>2. ASSUME NEW n \in Nat, n \in S PROVE n + 1 \in S
  <2>1. PICK g : Is(g, n)
    BY <1>2
  <2>2. PICK h : h = [d \in 0 .. n + 1 |-> IF d = n + 1 THEN Go(p, b, g[n], n + 1) ELSE g[d]]
    OBVIOUS
  <2>3. ASSUME NEW d \in 0 .. n + 1 PROVE h[d] = IF d = 0 THEN Start ELSE Go(p, b, h[d - 1], d)
    <3>1. CASE d = n + 1
      <4>1. h[d] = Go(p, b, g[n], n + 1) /\ h[n] = g[n] /\ d - 1 = n /\ d # 0
        BY <2>2, <3>1
      <4> QED
        BY <3>1, <4>1
    <3>2. CASE d \in 0 .. n
      <4>1. g[d] = IF d = 0 THEN Start ELSE Go(p, b, g[d - 1], d)
        BY <2>1, <3>2
      <4>2. d # 0 => d - 1 \in 0 .. n + 1 /\ d - 1 # n + 1
        BY <3>2
      <4> QED
        BY <2>2, <3>2, <4>1, <4>2
    <3> QED
      BY <3>1, <3>2
  <2>4. Is(h, n + 1)
    <3>1. h = [d \in 0 .. n + 1 |-> h[d]]
      BY <2>2
    <3> QED
      BY <2>3, <3>1
  <2> HIDE DEF Is
  <2> QED
    BY <2>4
<1> HIDE DEF S
<1>3. Depth \in S
  <2>1. \A n \in 0 .. Depth - 1 : n \in S => n + 1 \in S
    BY <1>0, <1>2
  <2>2. 0 .. Depth \subseteq S
    BY <1>0, <1>1, <2>1, UpTo
  <2> QED
    BY <1>0, <2>2
<1> USE DEF S
<1>4. Is(Walk(p, b), Depth)
  BY <1>3 DEF Walk, Start, Go
<1> QED
  BY <1>4

\* How a step of the walk goes on, or does not.
LEMMA Descends ==
  ASSUME NEW p, NEW n, NEW P, NEW L, TreeOK(p, n, P, L), NEW b \in Bits,
         NEW i \in 0 .. n - 1, NEW k \in 0 .. Depth, L[i] = Pre(b, k),
         NEW c, c = [at |-> i, depth |-> k]
  PROVE  /\ p[i].type # INTERNAL \/ k < Depth
         /\ p[i].type = KEYLEAF => Descend(p, c, b) = c
         /\ p[i].type = PUNCTURE => k = Depth
         /\ p[i].type = INTERNAL =>
              \E j \in 0 .. n - 1 : /\ Descend(p, c, b) = [at |-> j, depth |-> k + 1]
                                    /\ L[j] = Pre(b, k + 1)
<1>1. NodeOK(p, n, P, L, i) /\ Len(L[i]) = k /\ c.at = i /\ c.depth = k
  BY Parts DEF TreeOK
<1>2. n \in Nat \ {0} /\ \A j \in 0 .. n - 1 : L[j] \in Labels
  BY DEF TreeOK, LabelsOK
<1>3. Depth \in Nat \ {0} /\ INTERNAL # KEYLEAF /\ PUNCTURE # KEYLEAF
  BY DepthAssumption DEF INTERNAL, KEYLEAF, PUNCTURE
<1>4. ASSUME p[i].type = PUNCTURE PROVE k = Depth
  <2>1. PICK t \in P : L[i] = TagBits(t)
    BY <1>1, <1>4 DEF NodeOK
  <2>2. TagBits(t) \in Bits
    BY BitsOf DEF TreeOK
  <2> QED
    BY <1>1, <2>1, <2>2, Parts
<1>5. ASSUME p[i].type = INTERNAL
      PROVE  \E j \in 0 .. n - 1 : /\ Descend(p, c, b) = [at |-> j, depth |-> k + 1]
                                   /\ L[j] = Pre(b, k + 1)
  <2>1. PICK j : j = IF b[k + 1] = 1 THEN p[i].ir ELSE p[i].il
    OBVIOUS
  <2>2. k + 1 \in 1 .. Depth /\ k + 1 \in 0 .. Depth /\ b[k + 1] \in Bit
    BY <1>1, <1>3, <1>5 DEF NodeOK, Bits
  <2>3. j \in 0 .. n - 1 /\ Child(L, i, j, b[k + 1])
    BY <1>1, <1>2, <1>5, <2>1, <2>2 DEF NodeOK, Bit
  <2>4. L[j] \in Labels /\ Len(L[j]) = k + 1 /\ L[j][k + 1] = b[k + 1]
        /\ \A x \in 1 .. k : L[j][x] = Pre(b, k)[x]
    BY <1>1, <1>2, <2>3 DEF Child, Above
  <2>5. ASSUME NEW x \in 1 .. k + 1 PROVE L[j][x] = Pre(b, k + 1)[x]
    BY <2>4 DEF Pre
  <2>6. Pre(b, k + 1) \in Labels /\ Len(Pre(b, k + 1)) = k + 1
    BY <2>2, Parts
  <2>7. L[j] = Pre(b, k + 1)
    BY <2>4, <2>5, <2>6, SameLabel DEF Above
  <2>8. Descend(p, c, b) = [at |-> j, depth |-> k + 1]
    BY <1>1, <1>3, <1>5, <2>1 DEF Descend
  <2> QED
    BY <2>3, <2>7, <2>8
<1>6. p[i].type = KEYLEAF => Descend(p, c, b) = c
  BY <1>1, <1>3 DEF Descend
<1> QED
  BY <1>1, <1>4, <1>5, <1>6 DEF NodeOK

\* Where find_key ends.
Reached(p, n, L, b, c, d) ==
  \E i \in 0 .. n - 1, k \in 0 .. d :
    /\ c = [at |-> i, depth |-> k] /\ L[i] = Pre(b, k)
    /\ k = d \/ p[i].type = KEYLEAF

\* find_key (pprf-tree.c:56-74) ends at a node whose label leads to the tag: a
\* keyleaf, or the tag's own punctured node.  It never runs off the tree.
LEMMA Finds ==
  ASSUME NEW p, NEW n, NEW P, NEW L, TreeOK(p, n, P, L), NEW b \in Bits
  PROVE  \E i \in 0 .. n - 1, k \in 0 .. Depth :
           /\ FindKey(p, b) = [at |-> i, depth |-> k] /\ L[i] = Pre(b, k) /\ i # NULL
           /\ p[i].type = KEYLEAF \/ (p[i].type = PUNCTURE /\ k = Depth)
<1>1. Depth \in Nat \ {0}
  BY DepthAssumption
<1>2. n \in Nat \ {0} /\ L \in [0 .. n - 1 -> Labels] /\ Len(L[0]) = 0
  BY DEF TreeOK, LabelsOK
<1> DEFINE S == {d \in Nat : Reached(p, n, L, b, Walk(p, b)[d], d)}
<1>3. 0 \in S
  <2>1. Walk(p, b)[0] = [at |-> 0, depth |-> 0]
    BY <1>1, WalkIs DEF Start
  <2>2. 0 \in 0 .. n - 1 /\ L[0] \in Labels
    BY <1>2
  <2>3. 0 \in 0 .. Depth
    BY <1>1
  <2>4. Pre(b, 0) \in Labels /\ Len(Pre(b, 0)) = 0
    BY <2>3, Parts
  <2>5. L[0] = Pre(b, 0)
    BY <1>2, <2>2, <2>4, SameLabel DEF Above
  <2> QED
    BY <2>1, <2>2, <2>5 DEF Reached
<1>4. ASSUME NEW d \in 0 .. Depth - 1, d \in S PROVE d + 1 \in S
  <2>1. PICK i \in 0 .. n - 1, k \in 0 .. d :
          /\ Walk(p, b)[d] = [at |-> i, depth |-> k] /\ L[i] = Pre(b, k)
          /\ k = d \/ p[i].type = KEYLEAF
    BY <1>4 DEF Reached
  <2>2. PICK c : c = [at |-> i, depth |-> k]
    OBVIOUS
  <2>3. c.at = i /\ c.depth = k /\ i # NULL
    BY <1>2, <2>2 DEF NULL
  <2>4. Walk(p, b)[d + 1] = Go(p, b, c, d + 1)
    <3>1. d + 1 \in 0 .. Depth /\ d + 1 # 0 /\ d + 1 - 1 = d
      BY <1>1
    <3> QED
      BY <2>1, <2>2, <3>1, WalkIs
  <2>5. k \in 0 .. Depth /\ k \in 0 .. d + 1 /\ (k < d + 1 - 1 <=> k # d)
    BY <1>1
  <2>6. CASE p[i].type = KEYLEAF
    <3>1. Descend(p, c, b) = c
      BY <2>1, <2>2, <2>5, <2>6, Descends
    <3>2. Walk(p, b)[d + 1] = c
      BY <2>4, <3>1 DEF Go
    <3> QED
      BY <2>1, <2>2, <2>5, <2>6, <3>2 DEF Reached
  <2>7. CASE p[i].type = INTERNAL
    <3>1. k = d /\ Go(p, b, c, d + 1) = Descend(p, c, b)
      BY <2>1, <2>3, <2>5, <2>7 DEF Go, INTERNAL, KEYLEAF
    <3>2. PICK j \in 0 .. n - 1 : /\ Descend(p, c, b) = [at |-> j, depth |-> k + 1]
                                  /\ L[j] = Pre(b, k + 1)
      BY <2>1, <2>2, <2>5, <2>7, Descends
    <3> QED
      BY <2>4, <3>1, <3>2 DEF Reached
  <2>8. CASE p[i].type = PUNCTURE
    <3>1. k = Depth
      BY <2>1, <2>2, <2>5, <2>8, Descends
    <3> QED
      BY <1>1, <3>1
  <2>9. p[i].type \in {INTERNAL, KEYLEAF, PUNCTURE}
    <3>1. i \in 0 .. MaxNodes - 1 /\ p \in [0 .. MaxNodes - 1 -> Keynode(MaxNodes)]
      BY <1>2 DEF TreeOK, ArrayOK
    <3> QED
      BY <3>1 DEF Keynode
  <2> QED
    BY <2>6, <2>7, <2>8, <2>9
<1> HIDE DEF S
<1>5. Depth \in S
  BY <1>1, <1>3, <1>4, UpTo
<1>6. PICK i \in 0 .. n - 1, k \in 0 .. Depth :
          /\ FindKey(p, b) = [at |-> i, depth |-> k] /\ L[i] = Pre(b, k)
          /\ k = Depth \/ p[i].type = KEYLEAF
  BY <1>5 DEF S, Reached, FindKey
<1>7. p[i].type \in {INTERNAL, KEYLEAF, PUNCTURE}
  <2>1. i \in 0 .. MaxNodes - 1 /\ p \in [0 .. MaxNodes - 1 -> Keynode(MaxNodes)]
    BY <1>2 DEF TreeOK, ArrayOK
  <2> QED
    BY <2>1 DEF Keynode
<1>8. p[i].type # INTERNAL
  BY <1>1, <1>6, Descends DEF INTERNAL, KEYLEAF
<1> QED
  BY <1>2, <1>6, <1>7, <1>8 DEF NULL

-----------------------------------------------------------------------------
(* What a tree evaluates to.                                               *)

\* A node in use is a keynode of the array.
LEMMA NodeType ==
  ASSUME NEW p, NEW n, ArrayOK(p, n), NEW i \in 0 .. n - 1
  PROVE  /\ i \in 0 .. MaxNodes - 1 /\ i \in Nat /\ n \in Nat \ {0} /\ MaxNodes \in Nat
         /\ p[i] \in Keynode(MaxNodes) /\ p[i].type \in {INTERNAL, KEYLEAF, PUNCTURE}
<1>1. MaxNodes \in Nat
  <2>1. Pow2[Depth + 1] \in Nat \ {0}
    BY DepthAssumption, Pow2Type
  <2> QED
    BY <2>1 DEF MaxNodes
<1>2. n \in Nat \ {0} /\ i \in Nat /\ i \in 0 .. MaxNodes - 1
  BY <1>1 DEF ArrayOK
<1> QED
  BY <1>1, <1>2 DEF ArrayOK, Keynode

\* The keys in the array are those of the leaves.
LEMMA KeysAreLeaves ==
  ASSUME NEW p, NEW n, NEW P, NEW L, TreeOK(p, n, P, L),
         NEW i \in 0 .. MaxNodes - 1, p[i].key # NoKey
  PROVE  i \in 0 .. n - 1 /\ p[i].type = KEYLEAF /\ p[i].key = L[i] /\ L[i] \in Labels
<1>1. i \in 0 .. n - 1
  BY DEF TreeOK, ArrayOK, LabelsOK
<1>2. p[i].type \in {INTERNAL, KEYLEAF, PUNCTURE}
  BY <1>1, NodeType DEF TreeOK
<1> QED
  BY <1>1, <1>2 DEF TreeOK, NodeOK, LabelsOK

\* A punctured tag has no leaf above it.
LEMMA NothingAbove ==
  ASSUME NEW p, NEW n, NEW P, NEW L, TreeOK(p, n, P, L),
         NEW i \in 0 .. MaxNodes - 1, p[i].key # NoKey, NEW t \in P
  PROVE  ~IsPrefixOf(p[i].key, TagBits(t))
<1> SUFFICES ASSUME IsPrefixOf(p[i].key, TagBits(t)) PROVE FALSE
  OBVIOUS
<1>1. i \in 0 .. n - 1 /\ p[i].type = KEYLEAF /\ p[i].key = L[i] /\ L[i] \in Labels
  BY KeysAreLeaves
<1>2. TagBits(t) \in Bits
  BY BitsOf DEF TreeOK
<1>3. PICK j \in 0 .. n - 1 : p[j].type = PUNCTURE /\ L[j] = TagBits(t)
  BY DEF TreeOK, GoneOK
<1>4. Above(L[i], L[j])
  BY <1>1, <1>2, <1>3, PrefixIs
<1>5. i = j
  BY <1>1, <1>3, <1>4 DEF TreeOK, EndsOK, INTERNAL, KEYLEAF
<1> QED
  BY <1>1, <1>3, <1>5 DEF KEYLEAF, PUNCTURE

\* A tag that is not punctured ends in a leaf.
LEMMA FindsLeaf ==
  ASSUME NEW p, NEW n, NEW P, NEW L, TreeOK(p, n, P, L), NEW t \in Tags \ P
  PROVE  \E i \in 0 .. n - 1, k \in 0 .. Depth :
           /\ FindKey(p, TagBits(t)) = [at |-> i, depth |-> k] /\ i # NULL
           /\ L[i] = Pre(TagBits(t), k) /\ p[i].type = KEYLEAF /\ p[i].key = L[i]
<1>1. TagBits(t) \in Bits
  BY BitsOf
<1>2. PICK i \in 0 .. n - 1, k \in 0 .. Depth :
        /\ FindKey(p, TagBits(t)) = [at |-> i, depth |-> k] /\ L[i] = Pre(TagBits(t), k) /\ i # NULL
        /\ p[i].type = KEYLEAF \/ (p[i].type = PUNCTURE /\ k = Depth)
  BY <1>1, Finds
<1>3. p[i].type # PUNCTURE
  <2> SUFFICES ASSUME p[i].type = PUNCTURE PROVE FALSE
    OBVIOUS
  <2>1. k = Depth /\ L[i] = TagBits(t)
    BY <1>1, <1>2, Parts DEF PUNCTURE, KEYLEAF
  <2>2. PICK u \in P : L[i] = TagBits(u)
    BY DEF TreeOK, NodeOK
  <2>3. u = t
    BY <2>1, <2>2, BitsTell DEF TreeOK
  <2> QED
    BY <2>2, <2>3
<1> QED
  BY <1>2, <1>3 DEF TreeOK, NodeOK

\* evaluate (pprf-tree.c:77-98) computes a tag that is not punctured.
LEMMA Evaluates ==
  ASSUME NEW p, NEW n, NEW P, NEW L, TreeOK(p, n, P, L), NEW t \in Tags \ P
  PROVE  Evaluate(p, t) = [code |-> 0, key |-> TagBits(t)]
<1>1. TagBits(t) \in Bits
  BY BitsOf
<1>2. PICK i \in 0 .. n - 1, k \in 0 .. Depth :
        /\ FindKey(p, TagBits(t)) = [at |-> i, depth |-> k] /\ i # NULL
        /\ L[i] = Pre(TagBits(t), k) /\ p[i].key = L[i]
  BY FindsLeaf
<1>3. p[i].key # NoKey /\ p[i].key \o SubSeq(TagBits(t), k + 1, Depth) = TagBits(t)
  <2>1. p[i].key = Pre(TagBits(t), k) /\ Pre(TagBits(t), k) \in Labels
    BY <1>1, <1>2, Parts
  <2> QED
    BY <1>1, <2>1, Rejoined, NoKeyAssumption
<1>4. FindKey(p, TagBits(t)).at = i /\ FindKey(p, TagBits(t)).depth = k
  BY <1>2
<1> QED
  BY <1>2, <1>3, <1>4 DEF Evaluate

Leaves(p, n) == {i \in 0 .. n - 1 : p[i].type = KEYLEAF}

\* The keyleaves compute exactly the tags that are not punctured, and nothing
\* else in the array computes more.
LEMMA LiveIs ==
  ASSUME NEW p, NEW n, NEW P, NEW L, TreeOK(p, n, P, L)
  PROVE  /\ Derivable(p, DOMAIN p) \cap P = {}
         /\ Derivable(p, Leaves(p, n)) = Tags \ P
<1>1. DOMAIN p = 0 .. MaxNodes - 1
  BY DEF TreeOK, ArrayOK
<1>2. Derivable(p, DOMAIN p) \cap P = {}
  BY <1>1, NothingAbove DEF Derivable
<1>3. Derivable(p, Leaves(p, n)) \subseteq Tags \ P
  <2>1. ASSUME NEW i \in Leaves(p, n) PROVE i \in DOMAIN p
    BY <1>1, NodeType DEF Leaves, TreeOK
  <2> QED
    BY <1>2, <2>1 DEF Derivable
<1>4. ASSUME NEW t \in Tags \ P PROVE t \in Derivable(p, Leaves(p, n))
  <2>1. TagBits(t) \in Bits
    BY BitsOf
  <2>2. PICK i \in 0 .. n - 1, k \in 0 .. Depth :
          L[i] = Pre(TagBits(t), k) /\ p[i].type = KEYLEAF /\ p[i].key = L[i]
    BY FindsLeaf
  <2>3. Pre(TagBits(t), k) \in Labels /\ Len(Pre(TagBits(t), k)) = k /\ Len(TagBits(t)) = Depth
    BY <2>1, Parts
  <2>4. Above(L[i], TagBits(t))
    BY <2>2, <2>3, DepthAssumption DEF Above, Pre
  <2>5. IsPrefixOf(p[i].key, TagBits(t)) /\ p[i].key # NoKey
    BY <2>1, <2>2, <2>3, <2>4, PrefixIs, LabelLen
  <2> QED
    BY <2>2, <2>5 DEF Derivable, Leaves
<1> QED
  BY <1>2, <1>3, <1>4

-----------------------------------------------------------------------------
(* The labels of the nodes puncture appends: the rest of the path below    *)
(* node f at depth k, and the siblings along it.                           *)

Splits(p, n, P, L, b, f, k) ==
  /\ TreeOK(p, n, P, L) /\ b \in Bits
  /\ f \in 0 .. n - 1 /\ k \in 0 .. Depth /\ L[f] = Pre(b, k) /\ p[f].type # INTERNAL

Grown(n, k) == n + Growth(k)
DepthOf(n, k, i) == k + 1 + (i - n) \div 2
NewLabels(n, L, b, k) ==
  [i \in 0 .. Grown(n, k) - 1 |->
     IF i < n THEN L[i]
     ELSE IF (i - n) % 2 = 0 THEN Sib(b, DepthOf(n, k, i)) ELSE Pre(b, DepthOf(n, k, i))]

\* The appended nodes, two by two.
LEMMA Indices ==
  ASSUME NEW n \in Nat \ {0}, NEW k \in 0 .. Depth
  PROVE  /\ Grown(n, k) \in Nat \ {0} /\ n <= Grown(n, k) /\ Grown(n, k) <= n + 2 * Depth
         /\ k = Depth => Grown(n, k) = n
         /\ \A d \in k + 1 .. Depth :
              /\ PathIndex(n, k, d) \in n .. Grown(n, k) - 1 /\ PathIndex(n, k, d) \in Nat
              /\ PathIndex(n, k, d) - 1 \in n .. Grown(n, k) - 1
              /\ d \in 1 .. Depth /\ d \in 0 .. Depth
         /\ \A d, e \in k + 1 .. Depth :
              /\ PathIndex(n, k, d) = PathIndex(n, k, e) => d = e
              /\ PathIndex(n, k, d) # PathIndex(n, k, e) - 1
<1>1. Depth \in Nat /\ k \in Nat /\ Grown(n, k) = n + 2 * (Depth - k)
  BY DepthAssumption DEF Grown, Growth
<1> QED
  BY <1>1 DEF PathIndex

\* An appended node is one of the path or a sibling.
LEMMA IndexOf ==
  ASSUME NEW n \in Nat \ {0}, NEW k \in 0 .. Depth, NEW i \in n .. Grown(n, k) - 1
  PROVE  \E d \in k + 1 .. Depth : i = PathIndex(n, k, d) \/ i = PathIndex(n, k, d) - 1
<1>1. Depth \in Nat /\ k \in Nat /\ Grown(n, k) = n + 2 * (Depth - k)
  BY DepthAssumption DEF Grown, Growth
<1>2. PICK d : d = DepthOf(n, k, i)
  OBVIOUS
<1>3. d \in k + 1 .. Depth /\ (i = n + 2 * (d - k) - 1 \/ i = n + 2 * (d - k) - 2)
  BY <1>1, <1>2 DEF DepthOf
<1> QED
  BY <1>1, <1>3 DEF PathIndex

\* The labels of old nodes stay; the appended get those of path and siblings.
LEMMA NewLabelsAre ==
  ASSUME NEW n \in Nat \ {0}, NEW k \in 0 .. Depth, NEW L, NEW b
  PROVE  /\ \A i \in 0 .. n - 1 : NewLabels(n, L, b, k)[i] = L[i]
         /\ \A d \in k + 1 .. Depth :
              /\ NewLabels(n, L, b, k)[PathIndex(n, k, d)] = Pre(b, d)
              /\ NewLabels(n, L, b, k)[PathIndex(n, k, d) - 1] = Sib(b, d)
<1>1. Depth \in Nat /\ k \in Nat
  BY DepthAssumption
<1>2. ASSUME NEW d \in k + 1 .. Depth, NEW i, i = PathIndex(n, k, d)
      PROVE  NewLabels(n, L, b, k)[i] = Pre(b, d) /\ NewLabels(n, L, b, k)[i - 1] = Sib(b, d)
  <2>1. /\ i \in 0 .. Grown(n, k) - 1 /\ ~(i < n) /\ i - 1 \in 0 .. Grown(n, k) - 1 /\ ~(i - 1 < n)
        /\ i \in Nat /\ i = n + 2 * (d - k) - 1
    <3>1. i \in n .. Grown(n, k) - 1 /\ i - 1 \in n .. Grown(n, k) - 1 /\ Grown(n, k) \in Nat
      BY <1>2, Indices
    <3>2. i = n + 2 * (d - k) - 1
      BY <1>2 DEF PathIndex
    <3> QED
      BY <3>1, <3>2
  <2>2. (i - n) % 2 # 0 /\ (i - 1 - n) % 2 = 0 /\ DepthOf(n, k, i) = d /\ DepthOf(n, k, i - 1) = d
    BY <1>1, <2>1 DEF DepthOf
  <2> QED
    BY <2>1, <2>2 DEF NewLabels
<1>3. ASSUME NEW i \in 0 .. n - 1 PROVE NewLabels(n, L, b, k)[i] = L[i]
  <2>1. i \in 0 .. Grown(n, k) - 1 /\ i < n
    BY Indices
  <2> QED
    BY <2>1 DEF NewLabels
<1> QED
  BY <1>2, <1>3

\* Path and siblings against each other.
LEMMA PathLabels ==
  ASSUME NEW b \in Bits, NEW d \in 1 .. Depth, NEW e \in 1 .. Depth
  PROVE  /\ ~Above(Sib(b, d), Pre(b, e))
         /\ Above(Sib(b, d), Sib(b, e)) => d = e
         /\ Above(b, Pre(b, e)) => e = Depth
         /\ ~Above(b, Sib(b, e))
         /\ Pre(b, d) = Pre(b, e) => d = e
         /\ Pre(b, d) # Sib(b, e)
<1>1. Depth \in Nat /\ d \in 0 .. Depth /\ e \in 0 .. Depth /\ d # 0 /\ e # 0
  BY DepthAssumption
<1>2. /\ Len(Pre(b, d)) = d /\ Len(Sib(b, d)) = d /\ Len(Pre(b, e)) = e /\ Len(Sib(b, e)) = e
      /\ Len(b) = Depth
  BY <1>1, Parts
<1>3. b[d] # 1 - b[d] /\ b[e] # 1 - b[e]
  BY DEF Bits, Bit
<1>4. /\ Sib(b, d)[d] = 1 - b[d]
      /\ d <= e => Pre(b, e)[d] = b[d]
      /\ d <= e /\ d # e => Sib(b, e)[d] = b[d]
      /\ Sib(b, e)[e] = 1 - b[e] /\ Pre(b, e)[e] = b[e]
  BY <1>1 DEF Sib, Pre
<1>5. d \in 1 .. d /\ e \in 1 .. e /\ e \in 1 .. Depth
  OBVIOUS
<1>6. ~Above(Sib(b, d), Pre(b, e))
  BY <1>1, <1>2, <1>3, <1>4, <1>5 DEF Above
<1>7. Above(Sib(b, d), Sib(b, e)) => d = e
  BY <1>1, <1>2, <1>3, <1>4, <1>5 DEF Above
<1>8. Above(b, Pre(b, e)) => e = Depth
  BY <1>1, <1>2 DEF Above
<1>9. ~Above(b, Sib(b, e))
  BY <1>1, <1>2, <1>3, <1>4, <1>5 DEF Above
<1>10. (Pre(b, d) = Pre(b, e) => d = e) /\ Pre(b, d) # Sib(b, e)
  BY <1>2, <1>3, <1>4
<1> QED
  BY <1>6, <1>7, <1>8, <1>9, <1>10

\* Being above is an order; labels above the same one are one above the other.
LEMMA Orders ==
  ASSUME NEW l \in Labels, NEW m \in Labels, NEW o \in Labels
  PROVE  /\ Above(l, l)
         /\ Above(l, m) /\ Above(m, o) => Above(l, o)
         /\ Above(l, o) /\ Above(m, o) => Above(l, m) \/ Above(m, l)
<1>1. Len(l) \in Nat /\ Len(m) \in Nat /\ Len(o) \in Nat
  BY LabelLen
<1> QED
  BY <1>1 DEF Above

\* What is appended lies below the node that is split.
LEMMA NewBelow ==
  ASSUME NEW p, NEW n, NEW P, NEW L, NEW b, NEW f, NEW k, Splits(p, n, P, L, b, f, k),
         NEW M, M = NewLabels(n, L, b, k), NEW i \in n .. Grown(n, k) - 1
  PROVE  M[i] \in Labels /\ Above(L[f], M[i]) /\ k < Len(M[i]) /\ Len(L[f]) = k
<1>1. n \in Nat \ {0} /\ k \in 0 .. Depth /\ b \in Bits /\ Depth \in Nat
  BY DepthAssumption DEF Splits, TreeOK, LabelsOK
<1>2. PICK d \in k + 1 .. Depth : i = PathIndex(n, k, d) \/ i = PathIndex(n, k, d) - 1
  BY <1>1, IndexOf
<1>3. M[i] = Pre(b, d) \/ M[i] = Sib(b, d)
  BY <1>1, <1>2, NewLabelsAre
<1>4. d \in 0 .. Depth /\ d # 0 /\ L[f] = Pre(b, k)
  BY <1>1 DEF Splits
<1>5. M[i] \in Labels /\ Len(M[i]) = d /\ Len(L[f]) = k
  <2>1. /\ Pre(b, d) \in Labels /\ Len(Pre(b, d)) = d
        /\ Sib(b, d) \in Labels /\ Len(Sib(b, d)) = d
    BY <1>1, <1>4, Parts
  <2>2. Len(Pre(b, k)) = k
    BY <1>1, Parts
  <2> QED
    BY <1>3, <1>4, <2>1, <2>2
<1>6. \A x \in 1 .. k : Pre(b, k)[x] = b[x] /\ Pre(b, d)[x] = b[x] /\ Sib(b, d)[x] = b[x]
  BY <1>1 DEF Pre, Sib
<1> QED
  BY <1>1, <1>3, <1>4, <1>5, <1>6 DEF Above

\* Labels stay distinct, and so the array has room for the appended nodes.
LEMMA LabelsGrow ==
  ASSUME NEW p, NEW n, NEW P, NEW L, NEW b, NEW f, NEW k, Splits(p, n, P, L, b, f, k),
         NEW M, M = NewLabels(n, L, b, k)
  PROVE  LabelsOK(Grown(n, k), M) /\ Grown(n, k) \in 1 .. MaxNodes
<1>1. /\ n \in Nat \ {0} /\ k \in 0 .. Depth /\ b \in Bits /\ f \in 0 .. n - 1
      /\ L \in [0 .. n - 1 -> Labels] /\ Len(L[0]) = 0
  BY DEF Splits, TreeOK, LabelsOK
<1>2. PICK m \in Nat \ {0} : m = Grown(n, k) /\ n <= m
  BY <1>1, Indices
<1>3. ASSUME NEW i \in 0 .. m - 1 PROVE M[i] \in Labels
  <2>1. CASE i < n
    BY <1>1, <2>1, NewLabelsAre
  <2>2. CASE ~(i < n)
    <3>1. i \in n .. Grown(n, k) - 1
      BY <1>1, <1>2, <2>2
    <3> QED
      BY <3>1, NewBelow
  <2> QED
    BY <2>1, <2>2
<1>4. M \in [0 .. m - 1 -> Labels]
  <2>1. M = [i \in 0 .. m - 1 |-> M[i]]
    BY <1>2 DEF NewLabels
  <2> QED
    BY <1>3, <2>1
<1>5. ASSUME NEW i \in 0 .. n - 1, NEW j \in n .. m - 1 PROVE M[i] # M[j]
  <2>1. M[i] = L[i] /\ L[i] \in Labels /\ L[f] \in Labels
    <3>1. M[i] = L[i]
      BY <1>1, NewLabelsAre
    <3> QED
      BY <1>1, <3>1
  <2>2. M[j] \in Labels /\ Above(L[f], M[j]) /\ k < Len(M[j]) /\ Len(L[f]) = k
    BY <1>2, NewBelow
  <2>3. M[i] = M[j] => i = f
    BY <1>1, <2>1, <2>2 DEF Splits, TreeOK, EndsOK
  <2> QED
    BY <1>1, <2>1, <2>2, <2>3
<1>6. ASSUME NEW i \in n .. m - 1, NEW j \in n .. m - 1, M[i] = M[j] PROVE i = j
  <2>1. PICK d \in k + 1 .. Depth : i = PathIndex(n, k, d) \/ i = PathIndex(n, k, d) - 1
    BY <1>1, <1>2, IndexOf
  <2>2. PICK e \in k + 1 .. Depth : j = PathIndex(n, k, e) \/ j = PathIndex(n, k, e) - 1
    BY <1>1, <1>2, IndexOf
  <2>3. d \in 1 .. Depth /\ e \in 1 .. Depth
    BY <1>1, Indices
  <2>4. /\ M[PathIndex(n, k, d)] = Pre(b, d) /\ M[PathIndex(n, k, d) - 1] = Sib(b, d)
        /\ M[PathIndex(n, k, e)] = Pre(b, e) /\ M[PathIndex(n, k, e) - 1] = Sib(b, e)
    BY <1>1, NewLabelsAre
  <2>5. /\ Sib(b, d) = Sib(b, e) => d = e
        /\ Pre(b, d) = Pre(b, e) => d = e
        /\ Pre(b, d) # Sib(b, e) /\ Pre(b, e) # Sib(b, d)
    <3>1. Sib(b, d) \in Labels
      BY <1>1, <2>3, Indices, Parts
    <3> QED
      BY <1>1, <2>3, <3>1, PathLabels, Orders
  <2> QED
    BY <1>6, <2>1, <2>2, <2>4, <2>5
<1>7. ASSUME NEW i \in 0 .. m - 1, NEW j \in 0 .. m - 1, M[i] = M[j] PROVE i = j
  <2>1. CASE i < n /\ j < n
    BY <1>1, <1>7, <2>1, NewLabelsAre DEF Splits, TreeOK, LabelsOK
  <2>2. CASE i < n /\ ~(j < n)
    BY <1>1, <1>2, <1>5, <1>7, <2>2
  <2>3. CASE ~(i < n) /\ j < n
    BY <1>1, <1>2, <1>5, <1>7, <2>3
  <2>4. CASE ~(i < n) /\ ~(j < n)
    BY <1>1, <1>2, <1>6, <1>7, <2>4
  <2> QED
    BY <2>1, <2>2, <2>3, <2>4
<1>8. M[0] = L[0]
  <2>1. 0 \in 0 .. n - 1
    BY <1>1
  <2> QED
    BY <1>1, <2>1, NewLabelsAre
<1>9. m <= MaxNodes /\ MaxNodes \in Nat
  BY <1>4, <1>7, Fits
<1> QED
  BY <1>1, <1>2, <1>4, <1>7, <1>8, <1>9 DEF LabelsOK

-----------------------------------------------------------------------------
(* puncture.                                                               *)

PathNode(m, n, k, b, d) ==
  IF d = Depth THEN [m EXCEPT !.type = PUNCTURE]
  ELSE Linked(m, b[d + 1], PathIndex(n, k, d + 1) - 1)

\* q is what puncture makes of p, for a path that ends in node f at depth k.
SplitInto(q, p, n, b, f, k) ==
  /\ q = [i \in 0 .. MaxNodes - 1 |-> q[i]]
  /\ q[f] = PathNode(Cleared(p[f]), n, k, b, k)
  /\ \A d \in k + 1 .. Depth :
       /\ q[PathIndex(n, k, d)]
            = PathNode([p[PathIndex(n, k, d)] EXCEPT !.type = INTERNAL], n, k, b, d)
       /\ q[PathIndex(n, k, d) - 1]
            = [p[PathIndex(n, k, d) - 1] EXCEPT !.type = KEYLEAF, !.key = Sib(b, d)]
  /\ \A i \in 0 .. MaxNodes - 1 : i # f /\ i \notin n .. Grown(n, k) - 1 => q[i] = p[i]

\* Puncture, as the model defines it, does what SplitInto says.
LEMMA PunctureIs ==
  ASSUME NEW p, NEW n, NEW P, NEW L, NEW t \in Tags, NEW f, NEW k,
         Splits(p, n, P, L, TagBits(t), f, k), FindKey(p, TagBits(t)) = [at |-> f, depth |-> k]
  PROVE  /\ Puncture(p, n, t).code = f /\ Puncture(p, n, t).size = Grown(n, k)
         /\ SplitInto(Puncture(p, n, t).pprf, p, n, TagBits(t), f, k)
<1>1. PICK b : b = TagBits(t)
  OBVIOUS
<1>2. /\ n \in Nat \ {0} /\ k \in 0 .. Depth /\ b \in Bits /\ f \in 0 .. n - 1
      /\ DOMAIN p = 0 .. MaxNodes - 1 /\ Depth \in Nat
  BY <1>1, DepthAssumption DEF Splits, TreeOK, LabelsOK, ArrayOK
<1>3. FindKey(p, b).at = f /\ FindKey(p, b).depth = k /\ f # NULL
  BY <1>1, <1>2 DEF NULL
<1> DEFINE OnPath(m, d) == IF d = Depth THEN [m EXCEPT !.type = PUNCTURE]
                           ELSE Linked(m, b[d + 1], PathIndex(n, k, d + 1) - 1)
           Path(d) == PathIndex(n, k, d)
           New(i) ==
             IF i = f THEN OnPath(Cleared(p[i]), k)
             ELSE IF \E d \in k + 1 .. Depth : i = Path(d)
             THEN OnPath([p[i] EXCEPT !.type = INTERNAL],
                         CHOOSE d \in k + 1 .. Depth : i = Path(d))
             ELSE IF \E d \in k + 1 .. Depth : i = Path(d) - 1
             THEN [p[i] EXCEPT !.type = KEYLEAF,
                     !.key = SiblingKey(b, CHOOSE d \in k + 1 .. Depth : i = Path(d) - 1)]
             ELSE p[i]
<1>4. Puncture(p, n, t) = [code |-> f, pprf |-> [i \in DOMAIN p |-> New(i)], size |-> n + Growth(k)]
  BY <1>1, <1>3 DEF Puncture
<1>5. PICK q : q = [i \in 0 .. MaxNodes - 1 |-> New(i)]
  OBVIOUS
<1>6. /\ Puncture(p, n, t).code = f /\ Puncture(p, n, t).size = Grown(n, k)
      /\ Puncture(p, n, t).pprf = q
  <2> HIDE DEF New
  <2>1. [i \in DOMAIN p |-> New(i)] = q
    BY <1>2, <1>5
  <2> QED
    BY <1>4, <2>1 DEF Grown
<1>7. Grown(n, k) \in 1 .. MaxNodes /\ MaxNodes \in Nat
  <2>1. Grown(n, k) \in 1 .. MaxNodes /\ f \in 0 .. n - 1 /\ ArrayOK(p, n)
    BY <1>1, LabelsGrow DEF Splits, TreeOK
  <2> QED
    BY <2>1, NodeType
<1>8. /\ \A d \in k + 1 .. Depth :
           /\ Path(d) \in n .. Grown(n, k) - 1 /\ Path(d) - 1 \in n .. Grown(n, k) - 1
           /\ d \in 1 .. Depth /\ Path(d) \in Nat
      /\ \A d, e \in k + 1 .. Depth : (Path(d) = Path(e) => d = e) /\ Path(d) # Path(e) - 1
      /\ Grown(n, k) \in Nat \ {0}
  BY <1>2, Indices
<1>9. q[f] = PathNode(Cleared(p[f]), n, k, b, k)
  <2>1. f \in 0 .. MaxNodes - 1
    BY <1>2, <1>7, Indices
  <2> QED
    BY <1>5, <2>1 DEF PathNode
<1>10. ASSUME NEW d \in k + 1 .. Depth
       PROVE  /\ q[Path(d)] = PathNode([p[Path(d)] EXCEPT !.type = INTERNAL], n, k, b, d)
              /\ q[Path(d) - 1] = [p[Path(d) - 1] EXCEPT !.type = KEYLEAF, !.key = Sib(b, d)]
  <2>1. /\ Path(d) \in 0 .. MaxNodes - 1 /\ Path(d) - 1 \in 0 .. MaxNodes - 1
        /\ Path(d) # f /\ Path(d) - 1 # f
    BY <1>2, <1>7, <1>8
  <2>2. (CHOOSE e \in k + 1 .. Depth : Path(d) = Path(e)) = d
    BY <1>8
  <2>3. (CHOOSE e \in k + 1 .. Depth : Path(d) - 1 = Path(e) - 1) = d
    BY <1>8
  <2>4. ~ \E e \in k + 1 .. Depth : Path(d) - 1 = Path(e)
    BY <1>8
  <2>5. New(Path(d)) = OnPath([p[Path(d)] EXCEPT !.type = INTERNAL], d)
    BY <2>1, <2>2
  <2>6. New(Path(d) - 1) = [p[Path(d) - 1] EXCEPT !.type = KEYLEAF, !.key = SiblingKey(b, d)]
    BY <2>1, <2>3, <2>4
  <2>7. SiblingKey(b, d) = Sib(b, d)
    BY <1>2, <1>8, SibIs
  <2> QED
    BY <1>5, <2>1, <2>5, <2>6, <2>7 DEF PathNode
<1>11. ASSUME NEW i \in 0 .. MaxNodes - 1, i # f, i \notin n .. Grown(n, k) - 1 PROVE q[i] = p[i]
  <2>1. \A d \in k + 1 .. Depth : i # Path(d) /\ i # Path(d) - 1
    BY <1>8, <1>11
  <2> QED
    BY <1>5, <1>11, <2>1
<1>12. q = [i \in 0 .. MaxNodes - 1 |-> q[i]]
  BY <1>5
<1> QED
  BY <1>1, <1>6, <1>9, <1>10, <1>11, <1>12 DEF SplitInto

\* The nodes of the new path, and its siblings, in the new tree.
LEMMA PathNodeOK ==
  ASSUME NEW p, NEW n, NEW P, NEW L, NEW t \in Tags, NEW b, b = TagBits(t), NEW f, NEW k,
         Splits(p, n, P, L, b, f, k), NEW M, M = NewLabels(n, L, b, k), NEW R, t \in R,
         NEW q, NEW i \in 0 .. Grown(n, k) - 1, NEW d \in k .. Depth, M[i] = Pre(b, d),
         NEW m \in Keynode(MaxNodes), m.type = INTERNAL, m.key = NoKey,
         q[i] = PathNode(m, n, k, b, d)
  PROVE  q[i] \in Keynode(MaxNodes) /\ NodeOK(q, Grown(n, k), R, M, i)
         /\ q[i].type = IF d = Depth THEN PUNCTURE ELSE INTERNAL
<1>1. /\ n \in Nat \ {0} /\ k \in 0 .. Depth /\ b \in Bits /\ Depth \in Nat \ {0} /\ k \in Nat
      /\ d \in 0 .. Depth
  BY DepthAssumption DEF Splits, TreeOK, LabelsOK
<1>2. CASE d = Depth
  <2>1. q[i] = [m EXCEPT !.type = PUNCTURE]
    BY <1>2 DEF PathNode
  <2>2. q[i] \in Keynode(MaxNodes) /\ q[i].type = PUNCTURE /\ q[i].key = NoKey
    BY <2>1 DEF Keynode
  <2>3. M[i] = TagBits(t) /\ t \in R
    BY <1>1, <1>2, Parts
  <2> QED
    BY <1>2, <2>2, <2>3 DEF NodeOK, INTERNAL, KEYLEAF, PUNCTURE
<1>3. CASE d # Depth
  <2>1. PICK j : j = PathIndex(n, k, d + 1)
    OBVIOUS
  <2>2. d + 1 \in k + 1 .. Depth /\ d + 1 \in 1 .. Depth /\ d + 1 \in 0 .. Depth
    BY <1>1, <1>3
  <2>3. /\ j \in n .. Grown(n, k) - 1 /\ j - 1 \in n .. Grown(n, k) - 1 /\ j \in Nat
        /\ Grown(n, k) \in Nat
    BY <1>1, <2>1, <2>2, Indices
  <2>4. /\ M[j] = Pre(b, d + 1) /\ M[j - 1] = Sib(b, d + 1)
    <3>1. PICK e \in k + 1 .. Depth : e = d + 1
      BY <2>2
    <3>2. M[PathIndex(n, k, e)] = Pre(b, e) /\ M[PathIndex(n, k, e) - 1] = Sib(b, e)
      BY <1>1, NewLabelsAre
    <3> QED
      BY <2>1, <3>1, <3>2
  <2>5. b[d + 1] \in Bit
    BY <2>2 DEF Bits, Splits
  <2>6. q[i] = [m EXCEPT !.il = j - 1 + 1 - b[d + 1], !.ir = j - 1 + b[d + 1]]
    BY <1>3, <2>1 DEF PathNode, Linked, Children
  <2>7. Grown(n, k) \in 1 .. MaxNodes /\ MaxNodes \in Nat
    <3>1. Grown(n, k) \in 1 .. MaxNodes /\ f \in 0 .. n - 1 /\ ArrayOK(p, n)
      BY LabelsGrow DEF Splits, TreeOK
    <3> QED
      BY <3>1, NodeType
  <2>8. /\ q[i].il = IF b[d + 1] = 0 THEN j ELSE j - 1
        /\ q[i].ir = IF b[d + 1] = 1 THEN j ELSE j - 1
        /\ q[i].type = INTERNAL /\ q[i].key = NoKey
    BY <2>3, <2>5, <2>6 DEF Bit, Keynode
  <2>9. /\ q[i].il \in 1 .. Grown(n, k) - 1 /\ q[i].ir \in 1 .. Grown(n, k) - 1
        /\ q[i].il \in 0 .. MaxNodes - 1 /\ q[i].ir \in 0 .. MaxNodes - 1
    BY <1>1, <2>3, <2>7, <2>8
  <2>10. q[i] \in Keynode(MaxNodes)
    BY <2>6, <2>8, <2>9 DEF Keynode
  <2>11. /\ Len(M[i]) = d /\ Len(M[j]) = d + 1 /\ Len(M[j - 1]) = d + 1 /\ d < Depth
    <3>1. Len(Pre(b, d)) = d
      BY <1>1, Parts
    <3>2. Len(Pre(b, d + 1)) = d + 1 /\ Len(Sib(b, d + 1)) = d + 1
      BY <1>1, <2>2, Parts
    <3> QED
      BY <1>1, <1>3, <2>4, <3>1, <3>2
  <2>12. /\ \A x \in 1 .. d : M[i][x] = M[j][x] /\ M[i][x] = M[j - 1][x]
         /\ M[j][d + 1] = b[d + 1] /\ M[j - 1][d + 1] = 1 - b[d + 1]
    BY <1>1, <2>2, <2>4 DEF Pre, Sib
  <2>13. Child(M, i, j, b[d + 1]) /\ Child(M, i, j - 1, 1 - b[d + 1])
    BY <1>1, <2>11, <2>12 DEF Child, Above
  <2>14. Child(M, i, q[i].il, 0) /\ Child(M, i, q[i].ir, 1)
    BY <2>5, <2>8, <2>13 DEF Bit
  <2> QED
    BY <1>3, <2>8, <2>9, <2>10, <2>11, <2>14 DEF NodeOK, INTERNAL, KEYLEAF, PUNCTURE
<1> QED
  BY <1>2, <1>3

\* A node that is neither split nor appended.
LEMMA OtherNodeOK ==
  ASSUME NEW p, NEW n, NEW P, NEW L, NEW t, NEW b, NEW f, NEW k,
         Splits(p, n, P, L, b, f, k), NEW M, M = NewLabels(n, L, b, k),
         NEW R, P \subseteq R, NEW q, NEW i \in 0 .. n - 1, q[i] = p[i]
  PROVE  NodeOK(q, Grown(n, k), R, M, i)
<1>1. n \in Nat \ {0} /\ k \in 0 .. Depth /\ NodeOK(p, n, P, L, i)
  BY DEF Splits, TreeOK, LabelsOK
<1>2. Grown(n, k) \in Nat /\ n <= Grown(n, k)
  BY <1>1, Indices
<1>3. \A j \in 0 .. n - 1 : M[j] = L[j]
  BY <1>1, NewLabelsAre
<1>4. \A j \in 1 .. n - 1 : j \in 0 .. n - 1 /\ j \in 1 .. Grown(n, k) - 1
  BY <1>1, <1>2
<1>5. ASSUME NEW j \in 1 .. n - 1, NEW x, Child(L, i, j, x) PROVE Child(M, i, j, x)
  BY <1>3, <1>4, <1>5 DEF Child
<1>6. q[i].type = INTERNAL =>
        /\ q[i].key = NoKey /\ Len(M[i]) < Depth
        /\ q[i].il \in 1 .. Grown(n, k) - 1 /\ Child(M, i, q[i].il, 0)
        /\ q[i].ir \in 1 .. Grown(n, k) - 1 /\ Child(M, i, q[i].ir, 1)
  BY <1>1, <1>3, <1>4, <1>5 DEF NodeOK
<1>7. q[i].type = KEYLEAF => q[i].key = M[i]
  BY <1>1, <1>3 DEF NodeOK
<1>8. q[i].type = PUNCTURE => q[i].key = NoKey /\ \E u \in R : M[i] = TagBits(u)
  BY <1>1, <1>3 DEF NodeOK
<1> QED
  BY <1>6, <1>7, <1>8 DEF NodeOK

\* The types of the nodes of the path and of its siblings; the others are as before.
SplitTypes(q, p, n, f, k) ==
  /\ q[f].type = IF k = Depth THEN PUNCTURE ELSE INTERNAL
  /\ \A d \in k + 1 .. Depth :
       /\ q[PathIndex(n, k, d)].type = IF d = Depth THEN PUNCTURE ELSE INTERNAL
       /\ q[PathIndex(n, k, d) - 1].type = KEYLEAF
  /\ \A i \in 0 .. n - 1 : i # f => q[i] = p[i]

\* Every node of the new tree is as it should be.
LEMMA SplitNodes ==
  ASSUME NEW p, NEW n, NEW P, NEW L, NEW t \in Tags, NEW b, b = TagBits(t), NEW f, NEW k,
         Splits(p, n, P, L, b, f, k), NEW M, M = NewLabels(n, L, b, k),
         NEW q, SplitInto(q, p, n, b, f, k)
  PROVE  /\ \A R : P \subseteq R /\ t \in R =>
              \A i \in 0 .. Grown(n, k) - 1 : NodeOK(q, Grown(n, k), R, M, i)
         /\ \A i \in 0 .. Grown(n, k) - 1 : q[i] \in Keynode(MaxNodes)
         /\ SplitTypes(q, p, n, f, k)
<1>0. \E R : P \subseteq R /\ t \in R
  <2> WITNESS P \cup {t}
  <2> QED
    OBVIOUS
<1> SUFFICES ASSUME NEW R, P \subseteq R, t \in R
    PROVE
         /\ \A i \in 0 .. Grown(n, k) - 1 :
              NodeOK(q, Grown(n, k), R, M, i) /\ q[i] \in Keynode(MaxNodes)
         /\ SplitTypes(q, p, n, f, k)
  BY <1>0
<1>1. /\ n \in Nat \ {0} /\ k \in 0 .. Depth /\ b \in Bits /\ f \in 0 .. n - 1 /\ Depth \in Nat
      /\ k \in Nat /\ L[f] = Pre(b, k) /\ ArrayOK(p, n)
  BY DepthAssumption DEF Splits, TreeOK, LabelsOK
<1>2. /\ Grown(n, k) \in 1 .. MaxNodes /\ MaxNodes \in Nat /\ n <= Grown(n, k)
      /\ Grown(n, k) \in Nat
  BY <1>1, LabelsGrow, NodeType, Indices
<1>3. \A i \in 0 .. MaxNodes - 1 : p[i] \in Keynode(MaxNodes)
  BY <1>1 DEF ArrayOK
<1>path. ASSUME NEW i \in 0 .. Grown(n, k) - 1, NEW d \in k .. Depth, M[i] = Pre(b, d),
                NEW m \in Keynode(MaxNodes), m.type = INTERNAL, m.key = NoKey,
                q[i] = PathNode(m, n, k, b, d)
         PROVE  q[i] \in Keynode(MaxNodes) /\ NodeOK(q, Grown(n, k), R, M, i)
                /\ q[i].type = IF d = Depth THEN PUNCTURE ELSE INTERNAL
  BY <1>path, PathNodeOK
<1>4. /\ q[f] \in Keynode(MaxNodes) /\ NodeOK(q, Grown(n, k), R, M, f)
      /\ q[f].type = IF k = Depth THEN PUNCTURE ELSE INTERNAL
  <2>1. PICK m : m = Cleared(p[f])
    OBVIOUS
  <2>2. m \in Keynode(MaxNodes) /\ m.type = INTERNAL /\ m.key = NoKey
    <3>1. p[f] \in Keynode(MaxNodes)
      BY <1>1, <1>2, <1>3
    <3> QED
      BY <2>1, <3>1 DEF Cleared, Keynode
  <2>3. M[f] = Pre(b, k) /\ f \in 0 .. Grown(n, k) - 1 /\ k \in k .. Depth
    BY <1>1, <1>2, NewLabelsAre
  <2>4. q[f] = PathNode(m, n, k, b, k)
    BY <2>1 DEF SplitInto
  <2> QED
    BY <2>2, <2>3, <2>4, <1>path
<1>5. ASSUME NEW d \in k + 1 .. Depth, NEW i, i = PathIndex(n, k, d)
      PROVE  /\ q[i] \in Keynode(MaxNodes) /\ NodeOK(q, Grown(n, k), R, M, i)
             /\ q[i].type = IF d = Depth THEN PUNCTURE ELSE INTERNAL
  <2>1. i \in n .. Grown(n, k) - 1 /\ i \in 0 .. Grown(n, k) - 1 /\ i \in n .. MaxNodes - 1
        /\ d \in k .. Depth
    BY <1>1, <1>2, <1>5, Indices
  <2>2. PICK m : m = [p[i] EXCEPT !.type = INTERNAL]
    OBVIOUS
  <2>3. m \in Keynode(MaxNodes) /\ m.type = INTERNAL /\ m.key = NoKey
    <3>1. p[i] \in Keynode(MaxNodes) /\ p[i].key = NoKey
      BY <1>1, <1>2, <1>3, <2>1 DEF ArrayOK
    <3> QED
      BY <2>2, <3>1 DEF Keynode
  <2>4. M[i] = Pre(b, d)
    BY <1>1, <1>5, NewLabelsAre
  <2>5. q[i] = PathNode(m, n, k, b, d)
    BY <1>5, <2>2 DEF SplitInto
  <2> QED
    BY <2>1, <2>3, <2>4, <2>5, <1>path
<1>6. ASSUME NEW d \in k + 1 .. Depth, NEW i, i = PathIndex(n, k, d) - 1
      PROVE  /\ q[i] \in Keynode(MaxNodes) /\ NodeOK(q, Grown(n, k), R, M, i)
             /\ q[i].type = KEYLEAF
  <2>1. i \in n .. Grown(n, k) - 1 /\ i \in 0 .. MaxNodes - 1 /\ d \in 0 .. Depth /\ d # 0
    <3>1. i \in n .. Grown(n, k) - 1 /\ d \in 1 .. Depth
      BY <1>1, <1>6, Indices
    <3> QED
      BY <1>1, <1>2, <3>1
  <2>2. q[i] = [p[i] EXCEPT !.type = KEYLEAF, !.key = Sib(b, d)]
    BY <1>6 DEF SplitInto
  <2>3. M[i] = Sib(b, d) /\ Sib(b, d) \in Labels
    <3>1. Sib(b, d) \in Labels
      BY <1>1, <2>1, Parts
    <3>2. M[PathIndex(n, k, d) - 1] = Sib(b, d)
      BY <1>1, NewLabelsAre
    <3> QED
      BY <1>6, <3>1, <3>2
  <2>4. p[i] \in Keynode(MaxNodes)
    BY <1>3, <2>1
  <2>5. q[i] \in Keynode(MaxNodes) /\ q[i].type = KEYLEAF /\ q[i].key = Sib(b, d)
    BY <2>2, <2>3, <2>4 DEF Keynode
  <2> QED
    BY <2>3, <2>5 DEF NodeOK, INTERNAL, KEYLEAF, PUNCTURE
<1>7. ASSUME NEW i \in 0 .. n - 1, i # f
      PROVE  q[i] = p[i] /\ q[i] \in Keynode(MaxNodes) /\ NodeOK(q, Grown(n, k), R, M, i)
  <2>1. i \in 0 .. MaxNodes - 1 /\ i \notin n .. Grown(n, k) - 1
    BY <1>1, <1>2
  <2>2. q[i] = p[i]
    BY <1>7, <2>1 DEF SplitInto
  <2> QED
    BY <1>3, <2>1, <2>2, OtherNodeOK
<1>8. ASSUME NEW i \in 0 .. Grown(n, k) - 1
      PROVE  NodeOK(q, Grown(n, k), R, M, i) /\ q[i] \in Keynode(MaxNodes)
  <2>1. CASE i \in 0 .. n - 1
    BY <1>4, <1>7, <2>1
  <2>2. CASE i \in n .. Grown(n, k) - 1
    <3>1. PICK d \in k + 1 .. Depth : i = PathIndex(n, k, d) \/ i = PathIndex(n, k, d) - 1
      BY <1>1, <2>2, IndexOf
    <3> QED
      BY <1>5, <1>6, <3>1
  <2> QED
    BY <1>1, <1>2, <2>1, <2>2
<1> QED
  BY <1>4, <1>5, <1>6, <1>7, <1>8 DEF SplitTypes

\* The new array has its type, and no key beyond its end.
LEMMA SplitArray ==
  ASSUME NEW p, NEW n, NEW P, NEW L, NEW t \in Tags, NEW b, b = TagBits(t), NEW f, NEW k,
         Splits(p, n, P, L, b, f, k), NEW q, SplitInto(q, p, n, b, f, k)
  PROVE  ArrayOK(q, Grown(n, k))
<1>1. /\ n \in Nat \ {0} /\ k \in 0 .. Depth /\ f \in 0 .. n - 1 /\ ArrayOK(p, n)
  BY DEF Splits, TreeOK, LabelsOK
<1>2. /\ Grown(n, k) \in 1 .. MaxNodes /\ MaxNodes \in Nat /\ n <= Grown(n, k)
      /\ Grown(n, k) \in Nat
  BY <1>1, LabelsGrow, NodeType, Indices
<1>3. ASSUME NEW i \in Grown(n, k) .. MaxNodes - 1
      PROVE  q[i] \in Keynode(MaxNodes) /\ q[i].key = NoKey
  <2>1. i \in 0 .. MaxNodes - 1 /\ i \in n .. MaxNodes - 1 /\ i # f /\ i \notin n .. Grown(n, k) - 1
    BY <1>1, <1>2
  <2>2. q[i] = p[i]
    BY <2>1 DEF SplitInto
  <2> QED
    BY <1>1, <2>1, <2>2 DEF ArrayOK
<1>labels. PICK M : M = NewLabels(n, L, b, k)
  OBVIOUS
<1>nodes. \A i \in 0 .. Grown(n, k) - 1 : q[i] \in Keynode(MaxNodes)
  BY <1>labels, SplitNodes
<1>4. ASSUME NEW i \in 0 .. MaxNodes - 1 PROVE q[i] \in Keynode(MaxNodes)
  <2>1. CASE i \in 0 .. Grown(n, k) - 1
    BY <1>nodes, <2>1
  <2>2. CASE i \in Grown(n, k) .. MaxNodes - 1
    BY <1>3, <2>2
  <2> QED
    BY <1>2, <2>1, <2>2
<1>5. q \in [0 .. MaxNodes - 1 -> Keynode(MaxNodes)]
  BY <1>4 DEF SplitInto
<1> QED
  BY <1>2, <1>3, <1>5 DEF ArrayOK

\* No node of the new tree is below one without children.
LEMMA SplitEnds ==
  ASSUME NEW p, NEW n, NEW P, NEW L, NEW t \in Tags, NEW b, b = TagBits(t), NEW f, NEW k,
         Splits(p, n, P, L, b, f, k), NEW M, M = NewLabels(n, L, b, k),
         NEW q, SplitInto(q, p, n, b, f, k)
  PROVE  EndsOK(q, Grown(n, k), M)
<1>1. /\ n \in Nat \ {0} /\ k \in 0 .. Depth /\ b \in Bits /\ f \in 0 .. n - 1 /\ Depth \in Nat
      /\ k \in Nat /\ L[f] = Pre(b, k) /\ p[f].type # INTERNAL /\ EndsOK(p, n, L)
      /\ L \in [0 .. n - 1 -> Labels]
  BY DepthAssumption DEF Splits, TreeOK, LabelsOK
<1>2. Grown(n, k) \in Nat /\ n <= Grown(n, k) /\ (k = Depth => Grown(n, k) = n)
  BY <1>1, Indices
<1>types. /\ q[f].type = IF k = Depth THEN PUNCTURE ELSE INTERNAL
          /\ \A d \in k + 1 .. Depth :
               /\ q[PathIndex(n, k, d)].type = IF d = Depth THEN PUNCTURE ELSE INTERNAL
               /\ q[PathIndex(n, k, d) - 1].type = KEYLEAF
          /\ \A i \in 0 .. n - 1 : i # f => q[i] = p[i]
  <2>1. SplitTypes(q, p, n, f, k)
    BY SplitNodes
  <2> QED
    BY <2>1 DEF SplitTypes
<1>3. \A i \in 0 .. n - 1 : M[i] = L[i] /\ L[i] \in Labels
  <2>1. \A i \in 0 .. n - 1 : M[i] = L[i]
    BY <1>1, NewLabelsAre
  <2> QED
    BY <1>1, <2>1
<1>4. ASSUME NEW i \in 0 .. n - 1, NEW j \in 0 .. n - 1, q[i].type # INTERNAL, Above(M[i], M[j])
      PROVE  i = j
  <2>1. p[i].type # INTERNAL
    BY <1>1, <1>4, <1>types
  <2> QED
    BY <1>1, <1>3, <1>4, <2>1 DEF EndsOK
<1>5. ASSUME NEW i \in 0 .. n - 1, NEW j \in n .. Grown(n, k) - 1,
             q[i].type # INTERNAL, Above(M[i], M[j])
      PROVE  FALSE
  <2>1. M[j] \in Labels /\ Above(L[f], M[j]) /\ L[i] \in Labels /\ L[f] \in Labels /\ M[i] = L[i]
    BY <1>1, <1>3, NewBelow
  <2>2. Above(L[i], L[f]) \/ Above(L[f], L[i])
    BY <1>5, <2>1, Orders
  <2>3. p[i].type # INTERNAL
    BY <1>1, <1>5, <1>types
  <2>4. i = f
    BY <1>1, <2>2, <2>3 DEF EndsOK
  <2>5. k # Depth
    BY <1>1, <1>2
  <2> QED
    BY <1>5, <2>4, <2>5, <1>types
<1>6. ASSUME NEW i \in n .. Grown(n, k) - 1, NEW j \in 0 .. n - 1, Above(M[i], M[j])
      PROVE  FALSE
  <2>1. /\ M[i] \in Labels /\ Above(L[f], M[i]) /\ L[j] \in Labels /\ L[f] \in Labels /\ M[j] = L[j]
        /\ k < Len(M[i]) /\ Len(L[f]) = k
    BY <1>1, <1>3, NewBelow
  <2>2. Above(L[f], L[j])
    BY <1>6, <2>1, Orders
  <2>3. f = j
    BY <1>1, <2>2 DEF EndsOK
  <2>4. Len(M[i]) <= k /\ Len(M[i]) \in Nat
    BY <1>6, <2>1, <2>3, LabelLen DEF Above
  <2> QED
    BY <1>1, <2>1, <2>4
<1>7. ASSUME NEW i \in n .. Grown(n, k) - 1, NEW j \in n .. Grown(n, k) - 1,
             q[i].type # INTERNAL, Above(M[i], M[j])
      PROVE  i = j
  <2>1. PICK d \in k + 1 .. Depth : i = PathIndex(n, k, d) \/ i = PathIndex(n, k, d) - 1
    BY <1>1, IndexOf
  <2>2. PICK e \in k + 1 .. Depth : j = PathIndex(n, k, e) \/ j = PathIndex(n, k, e) - 1
    BY <1>1, IndexOf
  <2>3. d \in 1 .. Depth /\ e \in 1 .. Depth
    BY <1>1, Indices
  <2>4. /\ M[PathIndex(n, k, d)] = Pre(b, d) /\ M[PathIndex(n, k, d) - 1] = Sib(b, d)
        /\ M[PathIndex(n, k, e)] = Pre(b, e) /\ M[PathIndex(n, k, e) - 1] = Sib(b, e)
    BY <1>1, NewLabelsAre
  <2>5. /\ ~Above(Sib(b, d), Pre(b, e)) /\ (Above(Sib(b, d), Sib(b, e)) => d = e)
        /\ (Above(b, Pre(b, e)) => e = Depth) /\ ~Above(b, Sib(b, e))
    BY <1>1, <2>3, PathLabels
  <2>6. i = PathIndex(n, k, d) => d = Depth
    BY <1>7, <2>1, <1>types DEF KEYLEAF, PUNCTURE, INTERNAL
  <2>7. Pre(b, Depth) = b
    BY <1>1, Parts
  <2> QED
    BY <1>7, <2>1, <2>2, <2>4, <2>5, <2>6, <2>7
<1>8. \A i \in 0 .. Grown(n, k) - 1 : i \in 0 .. n - 1 \/ i \in n .. Grown(n, k) - 1
  BY <1>1, <1>2
<1> QED
  BY <1>4, <1>5, <1>6, <1>7, <1>8 DEF EndsOK

\* What a puncture leaves is a tree.
LEMMA SplitTree ==
  ASSUME NEW p, NEW n, NEW P, NEW L, NEW t \in Tags, NEW b, b = TagBits(t), NEW f, NEW k,
         NEW R, R = P \cup {t},
         Splits(p, n, P, L, b, f, k), NEW q, SplitInto(q, p, n, b, f, k)
  PROVE  TreeOK(q, Grown(n, k), R, NewLabels(n, L, b, k))
<1>1. PICK M : M = NewLabels(n, L, b, k)
  OBVIOUS
<1>2. /\ n \in Nat \ {0} /\ k \in 0 .. Depth /\ b \in Bits /\ f \in 0 .. n - 1 /\ Depth \in Nat
      /\ k \in Nat /\ L[f] = Pre(b, k) /\ P \subseteq Tags /\ GoneOK(p, n, P, L)
  BY DepthAssumption DEF Splits, TreeOK, LabelsOK
<1>3. Grown(n, k) \in Nat /\ n <= Grown(n, k) /\ \A i \in 0 .. n - 1 : M[i] = L[i]
  BY <1>1, <1>2, Indices, NewLabelsAre
<1>types. /\ q[f].type = IF k = Depth THEN PUNCTURE ELSE INTERNAL
          /\ \A d \in k + 1 .. Depth :
               /\ q[PathIndex(n, k, d)].type = IF d = Depth THEN PUNCTURE ELSE INTERNAL
               /\ q[PathIndex(n, k, d) - 1].type = KEYLEAF
          /\ \A i \in 0 .. n - 1 : i # f => q[i] = p[i]
  <2>1. SplitTypes(q, p, n, f, k)
    BY <1>1, SplitNodes
  <2> QED
    BY <2>1 DEF SplitTypes
<1>nodes. \A i \in 0 .. Grown(n, k) - 1 : NodeOK(q, Grown(n, k), R, M, i)
  <2>1. P \subseteq R /\ t \in R
    OBVIOUS
  <2>2. \A S : P \subseteq S /\ t \in S =>
          \A i \in 0 .. Grown(n, k) - 1 : NodeOK(q, Grown(n, k), S, M, i)
    BY <1>1, SplitNodes
  <2> QED
    BY <2>1, <2>2
<1>4. ASSUME NEW u \in P
      PROVE  \E i \in 0 .. Grown(n, k) - 1 : q[i].type = PUNCTURE /\ M[i] = TagBits(u)
  <2>1. PICK i \in 0 .. n - 1 : p[i].type = PUNCTURE /\ L[i] = TagBits(u)
    BY <1>2 DEF GoneOK
  <2>2. i = f => k = Depth
    <3>1. Len(TagBits(u)) = Depth /\ Len(Pre(b, k)) = k
      BY <1>2, BitsOf, Parts
    <3> QED
      BY <1>2, <2>1, <3>1
  <2>3. q[i].type = PUNCTURE
    BY <1>types, <2>1, <2>2
  <2>4. i \in 0 .. Grown(n, k) - 1
    BY <1>2, <1>3
  <2> QED
    BY <1>3, <2>1, <2>3, <2>4
<1>5. \E i \in 0 .. Grown(n, k) - 1 : q[i].type = PUNCTURE /\ M[i] = TagBits(t)
  <2>1. Pre(b, Depth) = b
    BY <1>2, Parts
  <2>2. CASE k = Depth
    <3>1. q[f].type = PUNCTURE /\ M[f] = b /\ f \in 0 .. Grown(n, k) - 1
      BY <1>types, <1>2, <1>3, <2>1, <2>2
    <3> QED
      BY <3>1
  <2>3. CASE k # Depth
    <3>1. Depth \in k + 1 .. Depth
      BY <1>2, <2>3
    <3>2. PICK i : i = PathIndex(n, k, Depth)
      OBVIOUS
    <3>3. i \in 0 .. Grown(n, k) - 1
      BY <1>2, <1>3, <3>1, <3>2, Indices
    <3>4. q[i].type = PUNCTURE /\ M[i] = b
      BY <1>1, <1>2, <1>types, <2>1, <3>1, <3>2, NewLabelsAre
    <3> QED
      BY <3>3, <3>4
  <2> QED
    BY <2>2, <2>3
<1>6. GoneOK(q, Grown(n, k), R, M)
  BY <1>4, <1>5 DEF GoneOK
<1>7. LabelsOK(Grown(n, k), M) /\ EndsOK(q, Grown(n, k), M) /\ ArrayOK(q, Grown(n, k))
  BY <1>1, LabelsGrow, SplitEnds, SplitArray
<1> QED
  BY <1>1, <1>2, <1>nodes, <1>6, <1>7 DEF TreeOK

-----------------------------------------------------------------------------
(* The key over its life.                                                  *)

\* There is a root, and a zeroed node is a keynode without a key.
LEMMA ZeroOK ==
  MaxNodes \in Nat \ {0} /\ ZeroNode \in Keynode(MaxNodes) /\ ZeroNode.key = NoKey
<1>1. MaxNodes \in Nat \ {0}
  <2>1. Pow2[Depth + 1] = 2 * Pow2[Depth] /\ Pow2[Depth] \in Nat \ {0}
    BY DepthAssumption, Pow2Type
  <2> QED
    BY <2>1 DEF MaxNodes
<1>2. 0 \in 0 .. MaxNodes - 1
  BY <1>1
<1> QED
  BY <1>1, <1>2 DEF Keynode, ZeroNode

\* The root's label.
LEMMA RootLabel == <<>> \in Labels /\ Len(<<>>) = 0
<1>1. <<>> \in [1 .. 0 -> Bit] /\ 0 \in 0 .. Depth
  BY EmptySeq, LenProperties, DepthAssumption
<1> QED
  BY <1>1, LabelIs

\* What init_master_key leaves (pprf-tree.c:42-49).
LEMMA InitIs ==
  ASSUME NEW p, p = InitMasterKey(MaxNodes)
  PROVE  /\ p \in [0 .. MaxNodes - 1 -> Keynode(MaxNodes)]
         /\ p[0].type = KEYLEAF /\ p[0].key = <<>>
         /\ \A i \in 1 .. MaxNodes - 1 : p[i].key = NoKey
<1>1. PICK z \in Keynode(MaxNodes) : z = ZeroNode /\ z.key = NoKey
  BY ZeroOK
<1>2. PICK r : r = [z EXCEPT !.type = KEYLEAF, !.key = <<>>]
  OBVIOUS
<1>3. r \in Keynode(MaxNodes) /\ r.type = KEYLEAF /\ r.key = <<>>
  BY <1>2, RootLabel DEF Keynode
<1>4. p = [i \in 0 .. MaxNodes - 1 |-> IF i = 0 THEN r ELSE z]
  BY <1>1, <1>2 DEF InitMasterKey
<1> QED
  BY <1>1, <1>3, <1>4, ZeroOK

\* A fresh key: the root alone, whatever keyless nodes the array has beyond it.
LEMMA RootTree ==
  ASSUME NEW p \in [0 .. MaxNodes - 1 -> Keynode(MaxNodes)],
         p[0].type = KEYLEAF, p[0].key = <<>>,
         \A i \in 1 .. MaxNodes - 1 : p[i].key = NoKey,
         NEW L, L = [i \in 0 .. 0 |-> <<>>]
  PROVE  TreeOK(p, 1, {}, L)
<1>1. LabelsOK(1, L)
  BY RootLabel DEF LabelsOK
<1>2. ArrayOK(p, 1)
  BY ZeroOK DEF ArrayOK
<1>3. EndsOK(p, 1, L)
  BY DEF EndsOK
<1>4. NodeOK(p, 1, {}, L, 0)
  BY RootLabel DEF NodeOK, INTERNAL, KEYLEAF, PUNCTURE
<1> QED
  BY <1>1, <1>2, <1>3, <1>4 DEF TreeOK, GoneOK

\* What a puncture does: it splits the node that is found.
LEMMA Punctures ==
  ASSUME NEW p, NEW n, NEW P, NEW L, TreeOK(p, n, P, L), NEW t \in Tags,
         NEW R, R = P \cup {t}
  PROVE  \E f \in 0 .. n - 1, k \in 0 .. Depth :
           /\ FindKey(p, TagBits(t)) = [at |-> f, depth |-> k]
           /\ Splits(p, n, P, L, TagBits(t), f, k)
           /\ p[f].type = PUNCTURE => k = Depth
           /\ Puncture(p, n, t).code = f /\ Puncture(p, n, t).size = Grown(n, k)
           /\ SplitInto(Puncture(p, n, t).pprf, p, n, TagBits(t), f, k)
           /\ TreeOK(Puncture(p, n, t).pprf, Grown(n, k), R, NewLabels(n, L, TagBits(t), k))
<1>1. PICK b : b = TagBits(t)
  OBVIOUS
<1>2. b \in Bits
  BY <1>1, BitsOf
<1>3. PICK f \in 0 .. n - 1, k \in 0 .. Depth :
        /\ FindKey(p, b) = [at |-> f, depth |-> k] /\ L[f] = Pre(b, k)
        /\ p[f].type = KEYLEAF \/ (p[f].type = PUNCTURE /\ k = Depth)
  BY <1>2, Finds
<1>4. Splits(p, n, P, L, b, f, k) /\ (p[f].type = PUNCTURE => k = Depth)
  BY <1>2, <1>3 DEF Splits, INTERNAL, KEYLEAF, PUNCTURE
<1>5. /\ Puncture(p, n, t).code = f /\ Puncture(p, n, t).size = Grown(n, k)
      /\ SplitInto(Puncture(p, n, t).pprf, p, n, b, f, k)
  BY <1>1, <1>3, <1>4, PunctureIs
<1>6. PICK q : q = Puncture(p, n, t).pprf
  OBVIOUS
<1>7. TreeOK(q, Grown(n, k), R, NewLabels(n, L, b, k))
  BY <1>1, <1>4, <1>5, <1>6, SplitTree
<1> QED
  BY <1>1, <1>3, <1>4, <1>5, <1>6, <1>7

\* A new key is a tree.
LEMMA FreshTree == Init => TreeInv
<1> SUFFICES ASSUME Init PROVE TreeInv
  OBVIOUS
<1>1. PICK L : L = [i \in 0 .. 0 |-> <<>>]
  OBVIOUS
<1>2. TreeOK(pprf, size, punctured, L)
  BY <1>1, InitIs, RootTree DEF Init
<1> QED
  BY <1>2 DEF TreeInv

\* What puncture_at_tag does to a key that is a tree.
LEMMA Step ==
  ASSUME NEW L, TreeOK(pprf, size, punctured, L), NEW t \in Tags, PunctureAtTag(t)
  PROVE  \E f \in 0 .. size - 1, k \in 0 .. Depth :
           /\ FindKey(pprf, TagBits(t)) = [at |-> f, depth |-> k]
           /\ Splits(pprf, size, punctured, L, TagBits(t), f, k)
           /\ pprf[f].type = PUNCTURE => k = Depth
           /\ size' = Grown(size, k) /\ punctured' = punctured \cup {t}
           /\ SplitInto(pprf', pprf, size, TagBits(t), f, k)
           /\ TreeOK(pprf', size', punctured', NewLabels(size, L, TagBits(t), k))
BY Punctures DEF PunctureAtTag

\* A puncture leaves a tree.
LEMMA TreeStep == TreeInv /\ [Next]_vars => TreeInv'
<1> SUFFICES ASSUME TreeInv, [Next]_vars PROVE TreeInv'
  OBVIOUS
<1>1. CASE Next
  <2>1. PICK t \in Tags : PunctureAtTag(t)
    BY <1>1 DEF Next
  <2>2. PICK L : TreeOK(pprf, size, punctured, L)
    BY DEF TreeInv
  <2>3. \E M : TreeOK(pprf', size', punctured', M)
    BY <2>1, <2>2, Step
  <2> QED
    BY <2>3 DEF TreeInv
<1>2. CASE UNCHANGED vars
  BY <1>2 DEF vars, TreeInv
<1> QED
  BY <1>1, <1>2

\* The key is a tree whatever is punctured, in whatever order: the base of all
\* that follows (puncture, pprf-tree.c:112-158).
THEOREM TreeInvariant == Spec => []TreeInv
BY FreshTree, TreeStep, PTL DEF Spec

\* The array keeps its type and never has more nodes in use than a full tree:
\* puncture (pprf-tree.c:127-154) writes the two nodes at *pprf_size without looking at
\* the array's end.
THEOREM TypeCorrect == Spec => []TypeOK
<1>1. TreeInv => TypeOK
  BY DEF TreeInv, TreeOK, ArrayOK, TypeOK
<1> QED
  BY <1>1, TreeInvariant, PTL

\* Whatever has been punctured, evaluate_at_tag (pprf-tree.c:100-105) still returns 0 and
\* the value it returned at first for every other tag.
THEOREM OthersUnchanged == Spec => []UnpuncturedUnchanged
<1>1. TreeInv => UnpuncturedUnchanged
  BY Evaluates DEF TreeInv, UnpuncturedUnchanged
<1> QED
  BY <1>1, TreeInvariant, PTL

\* No key bytes in the array, in a live node, an interior one or beyond its end,
\* are an ancestor of a punctured tag: puncture zeroes the key it splits and stores
\* siblings only (pprf-tree.c:123-139).
THEOREM PuncturedStaysGone == Spec => []PuncturedGone
<1>1. TreeInv => PuncturedGone
  BY LiveIs DEF TreeInv, PuncturedGone
<1> QED
  BY <1>1, TreeInvariant, PTL

\* A tag that has been punctured is found as the punctured node it is.
LEMMA FindsPunctured ==
  ASSUME NEW p, NEW n, NEW P, NEW L, TreeOK(p, n, P, L), NEW t \in P,
         NEW f, NEW k, Splits(p, n, P, L, TagBits(t), f, k)
  PROVE  k = Depth
<1>1. PICK j \in 0 .. n - 1 : p[j].type = PUNCTURE /\ L[j] = TagBits(t)
  BY DEF TreeOK, GoneOK
<1>2. PICK b \in Bits : b = TagBits(t)
  BY BitsOf DEF TreeOK
<1>3. f \in 0 .. n - 1 /\ k \in 0 .. Depth /\ L[f] = Pre(b, k) /\ p[f].type # INTERNAL
  BY <1>2 DEF Splits
<1>4. Above(L[f], L[j])
  <2>1. Len(Pre(b, k)) = k /\ Len(b) = Depth
    BY <1>2, <1>3, Parts
  <2>2. k <= Depth /\ \A i \in 1 .. k : Pre(b, k)[i] = b[i]
    BY <1>3, DepthAssumption DEF Pre
  <2> QED
    BY <1>1, <1>2, <1>3, <2>1, <2>2 DEF Above
<1>5. f = j
  BY <1>3, <1>4 DEF TreeOK, EndsOK
<1>6. Len(Pre(b, k)) = k /\ Len(b) = Depth
  BY <1>2, <1>3, Parts
<1> QED
  BY <1>1, <1>2, <1>3, <1>5, <1>6

\* How much the key has grown.
Bounded == IsFiniteSet(punctured) /\ size <= 1 + 2 * Depth * Cardinality(punctured)

\* A puncture appends 2 * Depth nodes at most, and none when the tag was punctured before,
\* so that the key stays within the room that persist_unlink looks for
\* (dm-holepunch-main.c:1668) and within a full tree.
THEOREM SizeIsBounded == Spec => []SizeBound
<1>1. Init => Bounded
  <2>1. IsFiniteSet({}) /\ Cardinality({}) = 0
    BY FS_EmptySet
  <2> QED
    BY <2>1, DepthAssumption DEF Init, Bounded
<1>2. TreeInv /\ Bounded /\ [Next]_vars => Bounded'
  <2> SUFFICES ASSUME TreeInv, Bounded, [Next]_vars PROVE Bounded'
    OBVIOUS
  <2>1. CASE Next
    <3>1. PICK t \in Tags : PunctureAtTag(t)
      BY <2>1 DEF Next
    <3>2. PICK L : TreeOK(pprf, size, punctured, L)
      BY DEF TreeInv
    <3>3. PICK f \in 0 .. size - 1, k \in 0 .. Depth :
            /\ Splits(pprf, size, punctured, L, TagBits(t), f, k)
            /\ size' = Grown(size, k) /\ punctured' = punctured \cup {t}
      BY <3>1, <3>2, Step
    <3>4. size \in Nat \ {0} /\ Depth \in Nat \ {0}
      BY <3>2, DepthAssumption DEF TreeOK, LabelsOK
    <3>5. size' \in Nat /\ size' <= size + 2 * Depth /\ (k = Depth => size' = size)
      BY <3>3, <3>4, Indices
    <3>6. PICK c \in Nat : c = Cardinality(punctured)
      BY FS_CardinalityType DEF Bounded
    <3>7. CASE t \in punctured
      <4>1. k = Depth
        BY <3>2, <3>3, <3>7, FindsPunctured
      <4>2. punctured' = punctured
        BY <3>3, <3>7
      <4> QED
        BY <3>5, <4>1, <4>2 DEF Bounded
    <3>8. CASE t \notin punctured
      <4>1. IsFiniteSet(punctured') /\ Cardinality(punctured') = c + 1
        BY <3>3, <3>6, <3>8, FS_AddElement DEF Bounded
      <4>2. 2 * Depth * (c + 1) = 2 * Depth * c + 2 * Depth
        BY <3>4
      <4>3. 2 * Depth * c \in Int
        BY <3>4
      <4> QED
        BY <3>4, <3>5, <3>6, <4>1, <4>2, <4>3 DEF Bounded
    <3> QED
      BY <3>7, <3>8
  <2>2. CASE UNCHANGED vars
    BY <2>2 DEF vars, Bounded
  <2> QED
    BY <2>1, <2>2
<1>3. TreeInv /\ Bounded => SizeBound
  BY DEF TreeInv, TreeOK, ArrayOK, Bounded, SizeBound
<1> QED
  BY <1>1, <1>2, <1>3, TreeInvariant, PTL DEF Spec

\* Of the nodes in use a puncture changes the one whose index it returns and no
\* other (pprf-tree.c:107-111, 126): what persist_unlink writes back rests on it.
THEOREM OneNodeChanges == Spec => OnlyReturnedNodeChanges
<1> DEFINE Only == \A t \in Tags : punctured' = punctured \cup {t} /\ t \notin punctured =>
                     \A i \in 0 .. size - 1 :
                       pprf'[i] # pprf[i] => i = FindKey(pprf, TagBits(t)).at
<1>1. TreeInv /\ [Next]_vars => [Only]_vars
  <2> SUFFICES ASSUME TreeInv, Next PROVE Only
    OBVIOUS
  <2>1. PICK u \in Tags : PunctureAtTag(u)
    BY DEF Next
  <2>2. PICK L : TreeOK(pprf, size, punctured, L)
    BY DEF TreeInv
  <2>3. PICK f \in 0 .. size - 1, k \in 0 .. Depth :
          /\ FindKey(pprf, TagBits(u)) = [at |-> f, depth |-> k]
          /\ punctured' = punctured \cup {u}
          /\ SplitInto(pprf', pprf, size, TagBits(u), f, k)
    BY <2>1, <2>2, Step
  <2>4. ASSUME NEW i \in 0 .. size - 1, pprf'[i] # pprf[i]
        PROVE  i = FindKey(pprf, TagBits(u)).at
    <3>1. size \in Nat /\ Grown(size, k) \in Nat
      BY <2>2, Indices DEF TreeOK, LabelsOK
    <3>2. i \in 0 .. MaxNodes - 1 /\ i \notin size .. Grown(size, k) - 1
      BY <2>2, <3>1, NodeType DEF TreeOK
    <3>3. i = f
      BY <2>3, <2>4, <3>2 DEF SplitInto
    <3> QED
      BY <2>3, <3>3
  <2>5. ASSUME NEW t \in Tags, punctured' = punctured \cup {t}, t \notin punctured PROVE t = u
    BY <2>3, <2>5
  <2> QED
    BY <2>4, <2>5
<1>2. [][Next]_vars /\ []TreeInv => [][Only]_vars
  BY <1>1, PTL
<1> QED
  BY <1>2, TreeInvariant, PTL DEF Spec, OnlyReturnedNodeChanges

\* The array implements the puncturable PRF: a puncture takes its tag out of reach
\* and no other, at any depth (puncture_at_tag, pprf-tree.c:160-165).
THEOREM KeyImplementsPPRF == Spec => ImplementsPPRF
<1> DEFINE Live == Derivable(pprf, {i \in 0 .. size - 1 : pprf[i].type = KEYLEAF})
<1>1. TreeInv => Live = Tags \ punctured
  BY LiveIs DEF TreeInv, Leaves
<1>2. TreeInv' => Live' = Tags \ punctured'
  BY LiveIs DEF TreeInv, Leaves
<1>3. Init => Abstract!Init
  <2>1. Init => punctured = {}
    BY DEF Init
  <2> QED
    BY <1>1, <2>1, FreshTree DEF Abstract!Init
<1>4. TreeInv /\ [Next]_vars => [Abstract!Next]_Live
  <2> SUFFICES ASSUME TreeInv, [Next]_vars PROVE [Abstract!Next]_Live
    OBVIOUS
  <2>1. Live = Tags \ punctured /\ Live' = Tags \ punctured'
    <3>1. TreeInv'
      BY TreeStep
    <3> QED
      BY <1>1, <1>2, <3>1
  <2>2. CASE Next
    <3>1. PICK t \in Tags : PunctureAtTag(t)
      BY <2>2 DEF Next
    <3>2. Live' = Live \ {t}
      BY <2>1, <3>1 DEF PunctureAtTag
    <3> QED
      BY <3>1, <3>2 DEF Abstract!Next, Abstract!Puncture
  <2>3. CASE UNCHANGED vars
    BY <2>1, <2>3 DEF vars
  <2> QED
    BY <2>2, <2>3
<1> QED
  BY <1>3, <1>4, TreeInvariant, PTL DEF Spec, ImplementsPPRF, Abstract!Spec

-----------------------------------------------------------------------------
(* The key as persist_unlink writes it.                                    *)

\* No key is on the disk that is not in memory, in the same node.
DiskInv ==
  /\ disk \in [0 .. MaxNodes - 1 -> Keynode(MaxNodes)]
  /\ \A i \in 0 .. MaxNodes - 1 : disk[i].key # NoKey => disk[i].key = pprf[i].key

\* A renewal leaves a root, and no key of an earlier one (do_pprf_rotation,
\* dm-holepunch-main.c:1101-1107).
LEMMA RenewStep == TreeInv /\ DiskInv /\ Renew => TreeInv' /\ DiskInv'
<1> SUFFICES ASSUME TreeInv, DiskInv, Renew PROVE TreeInv' /\ DiskInv'
  OBVIOUS
<1>1. PICK L : TreeOK(pprf, size, punctured, L)
  BY DEF TreeInv
<1>2. /\ pprf \in [0 .. MaxNodes - 1 -> Keynode(MaxNodes)] /\ MaxNodes \in Nat \ {0}
      /\ PerSector \in Nat \ {0}
  BY <1>1, ZeroOK, StoreAssumption DEF TreeOK, ArrayOK
<1>3. PICK fresh : fresh = InitMasterKey(MaxNodes)
  OBVIOUS
<1>4. /\ fresh \in [0 .. MaxNodes - 1 -> Keynode(MaxNodes)]
      /\ fresh[0].type = KEYLEAF /\ fresh[0].key = <<>>
      /\ \A i \in 1 .. MaxNodes - 1 : fresh[i].key = NoKey
  BY <1>3, InitIs
<1>5. /\ pprf' = [i \in 0 .. MaxNodes - 1 |-> IF i < PerSector THEN fresh[i]
                                               ELSE [pprf[i] EXCEPT !.key = NoKey]]
      /\ disk' = [i \in 0 .. MaxNodes - 1 |-> IF i < PerSector THEN fresh[i]
                                               ELSE [disk[i] EXCEPT !.key = NoKey]]
  <2>1. /\ Stale(pprf) = [i \in 0 .. MaxNodes - 1 |-> [pprf[i] EXCEPT !.key = NoKey]]
        /\ Stale(disk) = [i \in 0 .. MaxNodes - 1 |-> [disk[i] EXCEPT !.key = NoKey]]
    BY <1>2 DEF Stale, DiskInv
  <2>2. pprf' = Renewed(pprf) /\ disk' = Renewed(disk)
    BY DEF Renew
  <2> QED
    BY <1>2, <1>3, <2>1, <2>2 DEF Renewed, DiskInv
<1>6. ASSUME NEW d \in [0 .. MaxNodes - 1 -> Keynode(MaxNodes)], NEW i \in 0 .. MaxNodes - 1
      PROVE  /\ [d[i] EXCEPT !.key = NoKey] \in Keynode(MaxNodes)
             /\ [d[i] EXCEPT !.key = NoKey].key = NoKey
  <2>1. d[i] \in Keynode(MaxNodes)
    OBVIOUS
  <2> QED
    BY <2>1 DEF Keynode
<1>7. TreeInv'
  <2>1. PICK p : p = pprf'
    OBVIOUS
  <2>2. p \in [0 .. MaxNodes - 1 -> Keynode(MaxNodes)]
    BY <1>2, <1>4, <1>5, <1>6, <2>1
  <2>3. p[0].type = KEYLEAF /\ p[0].key = <<>> /\ \A i \in 1 .. MaxNodes - 1 : p[i].key = NoKey
    BY <1>2, <1>4, <1>5, <1>6, <2>1
  <2>4. PICK M : M = [i \in 0 .. 0 |-> <<>>]
    OBVIOUS
  <2>5. TreeOK(p, 1, {}, M)
    BY <2>2, <2>3, <2>4, RootTree
  <2> QED
    BY <2>1, <2>5 DEF TreeInv, Renew
<1>8. disk' \in [0 .. MaxNodes - 1 -> Keynode(MaxNodes)]
  BY <1>2, <1>4, <1>5, <1>6 DEF DiskInv
<1>9. ASSUME NEW i \in 0 .. MaxNodes - 1, disk'[i].key # NoKey
      PROVE  disk'[i].key = pprf'[i].key
  <2>1. CASE i < PerSector
    BY <1>5, <2>1
  <2>2. CASE ~(i < PerSector)
    BY <1>5, <1>6, <1>9, <2>2 DEF DiskInv
  <2> QED
    BY <2>1, <2>2
<1> QED
  BY <1>7, <1>8, <1>9 DEF DiskInv

\* The node that was split is among what is written, the others have not changed.
LEMMA PersistStep ==
  ASSUME TreeInv, DiskInv, NEW t \in Tags, Persist(t) PROVE DiskInv'
<1>1. PICK L : TreeOK(pprf, size, punctured, L)
  BY DEF TreeInv
<1>2. PICK f \in 0 .. size - 1, k \in 0 .. Depth :
        /\ FindKey(pprf, TagBits(t)) = [at |-> f, depth |-> k]
        /\ SplitInto(pprf', pprf, size, TagBits(t), f, k)
        /\ TreeOK(pprf', size', punctured', NewLabels(size, L, TagBits(t), k))
  BY <1>1, Step DEF Persist
<1>3. PICK S : S = Written(f, size, size') /\ WriteSectors(S)
  BY <1>2 DEF Persist
<1>4. f \div PerSector \in S
  BY <1>3 DEF Written, Sectors
<1>5. disk' \in [0 .. MaxNodes - 1 -> Keynode(MaxNodes)]
  <2>1. pprf' \in [0 .. MaxNodes - 1 -> Keynode(MaxNodes)]
    BY <1>2 DEF TreeOK, ArrayOK
  <2> QED
    BY <1>3, <2>1 DEF DiskInv, WriteSectors
<1>6. ASSUME NEW i \in 0 .. MaxNodes - 1, disk'[i].key # NoKey PROVE disk'[i].key = pprf'[i].key
  <2>1. disk'[i] = IF i \div PerSector \in S THEN pprf'[i] ELSE disk[i]
    BY <1>3 DEF DiskInv, WriteSectors
  <2>2. CASE i \div PerSector \in S
    BY <2>1, <2>2
  <2>3. CASE i \div PerSector \notin S
    <3>1. i # f /\ disk'[i] = disk[i] /\ disk[i].key = pprf[i].key /\ pprf[i].key # NoKey
      BY <1>4, <1>6, <2>1, <2>3 DEF DiskInv
    <3>2. i \in 0 .. size - 1
      BY <1>1, <3>1, KeysAreLeaves
    <3>3. size \in Nat /\ Grown(size, k) \in Nat
      BY <1>1, Indices DEF TreeOK, LabelsOK
    <3>4. i \notin size .. Grown(size, k) - 1
      BY <3>2, <3>3
    <3>5. \A j \in 0 .. MaxNodes - 1 :
            j # f /\ j \notin size .. Grown(size, k) - 1 => pprf'[j] = pprf[j]
      BY <1>2, Zenon DEF SplitInto
    <3>6. pprf'[i] = pprf[i]
      BY <3>1, <3>4, <3>5
    <3> QED
      BY <3>1, <3>6
  <2> QED
    BY <2>2, <2>3
<1> QED
  BY <1>5, <1>6 DEF DiskInv

\* Every step of the key on the disk.
LEMMA StoreStep == TreeInv /\ DiskInv /\ [StoreNext]_storeVars => TreeInv' /\ DiskInv'
<1> SUFFICES ASSUME TreeInv, DiskInv, [StoreNext]_storeVars PROVE TreeInv' /\ DiskInv'
  OBVIOUS
<1>1. CASE Renew
  BY <1>1, RenewStep
<1>2. ASSUME NEW t \in Tags, PersistUnlink(t) PROVE TreeInv' /\ DiskInv'
  <2>1. Persist(t) /\ Next
    BY <1>2 DEF PersistUnlink, Persist, Next
  <2> QED
    BY <2>1, PersistStep, TreeStep
<1>3. CASE UNCHANGED storeVars
  BY <1>3, TreeStep DEF storeVars, vars, DiskInv
<1> QED
  BY <1>1, <1>2, <1>3 DEF StoreNext

\* The key in memory is a tree and the disk has no key that memory has not, through any
\* punctures and renewals (persist_unlink, dm-holepunch-main.c:1655-1750).
THEOREM StoreInvariant == StoreSpec => [](TreeInv /\ DiskInv)
<1>1. StoreInit => TreeInv /\ DiskInv
  <2>1. Init => pprf \in [0 .. MaxNodes - 1 -> Keynode(MaxNodes)]
    BY InitIs DEF Init
  <2> QED
    BY <2>1, FreshTree DEF StoreInit, DiskInv
<1> QED
  BY <1>1, StoreStep, PTL DEF StoreSpec

\* The nodes read_pprf reads back from the disk hold no ancestor of a punctured tag, the
\* appended ones that were not written and the stale ones of an earlier key included
\* (dm-holepunch-main.c:603-606, 1101-1107, 1731-1750).  Of the bytes a sector ends with
\* it says nothing: those do hold one, once the key is of more than one sector.
THEOREM DiskRecoversNoPunctured == StoreSpec => []DiskPuncturedGone
<1>1. TreeInv /\ DiskInv => DiskPuncturedGone
  <2> SUFFICES ASSUME TreeInv, DiskInv PROVE DiskPuncturedGone
    OBVIOUS
  <2>1. PICK L : TreeOK(pprf, size, punctured, L)
    BY DEF TreeInv
  <2>2. ASSUME NEW i \in DOMAIN disk, disk[i].key # NoKey, NEW t \in punctured,
               IsPrefixOf(disk[i].key, TagBits(t))
        PROVE  FALSE
    BY <2>1, <2>2, NothingAbove DEF DiskInv
  <2> QED
    BY <2>2 DEF DiskPuncturedGone, Derivable
<1> QED
  BY <1>1, StoreInvariant, PTL

\* The bytes a sector ends with hold no key as long as the nodes in use fit in one.
TailInv == size <= Capacity /\ tail = NoTail

LEMMA Beyond == \A n, m \in Nat : m <= n => n \notin 0 .. m - 1
OBVIOUS

LEMMA TailStep ==
  ASSUME Capacity <= PerSector, TreeInv, DiskInv, TailInv, [StoreNext]_storeVars PROVE TailInv'
<1>1. PerSector \in Nat \ {0} /\ Capacity \in Nat /\ Capacity >= 1 /\ Depth \in Nat
  BY StoreAssumption, DepthAssumption
<1>2. CASE Renew
  BY <1>1, <1>2 DEF Renew, TailInv, NoTail, SectorHeads
<1>3. ASSUME NEW t \in Tags, PersistUnlink(t) PROVE TailInv'
  <2>1. Persist(t) /\ Next /\ RoomLeft
    BY <1>3 DEF PersistUnlink, Persist, Next
  <2>2. PICK L : TreeOK(pprf, size, punctured, L)
    BY DEF TreeInv
  <2>3. PICK f \in 0 .. size - 1, k \in 0 .. Depth :
          /\ FindKey(pprf, TagBits(t)) = [at |-> f, depth |-> k]
          /\ SplitInto(pprf', pprf, size, TagBits(t), f, k)
          /\ size' = Grown(size, k)
          /\ TreeOK(pprf', size', punctured', NewLabels(size, L, TagBits(t), k))
    BY <2>1, <2>2, Step DEF Persist
  <2>4. PICK M : TreeOK(pprf', size', punctured', M)
    BY <2>3
  <2>5. size' <= Capacity /\ size' \in Nat
    <3>1. size \in Nat \ {0}
      BY <2>2 DEF TreeOK, LabelsOK
    <3>2. size' <= size + 2 * Depth /\ size' \in Nat
      BY <2>3, <3>1, Indices
    <3> QED
      BY <1>1, <2>1, <3>1, <3>2 DEF RoomLeft
  <2>6. ASSUME NEW n \in SectorHeads PROVE pprf'[n].key = NoKey
    <3>1. n \in 1 .. MaxNodes - 1 /\ n % PerSector = 0
      BY DEF SectorHeads
    <3>2. n \in Nat \ {0}
      BY <3>1, ZeroOK
    <3>3. n >= PerSector
      BY <1>1, <3>1, <3>2
    <3>4. size' <= PerSector
      BY <1>1, <2>5
    <3>5. size' <= n
      BY <1>1, <2>5, <3>2, <3>3, <3>4
    <3>6. n \notin 0 .. size' - 1
      BY <2>5, <3>2, <3>5, Beyond
    <3> QED
      BY <2>4, <3>1, <3>6, KeysAreLeaves
  <2>7. tail' = [n \in SectorHeads |-> NoKey]
    <3>1. PICK S : WriteSectors(S)
      BY <2>1 DEF Persist
    <3>2. tail = [n \in SectorHeads |-> NoKey]
      BY DEF TailInv, NoTail
    <3> QED
      BY <2>6, <3>1, <3>2 DEF WriteSectors
  <2> QED
    BY <2>5, <2>7 DEF TailInv, NoTail, SectorHeads
<1>4. CASE UNCHANGED storeVars
  BY <1>4 DEF storeVars, vars, TailInv, NoTail, SectorHeads
<1> QED
  BY <1>2, <1>3, <1>4 DEF StoreNext

\* As long as the capacity of the PPRF key is within one sector, whole sectors hold no
\* ancestor of a punctured tag: no node in use is the next one after the sector's last
\* (dm-holepunch-main.c:1620-1650).
THEOREM OneSectorRecoversNoPunctured ==
  ASSUME Capacity <= PerSector PROVE StoreSpec => [](DiskPuncturedGone /\ TailsPuncturedGone)
<1>1. StoreInit => TailInv
  BY StoreAssumption, DepthAssumption DEF StoreInit, Init, TailInv
<1>2. TreeInv /\ DiskInv /\ TailInv /\ [StoreNext]_storeVars => TailInv'
  BY TailStep
<1>3. TailInv => TailsPuncturedGone
  BY DEF TailInv, NoTail, TailsPuncturedGone
<1> QED
  BY <1>1, <1>2, <1>3, StoreInvariant, DiskRecoversNoPunctured, PTL DEF StoreSpec

\* Stored and renewed as persist_unlink does, the key still implements the puncturable
\* PRF: a renewal that clears one sector only (dm-holepunch-main.c:1101) brings back
\* every tag, and the old nodes beyond it interfere with none.
THEOREM StoreImplementsPPRF == StoreSpec => ImplementsPPRF
<1> DEFINE Live == Derivable(pprf, {i \in 0 .. size - 1 : pprf[i].type = KEYLEAF})
<1>1. TreeInv => Live = Tags \ punctured
  BY LiveIs DEF TreeInv, Leaves
<1>2. TreeInv' => Live' = Tags \ punctured'
  BY LiveIs DEF TreeInv, Leaves
<1>3. StoreInit => Abstract!Init
  <2>1. StoreInit => Init /\ punctured = {}
    BY DEF StoreInit, Init
  <2> QED
    BY <1>1, <2>1, FreshTree DEF Abstract!Init
<1>4. TreeInv /\ DiskInv /\ [StoreNext]_storeVars => [Abstract!Next]_Live
  <2> SUFFICES ASSUME TreeInv, DiskInv, [StoreNext]_storeVars PROVE [Abstract!Next]_Live
    OBVIOUS
  <2>1. Live = Tags \ punctured /\ Live' = Tags \ punctured'
    BY <1>1, <1>2, StoreStep
  <2>2. CASE Renew
    <3>1. Live' = Tags
      BY <2>1, <2>2 DEF Renew
    <3> QED
      BY <3>1 DEF Abstract!Next, Abstract!Renew
  <2>3. ASSUME NEW t \in Tags, PersistUnlink(t) PROVE Abstract!Next
    <3>1. Live' = Live \ {t}
      BY <2>1, <2>3 DEF PersistUnlink, Persist, PunctureAtTag
    <3> QED
      BY <3>1 DEF Abstract!Next, Abstract!Puncture
  <2>4. CASE UNCHANGED storeVars
    BY <2>1, <2>4 DEF storeVars, vars
  <2> QED
    BY <2>2, <2>3, <2>4 DEF StoreNext
<1> QED
  BY <1>3, <1>4, StoreInvariant, PTL DEF StoreSpec, ImplementsPPRF, Abstract!Spec
=============================================================================
