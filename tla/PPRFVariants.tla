----------------------------- MODULE PPRFVariants -----------------------------
(***************************************************************************)
(* The prototypes of the puncturable PRF, next to the kernel's: a tree     *)
(* whose links tell a node's type (ggm_prf/pprf-tree.c), an array of       *)
(* labelled keys (ggm_prf/pprf.c) and a list of tuples (pprf.py).  All of  *)
(* them, and the key on the disk, take the same calls in lock-step: any    *)
(* tag, also one punctured before, whether or not the capacity is there.   *)
(***************************************************************************)
EXTENDS PPRFStore

VARIABLES
  tree,      \* pprf_base of pprf-tree.c
  arr,       \* master_key of pprf.c
  py,        \* self.key of pprf.py
  scrambled  \* whether pprf.py has put a tuple back in the wrong place

allVars == <<storeVars, tree, arr, py, scrambled>>

-----------------------------------------------------------------------------
(* ggm_prf/pprf-tree.c: il = 0 is a leaf, il = -1 a punctured subtree.     *)

PUNCTURED == -1
TreeLeaf == [key |-> NoKey, il |-> 0, ir |-> 0]
TreeInit == [i \in 0 .. MaxNodes - 1 |-> IF i = 0 THEN [TreeLeaf EXCEPT !.key = <<>>] ELSE TreeLeaf]

\* The node at each depth, as long as the links lead on.
ChildAt(t, bits, i, d) == IF bits[d + 1] = 1 THEN t[i].ir ELSE t[i].il
TreeAt(t, bits) ==
  LET at[d \in 0 .. Depth] == IF d = 0 THEN 0 ELSE ChildAt(t, bits, at[d - 1], d - 1)
  IN  at

\* find_key: the node, its depth, and what it leaves in *index, which the
\* return after the loop does not bring up to date.
TreeFind(t, bits) ==
  LET at == TreeAt(t, bits)
      leaf == {d \in 0 .. Depth - 1 :
                 /\ ChildAt(t, bits, at[d], d) = 0
                 /\ \A c \in 0 .. d - 1 : ChildAt(t, bits, at[c], c) # 0}
  IN  IF leaf # {}
      THEN LET d == CHOOSE x \in leaf : TRUE IN [at |-> at[d], depth |-> d, index |-> at[d]]
      ELSE [at |-> IF t[at[Depth]].il = 0 THEN at[Depth] ELSE NULL,
            depth |-> Depth, index |-> at[Depth - 1]]

TreeEvaluate(t, bits) ==
  LET f == TreeFind(t, bits)
  IN  IF f.at = NULL THEN [code |-> -1, key |-> NoKey]
      ELSE [code |-> 0, key |-> t[f.at].key \o SubSeq(bits, f.depth + 1, Depth)]

\* Seeded fault: the last node of the path is left a leaf.
LinksLeafLeft(n, bits, d, count, d0) ==
  IF d = Depth THEN n
  ELSE LET base == count + 2 * (d - d0)
       IN  [n EXCEPT !.il = base + 1 - bits[d + 1], !.ir = base + bits[d + 1]]

\* The links of the path's node at depth d; the punctured leaf ends it.
Links(n, bits, d, count, d0) ==
  LET base == count + 2 * (d - d0)
  IN  IF d = Depth THEN [n EXCEPT !.il = PUNCTURED, !.ir = PUNCTURED]
      ELSE [n EXCEPT !.il = base + 1 - bits[d + 1], !.ir = base + bits[d + 1]]

\* puncture: a sibling and the next node of the path, level by level.
TreePuncture(t, count, bits) ==
  LET f == TreeFind(t, bits)
      New(i) ==
        LET d == f.depth + 1 + (i - count) \div 2
        IN  CASE i = f.at -> Links([t[i] EXCEPT !.key = NoKey], bits, f.depth, count, f.depth)
              [] i \in count .. count + 2 * (Depth - f.depth) - 1 ->
                   IF (i - count) % 2 = 0
                   THEN [key |-> t[f.at].key \o SubSeq(SiblingKey(bits, d), f.depth + 1, d),
                         il |-> 0, ir |-> 0]
                   ELSE Links(t[i], bits, d, count, f.depth)
              [] OTHER -> t[i]
  IN  IF f.at = NULL THEN t ELSE [i \in DOMAIN t |-> New(i)]

-----------------------------------------------------------------------------
(* ggm_prf/pprf.c: keys with their labels, in lexicographic order.  The    *)
(* halves of the PRG are taken the other way round.                        *)

\* compare_node_labels(a, b) <= 0.
LabelLeq(a, b) ==
  LET differ == {i \in DOMAIN a \cap DOMAIN b : a[i] # b[i]}
  IN  IF differ = {} THEN Len(a) <= Len(b)
      ELSE \E i \in differ : a[i] < b[i] /\ \A j \in differ : i <= j

Halves(path) == [d \in DOMAIN path |-> 1 - path[d]]

ArrInit == <<[lbl |-> <<>>, key |-> <<>>]>>

\* find_pkey_index_by_prefix_linear, counting from 1; Len + 1 is "not a prefix".
FindLinear(a, bits) ==
  LET I == {i \in DOMAIN a : IsPrefixOf(a[i].lbl, bits)}
  IN  IF I = {} THEN Len(a) + 1 ELSE CHOOSE i \in I : \A j \in I : i <= j

\* The loops of find_pkey_index_by_prefix_bsearch: steps of half the length, a
\* quarter, and so on, as long as the label is not behind; 0 is in front of all.
JumpTurn(a, bits, c) ==
  IF c.step > 0 /\ c.at + c.step <= Len(a) /\ LabelLeq(a[c.at + c.step].lbl, bits)
  THEN [c EXCEPT !.at = c.at + c.step] ELSE [c EXCEPT !.step = c.step \div 2]

\* Their turns, at most twice the length of them.
Jumps(a, bits) ==
  LET jump[k \in 0 .. 2 * Len(a)] ==
        IF k = 0 THEN [at |-> 0, step |-> Len(a)] ELSE JumpTurn(a, bits, jump[k - 1])
  IN  jump
Jump(a, bits) == Jumps(a, bits)[2 * Len(a)].at

\* At 0 the code reads the key in front of the array.
Outside == 0
FindBsearch(a, bits) ==
  LET i == Jump(a, bits)
  IN  IF i = Outside \/ IsPrefixOf(a[i].lbl, bits) THEN i ELSE Len(a) + 1

ArrEvaluate(a, bits) ==
  LET i == FindLinear(a, bits)
  IN  IF i > Len(a) THEN [code |-> -1, key |-> NoKey]
      ELSE [code |-> 0, key |-> a[i].key \o Halves(SubSeq(bits, Len(a[i].lbl) + 1, Depth))]

\* The members of S, those in front first.
SortedBy(S, front) ==
  CHOOSE s \in [1 .. Cardinality(S) -> S] :
    \A i, j \in DOMAIN s : i < j => <<s[i], s[j]>> \in front

\* Seeded fault: the new keys go in as they are made, unsorted.
AsMade(S) == SortedBy(S, {p \in S \X S : Len(p[1].lbl) < Len(p[2].lbl)})

Sorted(S) == SortedBy(S, {p \in S \X S : p[1] # p[2] /\ LabelLeq(p[1].lbl, p[2].lbl)})

NeighborAt(root, bits, d) ==
  [lbl |-> SiblingKey(bits, d),
   key |-> root.key \o Halves(SubSeq(SiblingKey(bits, d), Len(root.lbl) + 1, d))]

\* Seeded fault: the loop ends one level early.
NeighborsOneShort(root, bits) ==
  {NeighborAt(root, bits, d) : d \in Len(root.lbl) + 1 .. Depth - 1}

\* The neighbours of the path below a key.
Neighbors(root, bits) == {NeighborAt(root, bits, d) : d \in Len(root.lbl) + 1 .. Depth}

\* puncture: nothing when no key covers the label, "|| r.exact" nothing either.
ArrPuncture(a, bits) ==
  LET i == FindLinear(a, bits)
  IN  IF i > Len(a) THEN a
      ELSE IF Len(a[i].lbl) = Depth THEN a
      ELSE SubSeq(a, 1, i - 1) \o Sorted(Neighbors(a[i], bits)) \o SubSeq(a, i + 1, Len(a))

-----------------------------------------------------------------------------
(* pprf.py: (prefix, depth, value), the prefix an integer.                 *)

PyInit == <<[prefix |-> 0, depth |-> 0, value |-> <<>>]>>

\* Seeded fault: bisect on the prefix alone, which stops in front of x.
BisectBefore(l, x) == Cardinality({i \in DOMAIN l : l[i].prefix < x})

\* bisect_left(self.key, (x, 2 ** domain_bits, ...)).
BisectTurn(l, x, c) ==
  LET mid == (c.lo + c.hi) \div 2
  IN  IF c.lo >= c.hi THEN c
      ELSE IF l[mid + 1].prefix <= x THEN [c EXCEPT !.lo = mid + 1] ELSE [c EXCEPT !.hi = mid]

\* Its turns, at most as many as there are tuples.
Bisects(l, x) ==
  LET bis[k \in 0 .. Len(l)] ==
        IF k = 0 THEN [lo |-> 0, hi |-> Len(l)] ELSE BisectTurn(l, x, bis[k - 1])
  IN  bis
Bisect(l, x) == Bisects(l, x)[Len(l)].lo

\* "self.key[i - 1]": the last one when i is 0.
PyFind(l, x) == IF Bisect(l, x) = 0 THEN Len(l) ELSE Bisect(l, x)

\* The check value: the prefix found and the bits of x below it.
Covers(e, x) == e.prefix + (x % Pow2[Depth - e.depth]) = x

PyEvaluate(l, x) ==
  IF l = <<>> THEN NoKey   \* IndexError
  ELSE LET e == l[PyFind(l, x)]
       IN  IF Covers(e, x) THEN e.value \o SubSeq(TagBits(x), e.depth + 1, Depth) ELSE NoKey

\* Put back by "self.key.insert(key_idx, key)"; for -1 that is before the last.
PyPutBack(l, x) ==
  LET n == Len(l)
  IN  IF Bisect(l, x) = 0 /\ n > 1 THEN SubSeq(l, 1, n - 2) \o <<l[n], l[n - 1]>>
      ELSE l

\* The first tag of the sibling's subtree at depth d of the path.
PyStart(x, d) == (x \div Pow2[Depth - d] + 1 - 2 * TagBits(x)[d]) * Pow2[Depth - d]

PyNew(e, x) ==
  {[prefix |-> PyStart(x, d), depth |-> d,
    value |-> e.value \o SubSeq(SiblingKey(TagBits(x), d), e.depth + 1, d)] : d \in e.depth + 1 .. Depth}

\* "bisect.insort(new_keys, ...)".
PySorted(S) == SortedBy(S, {p \in S \X S : p[1].prefix < p[2].prefix})

PyPuncture(l, x) ==
  IF l = <<>> THEN l
  ELSE LET k == PyFind(l, x)
       IN  IF Covers(l[k], x)
           THEN SubSeq(l, 1, k - 1) \o PySorted(PyNew(l[k], x)) \o SubSeq(l, k + 1, Len(l))
           ELSE PyPutBack(l, x)

-----------------------------------------------------------------------------
VariantsInit ==
  /\ StoreInit
  /\ tree = TreeInit /\ arr = ArrInit /\ py = PyInit /\ scrambled = FALSE

\* A list out of order is not followed further.
PunctureAll(tag) ==
  /\ Persist(tag)
  /\ tree' = TreePuncture(tree, size, TagBits(tag))
  /\ arr' = ArrPuncture(arr, TagBits(tag))
  /\ scrambled' = (scrambled \/ PyPutBack(py, tag) # py)
  /\ py' = IF scrambled' THEN PyInit ELSE PyPuncture(py, tag)

\* The prototypes start over where the kernel renews its key.
RenewAll ==
  /\ Renew
  /\ tree' = TreeInit /\ arr' = ArrInit /\ py' = PyInit /\ scrambled' = FALSE

VariantsNext == RenewAll \/ \E tag \in Tags : PunctureAll(tag)

VariantsSpec == VariantsInit /\ [][VariantsNext]_allVars

-----------------------------------------------------------------------------
\* The prototype's links say what the kernel's types say: node by node it is the
\* same tree with the same keys, and for a punctured tag its evaluation returns
\* -1 as both their comments promise.
TypeOfLinks(n) ==
  CASE n.il = 0 -> KEYLEAF [] n.il = PUNCTURED -> PUNCTURE [] OTHER -> INTERNAL
TreeAgrees ==
  /\ \A i \in 0 .. size - 1 :
       /\ TypeOfLinks(tree[i]) = pprf[i].type
       /\ pprf[i].type = KEYLEAF => tree[i].key = pprf[i].key
       /\ pprf[i].type = INTERNAL => tree[i].il = pprf[i].il /\ tree[i].ir = pprf[i].ir
  /\ \A t \in Tags : TreeEvaluate(tree, TagBits(t)) =
       IF t \in punctured THEN [code |-> -1, key |-> NoKey] ELSE [code |-> 0, key |-> TagBits(t)]

\* "Returns -1 if the tag has been punctured" (pprf.c:308-309): no tag's value is left
\* in the array once puncture has been called for it.
ArrayPuncturedReturnsError == \A t \in punctured : ArrEvaluate(arr, TagBits(t)).code = -1

\* The evaluate of the kernel (PuncturedReturnsError) and that of the array promise
\* this in the same words, and one of them at least keeps its word.  A state that
\* is not so refutes both: the kernel's does not look at the type of a leaf, and the
\* array's puncture returns early for a label that is there in full, the second of two
\* siblings.
OneReportsPunctured == PuncturedReturnsError \/ ArrayPuncturedReturnsError

\* How far the array's failure goes: it evaluates every tag left to its first value, and a
\* punctured one only where it is the second of two siblings, never both of them.
Sibling(t) == IF t % 2 = 0 THEN t + 1 ELSE t - 1
ArrayAgrees ==
  \A t \in Tags :
    LET r == ArrEvaluate(arr, TagBits(t))
    IN  /\ r.code = 0 => r.key = Halves(TagBits(t))
        /\ t \notin punctured => r.code = 0
        /\ t \in punctured /\ r.code = 0 =>
             Sibling(t) \in punctured /\ ArrEvaluate(arr, TagBits(Sibling(t))).code = -1

\* The array stays in order through splices in its middle, so that the binary
\* search finds what the linear one does; it leaves the array in front only for
\* a tag that was punctured.
SearchesAgree ==
  \A t \in Tags :
    LET b == FindBsearch(arr, TagBits(t))
    IN  IF b = Outside THEN t \in punctured ELSE b = FindLinear(arr, TagBits(t))

\* pprf.py evaluates every tag as the kernel does, as long as no tag has been
\* punctured again that is in front of all that is left: that one is put back
\* out of order, and what a search then finds is anybody's guess.
PythonAgrees ==
  ~scrambled =>
    \A t \in Tags : PyEvaluate(py, t) = IF t \in punctured THEN NoKey ELSE TagBits(t)
=============================================================================
