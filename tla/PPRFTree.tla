------------------------------ MODULE PPRFTree ------------------------------
(***************************************************************************)
(* The puncturable PRF key of the kernel module (pprf-tree.c): an array of *)
(* keynodes that lays out a GGM tree, with the traversal, evaluation and   *)
(* puncturing functions as operators on it.                                *)
(*                                                                         *)
(* Key bytes are symbolic.  The key of a GGM node is the path that leads   *)
(* to it, a sequence of bits: the root key is <<>>, and the PRG maps a key *)
(* k to the pair k \o <<0>>, k \o <<1>> (different seeds never collide).   *)
(* The PRF value of a tag is then the tag itself, and key k yields the     *)
(* value of tag t exactly when k is a prefix of t.  NoKey stands for bytes *)
(* that are no GGM key: zeroed or never written.                           *)
(***************************************************************************)
EXTENDS Integers, Sequences, FiniteSets

CONSTANTS
  Depth,   \* pprf_depth of the header
  NoKey    \* the content of a key field that holds no key

Bit == {0, 1}
Labels == UNION {[1 .. d -> Bit] : d \in 0 .. Depth}

ASSUME DepthAssumption == Depth \in Nat \ {0}
ASSUME NoKeyAssumption == NoKey \notin Labels

\* 1 << d, as far as a tree of this depth needs it.
Pow2[d \in 0 .. Depth + 1] == IF d = 0 THEN 1 ELSE 2 * Pow2[d - 1]

Tags == 0 .. Pow2[Depth] - 1

\* enum { PPRF_INTERNAL = 0, PPRF_KEYLEAF, PPRF_PUNCTURE }
INTERNAL == 0
KEYLEAF == 1
PUNCTURE == 2

\* The union of key and child indices is kept apart: setting the indices
\* overwrites only the head of the key, so what the key field held counts as
\* still there until it is cleared.
Keynode(n) == [type : {INTERNAL, KEYLEAF, PUNCTURE}, key : Labels \cup {NoKey},
               il : 0 .. n - 1, ir : 0 .. n - 1]

ZeroNode == [type |-> INTERNAL, key |-> NoKey, il |-> 0, ir |-> 0]

\* init_master_key: all of the buffer is zeroed, the root is a fresh keyleaf.
InitMasterKey(n) ==
  [i \in 0 .. n - 1 |-> IF i = 0 THEN [ZeroNode EXCEPT !.type = KEYLEAF, !.key = <<>>]
                                 ELSE ZeroNode]

\* The bits of a tag, most significant first: "tag <<= 64 - pprf_depth" drops
\* whatever of the tag does not fit in the tree.
TagBits(tag) == [d \in 1 .. Depth |-> (tag \div Pow2[Depth - d]) % 2]

-----------------------------------------------------------------------------
(* find_key.  A cursor is the index reached and the depth it was reached   *)
(* at; NULL is the null pointer.  The loop leaves at a keyleaf, or at a    *)
(* punctured node with a null cursor; it also ends when the depth reaches  *)
(* pprf_depth, whatever the type of the node there.                        *)

NULL == -1

Descend(pprf, cur, bits) ==
  CASE pprf[cur.at].type = KEYLEAF  -> cur
    [] pprf[cur.at].type = INTERNAL ->
         [at |-> IF bits[cur.depth + 1] = 1 THEN pprf[cur.at].ir ELSE pprf[cur.at].il,
          depth |-> cur.depth + 1]
    [] OTHER -> [at |-> NULL, depth |-> cur.depth]

Walk(pprf, bits) ==
  LET walk[d \in 0 .. Depth] ==
        IF d = 0 THEN [at |-> 0, depth |-> 0]
        ELSE IF walk[d - 1].depth < d - 1 \/ walk[d - 1].at = NULL THEN walk[d - 1]
        ELSE Descend(pprf, walk[d - 1], bits)
  IN  walk

FindKey(pprf, bits) == Walk(pprf, bits)[Depth]

\* evaluate_at_tag: the return code and the key it leaves in the caller's buffer.
Evaluate(pprf, tag) ==
  LET bits  == TagBits(tag)
      found == FindKey(pprf, bits)
      root  == pprf[found.at].key
  IN  IF found.at = NULL THEN [code |-> -1, key |-> NoKey]
      ELSE [code |-> 0, key |-> IF root = NoKey THEN NoKey
                                ELSE root \o SubSeq(bits, found.depth + 1, Depth)]

-----------------------------------------------------------------------------
(* puncture.  From the node found at depth d0 down to the leaf, each level *)
(* appends two nodes: the sibling, a keyleaf, and the next node of the     *)
(* path.  Level d of the path (d0 < d <= Depth) is thus at index           *)
(* size + 2 (d - d0) - 1, its sibling just before it.                      *)

\* Seeded faults, for checking that the properties notice them.
ChildrenSwapped(bit, base) == [il |-> base + bit, ir |-> base + 1 - bit]
ClearedKeepingKey(node) == [node EXCEPT !.type = INTERNAL]
SiblingOnPath(bits, d) == SubSeq(bits, 1, d)
AppendedFromLast(size, d0, d) == size + 2 * (d - d0) - 2
GrowthOneLevelMore(d0) == 2 * (Depth - d0 + 1)

\* Where a path node whose next bit is `bit` finds its children.
Children(bit, base) == [il |-> base + 1 - bit, ir |-> base + bit]

\* "memset(root->v.key, 0, ...); root->type = PPRF_INTERNAL"
Cleared(node) == [node EXCEPT !.type = INTERNAL, !.key = NoKey]

\* The key of the sibling of the path at depth d: the other half of the PRG.
SiblingKey(bits, d) == [SubSeq(bits, 1, d) EXCEPT ![d] = 1 - @]

\* The array index of the path node at depth d.
PathIndex(size, d0, d) == size + 2 * (d - d0) - 1

Growth(d0) == 2 * (Depth - d0)

Linked(node, bit, base) ==
  [node EXCEPT !.il = Children(bit, base).il, !.ir = Children(bit, base).ir]

Puncture(pprf, size, tag) ==
  LET bits  == TagBits(tag)
      found == FindKey(pprf, bits)
      d0    == found.depth
      \* node n as a path node at depth d: linked to the two nodes appended
      \* after it, or the punctured leaf
      OnPath(n, d) == IF d = Depth THEN [n EXCEPT !.type = PUNCTURE]
                      ELSE Linked(n, bits[d + 1], PathIndex(size, d0, d + 1) - 1)
      New(i, old) ==
        IF i = found.at THEN OnPath(Cleared(old), d0)
        ELSE IF \E d \in d0 + 1 .. Depth : i = PathIndex(size, d0, d)
        THEN OnPath([old EXCEPT !.type = INTERNAL],
                    CHOOSE d \in d0 + 1 .. Depth : i = PathIndex(size, d0, d))
        ELSE IF \E d \in d0 + 1 .. Depth : i = PathIndex(size, d0, d) - 1
        THEN [old EXCEPT !.type = KEYLEAF,
                !.key = SiblingKey(bits, CHOOSE d \in d0 + 1 .. Depth :
                                           i = PathIndex(size, d0, d) - 1)]
        ELSE old
  IN  IF found.at = NULL THEN [code |-> -1, pprf |-> pprf, size |-> size]
      ELSE [code |-> found.at,
            pprf |-> [i \in DOMAIN pprf |-> New(i, pprf[i])],
            size |-> size + Growth(d0)]

-----------------------------------------------------------------------------
IsPrefixOf(label, bits) == Len(label) <= Depth /\ SubSeq(bits, 1, Len(label)) = label

\* What can be computed from the key bytes of the nodes in I.
Derivable(pprf, I) ==
  {t \in Tags : \E i \in I : pprf[i].key # NoKey /\ IsPrefixOf(pprf[i].key, TagBits(t))}
=============================================================================
