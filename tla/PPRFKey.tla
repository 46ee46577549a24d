------------------------------- MODULE PPRFKey -------------------------------
(***************************************************************************)
(* One PPRF key over its life: init_master_key, then any sequence of       *)
(* puncture_at_tag calls, evaluations in between (pprf-tree.c).            *)
(***************************************************************************)
EXTENDS PPRFTree

VARIABLES
  pprf,      \* the keynode array
  size,      \* *pprf_size: the keynodes in use
  punctured  \* the tags puncture_at_tag has been called with

vars == <<pprf, size, punctured>>

\* A full tree of this depth; the array is never asked for more (SizeBound).
MaxNodes == Pow2[Depth + 1] - 1

Init ==
  /\ pprf = InitMasterKey(MaxNodes)
  /\ size = 1
  /\ punctured = {}

\* puncture_at_tag, on any tag, an already punctured one included.
PunctureAtTag(tag) ==
  LET p == Puncture(pprf, size, tag)
  IN  /\ pprf' = p.pprf
      /\ size' = p.size
      /\ punctured' = punctured \cup {tag}

Next == \E tag \in Tags : PunctureAtTag(tag)

Spec == Init /\ [][Next]_vars

-----------------------------------------------------------------------------
TypeOK ==
  /\ pprf \in [0 .. MaxNodes - 1 -> Keynode(MaxNodes)]
  /\ size \in 1 .. MaxNodes
  /\ punctured \subseteq Tags

\* Puncturing changes the value of no other tag: evaluate_at_tag still returns
\* 0 and the value it returned before any puncture.
UnpuncturedUnchanged ==
  \A t \in Tags \ punctured : Evaluate(pprf, t) = [code |-> 0, key |-> TagBits(t)]

\* No bytes anywhere in the array, in a live node, an interior one or beyond
\* the end, are a GGM ancestor of a punctured tag: puncture moves the old key
\* out of the node it splits and stores only siblings of the path.
PuncturedGone == Derivable(pprf, DOMAIN pprf) \cap punctured = {}

\* The growth the capacity check of persist_unlink reserves room for
\* (dm-holepunch-main.c:1668) is never exceeded, nor is the full tree.
SizeBound ==
  /\ size <= 1 + 2 * Depth * Cardinality(punctured)
  /\ size <= MaxNodes

\* puncture returns "the index of the PPRF keynode that was changed": below the
\* old size no other node changes, which is what lets persist_unlink write back
\* one old sector and the appended ones only.
OnlyReturnedNodeChanges ==
  [][\A t \in Tags : punctured' = punctured \cup {t} /\ t \notin punctured =>
       \A i \in 0 .. size - 1 : pprf'[i] # pprf[i] => i = FindKey(pprf, TagBits(t)).at]_vars

\* The array implements the puncturable PRF: the tags its keyleaves cover.
Abstract == INSTANCE PPRF WITH
  live <- Derivable(pprf, {i \in 0 .. size - 1 : pprf[i].type = KEYLEAF})
ImplementsPPRF == Abstract!Spec

\* "PPRF evaluation; returns 0 for success, -1 if `tag` was punctured."
\* (pprf-tree.c:76)
PuncturedReturnsError == \A t \in punctured : Evaluate(pprf, t).code = -1
=============================================================================
