----------------------------- MODULE AtomicStore -----------------------------
(***************************************************************************)
(* What the journal promises its callers: the writes queued in a           *)
(* transaction reach the disk all together, at the commit, and a crash     *)
(* loses either none of a transaction or all of it.                        *)
(***************************************************************************)
CONSTANTS Addr, Val
VARIABLES
  store,   \* what the disk holds, as far as anyone can tell after a crash
  batch    \* the writes of the open transaction: a function from addresses

Batches == UNION {[A -> Val] : A \in SUBSET Addr}
Empty == [a \in {} |-> a]

Queued(b, a, v) == [x \in DOMAIN b \cup {a} |-> IF x = a THEN v ELSE b[x]]
Applied(b, s) == [a \in Addr |-> IF a \in DOMAIN b THEN b[a] ELSE s[a]]

Init == store \in [Addr -> Val] /\ batch = Empty

Write(a, v) == batch' = Queued(batch, a, v) /\ UNCHANGED store

Commit == store' = Applied(batch, store) /\ batch' = Empty

Crash == batch' = Empty /\ UNCHANGED store

Next == (\E a \in Addr, v \in Val : Write(a, v)) \/ Commit \/ Crash

Spec == Init /\ [][Next]_<<store, batch>>
=============================================================================
