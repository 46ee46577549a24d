---------------------------- MODULE JournalProofs ----------------------------
(***************************************************************************)
(* Theorems about Journal, for every set of sectors, every set of contents *)
(* and every journal length.                                               *)
(*                                                                         *)
(* That the state stays well-typed holds for every caller (Spec); the rest *)
(* for callers that write a sector once in a transaction (OnceSpec).       *)
(*                                                                         *)
(* ReplayPrefix is not inductive by itself: that a commit names no sector  *)
(* twice follows from what the page of an open transaction holds, and that *)
(* a recovery starts afresh from what a crash leaves.  PageInv adds both.  *)
(***************************************************************************)
EXTENDS Journal, NaturalsInduction, WellFoundedInduction, TLAPS

PageInv ==
  /\ pc = "down" => page = NoPage /\ pos = 1
  /\ pc = "open" /\ page # NoPage =>
       /\ entry \in 2 .. JournalLen
       /\ \A i \in Slot : i < entry => page[i] # JournalStart
       /\ \A i, j \in Slot : i < entry /\ j < entry /\ page[i] = page[j] => i = j

IInv == TypeOK /\ ReplayPrefix /\ PageInv

-----------------------------------------------------------------------------
\* A set of numbers has a least one.
LEMMA LeastOf ==
  ASSUME NEW T, T \subseteq Nat, T # {}
  PROVE  \E x \in T : \A y \in T : x <= y
<1> DEFINE R == OpToRel(<, Nat)
<1>1. \A x, y \in Nat : x < y => <<x, y>> \in R
  BY DEF OpToRel
<1>2. IsWellFoundedOn(R, Nat)
  BY NatLessThanWellFounded
<1> HIDE DEF R
<1>3. PICK x \in T : \A y \in T : ~ (<<y, x>> \in R)
  BY <1>2, WFMin
<1>4. \A y \in T : ~(y < x)
  BY <1>1, <1>3
<1> QED
  BY <1>4

\* journal_write puts a fresh address in the first free slot.
LEMMA SlotOfFresh ==
  ASSUME NEW pg, NEW e, NEW a, \A i \in Slot : i < e => pg[i] # a
  PROVE  SlotOf(pg, e, a) = e
BY DEF SlotOf

\* The slots before the terminator journal_commit writes are those filled.
LEMMA ValidOfTerminated ==
  ASSUME NEW pg \in Page, NEW e \in 1 .. JournalLen,
         \A i \in Slot : i < e => pg[i] # JournalStart
  PROVE  /\ Terminated(pg, e) \in Page
         /\ \A i \in Slot : i < e => Terminated(pg, e)[i] = pg[i]
         /\ Valid(Terminated(pg, e)) = {i \in Slot : i < e}
<1> DEFINE t == Terminated(pg, e)
<1>1. t \in Page /\ \A i \in Slot : i < e => t[i] = pg[i]
  BY JournalLenAssumption DEF Terminated, Page, Slot
<1>2. ASSUME NEW i \in Slot
      PROVE  i \in Valid(t) <=> i < e
  <2>1. CASE i < e
    <3>1. \A j \in 1 .. i : j \in Slot /\ j < e
      BY <2>1, JournalLenAssumption DEF Slot
    <3> QED
      BY <1>1, <2>1, <3>1 DEF Valid
  <2>2. CASE ~(i < e)
    <3>1. e \in 1 .. i /\ e < JournalLen /\ e \in Slot
      BY <2>2, JournalLenAssumption DEF Slot
    <3>2. t[e] = JournalStart
      BY <3>1 DEF Terminated, Page
    <3> QED
      BY <2>2, <3>1, <3>2 DEF Valid
  <2> QED
    BY <2>1, <2>2
<1>3. Valid(t) \subseteq Slot
  BY DEF Valid
<1> QED
  BY <1>1, <1>2, <1>3

-----------------------------------------------------------------------------
(* Any callers.                                                            *)

\* What the types need: an open page has a block and room for one more or is full,
\* a replay has a page, and after a crash there is none.
PageOK ==
  /\ pc = "down" => page = NoPage
  /\ pc = "open" /\ page # NoPage => entry \in 2 .. JournalLen
  /\ pc = "replay" => page # NoPage

\* journal_write puts the address in a slot that is filled, or the next one.
LEMMA SlotOfInRange ==
  ASSUME NEW pg, NEW e \in 1 .. JournalLen - 1, NEW a
  PROVE  SlotOf(pg, e, a) \in Slot
<1> DEFINE Least(i) == i < e /\ pg[i] = a /\ \A j \in Slot : j < i => pg[j] # a
<1>1. CASE \E i \in Slot : i < e /\ pg[i] = a
  <2>1. PICK i \in Slot : i < e /\ pg[i] = a
    BY <1>1
  <2> DEFINE S == {j \in Nat : j \in Slot /\ j < e /\ pg[j] = a}
  <2>2. i \in S /\ S \subseteq Nat
    BY <2>1 DEF Slot
  <2>3. PICK k \in S : \A j \in S : k <= j
    BY <2>2, LeastOf
  <2>4. k \in Slot /\ Least(k)
    <3>1. ASSUME NEW j \in Slot, j < k PROVE pg[j] # a
      BY <2>3, <3>1, JournalLenAssumption DEF Slot
    <3> QED
      BY <2>3, <3>1
  <2>5. (CHOOSE j \in Slot : Least(j)) \in Slot
    BY <2>4
  <2>6. SlotOf(pg, e, a) = CHOOSE j \in Slot : Least(j)
    BY <1>1 DEF SlotOf
  <2> QED
    BY <2>5, <2>6
<1>2. CASE ~\E i \in Slot : i < e /\ pg[i] = a
  BY <1>2, JournalLenAssumption DEF SlotOf, Slot
<1> QED
  BY <1>1, <1>2

TypeInv == TypeOK /\ PageOK

\* A page is no NULL pointer, whatever its addresses.
LEMMA PageIsPage == \A pg \in Page : pg # NoPage
BY SentinelAssumption DEF Page, Slot

\* Every step of every caller keeps types and page.
LEMMA NextTypes == TypeInv /\ [Next]_vars => TypeInv'
<1> SUFFICES ASSUME TypeInv, [Next]_vars PROVE TypeInv'
  OBVIOUS
<1> USE JournalLenAssumption, SentinelAssumption DEF TypeInv
<1>1. ASSUME NEW a \in Addr, NEW v \in Val, JournalWrite(a, v) PROVE TypeInv'
  <2>1. CASE Full
    BY <1>1, <2>1 DEF JournalWrite, Full, WriteControl, TypeOK, Types, Slot, PageOK
  <2>2. CASE ~Full
    <3>1. PICK pg \in Page, e \in 1 .. JournalLen - 1 : PutBlock(pg, e, a, v)
      <4>1. CASE page = NoPage
        BY <1>1, <2>2, <4>1 DEF JournalWrite
      <4>2. CASE page # NoPage
        <5>1. page \in Page /\ entry \in 1 .. JournalLen - 1
          BY <1>1, <2>2, <4>2 DEF JournalWrite, Full, TypeOK, PageOK
        <5> QED
          BY <1>1, <2>2, <4>2, <5>1 DEF JournalWrite
      <4> QED
        BY <4>1, <4>2
    <3>2. PICK i \in Slot : i = SlotOf(pg, e, a)
      BY SlotOfInRange
    <3>3. page' = [pg EXCEPT ![i] = a] /\ slots' = [slots EXCEPT ![i] = v] /\ entry' = e + 1
      BY <3>1, <3>2, Zenon DEF PutBlock
    <3>4. page' \in Page /\ slots' \in [Slot -> Val] /\ entry' \in 2 .. JournalLen
      BY <3>3 DEF TypeOK, Page, Slot
    <3>5. arg' = NoArg /\ pc' = "open" /\ UNCHANGED <<disk, ctl, pos>>
      BY <1>1, <2>2 DEF JournalWrite
    <3> QED
      BY <3>4, <3>5 DEF TypeOK, PageOK
  <2> QED
    BY <2>1, <2>2
<1>2. CASE JournalCommit
  <2>1. page \in Page /\ page # NoPage /\ entry \in 2 .. JournalLen
    BY <1>2 DEF JournalCommit, TypeOK, PageOK
  <2>2. Terminated(page, entry) \in Page
    BY <2>1 DEF Terminated, Page, Slot
  <2>3. /\ ctl' = [type |-> "PPRF_PUNCT", addr |-> Terminated(page, entry)]
        /\ page' = Terminated(page, entry) /\ pc' = "replay" /\ pos' = 1
        /\ UNCHANGED <<disk, slots, entry, arg>>
    BY <1>2 DEF JournalCommit, WriteControl
  <2>4. page' # NoPage
    BY <2>2, <2>3, PageIsPage
  <2> QED
    BY <2>2, <2>3, <2>4 DEF TypeOK, Types, PageOK
<1>3. CASE ReplayBlock
  <2>1. page \in Page /\ pos \in Slot /\ page[pos] \in Addr
    BY <1>3 DEF ReplayBlock, Replayed, TypeOK, PageOK, Page, Slot
  <2> QED
    BY <1>3, <2>1 DEF ReplayBlock, TypeOK, PageOK, Slot
<1>4. CASE JournalClear
  BY <1>4 DEF JournalClear, TypeOK, PageOK, Types
<1>5. CASE Crash
  BY <1>5 DEF Crash, TypeOK, PageOK
<1>6. CASE Recover
  <2>1. ctl.addr \in Page /\ ctl.addr # NoPage
    BY PageIsPage DEF TypeOK
  <2>2. TypeOK'
    BY <1>6, <2>1 DEF Recover, TypeOK
  <2>3. PageOK'
    <3>1. CASE ctl.type = "PPRF_PUNCT"
      <4>1. page' = ctl.addr /\ pc' = "replay"
        BY <1>6, <3>1 DEF Recover
      <4> QED
        BY <2>1, <4>1 DEF PageOK
    <3>2. CASE ctl.type # "PPRF_PUNCT"
      <4>1. page' = NoPage /\ pc' = "open"
        BY <1>6, <3>2 DEF Recover, PageOK
      <4> QED
        BY <4>1 DEF PageOK
    <3> QED
      BY <3>1, <3>2
  <2> QED
    BY <2>2, <2>3
<1>7. CASE UNCHANGED vars
  BY <1>7 DEF vars, TypeOK, PageOK, Page, Slot
<1> QED
  BY <1>1, <1>2, <1>3, <1>4, <1>5, <1>6, <1>7 DEF Next, Others

\* The journal's state is well-typed, whatever its callers write: journal_entry
\* never passes the length of the journal and journal_replay never leaves it.
THEOREM TypeCorrect == Spec => []TypeOK
<1>1. Init => TypeInv
  BY JournalLenAssumption, SentinelAssumption DEF Init, TypeInv, TypeOK, PageOK, Slot, Page, Types
<1>2. TypeInv => TypeOK
  BY DEF TypeInv
<1> QED
  BY <1>1, <1>2, NextTypes, PTL DEF Spec

-----------------------------------------------------------------------------
(* Callers that write each sector once.                                    *)

\* The initial states are well-typed and satisfy the invariant.
LEMMA InitIInv == Init => IInv
BY JournalLenAssumption, SentinelAssumption
   DEF Init, IInv, TypeOK, ReplayPrefix, PageInv, Slot, Page, Types

\* What they do is among what any caller does, so that the types are kept.
LEMMA NextTypeOK == IInv /\ [OnceNext]_vars => TypeOK'
<1>1. IInv => TypeInv
  <2> SUFFICES ASSUME IInv PROVE PageOK
    BY DEF IInv, TypeInv
  <2>1. pc = "replay" => page = ctl.addr /\ ctl.addr \in Page
    BY DEF IInv, ReplayPrefix, TypeOK
  <2> QED
    BY <2>1, PageIsPage DEF IInv, PageInv, PageOK
<1>2. [OnceNext]_vars => [Next]_vars
  BY DEF OnceNext, Next
<1> QED
  BY <1>1, <1>2, NextTypes DEF TypeInv

\* Every step keeps the replay invariant.
LEMMA NextReplayPrefix == IInv /\ TypeOK' /\ [OnceNext]_vars => ReplayPrefix'
<1> SUFFICES ASSUME IInv, TypeOK', [OnceNext]_vars PROVE ReplayPrefix'
  OBVIOUS
<1> USE JournalLenAssumption, SentinelAssumption DEF IInv
<1>1. ASSUME NEW a \in Addr, NEW v \in Val, Fresh(a), JournalWrite(a, v) PROVE ReplayPrefix'
  <2>1. CASE Full
    <3>1. pc = "open" /\ page \in Page /\ entry = JournalLen
      BY <1>1, <2>1 DEF JournalWrite, Full, TypeOK
    <3>2. \A i, j \in Slot : page[i] = page[j] => i = j
      BY <2>1, <3>1 DEF PageInv, Full, Slot
    <3>3. pc' = "replay" /\ page' = page /\ pos' = 1 /\ ctl' = [type |-> "PPRF_PUNCT", addr |-> page]
      BY <1>1, <2>1 DEF JournalWrite, WriteControl
    <3> QED
      BY <3>2, <3>3 DEF ReplayPrefix, Valid, Slot
  <2>2. CASE ~Full
    BY <1>1, <2>2 DEF JournalWrite, ReplayPrefix
  <2> QED
    BY <2>1, <2>2
<1>2. CASE JournalCommit
  <2> DEFINE t == Terminated(page, entry)
  <2>1. pc = "open" /\ page \in Page /\ entry \in 1 .. JournalLen
    BY <1>2 DEF JournalCommit, TypeOK, PageInv
  <2>2. /\ Valid(t) = {i \in Slot : i < entry}
        /\ \A i \in Slot : i < entry => t[i] = page[i]
    BY <1>2, <2>1, ValidOfTerminated DEF PageInv, JournalCommit
  <2>3. \A i, j \in Valid(t) : t[i] = t[j] => i = j
    BY <1>2, <2>1, <2>2 DEF PageInv, JournalCommit
  <2>4. pc' = "replay" /\ page' = t /\ pos' = 1 /\ ctl' = [type |-> "PPRF_PUNCT", addr |-> t]
    BY <1>2 DEF JournalCommit, WriteControl
  <2> HIDE DEF t
  <2> QED
    BY <2>3, <2>4 DEF ReplayPrefix, Valid, Slot
<1>3. CASE ReplayBlock
  <2>1. /\ pc = "replay" /\ pos \in Slot /\ page[pos] # JournalStart
        /\ page \in Page /\ page[pos] \in Addr
        /\ ctl.type = "PPRF_PUNCT" /\ page = ctl.addr
    BY <1>3 DEF ReplayBlock, Replayed, ReplayPrefix, TypeOK, Page, Slot
  <2>2. \A i \in Slot : i <= pos => i \in Valid(page)
    BY <2>1 DEF ReplayPrefix, Valid, Slot
  <2>3. \A i \in Slot : i < pos => page[i] # page[pos]
    BY <2>1, <2>2 DEF ReplayPrefix, Slot
  <2>4. disk' = [disk EXCEPT ![page[pos]] = slots[pos]] /\ pos' = pos + 1
    BY <1>3 DEF ReplayBlock
  <2>5. UNCHANGED <<slots, ctl, page, pc>>
    BY <1>3 DEF ReplayBlock
  <2>6. ASSUME NEW i \in Slot, i < pos' PROVE disk'[page[i]] = slots[i] /\ page[i] # JournalStart
    <3>1. disk \in [Addr -> Val] /\ page[pos] \in Addr
      BY <2>1 DEF TypeOK
    <3>2. CASE i = pos
      BY <2>1, <2>4, <3>1, <3>2
    <3>3. CASE i < pos
      <4>1. page[i] # JournalStart /\ disk[page[i]] = slots[i] /\ page[i] # page[pos]
        BY <2>1, <2>3, <3>3 DEF ReplayPrefix
      <4> QED
        BY <2>4, <3>1, <4>1
    <3> QED
      BY <2>1, <2>4, <2>6, <3>2, <3>3 DEF Slot
  <2> QED
    BY <2>1, <2>5, <2>6 DEF ReplayPrefix, Valid
<1>4. CASE JournalClear
  BY <1>4 DEF JournalClear, ReplayPrefix, TypeOK
<1>5. CASE Crash
  BY <1>5 DEF Crash, ReplayPrefix, Valid
<1>6. CASE Recover
  <2>1. pc = "down" /\ UNCHANGED <<disk, slots, ctl, pos>>
    BY <1>6 DEF Recover
  <2>2. CASE ctl.type = "PPRF_PUNCT"
    <3>1. pc' = "replay" /\ page' = ctl.addr
      BY <1>6, <2>2 DEF Recover
    <3> QED
      BY <2>1, <2>2, <3>1 DEF ReplayPrefix, Valid, PageInv, Slot
  <2>3. CASE ctl.type # "PPRF_PUNCT"
    BY <1>6, <2>1, <2>3 DEF Recover, ReplayPrefix, TypeOK, Types
  <2> QED
    BY <2>2, <2>3
<1>7. CASE UNCHANGED vars
  BY <1>7 DEF vars, ReplayPrefix, Valid
<1> QED
  BY <1>1, <1>2, <1>3, <1>4, <1>5, <1>6, <1>7 DEF OnceNext, Others

\* Every step keeps what the open transaction relies on.
LEMMA NextPageInv == IInv /\ TypeOK' /\ [OnceNext]_vars => PageInv'
<1> SUFFICES ASSUME IInv, TypeOK', [OnceNext]_vars PROVE PageInv'
  OBVIOUS
<1> USE JournalLenAssumption, SentinelAssumption DEF IInv
<1>1. ASSUME NEW a \in Addr, NEW v \in Val, Fresh(a), JournalWrite(a, v) PROVE PageInv'
  <2>1. CASE Full
    BY <1>1, <2>1 DEF JournalWrite, WriteControl, PageInv
  <2>2. CASE ~Full /\ page = NoPage
    <3>1. PICK g \in Page : PutBlock(g, 1, a, v)
      BY <1>1, <2>2 DEF JournalWrite
    <3>2. SlotOf(g, 1, a) = 1
      BY SlotOfFresh DEF Slot
    <3>3. page' = [g EXCEPT ![1] = a] /\ entry' = 1 + 1
      BY <3>1, <3>2, Zenon DEF PutBlock
    <3>4. 1 \in Slot /\ page'[1] = a
      BY <3>3 DEF Page, Slot
    <3>5. \A i \in Slot : i < entry' => i = 1
      BY <3>3 DEF Slot
    <3>6. entry' \in 2 .. JournalLen
      BY <3>3
    <3>7. pc' = "open"
      BY <1>1, <2>2 DEF JournalWrite
    <3> QED
      BY <3>3, <3>4, <3>5, <3>6, <3>7 DEF PageInv
  <2>3. CASE ~Full /\ page # NoPage
    <3>1. PutBlock(page, entry, a, v) /\ pc = "open" /\ pc' = "open"
      BY <1>1, <2>3 DEF JournalWrite
    <3>2. SlotOf(page, entry, a) = entry
      BY <1>1, <2>3, <3>1, SlotOfFresh DEF Fresh
    <3>3. entry \in Slot /\ page \in Page
      BY <2>3, <3>1 DEF PageInv, Full, Slot, TypeOK
    <3>4. page' = [page EXCEPT ![entry] = a] /\ entry' = entry + 1
      BY <3>1, <3>2 DEF PutBlock
    <3>5. \A i \in Slot : i < entry => page[i] # a /\ page[i] # JournalStart
      BY <1>1, <2>3, <3>1 DEF Fresh, PageInv
    <3>6. \A i, j \in Slot : i < entry /\ j < entry /\ page[i] = page[j] => i = j
      BY <2>3, <3>1 DEF PageInv
    <3>7. \A i \in Slot : i # entry => page'[i] = page[i]
      BY <3>3, <3>4 DEF Page
    <3>8. page'[entry] = a
      BY <3>3, <3>4 DEF Page
    <3>9. \A i \in Slot : i < entry' => i = entry \/ i < entry
      BY <3>3, <3>4 DEF Slot
    <3>10. \A i \in Slot : i < entry' => page'[i] # JournalStart
      BY <3>5, <3>7, <3>8, <3>9
    <3>11. \A i, j \in Slot : i < entry' /\ j < entry' /\ page'[i] = page'[j] => i = j
      BY <3>5, <3>6, <3>7, <3>8, <3>9
    <3>12. entry' \in 2 .. JournalLen
      BY <3>3, <3>4 DEF Slot
    <3> QED
      BY <3>1, <3>10, <3>11, <3>12 DEF PageInv
  <2> QED
    BY <2>1, <2>2, <2>3
<1>2. CASE JournalCommit
  BY <1>2 DEF JournalCommit, WriteControl, PageInv
<1>3. CASE ReplayBlock
  BY <1>3 DEF ReplayBlock, PageInv
<1>4. CASE JournalClear
  BY <1>4 DEF JournalClear, PageInv
<1>5. CASE Crash
  BY <1>5 DEF Crash, PageInv
<1>6. CASE Recover
  BY <1>6 DEF Recover, PageInv
<1>7. CASE UNCHANGED vars
  BY <1>7 DEF vars, PageInv
<1> QED
  BY <1>1, <1>2, <1>3, <1>4, <1>5, <1>6, <1>7 DEF OnceNext, Others

LEMMA NextIInv == IInv /\ [OnceNext]_vars => IInv'
BY NextTypeOK, NextReplayPrefix, NextPageInv DEF IInv

LEMMA Invariance == OnceSpec => []IInv
BY InitIInv, NextIInv, PTL DEF OnceSpec

\* Whenever a replay is under way, by a commit or by a recovery, it replays the
\* transaction on disk and its finished part is home, however often it was cut
\* short before.
THEOREM ReplayCorrect == OnceSpec => []ReplayPrefix
<1>1. IInv => ReplayPrefix
  BY DEF IInv
<1> QED
  BY <1>1, Invariance, PTL
-----------------------------------------------------------------------------
(* Journal implements AtomicStore.                                         *)

\* Where no address occurs twice, a set of slots writes to the address of each
\* of them what that slot holds.
LEMMA WritesAt ==
  ASSUME NEW addr, NEW I, NEW i \in I, \A j \in I : addr[j] = addr[i] => j = i
  PROVE  addr[i] \in DOMAIN Writes(addr, I) /\ Writes(addr, I)[addr[i]] = slots[i]
<1>1. (CHOOSE j \in I : addr[j] = addr[i]) = i
  OBVIOUS
<1> QED
  BY <1>1 DEF Writes

\* Addresses that agree on the slots write the same.
LEMMA WritesAgree ==
  ASSUME NEW s, NEW t, NEW I, \A i \in I : s[i] = t[i],
         \A i, j \in I : t[i] = t[j] => i = j
  PROVE  Writes(s, I) = Writes(t, I)
<1>1. {s[i] : i \in I} = {t[i] : i \in I}
  OBVIOUS
<1>2. ASSUME NEW a \in {t[i] : i \in I}
      PROVE  slots[CHOOSE i \in I : s[i] = a] = slots[CHOOSE i \in I : t[i] = a]
  <2>1. PICK k \in I : t[k] = a
    BY <1>2
  <2>2. (CHOOSE i \in I : t[i] = a) = k
    BY <2>1
  <2>3. (CHOOSE i \in I : s[i] = a) = k
    BY <2>1
  <2> QED
    BY <2>2, <2>3
<1> QED
  BY <1>1, <1>2 DEF Writes

\* A commit of addresses that agree with the page is the abstract commit.
LEMMA CommitStep ==
  ASSUME IInv, pc = "open", page # NoPage, NEW t,
         Valid(t) = {i \in Slot : i < entry}, \A i \in Slot : i < entry => t[i] = page[i],
         ctl' = [type |-> "PPRF_PUNCT", addr |-> t], pc' = "replay", UNCHANGED <<disk, slots>>
  PROVE  Abstract!Commit
<1>1. Queue = Valid(t) /\ Queue' = {}
  BY DEF Queue
<1>2. Queue # {}
  BY <1>1, JournalLenAssumption DEF IInv, PageInv, Slot
<1>3. Writes(t, Queue) = Writes(page, Queue)
  BY <1>1, WritesAgree DEF IInv, PageInv
<1>4. OpenBatch = Writes(t, Valid(t)) /\ OpenBatch' = Abstract!Empty
  BY <1>1, <1>2, <1>3 DEF OpenBatch, Abstract!Empty
<1>5. Committed = disk
  BY DEF IInv, ReplayPrefix, Committed
<1>6. Committed' = Overlaid(Writes(t, Valid(t)))
  BY DEF Committed, Overlaid, Writes, Valid
<1> QED
  BY <1>4, <1>5, <1>6 DEF Abstract!Commit, Abstract!Applied, Overlaid

\* Queuing a write is the abstract write.
LEMMA WriteStep ==
  ASSUME IInv, TypeOK', NEW a \in Addr, NEW v \in Val, Fresh(a), JournalWrite(a, v), ~Full
  PROVE  Abstract!Write(a, v)
<1> USE JournalLenAssumption
<1>1. pc = "open" /\ pc' = "open" /\ UNCHANGED <<disk, ctl>>
  BY DEF JournalWrite
<1>2. Committed' = Committed
  BY <1>1 DEF Committed, IInv, ReplayPrefix
<1>3. CASE page = NoPage
  <2>1. PICK g \in Page : PutBlock(g, 1, a, v)
    BY <1>3 DEF JournalWrite
  <2>2. SlotOf(g, 1, a) = 1
    BY SlotOfFresh DEF Slot
  <2>3. page' = [g EXCEPT ![1] = a] /\ slots' = [slots EXCEPT ![1] = v] /\ entry' = 1 + 1
    BY <2>1, <2>2, Zenon DEF PutBlock
  <2>4. 1 \in Slot /\ page'[1] = a /\ slots'[1] = v /\ page' \in Page
    BY <2>3 DEF Page, Slot, IInv, TypeOK
  <2>5. Queue' = {1}
    BY <1>1, <2>3, <2>4, SentinelAssumption DEF Queue, Slot, Page
  <2>6. OpenBatch' = [x \in {a} |-> v]
    BY <2>4, <2>5 DEF OpenBatch, Writes
  <2>7. OpenBatch = [x \in {} |-> x]
    BY <1>3 DEF OpenBatch, Queue
  <2> QED
    BY <1>2, <2>6, <2>7 DEF Abstract!Write, Abstract!Queued
<1>4. CASE page # NoPage
  <2>1. PutBlock(page, entry, a, v)
    BY <1>4 DEF JournalWrite
  <2>2. SlotOf(page, entry, a) = entry
    BY <1>1, <1>4, SlotOfFresh DEF Fresh
  <2>3. entry \in Slot /\ page \in Page /\ entry > 1 /\ slots \in [Slot -> Val]
    BY <1>1, <1>4 DEF IInv, PageInv, Full, Slot, TypeOK
  <2>4. page' = [page EXCEPT ![entry] = a] /\ slots' = [slots EXCEPT ![entry] = v]
        /\ entry' = entry + 1
    BY <2>1, <2>2, Zenon DEF PutBlock
  <2>5. page' \in Page /\ page'[entry] = a /\ slots'[entry] = v
        /\ \A i \in Slot : i # entry => page'[i] = page[i] /\ slots'[i] = slots[i]
    BY <2>3, <2>4 DEF Page
  <2>6. Queue = {i \in Slot : i < entry} /\ Queue # {}
    BY <1>1, <1>4, <2>3 DEF Queue, Slot
  <2>7. Queue' = Queue \cup {entry} /\ Queue' # {} /\ entry \notin Queue /\ Queue \subseteq Slot
    BY <1>1, <2>3, <2>4, <2>5, <2>6, SentinelAssumption DEF Queue, Slot, Page
  <2>9. \A i, j \in Queue : page[i] = page[j] => i = j
    BY <1>1, <1>4, <2>6 DEF IInv, PageInv
  <2>10. \A i \in Queue : page[i] # a
    BY <1>1, <1>4, <2>6 DEF Fresh
  <2> DEFINE Dom == {page[i] : i \in Queue}
  <2>11. {page'[i] : i \in Queue'} = Dom \cup {a}
    BY <2>5, <2>7
  <2>12. ASSUME NEW x, x = a PROVE slots'[CHOOSE i \in Queue' : page'[i] = x] = v
    <3>1. \A i \in Queue' : page'[i] = x <=> i = entry
      BY <2>5, <2>7, <2>10, <2>12
    <3>2. (CHOOSE i \in Queue' : page'[i] = x) = entry
      BY <2>7, <3>1
    <3> QED
      BY <2>5, <3>2, Zenon
  <2>13. OpenBatch = [x \in Dom |-> slots[CHOOSE i \in Queue : page[i] = x]]
    BY <2>6 DEF OpenBatch, Writes
  <2>14. OpenBatch' = [x \in Dom \cup {a} |-> slots'[CHOOSE i \in Queue' : page'[i] = x]]
    BY <2>7, <2>11, Zenon DEF OpenBatch, Writes
  <2>15. ASSUME NEW x \in Dom
         PROVE  /\ x # a
                /\ slots'[CHOOSE i \in Queue' : page'[i] = x]
                     = slots[CHOOSE i \in Queue : page[i] = x]
    <3>1. PICK k \in Queue : page[k] = x
      OBVIOUS
    <3>2. x # a /\ k \in Slot /\ k # entry
      BY <2>7, <2>10, <3>1
    <3>3. (CHOOSE i \in Queue : page[i] = x) = k
      BY <2>9, <3>1
    <3>4. \A i \in Queue' : page'[i] = x <=> i = k
      BY <2>5, <2>7, <2>9, <3>1, <3>2
    <3>5. (CHOOSE i \in Queue' : page'[i] = x) = k
      BY <2>7, <3>1, <3>4
    <3>6. slots'[k] = slots[k]
      BY <2>5, <3>2
    <3> QED
      BY <3>2, <3>3, <3>5, <3>6, Zenon
  <2>16. DOMAIN OpenBatch = Dom
         /\ \A x \in Dom : OpenBatch[x] = slots[CHOOSE i \in Queue : page[i] = x]
    BY <2>13
  <2>17. \A x \in Dom \cup {a} :
           slots'[CHOOSE i \in Queue' : page'[i] = x] = IF x = a THEN v ELSE OpenBatch[x]
    <3> SUFFICES ASSUME NEW x \in Dom \cup {a}
                 PROVE  slots'[CHOOSE i \in Queue' : page'[i] = x]
                          = IF x = a THEN v ELSE OpenBatch[x]
      OBVIOUS
    <3>1. CASE x = a
      BY <2>12, <3>1
    <3>2. CASE x # a
      BY <2>15, <2>16, <3>2
    <3> QED
      BY <3>1, <3>2
  <2> HIDE DEF Dom
  <2>18. OpenBatch' = [x \in DOMAIN OpenBatch \cup {a} |-> IF x = a THEN v ELSE OpenBatch[x]]
    BY <2>14, <2>16, <2>17
  <2> QED
    BY <1>2, <2>18 DEF Abstract!Write, Abstract!Queued
<1> QED
  BY <1>3, <1>4

\* Every other step leaves what the system would have after a crash unchanged;
\* a crash loses the open transaction.
LEMMA OtherStep ==
  ASSUME IInv, TypeOK', ReplayBlock \/ JournalClear \/ Crash \/ Recover \/ UNCHANGED vars
  PROVE  [Abstract!Next]_<<Committed, OpenBatch>>
<1> USE DEF IInv
<1>1. CASE ReplayBlock
  <2>1. /\ pc = "replay" /\ pc' = "replay" /\ pos \in Slot /\ page[pos] # JournalStart
        /\ ctl.type = "PPRF_PUNCT" /\ page = ctl.addr /\ page \in Page
        /\ disk' = [disk EXCEPT ![page[pos]] = slots[pos]] /\ UNCHANGED <<slots, ctl, page>>
    BY <1>1, JournalLenAssumption DEF ReplayBlock, Replayed, ReplayPrefix, TypeOK, Slot
  <2>2. pos \in Valid(page)
    <3>1. \A j \in 1 .. pos : j \in Slot /\ (j < pos \/ j = pos)
      BY <2>1, JournalLenAssumption DEF Slot
    <3> QED
      BY <2>1, <3>1 DEF ReplayPrefix, Valid
  <2>3. \A i, j \in Valid(page) : page[i] = page[j] => i = j
    BY <2>1 DEF ReplayPrefix
  <2> DEFINE b == Writes(page, Valid(page))
  <2>4. page[pos] \in DOMAIN b
    BY <2>2, <2>3, WritesAt
  <2>5. b' = b
    BY <2>1 DEF Writes, Valid
  <2>6. Committed = Overlaid(b)
    BY <2>1 DEF Committed
  <2>7. Committed' = Overlaid(b)'
    BY <2>1 DEF Committed
  <2> HIDE DEF b
  <2>8. \A a \in Addr : a \notin DOMAIN b => disk'[a] = disk[a]
    BY <2>1, <2>4 DEF TypeOK
  <2>9. Overlaid(b)' = Overlaid(b)
    BY <2>5, <2>8 DEF Overlaid
  <2>10. OpenBatch' = OpenBatch
    BY <2>1 DEF OpenBatch, Queue
  <2> QED
    BY <2>6, <2>7, <2>9, <2>10
<1>2. CASE JournalClear
  <2>1. /\ pc = "replay" /\ pc' = "open" /\ page' = NoPage /\ UNCHANGED <<disk, slots>>
        /\ ctl.type = "PPRF_PUNCT" /\ page = ctl.addr /\ page \in Page
        /\ ctl'.type = "NONE" /\ pos \in 1 .. JournalLen
    BY <1>2 DEF JournalClear, ReplayPrefix, TypeOK
  <2>2. \A i \in Valid(page) : i < pos
    <3> SUFFICES ASSUME NEW i \in Valid(page), ~(i < pos) PROVE FALSE
      OBVIOUS
    <3>1. i \in Slot /\ pos \in 1 .. i /\ pos < JournalLen
      BY <2>1, JournalLenAssumption DEF Valid, Slot
    <3>2. page[pos] = JournalStart
      BY <1>2, <3>1 DEF JournalClear, Replayed
    <3> QED
      BY <3>1, <3>2 DEF Valid
  <2>3. \A i \in Valid(page) : disk[page[i]] = slots[i]
    BY <2>1, <2>2 DEF ReplayPrefix, Valid
  <2>4. \A i, j \in Valid(page) : page[i] = page[j] => i = j
    BY <2>1 DEF ReplayPrefix
  <2> DEFINE b == Writes(page, Valid(page))
  <2>5. ASSUME NEW a \in DOMAIN b PROVE b[a] = disk[a]
    <3>1. PICK i \in Valid(page) : a = page[i]
      BY <2>5 DEF Writes
    <3>2. b[page[i]] = slots[i]
      BY <2>4, <3>1, WritesAt
    <3> QED
      BY <2>3, <3>1, <3>2
  <2>6. Committed = Overlaid(b) /\ Committed' = disk
    BY <2>1 DEF Committed
  <2> HIDE DEF b
  <2>7. Overlaid(b) = [a \in Addr |-> disk[a]]
    BY <2>5 DEF Overlaid
  <2>8. OpenBatch' = OpenBatch
    BY <2>1 DEF OpenBatch, Queue
  <2> QED
    BY <2>6, <2>7, <2>8 DEF TypeOK
<1>3. CASE Crash
  <2>1. Queue' = {} /\ UNCHANGED <<disk, slots, ctl>>
    BY <1>3 DEF Crash, Queue
  <2>2. OpenBatch' = Abstract!Empty
    BY <2>1 DEF OpenBatch, Abstract!Empty
  <2>3. Committed' = Committed
    BY <2>1 DEF Committed, Overlaid, Writes, Valid
  <2> QED
    BY <2>2, <2>3 DEF Abstract!Next, Abstract!Crash
<1>4. CASE Recover
  <2>1. Queue = {} /\ Queue' = {} /\ UNCHANGED <<disk, slots, ctl>>
    BY <1>4 DEF Recover, Queue, PageInv
  <2>2. OpenBatch' = OpenBatch
    BY <2>1 DEF OpenBatch
  <2>3. Committed' = Committed
    BY <2>1 DEF Committed, Overlaid, Writes, Valid
  <2> QED
    BY <2>2, <2>3
<1>5. CASE UNCHANGED vars
  <2>1. Committed' = Committed
    BY <1>5 DEF vars, Committed, Overlaid, Writes, Valid
  <2>2. OpenBatch' = OpenBatch
    BY <1>5 DEF vars, OpenBatch, Queue, Writes
  <2> QED
    BY <2>1, <2>2
<1> QED
  BY <1>1, <1>2, <1>3, <1>4, <1>5

\* Both ways into a replay are the abstract commit, and every other step of the
\* journal is an abstract write, an abstract crash or no step at all.
LEMMA StepRefines == IInv /\ TypeOK' /\ [OnceNext]_vars => [Abstract!Next]_<<Committed, OpenBatch>>
<1> SUFFICES ASSUME IInv, TypeOK', [OnceNext]_vars
             PROVE  [Abstract!Next]_<<Committed, OpenBatch>>
  OBVIOUS
<1>1. ASSUME NEW a \in Addr, NEW v \in Val, Fresh(a), JournalWrite(a, v) PROVE Abstract!Next
  <2>1. CASE Full
    <3>1. /\ pc = "open" /\ page # NoPage /\ entry = JournalLen /\ page \in Page
          /\ ctl' = [type |-> "PPRF_PUNCT", addr |-> page] /\ pc' = "replay"
          /\ UNCHANGED <<disk, slots>>
      BY <1>1, <2>1 DEF JournalWrite, Full, WriteControl, IInv, TypeOK
    <3>2. Terminated(page, entry) = page
      BY <3>1, JournalLenAssumption DEF Terminated
    <3>3. Valid(page) = {i \in Slot : i < entry}
      BY <3>1, <3>2, JournalLenAssumption, ValidOfTerminated DEF IInv, PageInv
    <3>4. Abstract!Commit
      BY <3>1, <3>3, CommitStep
    <3> QED
      BY <3>4 DEF Abstract!Next
  <2>2. CASE ~Full
    BY <1>1, <2>2, WriteStep DEF Abstract!Next
  <2> QED
    BY <2>1, <2>2
<1>2. CASE JournalCommit
  <2>1. /\ pc = "open" /\ page # NoPage /\ page \in Page /\ entry \in 1 .. JournalLen
        /\ ctl' = [type |-> "PPRF_PUNCT", addr |-> Terminated(page, entry)] /\ pc' = "replay"
        /\ UNCHANGED <<disk, slots>>
    BY <1>2 DEF JournalCommit, WriteControl, IInv, TypeOK, PageInv
  <2>2. /\ Valid(Terminated(page, entry)) = {i \in Slot : i < entry}
        /\ \A i \in Slot : i < entry => Terminated(page, entry)[i] = page[i]
    BY <2>1, ValidOfTerminated DEF IInv, PageInv
  <2>3. Abstract!Commit
    BY <2>1, <2>2, CommitStep
  <2> QED
    BY <2>3 DEF Abstract!Next
<1>3. CASE ReplayBlock \/ JournalClear \/ Crash \/ Recover \/ UNCHANGED vars
  BY <1>3, OtherStep
<1> QED
  BY <1>1, <1>2, <1>3 DEF OnceNext, Others

\* A transaction of the journal is all or nothing: the journal and its recovery
\* implement the atomic store, whatever the crashes.
THEOREM Refinement == OnceSpec => ImplementsAtomicStore
<1>1. Init => Abstract!Init
  <2> SUFFICES ASSUME Init PROVE Abstract!Init
    OBVIOUS
  <2>1. Committed = disk /\ Queue = {}
    BY DEF Init, Committed, Queue
  <2> QED
    BY <2>1 DEF Init, OpenBatch, Abstract!Init, Abstract!Empty
<1>2. IInv /\ [OnceNext]_vars => TypeOK'
  BY NextTypeOK
<1> QED
  BY <1>1, <1>2, StepRefines, Invariance, PTL DEF OnceSpec, ImplementsAtomicStore, Abstract!Spec
=============================================================================
