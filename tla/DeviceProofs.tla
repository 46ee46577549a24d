---------------------------- MODULE DeviceProofs ----------------------------
(***************************************************************************)
(* Theorems about Device, for any number of work items, sectors, buckets   *)
(* and punctures: who can hold which lock where, and what follows from it. *)
(*                                                                         *)
(* The argument rests on one fact, EvictionFirst: the destructor comes to  *)
(* the cache only when the eviction thread is dead.  So one thread at a    *)
(* time is in persist_unlink, and that one never keeps a bucket lock while *)
(* it holds pprf_sem for a refresh.                                        *)
(***************************************************************************)
EXTENDS Device, TLAPS

\* Where a thread may be.
ItemLabel == {"idle", "down", "read", "recheck", "use", "end_io", "up"}
WalkLabel == {"bucket", "entry", "leave", "check", "has_room", "down_write", "write",
              "master", "down_read", "scan", "copy", "down_again"}
EvictLabel == WalkLabel \cup {"sleep", "dead"}
DtrLabel == WalkLabel \cup {"open", "jobs", "stopping", "free", "flush", "closed"}
Labels == ItemLabel \cup EvictLabel \cup DtrLabel
Label(t) == IF t \in Item THEN ItemLabel ELSE IF t = E THEN EvictLabel ELSE DtrLabel

\* Where it may hold a bucket lock; where pprf_sem for reading; and where it
\* has found room for a puncture and not made it.
Holding == {"read", "recheck", "use", "up", "entry", "leave", "check", "has_room",
            "down_write", "write", "master"}
Refreshing == {"scan", "copy", "master"}
Puncturing == {"has_room", "down_write"}
Waiting == {"open", "jobs", "stopping"}

PcOK == pc \in [Thread -> Labels] /\ \A t \in Thread : pc[t] \in Label(t)
EvictionFirst == pc[D] \in Waiting \/ pc[E] = "dead"
HolderOK ==
  /\ lock \in [Bucket -> Thread \cup {NoOne}] /\ bkt \in [Thread -> Bucket]
  /\ \A b \in Bucket, t \in Thread :
       lock[b] = t => b = bkt[t] /\ pc[t] \in Holding /\ t \notin reading
ReaderOK == reading \subseteq Thread /\ \A t \in reading : pc[t] \in Refreshing
RoomOK ==
  /\ used \in Nat /\ used <= Punctures
  /\ \A t \in Thread : pc[t] \in Puncturing => used < Punctures

IInv == PcOK /\ EvictionFirst /\ HolderOK /\ ReaderOK /\ RoomOK

-----------------------------------------------------------------------------
\* The eviction thread, the destructor and NoOne are three, and no work items.
LEMMA Names == E \in Thread /\ D \in Thread /\ E \notin Item /\ D \notin Item /\ E # D
               /\ NoOne \notin Thread
BY DeviceAssumption DEF E, D, NoOne, Thread, Item

\* A sector's bucket is a bucket.
LEMMA BucketOfSector == ASSUME NEW s \in Sector PROVE BucketOf(s) \in Bucket
BY DeviceAssumption DEF BucketOf, Bucket, Sector

LEMMA ZeroBucket == 0 \in Bucket
BY DeviceAssumption DEF Bucket

LEMMA InitIInv == Init => IInv
<1> SUFFICES ASSUME Init PROVE IInv
  OBVIOUS
<1>1. \A t \in Thread : pc[t] = IF t = E THEN "sleep" ELSE IF t = D THEN "open" ELSE "idle"
  BY DEF Init
<1>2. \A t \in Thread : t # E /\ t # D => t \in Item
  BY DEF Thread
<1>3. pc \in [Thread -> Labels]
  <2>1. "sleep" \in Labels /\ "open" \in Labels /\ "idle" \in Labels
    BY DEF Labels, ItemLabel, EvictLabel, DtrLabel
  <2> QED
    BY <2>1 DEF Init
<1>4. \A t \in Thread : pc[t] \in Label(t)
  BY <1>1, <1>2, Names DEF Label, ItemLabel, EvictLabel, DtrLabel, WalkLabel
<1>5. pc[D] = "open" /\ PcOK
  BY <1>1, <1>3, <1>4, Names DEF PcOK
<1>6. HolderOK
  BY Names, DeviceAssumption DEF Init, HolderOK, Bucket
<1>7. RoomOK
  BY <1>1, Names, DeviceAssumption DEF Init, RoomOK, Puncturing
<1> QED
  BY <1>5, <1>6, <1>7 DEF Init, IInv, EvictionFirst, Waiting, ReaderOK

-----------------------------------------------------------------------------
\* What one thread's step must not do, lest it disturb the invariant of the others.
LEMMA Step1 ==
  ASSUME IInv, NEW t \in Thread, NEW l \in Label(t), pc' = [pc EXCEPT ![t] = l],
         t = D => l \in Waiting \/ pc[E] = "dead",
         t = E => pc[E] # "dead",
         lock' \in [Bucket -> Thread \cup {NoOne}], bkt' \in [Thread -> Bucket],
         \A u \in Thread \ {t} : bkt'[u] = bkt[u],
         \A b \in Bucket : lock'[b] = lock[b] \/ lock'[b] \in {NoOne, t},
         \A b \in Bucket : lock'[b] = t => b = bkt'[t] /\ l \in Holding /\ t \notin reading',
         reading' \subseteq reading \cup {t}, t \in reading' => l \in Refreshing,
         RoomOK'
  PROVE  IInv'
<1>1. PcOK' /\ \A u \in Thread : pc'[u] = IF u = t THEN l ELSE pc[u]
  <2>1. \A u \in Thread : pc'[u] = IF u = t THEN l ELSE pc[u]
    BY DEF IInv, PcOK
  <2>2. \A u \in Thread : Label(u) \subseteq Labels
    BY DEF Label, Labels
  <2>3. \A u \in Thread : Label(u)' = Label(u)
    BY DEF Label
  <2>4. pc' \in [Thread -> Labels]
    BY <2>2 DEF IInv, PcOK
  <2> QED
    BY <2>1, <2>3, <2>4 DEF IInv, PcOK
<1>2. EvictionFirst'
  BY <1>1, Names DEF IInv, EvictionFirst
<1>3. HolderOK'
  BY <1>1, Names DEF IInv, HolderOK
<1>4. ReaderOK'
  BY <1>1 DEF IInv, ReaderOK
<1> QED
  BY <1>1, <1>2, <1>3, <1>4 DEF IInv

-----------------------------------------------------------------------------
\* One thread at a time walks the cache.
LEMMA Alone ==
  ASSUME IInv, NEW t \in Thread, NEW u \in Thread, pc[t] \in WalkLabel, pc[u] \in WalkLabel
  PROVE  t = u /\ t \notin Item
<1>1. t \notin Item /\ u \notin Item
  BY DEF IInv, PcOK, Label, ItemLabel, WalkLabel
<1>2. t \in {E, D} /\ u \in {E, D}
  BY <1>1 DEF Thread
<1>3. ~(pc[D] \in WalkLabel /\ pc[E] \in WalkLabel)
  BY DEF IInv, EvictionFirst, Waiting, WalkLabel
<1> QED
  BY <1>1, <1>2, <1>3

LEMMA Places ==
  /\ \A i \in Item : Label(i) = ItemLabel
  /\ Label(E) = EvictLabel /\ Label(D) = DtrLabel
BY Names DEF Label

\* A step that neither punctures nor passes the check keeps the room.
LEMMA RoomSame ==
  ASSUME IInv, NEW t \in Thread, NEW l \in Label(t), pc' = [pc EXCEPT ![t] = l],
         used' = used, l \in Puncturing => used < Punctures
  PROVE  RoomOK'
<1>1. \A u \in Thread : pc'[u] = IF u = t THEN l ELSE pc[u]
  BY DEF IInv, PcOK
<1> QED
  BY <1>1 DEF IInv, RoomOK

\* What a step that only moves on, lock and bucket as they were, has to show.
LEMMA Move ==
  ASSUME IInv, NEW t \in Thread, NEW l \in Label(t), pc' = [pc EXCEPT ![t] = l],
         t = D => l \in Waiting \/ pc[E] = "dead",
         t = E => pc[E] # "dead",
         lock' = lock, bkt' = bkt, reading' = reading, used' = used,
         pc[t] \in Holding /\ t \notin reading => l \in Holding,
         t \in reading => l \in Refreshing,
         l \in Puncturing => used < Punctures
  PROVE  IInv'
<1>1. RoomOK'
  BY RoomSame
<1>2. \A b \in Bucket : lock'[b] = t => b = bkt'[t] /\ l \in Holding /\ t \notin reading'
  BY DEF IInv, HolderOK
<1>3. lock' \in [Bucket -> Thread \cup {NoOne}] /\ bkt' \in [Thread -> Bucket]
  BY DEF IInv, HolderOK
<1> QED
  BY <1>1, <1>2, <1>3, Step1

\* A step that takes the lock of its bucket, which was free.
LEMMA Take ==
  ASSUME IInv, NEW t \in Thread, NEW l \in Label(t), pc' = [pc EXCEPT ![t] = l],
         t = D => pc[E] = "dead", t = E => pc[E] # "dead",
         Down(t, bkt[t]), bkt' = bkt, reading' = reading, used' = used,
         t \notin reading, l \in Holding, l \notin Puncturing
  PROVE  IInv'
<1>1. RoomOK'
  BY RoomSame
<1>2. lock' \in [Bucket -> Thread \cup {NoOne}] /\ bkt' \in [Thread -> Bucket]
  BY DEF IInv, HolderOK, Down
<1>3. \A b \in Bucket : lock'[b] = IF b = bkt[t] THEN t ELSE lock[b]
  BY DEF IInv, HolderOK, Down
<1>4. \A b \in Bucket : lock'[b] = t => b = bkt'[t] /\ l \in Holding /\ t \notin reading'
  BY <1>3 DEF IInv, HolderOK
<1> QED
  BY <1>1, <1>2, <1>3, <1>4, Step1

\* A step that gives the lock of its bucket back, and may go to another bucket.
LEMMA Give ==
  ASSUME IInv, NEW t \in Thread, NEW l \in Label(t), pc' = [pc EXCEPT ![t] = l],
         t = D => pc[E] = "dead", t = E => pc[E] # "dead",
         Up(bkt[t]), bkt' \in [Thread -> Bucket], \A u \in Thread \ {t} : bkt'[u] = bkt[u],
         reading' = reading, used' = used, t \notin reading, l \notin Puncturing
  PROVE  IInv'
<1>1. RoomOK'
  BY RoomSame
<1>2. lock' \in [Bucket -> Thread \cup {NoOne}]
  BY DEF IInv, HolderOK, Up
<1>3. \A b \in Bucket : lock'[b] = IF b = bkt[t] THEN NoOne ELSE lock[b]
  BY DEF IInv, HolderOK, Up
<1>4. \A b \in Bucket : lock'[b] # t
  BY <1>3, Names DEF IInv, HolderOK
<1> QED
  BY <1>1, <1>2, <1>3, <1>4, Step1

\* A step that touches none of what the invariant is about.
LEMMA Same ==
  ASSUME IInv, UNCHANGED <<pc, lock, bkt, reading, used>>
  PROVE  IInv'
BY DEF IInv, PcOK, Label, EvictionFirst, HolderOK, ReaderOK, RoomOK

LEMMA FailKeeps == ASSUME IInv, NEW f, Fail(f) PROVE IInv'
BY Same DEF Fail, store, keys, sem, walk

-----------------------------------------------------------------------------
\* Where an item is, by the labels an item has, nothing of persist_unlink runs.
LEMMA NoItemPersists == ASSUME IInv, NEW i \in Item, PersistUnlink(i) PROVE FALSE
<1>1. pc[i] \in ItemLabel
  BY Places DEF IInv, PcOK, Thread
<1> QED
  BY <1>1 DEF ItemLabel, PersistUnlink, CheckRoom, QueueWrite, Puncture, WriteEntry, RotateMaster,
              RefreshBegin, RefreshSector, ClearKey, CopyKey, Reacquire

LEMMA QueueKeeps == ASSUME IInv, Queue PROVE IInv'
<1>1. ASSUME NEW i \in Item, NEW s \in Sector, pc[i] = "idle", Goto(i, "down"),
             bkt' = [bkt EXCEPT ![i] = BucketOf(s)], UNCHANGED <<lock, reading, used>>
      PROVE  IInv'
  <2>1. i \in Thread /\ i # E /\ i # D /\ "down" \in Label(i)
    BY Names, Places DEF Thread, ItemLabel
  <2>2. pc' = [pc EXCEPT ![i] = "down"]
    BY <1>1 DEF Goto
  <2>3. RoomOK'
    BY <1>1, <2>1, <2>2, RoomSame DEF Puncturing
  <2>4. bkt' \in [Thread -> Bucket] /\ \A u \in Thread \ {i} : bkt'[u] = bkt[u]
    BY <1>1, BucketOfSector DEF IInv, HolderOK
  <2>5. lock' \in [Bucket -> Thread \cup {NoOne}] /\ \A b \in Bucket : lock'[b] # i
    BY <1>1, <2>1 DEF IInv, HolderOK, Holding
  <2>6. i \notin reading
    BY <1>1 DEF IInv, ReaderOK, Refreshing
  <2> QED
    BY <1>1, <2>1, <2>2, <2>3, <2>4, <2>5, <2>6, Step1
<1>2. ASSUME NEW i \in IoWork, NEW s \in Sector, QueueIo(i, s) PROVE IInv'
  BY <1>1, <1>2 DEF QueueIo, Item, store, keys, sem
<1>3. ASSUME NEW i \in UnlinkWork, NEW s \in Sector, QueueUnlink(i, s) PROVE IInv'
  BY <1>1, <1>3 DEF QueueUnlink, Item, store, keys, sem
<1> QED
  BY <1>2, <1>3 DEF Queue

LEMMA ItemKeeps == ASSUME IInv, NEW i \in Item, ItemStep(i) PROVE IInv'
<1> USE DEF store, keys, sem, walk, Goto
<1>1. i \in Thread /\ i # E /\ i # D /\ Label(i) = ItemLabel /\ i \notin reading
  BY Names, Places DEF Thread, IInv, PcOK, ReaderOK, ItemLabel, Refreshing
<1>2. ASSUME GetEntry(i) PROVE IInv'
  <2>1. PICK l \in {"use", "read"} : pc' = [pc EXCEPT ![i] = l]
    BY <1>2 DEF GetEntry
  <2> QED
    BY <1>1, <1>2, <2>1, Take DEF GetEntry, ItemLabel, Holding, Puncturing
<1>3. ASSUME ReadEntry(i) PROVE IInv'
  <2>1. PICK l \in {"use", "recheck"} : pc' = [pc EXCEPT ![i] = l]
    BY <1>3 DEF ReadEntry
  <2> QED
    BY <1>1, <1>3, <2>1, Move DEF ReadEntry, ItemLabel, Holding, Puncturing
<1>4. ASSUME RereadEntry(i) PROVE IInv'
  BY <1>1, <1>4, Move DEF RereadEntry, ItemLabel, Holding, Puncturing
<1>5. ASSUME CopyKeyOut(i) PROVE IInv'
  <2>1. bkt \in [Thread -> Bucket]
    BY DEF IInv, HolderOK
  <2> QED
    BY <1>1, <1>5, <2>1, Give DEF CopyKeyOut, ItemLabel, Puncturing
<1>6. ASSUME EndIo(i) PROVE IInv'
  <2>1. bkt' \in [Thread -> Bucket] /\ \A u \in Thread \ {i} : bkt'[u] = bkt[u]
    BY <1>6, ZeroBucket DEF EndIo, WorkDone, IInv, HolderOK
  <2>2. lock' \in [Bucket -> Thread \cup {NoOne}] /\ \A b \in Bucket : lock'[b] # i
    BY <1>1, <1>6 DEF EndIo, IInv, HolderOK, Holding
  <2>3. "idle" \in Label(i) /\ pc' = [pc EXCEPT ![i] = "idle"]
    BY <1>1, <1>6 DEF EndIo, WorkDone, ItemLabel
  <2>4. RoomOK'
    BY <1>1, <1>6, <2>3, RoomSame DEF EndIo, Puncturing
  <2> QED
    BY <1>1, <1>6, <2>1, <2>2, <2>3, <2>4, Step1 DEF EndIo
<1>7. ASSUME DoUnlink(i) PROVE IInv'
  BY <1>1, <1>7, Move DEF DoUnlink, Unlinked, ItemLabel, Holding, Puncturing
<1>8. ASSUME UnlinkDone(i) PROVE IInv'
  <2>1. bkt' \in [Thread -> Bucket] /\ \A u \in Thread \ {i} : bkt'[u] = bkt[u]
    BY <1>8, ZeroBucket DEF UnlinkDone, WorkDone, IInv, HolderOK
  <2> QED
    BY <1>1, <1>8, <2>1, Give DEF UnlinkDone, WorkDone, ItemLabel, Puncturing
<1> QED
  BY <1>2, <1>3, <1>4, <1>5, <1>6, <1>7, <1>8, NoItemPersists DEF ItemStep

-----------------------------------------------------------------------------
\* What is known of a thread that walks the cache.
LEMMA Walker ==
  ASSUME IInv, NEW t \in {E, D}, pc[t] \in WalkLabel
  PROVE  /\ t \in Thread /\ t \notin Item /\ WalkLabel \subseteq Label(t)
         /\ t = D => pc[E] = "dead"
         /\ t = E => pc[E] # "dead"
         /\ \A u \in Thread \ {t} : pc[u] \notin Puncturing /\ u \notin reading
<1>1. t \in Thread /\ t \notin Item /\ WalkLabel \subseteq Label(t)
  BY Names, Places DEF EvictLabel, DtrLabel
<1>2. (t = D => pc[E] = "dead") /\ (t = E => pc[E] # "dead")
  BY DEF IInv, EvictionFirst, Waiting, WalkLabel
<1>3. Puncturing \subseteq WalkLabel /\ Refreshing \subseteq WalkLabel
  BY DEF Puncturing, Refreshing, WalkLabel
<1>4. \A u \in Thread \ {t} : pc[u] \notin WalkLabel
  BY <1>1, Alone
<1> QED
  BY <1>1, <1>2, <1>3, <1>4 DEF IInv, ReaderOK

LEMMA PersistKeeps == ASSUME IInv, NEW t \in {E, D}, PersistUnlink(t) PROVE IInv'
<1> USE DEF store, keys, sem, walk, Goto
<1>1. pc[t] \in WalkLabel
  BY DEF WalkLabel, PersistUnlink, CheckRoom, QueueWrite, Puncture, WriteEntry, RotateMaster,
         RefreshBegin, RefreshSector, ClearKey, CopyKey, Reacquire
<1>2. /\ t \in Thread /\ t \notin Item /\ WalkLabel \subseteq Label(t)
      /\ t = D => pc[E] = "dead"
      /\ t = E => pc[E] # "dead"
      /\ \A u \in Thread \ {t} : pc[u] \notin Puncturing /\ u \notin reading
  BY <1>1, Walker
<1>3. pc[t] \in Refreshing \/ t \notin reading
  BY <1>2 DEF IInv, ReaderOK
<1>4. bkt \in [Thread -> Bucket] /\ lock \in [Bucket -> Thread \cup {NoOne}]
  BY DEF IInv, HolderOK
<1>5. ASSUME CheckRoom(t) PROVE IInv'
  <2>1. CASE Full
    BY <1>2, <1>3, <1>4, <1>5, <2>1, Give DEF CheckRoom, WalkLabel, Refreshing, Puncturing
  <2>2. CASE ~Full
    <3>1. used < Punctures
      BY <2>2, DeviceAssumption DEF Full, IInv, RoomOK
    <3> QED
      BY <1>2, <1>3, <1>5, <2>2, <3>1, Move DEF CheckRoom, WalkLabel, Refreshing, Holding
  <2> QED
    BY <2>1, <2>2
<1>6. ASSUME QueueWrite(t) PROVE IInv'
  <2>1. used < Punctures
    BY <1>2, <1>6 DEF QueueWrite, IInv, RoomOK, Puncturing
  <2> QED
    BY <1>2, <1>3, <1>6, <2>1, Move DEF QueueWrite, WalkLabel, Refreshing, Holding
<1>7. ASSUME Puncture(t) PROVE IInv'
  <2>1. used < Punctures /\ used' = used + 1 /\ used \in Nat
    BY <1>2, <1>7 DEF Puncture, IInv, RoomOK, Puncturing
  <2>2. /\ pc' = [pc EXCEPT ![t] = "write"]
        /\ \A u \in Thread : pc'[u] = IF u = t THEN "write" ELSE pc[u]
    BY <1>7 DEF Puncture, IInv, PcOK
  <2>3. \A u \in Thread : pc'[u] \notin Puncturing
    BY <1>2, <2>2 DEF Puncturing
  <2>4. RoomOK'
    BY <2>1, <2>3, DeviceAssumption DEF RoomOK
  <2>5. \A b \in Bucket : lock'[b] = t => b = bkt'[t] /\ "write" \in Holding /\ t \notin reading'
    BY <1>2, <1>7 DEF Puncture, IInv, HolderOK, Holding
  <2>6. "write" \in Label(t) /\ t \notin reading /\ "write" \notin Waiting
    BY <1>2, <1>3, <1>7 DEF Puncture, WalkLabel, Refreshing, Waiting
  <2>7. lock' = lock /\ bkt' = bkt /\ reading' = reading
    BY <1>7 DEF Puncture
  <2> QED
    BY <1>2, <1>4, <2>2, <2>4, <2>5, <2>6, <2>7, Step1
<1>8. ASSUME WriteEntry(t) PROVE IInv'
  BY <1>2, <1>3, <1>8, Move DEF WriteEntry, WalkLabel, Refreshing, Holding, Puncturing
<1>9. ASSUME RotateMaster(t) PROVE IInv'
  <2>1. PICK l \in {"down_again", "leave"} :
          pc' = [pc EXCEPT ![t] = l] /\ l = IF t \in reading THEN "down_again" ELSE "leave"
    BY <1>2, <1>9 DEF RotateMaster, Resume
  <2>2. l \in Label(t) /\ l \notin Puncturing
    BY <1>2, <2>1 DEF WalkLabel, Puncturing
  <2>3. lock' = lock /\ bkt' = bkt /\ reading' = reading \ {t} /\ used' = used
    BY <1>9 DEF RotateMaster
  <2>4. RoomOK'
    BY <1>2, <2>1, <2>2, <2>3, RoomSame
  <2>5. \A b \in Bucket : lock'[b] = t => b = bkt'[t] /\ l \in Holding /\ t \notin reading'
    BY <1>2, <2>1, <2>3 DEF IInv, HolderOK, Holding
  <2> QED
    BY <1>2, <1>4, <2>1, <2>2, <2>3, <2>4, <2>5, Step1
<1>10. ASSUME RefreshBegin(t) PROVE IInv'
  <2>1. CASE \E f : Fail(f)
    BY <2>1, FailKeeps
  <2>2. CASE reading' = {t} /\ reading = {} /\ Goto(t, "scan") /\ UNCHANGED <<lock, bkt, used>>
    <3>1. "scan" \in Label(t) /\ "scan" \notin Puncturing /\ "scan" \in Refreshing
      BY <1>2 DEF WalkLabel, Puncturing, Refreshing
    <3>2. RoomOK'
      BY <1>2, <2>2, <3>1, RoomSame
    <3>3. \A b \in Bucket : lock'[b] # t
      BY <1>2, <1>10, <2>2 DEF RefreshBegin, IInv, HolderOK, Holding
    <3> QED
      BY <1>2, <1>4, <2>2, <3>1, <3>2, <3>3, Step1
  <2> QED
    BY <1>10, <2>1, <2>2 DEF RefreshBegin
<1>11. ASSUME RefreshSector(t) PROVE IInv'
  BY <1>11, Same DEF RefreshSector
<1>12. ASSUME ClearKey(t) PROVE IInv'
  <2>1. pc' = [pc EXCEPT ![t] = "copy"] /\ used' = 0 /\ UNCHANGED <<lock, bkt, reading>>
    BY <1>12 DEF ClearKey
  <2>2. RoomOK'
    BY <2>1, DeviceAssumption DEF RoomOK
  <2>3. \A b \in Bucket : lock'[b] # t
    BY <1>2, <1>12, <2>1 DEF ClearKey, IInv, HolderOK, Holding
  <2>4. "copy" \in Label(t) /\ "copy" \in Refreshing
    BY <1>2 DEF WalkLabel, Refreshing
  <2> QED
    BY <1>2, <1>4, <2>1, <2>2, <2>3, <2>4, Step1
<1>13. ASSUME CopyKey(t) PROVE IInv'
  BY <1>2, <1>3, <1>13, Move DEF CopyKey, WalkLabel, Refreshing, Holding, Puncturing
<1>14. ASSUME Reacquire(t) PROVE IInv'
  BY <1>2, <1>3, <1>14, Take DEF Reacquire, Resume, WalkLabel, Refreshing, Holding, Puncturing
<1> QED
  BY <1>5, <1>6, <1>7, <1>8, <1>9, <1>10, <1>11, <1>12, <1>13, <1>14 DEF PersistUnlink

LEMMA WalkKeeps == ASSUME IInv, NEW t \in {E, D}, Walk(t) PROVE IInv'
<1> USE DEF store, keys, sem, walk, Goto
<1>1. pc[t] \in WalkLabel
  BY DEF WalkLabel, Walk, EnterBucket, PassBucket, LeaveEntry, LeaveBucket
<1>2. /\ t \in Thread /\ t \notin Item /\ WalkLabel \subseteq Label(t)
      /\ t = D => pc[E] = "dead"
      /\ t = E => pc[E] # "dead"
  BY <1>1, Walker
<1>3. t \notin reading
  BY DEF Walk, EnterBucket, PassBucket, LeaveEntry, LeaveBucket, IInv, ReaderOK, Refreshing
<1>4. bkt \in [Thread -> Bucket] /\ lock \in [Bucket -> Thread \cup {NoOne}]
  BY DEF IInv, HolderOK
<1>5. ASSUME NextBucket(t)
      PROVE  \E l \in Label(t) :
               /\ pc' = [pc EXCEPT ![t] = l] /\ l \notin Puncturing
               /\ bkt' \in [Thread -> Bucket] /\ \A u \in Thread \ {t} : bkt'[u] = bkt[u]
  <2>1. "bucket" \in Label(t)
    BY <1>2 DEF WalkLabel
  <2>2. (IF t = E THEN "sleep" ELSE "free") \in Label(t)
    BY <1>2, Places DEF EvictLabel, DtrLabel
  <2>3. bkt' \in [Thread -> Bucket]
    <3>1. CASE bkt[t] + 1 < Buckets
      <4>1. bkt[t] + 1 \in Bucket
        BY <1>2, <1>4, <3>1, DeviceAssumption DEF Bucket
      <4> QED
        BY <1>4, <1>5, <3>1, <4>1 DEF NextBucket
    <3>2. CASE ~(bkt[t] + 1 < Buckets)
      BY <1>4, <1>5, <3>2, ZeroBucket DEF NextBucket
    <3> QED
      BY <3>1, <3>2
  <2>4. \A u \in Thread \ {t} : bkt'[u] = bkt[u]
    BY <1>4, <1>5 DEF NextBucket
  <2>5. "bucket" \notin Puncturing /\ "sleep" \notin Puncturing /\ "free" \notin Puncturing
    BY DEF Puncturing
  <2> QED
    BY <1>5, <2>1, <2>2, <2>3, <2>4, <2>5 DEF NextBucket
<1>6. ASSUME EnterBucket(t) PROVE IInv'
  BY <1>2, <1>3, <1>6, Take DEF EnterBucket, WalkLabel, Holding, Puncturing
<1>7. ASSUME PassBucket(t) PROVE IInv'
  <2>1. PICK l \in Label(t) :
          /\ pc' = [pc EXCEPT ![t] = l] /\ l \notin Puncturing
          /\ bkt' \in [Thread -> Bucket] /\ \A u \in Thread \ {t} : bkt'[u] = bkt[u]
    BY <1>5, <1>7 DEF PassBucket
  <2>2. UNCHANGED <<lock, reading, used>>
    BY <1>7 DEF PassBucket
  <2>3. RoomOK'
    BY <1>2, <2>1, <2>2, RoomSame
  <2>4. \A b \in Bucket : lock'[b] # t
    BY <1>2, <1>7, <2>2 DEF PassBucket, IInv, HolderOK, Holding
  <2> QED
    BY <1>2, <1>3, <1>4, <2>1, <2>2, <2>3, <2>4, Step1
<1>8. ASSUME LeaveEntry(t) PROVE IInv'
  <2>1. CASE \E f : Fail(f)
    BY <2>1, FailKeeps
  <2>2. CASE Goto(t, "entry") /\ UNCHANGED <<lock, bkt, reading, used>>
    BY <1>2, <1>3, <2>2, Move DEF WalkLabel, Holding, Puncturing
  <2> QED
    BY <1>8, <2>1, <2>2 DEF LeaveEntry
<1>9. ASSUME LeaveBucket(t) PROVE IInv'
  <2>1. PICK l \in Label(t) :
          /\ pc' = [pc EXCEPT ![t] = l] /\ l \notin Puncturing
          /\ bkt' \in [Thread -> Bucket] /\ \A u \in Thread \ {t} : bkt'[u] = bkt[u]
    BY <1>5, <1>9 DEF LeaveBucket
  <2> QED
    BY <1>2, <1>3, <1>9, <2>1, Give DEF LeaveBucket
<1> QED
  BY <1>6, <1>7, <1>8, <1>9 DEF Walk

\* The eviction thread takes up no work once it is dead.
LEMMA EvictKeeps == ASSUME IInv, Evict PROVE IInv'
<1> USE DEF store, keys, sem, walk, Goto
<1>1. E \in Thread /\ E # D /\ E \notin Item /\ Label(E) = EvictLabel
  BY Names, Places
<1>2. ASSUME Wake PROVE IInv'
  <2>1. PICK l \in {"dead", "bucket"} : pc' = [pc EXCEPT ![E] = l]
    BY <1>2 DEF Wake
  <2>2. l \in Label(E) /\ l \notin Puncturing
    BY <1>1 DEF EvictLabel, WalkLabel, Puncturing
  <2>3. UNCHANGED <<lock, reading, used>>
    BY <1>2 DEF Wake
  <2>4. RoomOK'
    BY <1>1, <2>1, <2>2, <2>3, RoomSame
  <2>5. /\ bkt' \in [Thread -> Bucket] /\ \A u \in Thread \ {E} : bkt'[u] = bkt[u]
        /\ lock \in [Bucket -> Thread \cup {NoOne}]
    BY <1>2, ZeroBucket DEF Wake, IInv, HolderOK
  <2>6. E \notin reading /\ \A b \in Bucket : lock'[b] # E
    BY <1>1, <1>2, <2>3 DEF Wake, IInv, HolderOK, ReaderOK, Holding, Refreshing
  <2>7. pc[E] # "dead"
    BY <1>2 DEF Wake
  <2> QED
    BY <1>1, <2>1, <2>2, <2>3, <2>4, <2>5, <2>6, <2>7, Step1
<1>3. ASSUME NEW w \in BOOLEAN, NEW d \in BOOLEAN, EvictEntry(w, d) PROVE IInv'
  <2>1. PICK l \in {"check", "leave"} : pc' = [pc EXCEPT ![E] = l]
    BY <1>3 DEF EvictEntry
  <2>2. E \notin reading /\ pc[E] # "dead"
    BY <1>3 DEF EvictEntry, IInv, ReaderOK, Refreshing
  <2> QED
    BY <1>1, <1>3, <2>1, <2>2, Move DEF EvictEntry, EvictLabel, WalkLabel, Holding, Puncturing
<1> QED
  BY <1>2, <1>3, WalkKeeps, PersistKeeps DEF Evict

\* The destructor comes to the cache only when the eviction thread is dead.
LEMMA DestroyKeeps == ASSUME IInv, Destroy \/ Shutdown PROVE IInv'
<1> USE DEF store, keys, sem, walk, life, Goto
<1>1. D \in Thread /\ E # D /\ D \notin Item /\ Label(D) = DtrLabel
  BY Names, Places
<1>2. ASSUME NEW l \in {"jobs", "stopping", "bucket", "check", "leave", "flush", "closed"},
             Goto(D, l), UNCHANGED <<lock, bkt, reading, used>>,
             pc[D] \in {"open", "jobs", "stopping", "entry", "free", "flush"},
             pc[D] = "entry" => l \in {"check", "leave"},
             l \in Waiting \/ pc[E] = "dead"
      PROVE  IInv'
  <2>1. D \notin reading
    BY <1>2 DEF IInv, ReaderOK, Refreshing
  <2> QED
    BY <1>1, <1>2, <2>1, Move DEF DtrLabel, WalkLabel, Holding, Puncturing
<1>3. ASSUME Shutdown PROVE IInv'
  BY <1>2, <1>3 DEF Shutdown, Waiting
<1>4. ASSUME StopEviction PROVE IInv'
  BY <1>2, <1>4 DEF StopEviction, Waiting
<1>5. ASSUME ForceEvict PROVE IInv'
  BY <1>2, <1>5 DEF ForceEvict, EvictionStopped
<1>6. ASSUME ForceEvictEntry \/ Free \/ Closed PROVE IInv'
  <2>1. pc[E] = "dead"
    BY <1>6 DEF ForceEvictEntry, Free, Closed, IInv, EvictionFirst, Waiting
  <2>2. PICK l \in {"check", "leave", "flush", "closed"} : Goto(D, l)
    BY <1>6 DEF ForceEvictEntry, Free, Closed
  <2> QED
    BY <1>2, <1>6, <2>1, <2>2 DEF ForceEvictEntry, Free, Closed
<1> QED
  BY <1>3, <1>4, <1>5, <1>6, WalkKeeps, PersistKeeps DEF Destroy

-----------------------------------------------------------------------------
LEMMA NextIInv == IInv /\ [Next]_vars => IInv'
<1> SUFFICES ASSUME IInv, [Next]_vars PROVE IInv'
  OBVIOUS
<1>1. CASE UNCHANGED vars
  BY <1>1, Same DEF vars, store, keys, sem, walk
<1>2. CASE Step
  <2>1. ASSUME NEW i \in Item, Work(i) PROVE IInv'
    BY <2>1, ItemKeeps, FailKeeps DEF Work, LateWork
  <2> QED
    BY <1>2, <2>1, QueueKeeps, EvictKeeps, DestroyKeeps DEF Step
<1> QED
  BY <1>1, <1>2 DEF Next

\* Every step of every thread keeps the inductive invariant.
THEOREM Invariance == Spec => []IInv
BY InitIInv, NextIInv, PTL DEF Spec

\* A refresh goes through the key table from its first sector on.
LEMMA RotCounts == Spec => [](rot \in Nat)
<1> DEFINE RotOK == rot \in Nat
<1>1. Init => RotOK
  BY DEF Init
<1>2. ASSUME rot \in Nat, [Next]_vars PROVE rot' \in Nat
  <2> USE DEF walk, life
  <2>1. ASSUME NEW t, PersistUnlink(t) PROVE rot' \in Nat
    <3>1. ASSUME RefreshBegin(t) PROVE rot' \in Nat
      <4>1. (\E f : Fail(f)) \/ rot' = 0
        BY <3>1 DEF RefreshBegin
      <4> QED
        BY <1>2, <4>1 DEF Fail
    <3>2. ASSUME RefreshSector(t) PROVE rot' \in Nat
      BY <1>2, <3>2 DEF RefreshSector
    <3>3. ASSUME CheckRoom(t) \/ QueueWrite(t) \/ Puncture(t) \/ WriteEntry(t) PROVE rot' \in Nat
      BY <1>2, <3>3 DEF CheckRoom, QueueWrite, Puncture, WriteEntry
    <3>4. ASSUME RotateMaster(t) \/ ClearKey(t) \/ CopyKey(t) \/ Reacquire(t) PROVE rot' \in Nat
      BY <1>2, <3>4 DEF RotateMaster, ClearKey, CopyKey, Reacquire
    <3> QED
      BY <2>1, <3>1, <3>2, <3>3, <3>4 DEF PersistUnlink
  <2>2. ASSUME NEW t, Walk(t) PROVE rot' \in Nat
    BY <1>2, <2>2 DEF Walk, EnterBucket, PassBucket, LeaveEntry, LeaveBucket, Fail
  <2>3. ASSUME NEW i, Work(i) PROVE rot' \in Nat
    BY <1>2, <2>1, <2>3 DEF Work, LateWork, Fail, ItemStep, GetEntry, ReadEntry, RereadEntry,
        CopyKeyOut, EndIo, DoUnlink, UnlinkDone
  <2>4. ASSUME Queue PROVE rot' \in Nat
    BY <1>2, <2>4 DEF Queue, QueueIo, QueueUnlink
  <2>5. ASSUME Evict PROVE rot' \in Nat
    BY <1>2, <2>1, <2>2, <2>5 DEF Evict, Wake, EvictEntry
  <2>6. ASSUME Shutdown \/ Destroy PROVE rot' \in Nat
    BY <1>2, <2>1, <2>2, <2>6 DEF Shutdown, Destroy, StopEviction, ForceEvict, ForceEvictEntry,
        Free, Closed
  <2> QED
    BY <1>2, <2>3, <2>4, <2>5, <2>6 DEF Next, Step, vars
<1>3. RotOK /\ [Next]_vars => RotOK'
  BY <1>2
<1> HIDE DEF RotOK
<1>4. Spec => []RotOK
  BY <1>1, <1>3, PTL DEF Spec
<1> QED
  BY <1>4 DEF RotOK

\* persist_unlink looks the room up without pprf_sem (dm-holepunch-main.c:1668),
\* and still the PPRF key never outgrows it, whatever the number of threads:
\* whoever punctures is the only one to walk the cache, so the room it found is
\* there.
THEOREM RoomBounded == Spec => []RoomKept
<1>1. IInv => RoomKept
  BY DEF IInv, RoomOK, RoomKept
<1> QED
  BY <1>1, Invariance, PTL

\* No two threads are in rotate_master (dm-holepunch-main.c:738), which takes no lock.
THEOREM OneRotation == Spec => []OneMaster
<1>1. ASSUME IInv PROVE OneMaster
  BY <1>1, Alone DEF OneMaster, WalkLabel
<1> QED
  BY <1>1, Invariance, PTL

\* A refresh takes every bucket lock while it holds pprf_sem for reading, and a
\* holder of a bucket lock may want pprf_sem (dm-holepunch-main.c:971, 1685): they
\* never wait for each other.
\* The holder is not the refresh itself, which gave its bucket back; it wants
\* no puncture, and nobody else does, for that would be a second walker.
THEOREM NoWedge == Spec => []NeverWedged
<1>1. ASSUME IInv, NEW t \in reading, pc[t] = "scan", NEW s \in Sector,
             NEW u \in Thread, u = lock[BucketOf(s)],
             u = t \/ pc[u] = "down_write" \/ (pc[u] = "read" /\ WriterWaits)
      PROVE  FALSE
  <2>1. t \in Thread /\ pc[t] \in WalkLabel
    BY <1>1 DEF IInv, ReaderOK, WalkLabel
  <2>2. u # t
    BY <1>1, <2>1, BucketOfSector DEF IInv, HolderOK
  <2>3. ASSUME NEW w \in Thread, pc[w] = "down_write" PROVE FALSE
    <3>1. w = t
      BY <1>1, <2>1, <2>3, Alone DEF WalkLabel
    <3> QED
      BY <1>1, <2>3, <3>1
  <2> QED
    BY <1>1, <2>2, <2>3 DEF WriterWaits
<1>2. ASSUME IInv, rot \in Nat, Wedged PROVE FALSE
  <2>1. PICK t \in reading :
          /\ pc[t] = "scan" /\ rot < KeyTableLen /\ lock[BucketOf(rot)] # NoOne
          /\ LET u == lock[BucketOf(rot)]
             IN  u = t \/ pc[u] = "down_write" \/ (pc[u] = "read" /\ WriterWaits)
    BY <1>2 DEF Wedged
  <2>2. rot \in Sector
    BY <1>2, <2>1, DeviceAssumption DEF Sector
  <2>3. lock[BucketOf(rot)] \in Thread
    BY <1>2, <2>1, <2>2, BucketOfSector DEF IInv, HolderOK
  <2> QED
    BY <1>1, <1>2, <2>1, <2>2, <2>3
<1>3. IInv /\ rot \in Nat => NeverWedged
  BY <1>2 DEF NeverWedged
<1> QED
  BY <1>3, Invariance, RotCounts, PTL

=============================================================================
