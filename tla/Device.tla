-------------------------------- MODULE Device --------------------------------
(***************************************************************************)
(* The threads of an open device and their locks (dm-holepunch-main.c):    *)
(* work items of the I/O and unlink queues, the eviction thread and the    *)
(* destructor share the cache of key table sectors, a lock per bucket of   *)
(* it, and the PPRF key under pprf_sem.  A refresh of the PPRF key runs    *)
(* with pprf_sem held for READING, beside readers, and takes every bucket  *)
(* lock in turn; readers tell old sectors from new ones by their magic.    *)
(*                                                                         *)
(* The build is the one with HOLEPUNCH_BATCHING: an unlink only marks its  *)
(* entry dirty, the eviction thread and the destructor persist it.         *)
(*                                                                         *)
(* What runs entirely under a bucket lock or the write lock, and touches   *)
(* what that lock guards, is one step.  A step on freed memory, or one     *)
(* that overwrites another thread's refresh, sets `fault` and ends it:     *)
(* nothing is claimed of what follows.                                     *)
(***************************************************************************)
EXTENDS Integers, Sequences, FiniteSets, Functions

CONSTANTS
  IoWork,      \* work items of the I/O queue, each used again and again
  UnlinkWork,  \* work items of the unlink queue, likewise
  KeyTableLen, \* sectors of the key table
  Buckets,     \* ERASER_MAP_CACHE_BUCKETS
  Punctures,   \* punctures the PPRF key has room for between two refreshes
  MaxUnlinks   \* a bound on the unlinks

ASSUME DeviceAssumption ==
  /\ KeyTableLen \in Nat \ {0} /\ Buckets \in Nat \ {0}
  /\ Punctures \in Nat \ {0} /\ MaxUnlinks \in Nat
  /\ IsFiniteSet(IoWork) /\ IsFiniteSet(UnlinkWork) /\ IoWork \cap UnlinkWork = {}
  /\ (IoWork \cup UnlinkWork) \cap {"evict", "dtr", "nobody"} = {}

VARIABLES
  disk,      \* the key table: root and tag of each sector's key, its contents
  pprf,      \* pprf_key: its root and the tags punctured in it
  newroot,   \* pprf_key_new, which is never punctured
  used,      \* pprf_size, in punctures
  tagctr,    \* tag_counter
  list,      \* map_cache_list: the sectors cached, by bucket
  entry,     \* their cache entries
  lock,      \* cache_lock: the holder
  reading, writing,  \* pprf_sem: the holders
  pc,        \* what each thread does next
  at,        \* the sector, or the cache entry, a thread works on
  next,      \* n of list_for_each_entry_safe
  bkt,       \* the bucket a thread works on
  willEvict, \* will_evict of the eviction thread
  rot,       \* the next sector of a refresh
  shutdown, jobs,  \* rd->shutdown, rd->jobs
  ver,       \* yardstick: the contents each sector should have
  due,       \* yardstick: ver when the destructor was called
  fault      \* what went wrong, or "none"

keys == <<pprf, newroot, used, tagctr>>
store == <<disk, keys, list, entry>>
sem == <<reading, writing>>
walk == <<at, next, bkt, willEvict>>
life == <<shutdown, jobs, due>>
vars == <<store, lock, sem, pc, walk, rot, life, ver, fault>>

E == "evict"
D == "dtr"
Item == IoWork \cup UnlinkWork
Thread == Item \cup {E, D}
Sector == 0 .. KeyTableLen - 1
Bucket == 0 .. Buckets - 1
BucketOf(s) == s % Buckets

NoOne == "nobody"
End == -1     \* the head of a list: the loop is over
Freed == -2   \* an entry that was dropped while a thread still points to it
Junk == -1    \* contents decrypted under a wrong key
Torn == 0     \* the root of a PPRF key that is being overwritten
NoEntry == [tag |-> 0, ver |-> Junk, dirty |-> "no"]

Init ==
  /\ ver = [s \in Sector |-> 0] /\ due = ver
  /\ disk = [s \in Sector |-> [root |-> 1, tag |-> s, ver |-> ver[s]]]
  /\ pprf = [root |-> 1, punct |-> {}] /\ newroot = Torn
  /\ used = 0 /\ tagctr = KeyTableLen
  /\ list = [b \in Bucket |-> <<>>] /\ entry = [s \in Sector |-> NoEntry]
  /\ lock = [b \in Bucket |-> NoOne] /\ reading = {} /\ writing = NoOne
  /\ pc = [t \in Thread |-> IF t = E THEN "sleep" ELSE IF t = D THEN "open" ELSE "idle"]
  /\ at = [t \in Thread |-> End] /\ next = [t \in Thread |-> End]
  /\ bkt = [t \in Thread |-> 0] /\ willEvict = FALSE
  /\ rot = 0 /\ shutdown = FALSE /\ jobs = 0 /\ fault = "none"

-----------------------------------------------------------------------------
(* Lists, locks and keys.                                                  *)

Cached(s) == s \in Range(list[BucketOf(s)])
Index(l, s) == CHOOSE i \in DOMAIN l : l[i] = s
Without(l, s) == SubSeq(l, 1, Index(l, s) - 1) \o SubSeq(l, Index(l, s) + 1, Len(l))
Drop(s) ==
  /\ list' = [list EXCEPT ![BucketOf(s)] = Without(@, s)]
  /\ entry' = [entry EXCEPT ![s] = NoEntry]

\* list_first_entry, list_next_entry.
From(b, i) == IF i > Len(list[b]) THEN End ELSE list[b][i]
After(s) == From(BucketOf(s), Index(list[BucketOf(s)], s) + 1)

Goto(t, l) == pc' = [pc EXCEPT ![t] = l]
Down(t, b) == lock[b] = NoOne /\ lock' = [lock EXCEPT ![b] = t]
Up(b) == lock' = [lock EXCEPT ![b] = NoOne]

\* A waiting writer holds off the readers that come after it.
WriterWaits == \E t \in Thread : pc[t] = "down_write"
MayRead == writing = NoOne /\ ~WriterWaits

\* A sector of the key table under a PPRF key; a punctured tag has no value.
Open(b, k) == IF b.root = k.root /\ b.tag \notin k.punct THEN b.ver ELSE Junk
New == [root |-> newroot, punct |-> {}]

\* A step that breaks something is the last: only the fault is recorded.
Fail(f) == fault' = f /\ UNCHANGED <<store, lock, sem, pc, walk, rot, life, ver>>

-----------------------------------------------------------------------------
(* Work items: get_inode_key for an I/O job, do_unlink for an unlink.      *)

\* The device mapper sends no I/O to a target whose destructor was called.
QueueIo(i, s) ==
  /\ pc[i] = "idle" /\ pc[D] = "open" /\ ~shutdown
  /\ jobs' = jobs + 1
  /\ at' = [at EXCEPT ![i] = s]
  /\ bkt' = [bkt EXCEPT ![i] = BucketOf(s)]
  /\ Goto(i, "down")
  /\ UNCHANGED <<store, lock, sem, next, willEvict, rot, shutdown, due, ver, fault>>

QueueUnlink(i, s) ==
  /\ pc[i] = "idle" /\ pc[D] = "open"
  /\ at' = [at EXCEPT ![i] = s]
  /\ bkt' = [bkt EXCEPT ![i] = BucketOf(s)]
  /\ Goto(i, "down")
  /\ UNCHANGED <<store, lock, sem, next, willEvict, rot, life, ver, fault>>

GetEntry(i) ==
  /\ pc[i] = "down"
  /\ Down(i, bkt[i])
  /\ Goto(i, IF Cached(at[i]) THEN "use" ELSE "read")
  /\ UNCHANGED <<store, sem, walk, rot, life, ver, fault>>

AddEntry(s, v) ==
  /\ list' = [list EXCEPT ![BucketOf(s)] = <<s>> \o @]
  /\ entry' = [entry EXCEPT ![s] = [tag |-> disk[s].tag, ver |-> v, dirty |-> "no"]]

\* read_cache_entry decrypts under pprf_key and, if the magic is wrong then,
\* under pprf_key_new, for which it takes no lock.
RecheckNever(i) == FALSE
Recheck(i) == Open(disk[at[i]], pprf) = Junk

ReadEntry(i) ==
  /\ pc[i] = "read" /\ MayRead
  /\ IF Recheck(i) THEN Goto(i, "recheck") /\ UNCHANGED <<list, entry>>
     ELSE Goto(i, "use") /\ AddEntry(at[i], Open(disk[at[i]], pprf))
  /\ UNCHANGED <<disk, keys, lock, sem, walk, rot, life, ver, fault>>

RereadEntry(i) ==
  /\ pc[i] = "recheck"
  /\ AddEntry(at[i], Open(disk[at[i]], New))
  /\ Goto(i, "use")
  /\ UNCHANGED <<disk, keys, lock, sem, walk, rot, life, ver, fault>>

CopyKeyOut(i) ==
  /\ pc[i] = "use" /\ i \in IoWork
  /\ Up(bkt[i])
  /\ Goto(i, "end_io")
  /\ UNCHANGED <<store, sem, walk, rot, life, ver, fault>>

WorkDone(i) ==
  /\ Goto(i, "idle")
  /\ at' = [at EXCEPT ![i] = End] /\ bkt' = [bkt EXCEPT ![i] = 0]

EndIo(i) ==
  /\ pc[i] = "end_io"
  /\ jobs' = jobs - 1
  /\ WorkDone(i)
  /\ UNCHANGED <<store, lock, sem, next, willEvict, rot, shutdown, due, ver, fault>>

\* Without HOLEPUNCH_BATCHING it goes on with persist_unlink.
UnlinkedUnbatched == "check"
Unlinked == "up"

DirtiedNot(s) == [entry EXCEPT ![s].ver = IF @ = Junk THEN Junk ELSE @ + 1]
Dirtied(s) == [entry EXCEPT ![s].ver = IF @ = Junk THEN Junk ELSE @ + 1, ![s].dirty = "new"]

DoUnlink(i) ==
  /\ pc[i] = "use" /\ i \in UnlinkWork
  /\ entry' = Dirtied(at[i])
  /\ ver' = [ver EXCEPT ![at[i]] = @ + 1]
  /\ Goto(i, Unlinked)
  /\ UNCHANGED <<disk, keys, list, lock, sem, walk, rot, life, fault>>

UnlinkDone(i) ==
  /\ pc[i] = "up"
  /\ Up(bkt[i])
  /\ WorkDone(i)
  /\ UNCHANGED <<store, sem, next, willEvict, rot, life, ver, fault>>

-----------------------------------------------------------------------------
(* persist_unlink, with the bucket lock held.                              *)

FullByOne == used > Punctures
Full == used >= Punctures
Resume(t) == IF t \in Item THEN "up" ELSE "leave"

CheckRoomHolding(t) ==
  /\ pc[t] = "check"
  /\ Goto(t, IF Full THEN "down_read" ELSE "has_room")
  /\ UNCHANGED <<store, lock, sem, walk, rot, life, ver, fault>>

\* The room is looked up before pprf_sem is taken; without room, the bucket
\* lock is given back first.
CheckRoom(t) ==
  /\ pc[t] = "check"
  /\ IF Full THEN Up(bkt[t]) /\ Goto(t, "down_read")
     ELSE Goto(t, "has_room") /\ UNCHANGED lock
  /\ UNCHANGED <<store, sem, walk, rot, life, ver, fault>>

QueueWrite(t) ==
  /\ pc[t] = "has_room"
  /\ Goto(t, "down_write")
  /\ UNCHANGED <<store, lock, sem, walk, rot, life, ver, fault>>

Puncture(t) ==
  /\ pc[t] = "down_write" /\ writing = NoOne /\ reading = {}
  /\ writing' = t
  /\ pprf' = [pprf EXCEPT !.punct = @ \cup {entry[at[t]].tag}]
  /\ entry' = [entry EXCEPT ![at[t]].tag = tagctr]
  /\ tagctr' = tagctr + 1 /\ used' = used + 1
  /\ Goto(t, "write")
  /\ UNCHANGED <<disk, newroot, list, lock, reading, walk, rot, life, ver, fault>>

WriteEntry(t) ==
  /\ pc[t] = "write"
  /\ LET s == at[t]
     IN  /\ disk' = [disk EXCEPT ![s] = [root |-> pprf.root, tag |-> entry[s].tag,
                                        ver |-> entry[s].ver]]
         /\ entry' = [entry EXCEPT ![s].dirty = "no"]
  /\ writing' = NoOne
  /\ Goto(t, "master")
  /\ UNCHANGED <<keys, list, lock, reading, walk, rot, life, ver, fault>>

\* rotate_master: outside pprf_sem after a puncture, still under it in a refresh.
RotateMaster(t) ==
  /\ pc[t] = "master"
  /\ reading' = reading \ {t}
  /\ Goto(t, IF t \in reading THEN "down_again" ELSE Resume(t))
  /\ UNCHANGED <<store, lock, writing, walk, rot, life, ver, fault>>

-----------------------------------------------------------------------------
(* rotate_pprf: the refresh, with pprf_sem held for reading.               *)

RefreshBegin(t) ==
  /\ pc[t] = "down_read" /\ MayRead
  /\ IF reading # {} THEN Fail("two refreshes")
     ELSE IF \E i \in Item : pc[i] = "recheck" THEN Fail("new key replaced")
     ELSE /\ reading' = {t}
          /\ newroot' = pprf.root + 1
          /\ rot' = 0
          /\ Goto(t, "scan")
          /\ UNCHANGED <<disk, pprf, used, tagctr, list, entry, lock, writing,
                         walk, life, ver, fault>>

\* A sector in the cache is written from there, and its entry dropped under
\* whoever walks the list.
Freeing(f) == [t \in Thread |-> IF t \in {E, D} /\ f[t] = rot THEN Freed ELSE f[t]]
RotatedFromDisk == [root |-> newroot, tag |-> rot, ver |-> Open(disk[rot], pprf)]
Rotated == [root |-> newroot, tag |-> rot,
            ver |-> IF Cached(rot) THEN entry[rot].ver ELSE Open(disk[rot], pprf)]

RefreshSector(t) ==
  /\ pc[t] = "scan" /\ rot < KeyTableLen
  /\ lock[BucketOf(rot)] = NoOne
  /\ disk' = [disk EXCEPT ![rot] = Rotated]
  /\ IF Cached(rot) THEN Drop(rot) /\ at' = Freeing(at) /\ next' = Freeing(next)
     ELSE UNCHANGED <<list, entry, at, next>>
  /\ rot' = rot + 1
  /\ UNCHANGED <<keys, lock, sem, pc, bkt, willEvict, life, ver, fault>>

\* The new key is copied over the old one while readers may be evaluating it.
ClearKey(t) ==
  /\ pc[t] = "scan" /\ rot = KeyTableLen
  /\ pprf' = [root |-> Torn, punct |-> {}]
  /\ used' = 0 /\ tagctr' = KeyTableLen
  /\ Goto(t, "copy")
  /\ UNCHANGED <<disk, newroot, list, entry, lock, sem, walk, rot, life, ver, fault>>

CopyKey(t) ==
  /\ pc[t] = "copy"
  /\ pprf' = New
  /\ Goto(t, "master")
  /\ UNCHANGED <<disk, newroot, used, tagctr, list, entry, lock, sem, walk, rot,
                 life, ver, fault>>

Reacquire(t) ==
  /\ pc[t] = "down_again"
  /\ Down(t, bkt[t])
  /\ Goto(t, Resume(t))
  /\ UNCHANGED <<store, sem, walk, rot, life, ver, fault>>

PersistUnlink(t) ==
  \/ CheckRoom(t) \/ QueueWrite(t) \/ Puncture(t) \/ WriteEntry(t) \/ RotateMaster(t)
  \/ RefreshBegin(t) \/ RefreshSector(t) \/ ClearKey(t) \/ CopyKey(t) \/ Reacquire(t)

-----------------------------------------------------------------------------
(* The eviction thread and the destructor walk the buckets.                *)

Wake ==
  /\ pc[E] = "sleep"
  /\ IF pc[D] = "stopping" THEN Goto(E, "dead") /\ UNCHANGED bkt
     ELSE Goto(E, "bucket") /\ bkt' = [bkt EXCEPT ![E] = 0]
  /\ UNCHANGED <<store, lock, sem, at, next, willEvict, rot, life, ver, fault>>

NextBucketOneMore(t) ==
  IF bkt[t] < Buckets THEN bkt' = [bkt EXCEPT ![t] = @ + 1] /\ Goto(t, "bucket")
  ELSE bkt' = [bkt EXCEPT ![t] = 0] /\ Goto(t, IF t = E THEN "sleep" ELSE "free")

\* The bucket after bkt[t], or the end of the pass.
NextBucket(t) ==
  IF bkt[t] + 1 < Buckets THEN bkt' = [bkt EXCEPT ![t] = @ + 1] /\ Goto(t, "bucket")
  ELSE bkt' = [bkt EXCEPT ![t] = 0] /\ Goto(t, IF t = E THEN "sleep" ELSE "free")

EnterBucket(t) ==
  /\ pc[t] = "bucket" /\ list[bkt[t]] # <<>>
  /\ Down(t, bkt[t])
  /\ at' = [at EXCEPT ![t] = From(bkt[t], 1)]
  /\ next' = [next EXCEPT ![t] = From(bkt[t], 2)]
  /\ Goto(t, "entry")
  /\ UNCHANGED <<store, sem, bkt, willEvict, rot, life, ver, fault>>

\* The lock of a bucket without entries is taken and given back.
PassBucket(t) ==
  /\ pc[t] = "bucket" /\ list[bkt[t]] = <<>> /\ lock[bkt[t]] = NoOne
  /\ NextBucket(t)
  /\ UNCHANGED <<store, lock, sem, at, next, willEvict, rot, life, ver, fault>>

\* Age decides what is written and what is dropped.  A pass starts at least
\* ERASER_CACHE_EXP_LAST_DIRTY after the one before ended: a dirty entry that
\* one pass left alone is old enough for the next.
Skipped(s) == [entry EXCEPT ![s].dirty = IF @ = "no" THEN "no" ELSE "old"]

EvictEntry(write, drop) ==
  /\ pc[E] = "entry" /\ at[E] # End
  /\ entry[at[E]].dirty = "old" => write
  /\ willEvict' = drop
  /\ IF (write \/ drop) /\ entry[at[E]].dirty # "no" THEN Goto(E, "check") /\ UNCHANGED entry
     ELSE Goto(E, "leave") /\ entry' = Skipped(at[E])
  /\ UNCHANGED <<disk, keys, list, lock, sem, at, next, bkt, rot, life, ver, fault>>

ForceEvictEntry ==
  /\ pc[D] = "entry" /\ at[D] # End
  /\ Goto(D, IF entry[at[D]].dirty # "no" THEN "check" ELSE "leave")
  /\ UNCHANGED <<store, lock, sem, walk, rot, life, ver, fault>>

\* The eviction thread drops only while map_cache_count is not 0.
Drops(t) == t = D \/ (willEvict /\ \E b \in Bucket : list[b] # <<>>)

LeaveEntry(t) ==
  /\ pc[t] = "leave"
  /\ IF Drops(t) /\ at[t] = Freed THEN Fail("double free")
     ELSE IF next[t] = Freed THEN Fail("freed next")
     ELSE /\ IF Drops(t) THEN Drop(at[t]) ELSE UNCHANGED <<list, entry>>
          /\ at' = [at EXCEPT ![t] = next[t]]
          /\ next' = [next EXCEPT ![t] = IF next[t] = End THEN End ELSE After(next[t])]
          /\ Goto(t, "entry")
          /\ UNCHANGED <<disk, keys, lock, sem, bkt, willEvict, rot, life, ver,
                         fault>>

LeaveBucket(t) ==
  /\ pc[t] = "entry" /\ at[t] = End
  /\ Up(bkt[t])
  /\ NextBucket(t)
  /\ willEvict' = (willEvict /\ t # E)
  /\ UNCHANGED <<store, sem, at, next, rot, life, ver, fault>>

Walk(t) == EnterBucket(t) \/ PassBucket(t) \/ LeaveEntry(t) \/ LeaveBucket(t)

-----------------------------------------------------------------------------
(* The destructor.                                                         *)

Shutdown ==
  /\ pc[D] = "open"
  /\ shutdown' = TRUE /\ due' = ver
  /\ Goto(D, "jobs")
  /\ UNCHANGED <<store, lock, sem, walk, rot, jobs, ver, fault>>

JobsIgnored == TRUE
JobsDone == jobs = 0

StopEviction ==
  /\ pc[D] = "jobs" /\ JobsDone
  /\ Goto(D, "stopping")
  /\ UNCHANGED <<store, lock, sem, walk, rot, life, ver, fault>>

EvictionGoesOn == TRUE
EvictionStopped == pc[E] = "dead"

ForceEvict ==
  /\ pc[D] = "stopping" /\ EvictionStopped
  /\ Goto(D, "bucket")
  /\ UNCHANGED <<store, lock, sem, walk, rot, life, ver, fault>>

\* Keys and pools are freed before the unlink queue is drained.
Free ==
  /\ pc[D] = "free"
  /\ Goto(D, "flush")
  /\ UNCHANGED <<store, lock, sem, walk, rot, life, ver, fault>>

Closed ==
  /\ pc[D] = "flush" /\ \A i \in Item : pc[i] = "idle"
  /\ Goto(D, "closed")
  /\ UNCHANGED <<store, lock, sem, walk, rot, life, ver, fault>>

LateWork(i) == pc[D] = "flush" /\ pc[i] # "idle" /\ Fail("late work")

-----------------------------------------------------------------------------

ItemStep(i) ==
  \/ GetEntry(i) \/ ReadEntry(i) \/ RereadEntry(i) \/ CopyKeyOut(i) \/ EndIo(i)
  \/ DoUnlink(i) \/ UnlinkDone(i) \/ PersistUnlink(i)
Work(i) == IF pc[D] = "flush" THEN LateWork(i) ELSE ItemStep(i)

Unlinking == {i \in UnlinkWork : pc[i] # "idle"}
UnlinksLeft == FoldFunction(+, Cardinality(Unlinking), ver) < MaxUnlinks
Queue ==
  \E s \in Sector : \/ \E i \in IoWork : QueueIo(i, s)
                    \/ UnlinksLeft /\ \E i \in UnlinkWork : QueueUnlink(i, s)

Evict == Wake \/ (\E w, d \in BOOLEAN : EvictEntry(w, d)) \/ Walk(E) \/ PersistUnlink(E)
Destroy ==
  StopEviction \/ ForceEvict \/ ForceEvictEntry \/ Walk(D) \/ PersistUnlink(D) \/ Free \/ Closed

\* Somebody refreshes and waits for a bucket whose holder waits for pprf_sem.
Wedged ==
  \E t \in reading :
    /\ pc[t] = "scan" /\ rot < KeyTableLen /\ lock[BucketOf(rot)] # NoOne
    /\ LET u == lock[BucketOf(rot)]
       IN  u = t \/ pc[u] = "down_write" \/ (pc[u] = "read" /\ WriterWaits)

\* A fault, a wedge or a closed device is the end.
Over == fault # "none" \/ Wedged \/ pc[D] = "closed"

Step == Queue \/ (\E i \in Item : Work(i)) \/ Evict \/ Shutdown \/ Destroy
Next == (fault = "none" /\ Step) \/ (Over /\ UNCHANGED vars)

\* Every thread is scheduled, and a lock that is given back again and again is
\* granted in order of arrival.
Fairness ==
  /\ \A i \in Item : SF_vars(fault = "none" /\ Work(i))
  /\ SF_vars(fault = "none" /\ Evict)
  /\ WF_vars(fault = "none" /\ Destroy)

Spec == Init /\ [][Next]_vars /\ Fairness

-----------------------------------------------------------------------------

Pointer == Sector \cup {End, Freed}

\* Each variable keeps its type: no sector opens under the root of a key that is
\* being overwritten, no pointer leaves the table, no job is counted twice.
TypeOK ==
  /\ disk \in [Sector -> [root : Nat \ {Torn}, tag : Nat, ver : Nat \cup {Junk}]]
  /\ pprf.root \in Nat /\ pprf.punct \subseteq Nat
  /\ newroot \in Nat /\ used \in Nat /\ tagctr \in Nat
  /\ \A b \in Bucket : \A s \in Range(list[b]) : s \in Sector /\ BucketOf(s) = b
  /\ lock \in [Bucket -> Thread \cup {NoOne}]
  /\ reading \subseteq Thread /\ writing \in Thread \cup {NoOne}
  /\ at \in [Thread -> Pointer] /\ next \in [Thread -> Pointer]
  /\ bkt \in [Thread -> Bucket]
  /\ rot \in 0 .. KeyTableLen /\ jobs \in 0 .. Cardinality(Item)

\* Whatever refresh a reader ran into, what it found is the sector's current
\* contents: no entry is filled under an old, a torn or a foreign key.
EntriesCurrent ==
  \A b \in Bucket : \A s \in Range(list[b]) : entry[s].ver = ver[s]

\* Nobody waits for ever for a bucket lock whose holder waits for him.
NeverWedged == ~Wedged

\* Memory is misused only after a refresh, or by an unlink still queued when
\* the destructor was called; without a refresh no two threads collide.
FaultsExplained ==
  /\ fault # "two refreshes"
  /\ fault \in {"double free", "freed next", "new key replaced"} => newroot # Torn
  /\ fault = "late work" => \A i \in IoWork : pc[i] = "idle"

\* The PPRF key never outgrows its room, although persist_unlink looks the
\* room up before it takes pprf_sem: another thread may use it up meanwhile.
RoomKept == used <= Punctures

\* rotate_master takes no lock, and its callers hold none in common: still no two
\* threads write the same journal slots and new_master_key at a time.
OneMaster ==
  \A t, u \in Thread : pc[t] = "master" /\ pc[u] = "master" => t = u

\* When the device is closed, every sector opens under the key on the disk and
\* holds every unlink dirtied before the destructor was called.  (One still queued
\* is not owed, and a close that refreshes the key itself ends in a fault.)
ClosedWhole ==
  pc[D] = "closed" => \A s \in Sector : Open(disk[s], pprf) \in due[s] .. ver[s]

\* When unlinks cease (there are MaxUnlinks of them) every one reaches the disk
\* and stays there, and a destructor that was called comes to an end.
Settles ==
  <>[](Over \/ (pc[D] = "open" /\ \A s \in Sector : disk[s].ver = ver[s]))

=============================================================================
