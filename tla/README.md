# Formal models of holepunch

Holepunch is a device-mapper target that deletes files securely: every file's
content is encrypted under a key of its own, the keys live in a table on the same
disk, and deleting a file replaces its key in such a way that the old one cannot be
had again, not even from what the medium remembers. ERASER is its predecessor in the
same repository. This directory holds TLA+ models of both and of the puncturable PRF
they led to, the TLC configurations that check them, and proofs that TLAPS checks.

`KM` below is `src/holepunch/kernel_module/dm-holepunch-main.c`, `ER` is
`src/eraser/kernel_module/dm-eraser.c`.

## 1. The system

### 1.1 The key hierarchy

```
TPM: master key
  └─ FKT top      fkt_top_width sectors; the first also holds tag_counter, pprf_size
       └─ FKT bottom   random keys, one per PPRF sector
            └─ PPRF key     keynode array of a GGM tree
                 └─ key table sector   under PRF(tag); the tag is stored in the clear
                      └─ file keys
```

To delete a file is to draw a new key for it, move its key table sector to a fresh
tag, *puncture* the PPRF at the old tag, redraw the keys above the changed PPRF
sector, write all that as one journalled transaction, and rotate the master key, so
that no older copy of any of these sectors can be opened. When the PPRF key has grown
to its capacity, it is replaced and the whole key table is re-encrypted (a *refresh*).

ERASER has two levels only, slot map and inode map, and no journal: the slot map is
read whole when a device is opened and rewritten, under a new master key, when it is
closed.

### 1.2 Components

| Component | State | Operations | Talks to | Hard because |
|---|---|---|---|---|
| PPRF key tree (`pprf-tree.c`) | keynode array, size | init_master_key, evaluate_at_tag, puncture_at_tag | called under `pprf_sem` | index arithmetic, order of punctures |
| Journal (`KM` 637-734) | control block, 63 slots, open page | journal_write, commit, replay | persist_unlink, constructor | a crash anywhere, overflow |
| Key hierarchy (`KM` 547-614, 738-1114, 1571-1760) | FKT, PPRF key, master key, in memory and on disk | persist_unlink, rotate_pprf, rotate_master | journal, TPM | three disk layouts in transit at once, recovery by magic bytes |
| File key cache (`KM` 1121-1346) | 1024 buckets of sectors, dirty bits | get_inode_key, eviction thread, force_evict | data path, unlink | bucket locks against `pprf_sem`; entries freed while iterated over |
| Unlink hook and queue (`KM` 1763-1820) | work queue | kprobe on vfs_unlink, do_unlink | cache | asynchronous, lost in a crash |
| Master key exchange (`KM` 1826-2049, `netlink.c`, `tpm.c`) | key status bits, new_master_key | get and set of the master key | helper process | a reply awaited for ever, shared fields |
| Life cycle (`KM` 2063-2636) | in_use, threads | constructor with recovery, destructor | all | redo of five kinds of interrupted work; order of what is freed |
| Data path (`KM` 1353-1561) | job counter, shutdown flag | read, write | cache | drain against shutdown |
| Userland tool (`holepunch.c`) | the new device's layout | do_create, open, close, list | TPM, device mapper | sizes fixed once for ever |
| ERASER (`src/eraser`) | slot map, map cache, slot keys | the predecessor's target | its own helper | nothing is journalled |
| Prototypes (`src/ggm_prf`, `src/pprf.py`) | tree, sorted array, list of tuples | puncture, evaluate | none | searches in an order kept by splices |
| Spin demonstration, benchmarks, scripts, tests | none | | | |

What makes each correct:

* **PPRF key**: punctured values are gone from every byte of the array, in memory and
  on the disk, all others unchanged; one old node changes per puncture; the growth is
  what the capacity check assumes; every representation computes the same.
* **Journal**: a transaction reaches the disk whole or not at all, whatever it writes
  how often, and a committed one is completed.
* **Key hierarchy and life cycle**: at every sector write of every operation, the disk and the
  TPM can give back exactly the durable file keys (*no loss*); once at rest, no replaced
  key can be had from them (*no remanence*); unlinks become durable.
* **Cache and threads**: what is cached is current whatever refresh a reader ran into; nobody
  waits for ever; a closed device is whole.
* **Exchange**: the module acts on no master key the TPM does not have.
* **ERASER**: what a power failure costs is known and bounded; a closed session's
  replaced keys are gone.

The hazards, each at its line with the properties that watch it, are in
`PROJECT.json`.

## 2. The modules

| Module | Models | Used by |
|---|---|---|
| `PPRF` | abstract: the set of tags whose value is still computable | `PPRFKey` (refinement) |
| `PPRFTree` | `pprf-tree.c` of the kernel module as operators on a keynode array | `PPRFKey` |
| `PPRFKey` | the life of one PPRF key | `PPRFStore` |
| `PPRFStore` | the key in memory and in disk sectors, tags from the counter, renewal | `PPRFVariants`, `PPRFProofs` |
| `PPRFVariants` | the three prototypes beside the kernel's key, in lock-step | `PPRFVariantsProofs` |
| `AtomicStore` | abstract: a store with all-or-nothing batches | `Journal` (refinement) |
| `Journal` | the write-ahead journal and its recovery | `MCJournal`, `JournalProofs` |
| `MCJournal` | sectors and contents as model values | |
| `SecureStore` | key hierarchy, cache, unlink, rotations, constructor, destructor, crash; one thread | `Remanence`, `SecureStoreProofs` |
| `Remanence` | `SecureStore` and the history of the medium | `RemanenceProofs` |
| `Device` | the threads of an open holepunch device and their locks | `DeviceProofs`, `DeviceCacheProofs` |
| `KeySync` | the netlink protocol between module and TPM helper | `Eraser` |
| `Eraser` | ERASER: maps, cache, constructor, destructor, exchange, power failure | `EraserProofs` |
| `PPRFProofs`, `PPRFVariantsProofs`, `JournalProofs`, `SecureStoreProofs`, `RemanenceProofs`, `DeviceProofs`, `DeviceCacheProofs`, `EraserProofs` | theorems | |

**Builds.** `Journal`, `SecureStore` and `Remanence` model the build with `HOLEPUNCH_JOURNAL` and
without `HOLEPUNCH_BATCHING`; `Device` the one with `HOLEPUNCH_BATCHING`. The Makefile's
default sets neither. Without batching a queued unlink runs `persist_unlink` itself, so any two of
them do: that build can wedge, run two refreshes and be in `rotate_master` twice, and
`UnlinkedUnbatched`, the seeded fault of the run `device`, is exactly it.

**Cryptography is symbolic.** In `PPRFTree` a key is the path of its GGM node, so a key
yields a tag's value exactly if it is a prefix of the tag. In the stores a key is a
number drawn afresh; a ciphertext is a record that opens under its key (and, where the IV
comes from the address, at its address) and gives junk otherwise. In `Eraser` the slot map is one
CBC chain: a sector whose predecessor is from another write loses its first block, that is,
its first key. In `SecureStore` the PPRF key is its root and the set of
punctured tags, which is what the run `pprf_key` shows the array to amount to; `LeafDepth` keeps
the growth of the array, and `NextTag` drops of the counter what the shift into place drops.

**One sector of PPRF key.** `SecureStore` and `Remanence` are about devices whose `pprf_capacity` is at
most `HP_PPRF_PER_SECTOR`, 113 nodes (`OneSectorAssumption`): each transaction of `persist_unlink` then writes one
PPRF sector and has five blocks. With more, the code writes the punctured node's sector and, in a
loop, those of the appended ones; these are in `PPRFStore`, with what goes wrong there (`pprf_spill`, `pprf_tail`).

**Steps.** In `SecureStore`, `Journal` and `Eraser` a write of one sector is one step, atomic, and on the
disk when it returns (`eraser_rw_sector` waits for the bio). Everything a handler does in
memory between two writes belongs to the step of the first write that follows, or of the operation's
entry. A crash may fall between any two steps. In `Device` a step is what runs under one
lock, or under none between two: evaluation, puncture, write, rotation of the master key, and each
sector of a refresh are steps of their own.

**SecureStore's state and the code's.** `home` is the disk outside the journal, `ctl`
and `slot` the journal, `tpm` the NVRAM, `mem` the `struct holepunch_dev`: `mk`/`newmk`
are `master_key`/`new_master_key`, `top` and `pk` the FKT, `pprf` and `newroot`
`pprf_key` and `pprf_key_new`, `cache` the map cache. `pc` and `idx` are where the running
thread is, `ret` where the operation was called from. `file` is no state of the code
but the yardstick: the file keys made durable last. It changes where durability is
decided: at the write of the control block of a puncture, at the rewrite of a cached
sector in a rotation, and at the initialization.

**Device's.** `lock` holds the owner of each bucket's `cache_lock`, `reading` and
`writing` the holders of `pprf_sem` (a waiting writer holds off later readers, as an rwsem
does), `list` and `entry` the cache, `at` and `next` the cursor and the saved successor of
`list_for_each_entry_safe`, `rot` the sector a refresh is at. Work items stand for the threads of
the I/O and unlink queues and are used again. `ver` counts the unlinks of a sector, and with it a
sector's contents; `due` is what the destructor has to save. A step on freed memory, or over another
thread's refresh, sets `fault` and ends the behaviour: nothing is claimed of what undefined
behaviour does next.

**Eraser's.** `smap`, `imap`, `iv` are the medium, `slotkey`, `rhiv`, `cache` the memory. `file` is
the yardstick; `risk` holds the slots with an unlink since the open, `lost` those a power failure
found exposed; `seen`, `dying` and `dead` are the history the erasure property is about.
`KeySync` keeps the helper's socket queue (a power failure empties it), the module's status bits
and the vault; the helper may fail to reach the TPM and leave its loop.

**Journal's callers.** `Next` lets callers write what they like, `OnceNext` each sector once in a
transaction, which is what `persist_unlink`, the only one there is, does (`Fresh`).

**PPRFStore and PPRFVariants.** `disk` is the array in sectors, as `read_pprf` reads it back, written as
`persist_unlink` writes it; `tail` is the 28 bytes each sector has beyond its last node, which are
of the key of the node the next begins with; `Renew` clears and writes the first sector only. `tree`, `arr` and `py` are the prototypes'
keys. They take every call the kernel's takes, also a tag punctured before. A loop is the function of its
turns: `TreeAt` of the nodes down a path, `Jumps` and `Bisects` of what the two searches know after `k` turns, with as many turns
as the loop can take, the rest of which change nothing. `SortedBy` names the sorted sequence and not
the way `qsort` and `insort` find it; two new keys never compare equal, so it is one sequence.

**How they compose.** `SecureStore` runs one operation to its end before another begins, with every
sector and every crash; `Device` interleaves the threads, with the sectors below the key table as
one PPRF root and a set of punctures and without crashes. Neither contains the other: the first
says the disk is right if operations do not overlap in `rotate_master` and the second that they do
not (`OneMaster`), and that each reads what the other wrote (`EntriesCurrent`). The journal is not
written through `Journal` in `SecureStore`: `JournalSlot`, `PunctureCtl`, `ReplayBlock` and
`ControlNone` repeat its steps for the one transaction persist_unlink makes.

## 3. The runs

| Run | Bounds | Shows |
|---|---|---|
| `pprf_key` | depth 3, array of a full tree, 5 nodes a sector, one renewal | the key implements `PPRF`; disk and prototypes agree |
| `pprf_punctured` | as `pprf_key` | **violated**: evaluate's -1 for a punctured tag, in the kernel and in the sorted array (`OneReportsPunctured`) |
| `pprf_tail` | depth 3, 7 nodes a sector | **violated**: `TailsPuncturedGone` |
| `pprf_spill` | nodes that straddle a sector's end | **violated**: `Persisted` |
| `pprf_wrap` | do_create's sizes for one sector, interval 4 | **violated**: `LeavesSuffice` |
| `journal` | 3 sectors, 2 contents, 2 slots; each sector once in a transaction | type, replay, refinement, drain |
| `store` | 2 key table sectors of 1 key, depth 3, capacity 12 | no loss, no remanence, liveness |
| `store_create` | same, power may fail in the first open | **violated**: `Readable` |
| `store_wide` | same, two top FKT sectors | **violated**: `TopCopied` |
| `torn` | 1 key table sector of 2 keys, depth 2, capacity 8; uncommitted slots leave traces | **violated**: `ErasedUnreachable` |
| `device` | one I/O item, one unlink item, 3 sectors in 2 buckets, room for 1 puncture, 2 unlinks | threads, locks, shutdown |
| `eraser` | 3 slots of 2 files in 2 slot map sectors, keys for several unlinks and closes | exchange, loss, erasure |

`Depth` and `Capacity` of the runs `store`, `store_create`, `store_wide` and `torn` are what `do_create` computes
(holepunch.c:454-455) for their key table and a `HOLEPUNCH_REFRESH_INTERVAL` of 2:
`32 - clz(2 + 2) = 3` and `2 * 2 * 3 = 12`; `32 - clz(1 + 2) = 2` and `2 * 2 * 2 = 8`. That is room for one
puncture of each PPRF key, and the next unlink refreshes it. Many punctures of one key are `pprf_key`'s and the
theorems'.

*Bounds.* `MaxKeys` bounds the keys drawn before the last unlink, close or crash; work already
begun goes on to its end, so no run stops in the middle of a recovery. In `store` 16 keys
are enough for a puncture and a refresh with a crash anywhere in either (but for the master key rotation the refresh
ends with, which is the one the puncture ended with) and in the recovery up to the rewrite of the FKT, or two
crashes with an unlink before, between or after; in `eraser` for two sessions with an unlink or three unlinks in one, with power failures at
any point of each. `PerSector` is the code's 113 in the store runs; the runs of `PPRFStore` take 5, 7 or 8, where nodes of a
tree of depth 3 fall on either side of a sector's end (20, all of them in one, in `pprf_wrap`). Depth 3 has punctures that share all, some and no part of their paths, and all
orders of puncturing the eight tags are tried before a renewal of up to `MaxBefore` of them.
The journal's two slots against three addresses make a transaction overflow into a second
commit from inside `journal_write`. In `device` two sectors share a bucket, so that a saved
successor can be freed, and the third is alone; one puncture of room makes the second unlink a
refresh, in the eviction thread or the destructor, beside a reader.

*Properties.*

* `PuncturedGone` looks at every byte of the array, beyond its end and in interior
  nodes too, `DiskPuncturedGone` at every node `read_pprf` reads back from the sectors, stale ones included (the
  28 bytes a sector ends with are `TailsPuncturedGone`'s, which does not hold);
  `UnpuncturedUnchanged`, `SizeBound`, `OnlyReturnedNodeChanges` are what
  `persist_unlink` relies on; `ImplementsPPRF` is the refinement with
  `live` = the tags under some keyleaf. `TreeAgrees`, `ArrayAgrees`, `SearchesAgree` and
  `PythonAgrees` say where the prototypes compute the same; where `ArrayAgrees` allows a
  difference, `pprf_punctured` shows it against the prototype's own words.
* `ReplayPrefix` ties the page being replayed to the control block and to what is
  home already; `ImplementsAtomicStore` maps the store to *what the disk would be after
  a crash and recovery now*, so the commit is the write of the control block and nothing else
  changes the store. It holds for callers that write each sector once in a transaction.
* `Recoverable` computes, for every state, what a restart would read, from the
  disk, the journal and the TPM alone, and compares it with `file`. `Readable` is about the open
  device at rest; `TagsLive` is what makes later punctures harmless: distinct tags, none of
  them punctured, all behind the counter.
* `ErasedUnreachable` computes everything that follows from the TPM's key and the
  history of the medium (`wraps`, `pprfs`, `files`), one layer of keys after the
  other, and asks that at rest no replaced file key be among it.
* `EntriesCurrent`: no entry of the cache was filled under an old, torn or foreign PPRF key.
  `NeverWedged`, `OneMaster`, `RoomKept`: the locks, `rotate_master` without one, and the check of the
  capacity outside one. `FaultsExplained`: the device misuses memory only where an entry dropped by
  a refresh is still pointed to, or an unlink is still queued when the destructor has freed what it
  needs. It admits these faults by name and says what leads to them, not that there are none.
  `ClosedWhole`: a closed device has every unlink dirtied before the destructor was called. One that is
  still in the queue then is not owed, and a close whose own pass needs a refresh does not get
  there: the refresh frees the entry the pass stands on, which is the fault "double free".
* Eraser's `Survives`: at every moment the slots not in `Exposed` can be read from the medium with
  the key in the vault, so that a power failure costs no more than `Exposed` then; `Readable`: an open
  device answers right for all others; `DeletedGone`: a file key replaced in a closed session does
  not follow from the vault's key and all that was ever written; `KeysAgree`.
* `UnlinkCompletes`, `ErasureCompletes`, `JournalDrains`, `Settles`, `Completes` are liveness
  properties; the first three under the hypothesis that the power stays on from some time, `Settles`
  after the last unlink, `Completes` up to the helper's failure: a helper that fails after it has taken
  the request leaves the module waiting, and the property does not count that.

*Fairness.* In `SecureStore` and `Journal`, weak fairness of the steps of the thread that is running a
commit, rotation or recovery (nothing blocks it once I/O completes), and of `PersistUnlink(s)`: the
eviction thread wakes every five seconds and writes back each entry older than that (KM 1301-1327).
There is none of opening the device, of reads, unlinks or a close, which are the user's. In
`Device`, strong fairness of each work item and of the eviction thread, weak fairness of the
destructor: a semaphore others take and give back again and again is granted in order of
arrival, and once the destructor walks, nobody takes a bucket lock from it for good. In `Eraser`, weak
fairness of the constructor's and destructor's waits and of the helper's loop; none of the
helper's failure.

*Deadlock* is checked in every run. In `device` a fault, a wedge and a closed device stutter.

## 4. What disagrees with the code's own words

1. `pprf-tree.c:76` promises -1 for a punctured tag; `find_key` leaves its loop at full
   depth without looking at the node's type, so evaluate returns 0 and whatever the
   key field holds (`pprf_punctured`, whose property is violated where this and number 8 are both so). Its callers ignore the result, and no punctured
   tag is on a key table sector (`TagsLive`). The prototype it comes from,
   `ggm_prf/pprf-tree.c`, does return -1 (`TreeAgrees`).
2. `holepunch.c:511`, "the journal entry will take care of the rest": not if the power
   fails between the first master rotation of the initialization and the write of `in_use`
   (`store_create`). The runs `store`, `torn` exclude a crash in the first open (`CreateCrash`)
   to say something about the rest.
3. `dm-holepunch-main.h:217-219` copies `fkt_top_width` blocks in sequence; the code
   writes all to the first (`store_wide`). The other runs have `TopWidth = 1`, the
   value do_create gives to any device with fewer than 127 bottom FKT sectors.
4. `src/README.md:2`: a deleted file can be recovered from a torn journal slot if the
   medium keeps a trace of it (`torn`): a puncture writes the key table sector to the
   journal under tag *t*; power fails before the commit, so *t* is given out again; a
   file deleted then has its old key in the torn copy, under *t*, which is
   live. In `store` a torn slot counts only until it is overwritten, and the property
   holds.
5. `KM:1731`, "Persists new crypto information to disk": the sectors of the appended nodes are
   written only if the first of them is past the punctured node's (KM:1737). When the first is
   in that sector and the last is not, the last sector stays unwritten (`pprf_spill`).
6. `holepunch.c:452-453` chooses the depth so that tags suffice until a refresh is forced. What forces
   it is `pprf_size`, and punctures of neighbouring tags share nodes: the capacity is reached later
   than the interval says, or never, and the counter passes the last leaf (`pprf_wrap`).

7. `src/README.md:2` again: a sector of the PPRF key is encrypted whole, 4096 bytes, but its 113 nodes of 36 bytes are
   4068 (KM:1641). The other 28 are the first of the 32 key bytes of the node the next sector begins
   with. When that node is split, its own sector is written and its FKT key redrawn; the sector before
   keeps the 28 bytes, under an FKT key that stays in use (`pprf_tail`). A key whose capacity is one sector has no such
   node (`OneSectorRecoversNoPunctured`).
8. `ggm_prf/pprf.c:308-309` promises -1 for a punctured tag; `puncture` returns early for a label that is there in
   full (`|| r.exact`, :257), so the second of two sibling leaves is never punctured and
   evaluates on (`pprf_punctured`). `ArrayAgrees` bounds the damage to that.

One more, without a run of its own: `KM:700-702` says of `journal_write` that it "overwrites previous writes to the
same location". The slot is overwritten, but `journal_entry++` (KM:731) counts a slot anyway. The next write goes
beyond the slot not taken, which is committed with the garbage address the page had and replayed with
the block the journal had there: not an atomic store. `persist_unlink`, the only caller, never writes a sector twice, so
nothing reaches this. `JournalWrite` has it; what is checked and proved is `OnceSpec`, for callers like that one. With
`FairSpec` for `FairOnceSpec` in `journal.cfg`, TLC refutes `ImplementsAtomicStore` with a sector written twice.

Seen while modelling, and on no run's account: the binary search of `ggm_prf/pprf.c` reads the element in front of the array for a punctured tag in front of all
(`SearchesAgree`). `pprf.py` puts a tuple back in the wrong place when a tag in front of all that is left
is punctured again (`PythonAgrees` stops there); the assertions at tests.py:52-56 do not see it.
`ggm_prf/pprf-tree.c`'s `find_key` leaves `*index` behind at its last return.
`Device` reaches the double free of `FaultsExplained` and the late unlink; `pprf_key_new`
replaced under a reader (KM:1219) needs two refreshes while one reader waits, more than the unlinks
of the run make.

## 5. The proofs

Every theorem holds for all values of the constants, under the assumptions named in the module that
declares them.

`PPRFProofs`: `TypeCorrect` (`TypeOK`), `OthersUnchanged` (`UnpuncturedUnchanged`), `PuncturedStaysGone` (`PuncturedGone`),
`SizeIsBounded` (`SizeBound`), `OneNodeChanges` (`OnlyReturnedNodeChanges`) and the refinement `KeyImplementsPPRF`
(`ImplementsPPRF`), for a tree of any depth and any punctures in any order, tags punctured before included, in an array that has
room for a full tree; `DiskRecoversNoPunctured` (`DiskPuncturedGone`) and `StoreImplementsPPRF` for the key as it is stored,
with any nodes a sector, any capacity and any renewals; `OneSectorRecoversNoPunctured`, that with a capacity of one sector no byte
of the sectors gives a punctured tag, the ones beyond the last node included (`TailInv`: they are of nodes never in use).
With more sectors that is false (`pprf_tail`).
None of these is inductive: a keyleaf's key is a path, and nothing in the array says that this is the path that leads to it.
`TreeInv` says that there is a labelling of the nodes in use for which it is one. Its parts (`TreeOK`): no two nodes have
one label and the root's is empty (`LabelsOK`); an interior node has no key and two children, labelled with its label and a bit,
a keyleaf holds its own label as key, and a punctured node no key and a punctured tag as label (`NodeOK`); nothing is below a node without children
(`EndsOK`); for each punctured tag there is a punctured node with its label (`GoneOK`). A walk then reaches the one node whose label is
a prefix of the tag and which has no children (`Finds`), and `Evaluates`, `LiveIs` (the tags under keyleaves are those not
punctured) and `NothingAbove` (no key is above a punctured tag) follow. Labels being distinct, there are never more nodes than labels (`LabelCount`,
`Fits`), so that the appended ones fit. `PunctureIs` says of the array after a puncture what `Puncture` computes it to be, node by node; `SplitTree` extends
the labelling to it. `FindsPunctured` is why a tag punctured again grows nothing. On the disk, `DiskInv`: a node there
has no key that the same node in memory has not.
The induction over the depth that all this needs is made without an operator as parameter: `Least` and `UpTo` are about a *set* of
natural numbers, and `Pow2Is`, `WalkIs` unfold the two recursive functions.

`JournalProofs`: `TypeCorrect` (`Spec => []TypeOK`), for any callers; `ReplayCorrect` (`OnceSpec => []ReplayPrefix`) and
`Refinement` (`OnceSpec => ImplementsAtomicStore`), for those that write each sector once in a transaction: for others the
refinement is false (section 4).
`ReplayPrefix` is not inductive: that a committed page names no sector twice follows from
what the page of the open transaction held before its commit, and that a recovery replays from the
start follows from what a crash leaves. The strengthening `PageInv` says both: the *filled* slots of an open
page name no sector twice and hold no terminator (the rest is the garbage of a fresh page), and after a
crash there is no page and `pos` is 1. `IInv` is the conjunction of the three. The refinement
rests on two lemmas about the overlay a list of slots makes (`WritesAt`, `WritesAgree`): `CommitStep`
maps the write of the control block to `Commit` (in `journal_write` too, where the
interrupted write waits), `WriteStep` maps a write to `Write`, `OtherStep` shows that replaying a block
and clearing the control block change nothing of `Committed`, and that a crash maps to `Crash` or a stutter.

`PPRFVariantsProofs`: `TreeIsKernels` (`TreeAgrees`), `ArrayComputes` (`ArrayAgrees`), `SearchesFindOne` (`SearchesAgree`) and
`PythonComputes` (`PythonAgrees`), for a tree of any depth and any punctures in any order, repeated ones and renewals included.
*The tree* (`TreesInv`): the kernel's key has its `TreeInv`, and every node in use mirrors the kernel's (`Mirrors`): the links say the
type, and a keyleaf's key and an interior node's links are the same. A walk then sees the same on either side (`SamePath`), and each
puncture adds the same nodes to both (`MirrorStep`).
*The array and the list* are both sequences with a label for each key, and share their invariant: the labels
are a code (`Code`), each in front of the next where the two part (`Before`). In a code nothing is covered twice, and of the labels that are not behind
a tag only the last can cover it (`LastCovers`), which is all a search by halves needs. `SortedSibs` says that
the new keys, sorted, are the siblings in order, `SplicedCode` and `KeySplit` that these in the place of the key that was split leave a code, and
cover what it covered but the one tag.
`ArrInv` adds what the array covers, which is not just the tags left: puncturing a leaf's own label does nothing
(`|| r.exact`, ggm_prf/pprf.c:257), so that a tag punctured may be covered still, but by its own leaf only, whose sibling is gone.
`JumpTurnOK` is the invariant of a turn of the binary search (what it stands on is not behind the tag, what is more than two steps
away is, and the turns left suffice for the step to get to 0), `BisectTurnOK` the bisection's.
`PyInv` adds that a tuple's prefix is the first tag below its value, from which the order of the prefixes is the order of
the labels (`PyPrefixes`), a prefix is at most a tag exactly if the label is not behind it (`PyOrder`), and the check value
passes exactly for what the tuple covers (`PyCovers`); `PyStartIs` has it for the new ones. It is an invariant while no tuple has been put
back out of order, `~scrambled`. The order of tags as numbers and as paths is one (`BeforeIsLess`).

`SecureStoreProofs`: `DiskRecoverable` (`Recoverable`), `OpenReadable` (`Readable`), `OpenTagsLive` (`TagsLive`) and
`TypeCorrect` (`TypeOK`), for a key table of any length, any depth and any number of keys, and a PPRF key of one sector
(`OneSectorAssumption`; `pprf_spill` shows a puncture that loses keys with more). Three hypotheses are left, and
each is needed: `OneTop`, that the top of the FKT is one sector (`store_wide` shows what the code does with two);
`SafeCreation`, that power does not fail before the first open is complete (`store_create` shows what happens then); and
`[]TagsAreLeaves`, that the counter hands out leaves of the tree. The last is not a consequence of the sizes: `pprf_wrap` has
those of a device for which the counter comes round, and a tag is then the tag of another sector, or a punctured one. The theorems are
about every behaviour of a device up to the point where that happens; it does not in the run `store`, where TLC checked it.
`IInv` has four parts. `DiskInv` says what the disk, the journal and the TPM amount to, by the type of the
control block alone: with none, a transaction or a pending master key, what a restart
finds (`RestartHome`, `RestartMaster`) is an `Image`, a chain of keys down to a key table with the durable file keys, whose tags
are distinct, not punctured and behind the counter; in a refresh it is `HalfRotated`, sectors rewritten in order and the
keys above them whole until the last is, any mixture of old and new after it, since the control block has the
one key then needed. A crash changes none of that, and `Recoverable` follows from `DiskInv` alone. `FreshInv` keeps the next key
to draw different from those on the disk: a new root that equalled the old one would make the scan of the
recovery stop short. `MemInv` relates memory to the disk by the program counter: at rest they agree
(`Whole`); in between it says what has been drawn, journaled, replayed or rewritten so far. `Shape` holds the
types the proofs use and no more. The proof has one lemma per action; `Overlaid` (a transaction over the disk),
`ImageByBody` and `ImageRekeyed` (what an image depends on), `EnterMasterInv` (shared by the four ways into
`rotate_master`), `FirstIsLeast` (where the scan stops) and `RefillingDisk` are what they share. TLC checked the parts of `IInv` on
`store.cfg` as invariants before they were proved. `TypeCorrect` needs two facts more: what a recovery replays is typed only if
each block of a committed puncture is meant for the address the control block has for it (`Addressed`), and keys
are below the next one to draw (`Typed`). `NextTag` is the counter's value only while it is a leaf (`TagTaken`), and there alone the
hypothesis comes in: a puncture takes a tag behind which all tags in use are.

`RemanenceProofs`: `DeletedUnreachable` (`ErasedUnreachable`), the promise of the system, on top of `SecureStoreProofs`
and its hypotheses. Another is `NoTraces`, that a journal slot never committed leaves no trace once it is overwritten:
`torn` shows that the code fails without it. The property speaks of a device at rest, and of everything that
follows from the TPM's key over all that was ever written; a step of a refresh keeps it only because of what is known of
keys that open nothing yet. `ErasureInv` says that, in three parts.
*The medium* (`MediumOk`): wherever power fails, the keys on the way down were never used for anything but what they open now.
`Sealed` has it for the FKT and the PPRF key (`Ways`: each key opened one thing ever), for the key
table (`Match`: what was written under tags the PPRF key still evaluates is the durable file keys) and for what is torn in the
journal (`TornOk`); in a refresh, `RotationMedium` says that only sectors already rewritten are under the new root.
*The device* (`DeviceInv`), by the step it is at: the master key has opened the present top alone (`Only`) at rest, not just after a
recovery, and the new master key nothing else before it is in the TPM; a puncture's new keys are
unused until its commit; a refresh has put under the new root the sectors below `idx` and no others (`OnlyNew`).
*The cache* (`CacheOk`): every file key has one place, so that replacing it in one sector takes it from nowhere else and a key
once dead does not come back, and no key in the cache is dead. `PlaceInv` is an existence over all functions from keys to
places. `InductiveErasure` has one lemma per action, named for it. They share `Grown` (a step adds to the history
what it wrote and what it committed, nothing else), `Unheard` and `Silent` (a step that writes nothing under a key on the way
down), `QuietKeeps` (one that writes nothing), `CacheSteady`, `CacheRekeyed` and `Refills` (a refresh rewrites
a sector from the cache). TLC checked the parts of `ErasureInv` on a key table of one sector before they were proved, `PlaceInv` as the absence of
two places of one key.

`DeviceProofs`: `RoomBounded` (`RoomKept`), `OneRotation` (`OneMaster`), `NoWedge` (`NeverWedged`), for
any number of work items, sectors and buckets. They rest on one fact, `EvictionFirst`: the destructor comes to
the cache only when the eviction thread is dead, so one thread at a time is in `persist_unlink`
(`Alone`). `IInv` adds where each kind of thread may be, that the holder of a bucket lock is at a place
where it holds one, in that bucket, and is no reader (so a refresh never waits for itself), and that
whoever has found room has it. `Step1` says what one thread's step has to respect so that the
invariant of all others stands; `Move`, `Take` and `Give` are its three common cases, and each action is one of
them. A wedge would need a second walker, or a walker in two places.

`DeviceCacheProofs`: `EntriesAreCurrent` (`EntriesCurrent`), `ClosesWhole` (`ClosedWhole`), `FaultsAreExplained`
(`FaultsExplained`) and `TypeCorrect` (`TypeOK`), on top of `DeviceProofs`, for any number of work items, sectors,
buckets and punctures. None of them is inductive: what an entry holds depends on the key it was read under, that on how far the
refresh is, and that on where its walker stands in a list the refresh itself empties.
*Pointing*: a list holds each sector of its bucket once; a thread in a bucket holds its lock; a walker is on an entry of its bucket
and next to the one that follows, or strays while its refresh drops entries, or is lost after it, and
then both its pointers are freed or at the list's end.
*Stored*: a cached sector is current, one that is not cached, or clean, is current on the disk; the key table is under the
PPRF key, every tag its own and not punctured but the one about to be written; in a refresh it is under the new key
below `rot` and under the old from there, then all under the new. A reader that turns to the new key has met a sector
under it; what is about to be dropped is clean. So a reader who takes the old key before a refresh and the bucket's lock with it finds the
sector as it was, or under the new key and nothing else.
*LagOK*: a sector on the disk without an unlink from before the destructor's call is still to come in its pass, in a later bucket
or not before the walker on the list (`NotAfter`); a sector filled or dirtied behind it lacks nothing that is due. A refresh
writes every entry, so nothing lags after it; one in the destructor's own pass leaves its walker lost, and the close does not
go on from there (the fault "double free"): `ClosedWhole` is of the closes that do.
*Rest*: only a refresh frees an entry under a pointer (`Freedom`); `jobs` is the number of bios under way (`JobsOK`, by
cardinality). `FaultsExplained` follows, fault by fault. There is one lemma per action and part. TLC checked the parts
on `device.cfg` and two larger instances before they were proved.

`EraserProofs`: `VaultHasTheKey` (`KeysAgree`), `ReadsTheLastKeys` (`Readable`), `NoMoreIsLost` (`Survives`),
for any maps and any number of keys. `SyncInv` says which message is on its way, by where the device
waits: at most one is, a reply in time means the vault's key, a reply not sent means nothing. `MapInv` relates
medium and memory by how far the constructor or the destructor is: at rest the medium has it all; while up, a
file's keys are in the cache, or open under the slot key in memory; the slot map is as it was read
for every slot without an unlink, until the vault has the new key, then written up to `idx`, then whole under the
new IV. `Written` is why the IV matters to the first slot only.

`DeletedStaysGone` (`DeletedGone`) and `EraserTypes` (`TypeOK`), in the same module, rest on those three. That a replaced
key is gone after the close is not inductive: it must not come back before. `PlaceInv` says that every key
ever drawn has one place, a slot, and in its sector one entry, whatever of the medium opens it, so replacing a key
somewhere takes it from nowhere else, and a sector ever written under a slot's key held keys of that
slot alone. `Clean` says that no replaced key is in the cache or in a sector any slot key in memory ever opened:
`eraser_do_unlink` redraws the slot key with the file key. `Renewed` follows the destructor: a session with a
replaced key ends in a rotation of the master key, nothing was ever written under the new one, and what is then
is the slot keys in memory; `Buried` is the property, sector by sector. `DrawnInv` has every key anywhere behind the next one.
`PlaceInv` is an existence over all functions of keys; TLC checked the other parts on `eraser.cfg`.

TLC checks the same properties on the instances of `pprf_key.cfg`, `journal.cfg`, `store.cfg`, `device.cfg` and `eraser.cfg`.

Only model-checked: the five liveness properties, since fairness and ENABLED are out of the prover's reach. Every
safety property a passing run checks is a theorem, within the hypotheses named above.

## 6. Not modelled, and why

* The build without the journal (it makes no promise about crashes), and `Device` with crashes:
  `SecureStore` has them, for one thread.
* File names, link counts, inode numbers used again, and what the file system promised for an unlink
  that is still queued: they are the file system's, and listed as hazards no property covers.
* A second open device, and with it the lookup of devices by name in `netlink_recv` and the lock
  ER:1691 leaves taken; an unlink pending when ERASER is closed, which draws keys in freed memory (ER:1981).
* Memory allocation and its failures; the block and crypto layers below `eraser_rw_sector` and
  `crypto_blkcipher`; the encryption of file data, beyond the key it is given; two things
  that cannot be told apart from what the kernel does around them: `init_rwsem` after the
  eviction thread starts (KM:2460; its first wake is seconds later) and bios that arrive after
  shutdown (KM:1471; the device mapper has stopped sending them).
* The pass phrase and device-mapper handling of the userland tools; benchmarks, scripts and tests;
  the Spin file, which is an unrelated example.
* Sector writes that are torn or reordered, and collisions of random keys.
