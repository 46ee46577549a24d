----------------------------- MODULE SecureStore -----------------------------
(***************************************************************************)
(* The key hierarchy of an open device and its life across unlinks, closes *)
(* and crashes (dm-holepunch-main.c, build with HOLEPUNCH_JOURNAL).        *)
(*                                                                         *)
(* The TPM's master key opens the top of the file key table (FKT), its     *)
(* entries the bottom of the FKT, those the PPRF key, the PPRF value of a  *)
(* key table sector's tag that sector, and its entries the files.          *)
(*                                                                         *)
(* One thread runs: an unlink, the eviction thread, the constructor or the *)
(* destructor.  Every write of one sector is a step of its own, atomic,    *)
(* and on the disk when it returns; a crash may fall between any two.      *)
(*                                                                         *)
(* Keys are numbers, drawn afresh; Junk is any value nobody chose.  The    *)
(* PPRF key is its root and the tags punctured in it, in one disk sector:  *)
(* the module is about capacities that fit in one, as OneSectorAssumption  *)
(* says (a key of more is PPRFStore's, which finds what then goes wrong).  *)
(***************************************************************************)
EXTENDS Integers, Sequences, FiniteSets, Functions

CONSTANTS
  KeyTableLen,   \* sectors of the key table
  Entries,       \* file keys in one such sector
  TopWidth,      \* fkt_top_width
  Depth,         \* pprf_depth
  Capacity,      \* pprf_capacity
  PerSector,     \* HP_PPRF_PER_SECTOR
  CreateCrash,   \* whether power may fail before the first open is complete
  MaxKeys        \* a bound on the keys drawn by new unlinks, closes, crashes

ASSUME SizeAssumption ==
  /\ KeyTableLen \in Nat \ {0} /\ Entries \in Nat \ {0}
  /\ TopWidth \in 1 .. 5
  /\ Depth \in Nat \ {0} /\ KeyTableLen < 2 ^ Depth
  /\ Capacity \in Nat /\ Capacity >= 1 + 2 * Depth
  /\ CreateCrash \in BOOLEAN /\ MaxKeys \in Nat

\* The keynodes in use, at most Capacity of them, are all in the first sector.
ASSUME OneSectorAssumption == PerSector \in Nat /\ Capacity <= PerSector

VARIABLES
  home,   \* the sectors outside the journal
  ctl,    \* the journal's control block
  slot,   \* the journal's data blocks
  tpm,    \* the master key in the TPM
  mem,    \* struct holepunch_dev
  pc,     \* the next step
  ret,    \* where the operation under way was called from
  idx,    \* the loop index of that step
  fresh,  \* the next key to draw
  file    \* the file keys made durable last: what a restart must give back

vars == <<home, ctl, slot, tpm, mem, pc, ret, idx, fresh, file>>
disk == <<home, ctl, slot>>

Sector == 0 .. KeyTableLen - 1
Entry == 1 .. Entries
Top == 0 .. TopWidth - 1
Slot == 1 .. 5

Junk == 0
JunkKeys == [e \in Entry |-> Junk]
JunkTop == [key |-> Junk, ctr |-> 0, size |-> 1]
JunkPprf == [root |-> Junk, punct |-> {}]

\* The device's sectors by what they hold.
HeaderAt == <<"header", 0>>
TopAt(w) == <<"top", w>>
BotAt == <<"bottom", 0>>
PprfAt == <<"pprf", 0>>
TableAt(s) == <<"table", s>>
Addr == {HeaderAt, BotAt, PprfAt} \cup {TopAt(w) : w \in Top} \cup {TableAt(s) : s \in Sector}

\* A ciphertext is bound to its key and, by the IV, to its address.  A key table
\* sector is under <<root, tag>>, the value of its tag, and the tag is plain.
Enc(at, k, body) == [at |-> at, k |-> k, body |-> body]
Dec(b, at, k, junk) == IF b.at = at /\ b.k = k THEN b.body ELSE junk

InUse == home[HeaderAt].body
DiskTag(s) == home[TableAt(s)].k[2]

\* Sector s under a PPRF key; the value of a punctured tag is lost.
TableUnder(b, pprf) ==
  IF b.k[1] = pprf.root /\ b.k[2] \notin pprf.punct THEN b.body ELSE JunkKeys

NoControl == [type |-> "NONE", k |-> Junk, key |-> Junk, addr |-> <<>>]
NoMem == [mk |-> Junk, newmk |-> Junk, top |-> [w \in Top |-> JunkTop], pk |-> Junk,
          pprf |-> JunkPprf, newroot |-> Junk, cache |-> <<>>, cur |-> 0]

-----------------------------------------------------------------------------
(* Initial states: a device in use, closed cleanly, or one just created.   *)

FirstKeys == [s \in Sector |-> [e \in Entry |-> TopWidth + 3 + s * Entries + e]]

InitInUse ==
  /\ tpm = 1
  /\ home = [a \in Addr |->
       CASE a[1] = "header" -> Enc(a, Junk, TRUE)
         [] a[1] = "top"    -> Enc(a, 1, [key |-> a[2] + 2, ctr |-> KeyTableLen, size |-> 1])
         [] a[1] = "bottom" -> Enc(a, 2, TopWidth + 2)
         [] a[1] = "pprf"   -> Enc(a, TopWidth + 2, [root |-> TopWidth + 3, punct |-> {}])
         [] a[1] = "table"  -> Enc(a, <<TopWidth + 3, a[2]>>, FirstKeys[a[2]])]
  /\ ctl = NoControl
  /\ file = FirstKeys
  /\ fresh = TopWidth + 4 + KeyTableLen * Entries

\* do_create: the header, a PPRF_INIT control block and a random key table.
InitCreated ==
  /\ tpm = 1
  /\ home = [a \in Addr |->
       CASE a[1] = "header" -> Enc(a, Junk, FALSE)
         [] a[1] = "top"    -> Enc(a, Junk, JunkTop)
         [] a[1] = "bottom" -> Enc(a, Junk, Junk)
         [] a[1] = "pprf"   -> Enc(a, Junk, JunkPprf)
         [] a[1] = "table"  -> Enc(a, <<Junk, 0>>, JunkKeys)]
  /\ ctl = [NoControl EXCEPT !.type = "PPRF_INIT"]
  /\ file = [s \in Sector |-> JunkKeys]
  /\ fresh = 2

Init ==
  /\ InitInUse \/ InitCreated
  /\ slot = [i \in Slot |-> Enc(HeaderAt, Junk, FALSE)]
  /\ mem = NoMem
  /\ pc = "down" /\ ret = "idle" /\ idx = 0

-----------------------------------------------------------------------------
(* The file key cache.                                                     *)

With(c, s, x) == [t \in DOMAIN c \cup {s} |-> IF t = s THEN x ELSE c[t]]
Without(c, s) == Restrict(c, DOMAIN c \ {s})

\* read_cache_entry: the current PPRF key first, then, if the magic is wrong,
\* the one last rotated to.
ReadKeys(s) ==
  LET b == home[TableAt(s)]
      k == TableUnder(b, mem.pprf)
  IN  IF k # JunkKeys THEN k ELSE TableUnder(b, [root |-> mem.newroot, punct |-> {}])

CacheEntry(s) ==
  IF s \in DOMAIN mem.cache THEN mem.cache[s]
  ELSE [tag |-> DiskTag(s), keys |-> ReadKeys(s), dirty |-> FALSE]

\* get_inode_key, for an I/O request.
GetInodeKey(s) ==
  /\ pc = "idle"
  /\ mem' = [mem EXCEPT !.cache = With(@, s, CacheEntry(s))]
  /\ UNCHANGED <<home, ctl, slot, tpm, pc, ret, idx, fresh, file>>

\* do_unlink up to persist_unlink, which without HOLEPUNCH_BATCHING follows at
\* once and with it whenever the eviction thread finds the entry old enough.
Unlink(s, e) ==
  /\ pc = "idle" /\ fresh < MaxKeys
  /\ mem' = [mem EXCEPT !.cache =
               With(@, s, [CacheEntry(s) EXCEPT !.keys[e] = fresh, !.dirty = TRUE])]
  /\ fresh' = fresh + 1
  /\ UNCHANGED <<home, ctl, slot, tpm, pc, ret, idx, file>>

\* The eviction thread drops an entry it need not, or has just, written back.
DropEntry(s) ==
  /\ pc = "idle"
  /\ s \in DOMAIN mem.cache /\ ~mem.cache[s].dirty
  /\ mem' = [mem EXCEPT !.cache = Without(@, s)]
  /\ UNCHANGED <<home, ctl, slot, tpm, pc, ret, idx, fresh, file>>

-----------------------------------------------------------------------------
(* rotate_master and do_master_rotation.                                   *)

\* Draws the new key; the operation goes on to r afterwards.
EnterMaster(m, r) ==
  /\ mem' = [m EXCEPT !.newmk = fresh]
  /\ fresh' = fresh + 1
  /\ pc' = "m_slot" /\ idx' = 0 /\ ret' = r

MasterSlot ==
  /\ pc = "m_slot"
  /\ slot' = [slot EXCEPT ![idx + 1] = Enc(TopAt(idx), mem.newmk, mem.top[idx])]
  /\ idx' = idx + 1
  /\ pc' = IF idx' = TopWidth THEN "m_ctl" ELSE pc
  /\ UNCHANGED <<home, ctl, tpm, mem, ret, fresh, file>>

\* The new key under the old one, and the old one's hash (here: itself).
MasterCtl ==
  /\ pc = "m_ctl"
  /\ ctl' = [type |-> "MASTER_ROT", k |-> mem.mk, key |-> mem.newmk, addr |-> <<>>]
  /\ pc' = "m_top" /\ idx' = 0
  /\ UNCHANGED <<home, slot, tpm, mem, ret, fresh, file>>

\* "eraser_write_sector(rd->hp_h->fkt_start, blk, rd)": not fkt_start + i.
MasterTop ==
  /\ pc = "m_top"
  /\ home' = [home EXCEPT ![TopAt(0)] = slot[idx + 1]]
  /\ idx' = idx + 1
  /\ pc' = IF idx' = TopWidth THEN "m_tpm" ELSE pc
  /\ UNCHANGED <<ctl, slot, tpm, mem, ret, fresh, file>>

\* tpm_set_master, once the helper has acknowledged the new key.
MasterTpm ==
  /\ pc = "m_tpm"
  /\ tpm' = mem.newmk
  /\ mem' = [mem EXCEPT !.mk = mem.newmk]
  /\ pc' = IF ret = "recover" THEN "clear" ELSE "m_none"
  /\ UNCHANGED <<home, ctl, slot, ret, idx, fresh, file>>

\* The initialization of the PPRF rotates the master key twice.
MasterNone ==
  /\ pc = "m_none"
  /\ ctl' = [ctl EXCEPT !.type = "NONE"]
  /\ IF ret = "init" THEN EnterMaster(mem, "init again")
     ELSE /\ pc' = IF ret = "init again" THEN "clear" ELSE ret
          /\ UNCHANGED <<mem, fresh, idx, ret>>
  /\ UNCHANGED <<home, slot, tpm, file>>

-----------------------------------------------------------------------------
(* rotate_pprf and do_pprf_rotation.                                       *)

\* A seeded fault: the scan takes no sector for rotated.
UnrotatedAll(m, ignore) == Sector

\* Where the scan of the key table stops: at the first sector that is cached,
\* or not yet under the new PPRF key.
Unrotated(m, ignore) ==
  {s \in Sector : ignore \/ s \in DOMAIN m.cache \/ home[TableAt(s)].k[1] # m.newroot}
FirstUnrotated(m, ignore) ==
  CHOOSE s \in Unrotated(m, ignore) : \A t \in Unrotated(m, ignore) : s <= t

EnterRewrite(m, ignore) ==
  /\ mem' = m
  /\ IF Unrotated(m, ignore) = {} THEN pc' = "fkt_top" /\ idx' = 0
     ELSE pc' = "rewrite" /\ idx' = FirstUnrotated(m, ignore)

RotateCtl ==
  /\ pc = "rot_ctl"
  /\ ctl' = [type |-> "PPRF_ROT", k |-> mem.mk, key |-> mem.newroot, addr |-> <<>>]
  /\ EnterRewrite(mem, FALSE)
  /\ UNCHANGED <<home, slot, tpm, ret, fresh, file>>

\* One key table sector, from the cache or the disk, under the new PPRF key.
\* An initialization takes whatever is there for file keys.
RewriteSector ==
  LET cached == idx \in DOMAIN mem.cache
      drawn  == [e \in Entry |-> fresh + e - 1]
      keys   == CASE ret = "init" -> drawn
                  [] cached       -> mem.cache[idx].keys
                  [] OTHER        -> TableUnder(home[TableAt(idx)], mem.pprf)
  IN  /\ pc = "rewrite"
      /\ home' = [home EXCEPT ![TableAt(idx)] = Enc(TableAt(idx), <<mem.newroot, idx>>, keys)]
      /\ mem' = [mem EXCEPT !.cache = Without(@, idx)]
      /\ fresh' = IF ret = "init" THEN fresh + Entries ELSE fresh
      /\ file' = IF ret = "init" \/ cached THEN [file EXCEPT ![idx] = keys] ELSE file
      /\ IF idx + 1 = KeyTableLen THEN pc' = "fkt_top" /\ idx' = 0
                                  ELSE pc' = pc /\ idx' = idx + 1
      /\ UNCHANGED <<ctl, slot, tpm, ret>>

\* The FKT is refilled with random keys, the counters start over.
RewriteTop ==
  LET body == [key |-> fresh, ctr |-> KeyTableLen, size |-> 1]
  IN  /\ pc = "fkt_top"
      /\ mem' = [mem EXCEPT !.top[idx] = body]
      /\ home' = [home EXCEPT ![TopAt(idx)] = Enc(TopAt(idx), mem.mk, body)]
      /\ fresh' = fresh + 1
      /\ idx' = idx + 1
      /\ pc' = IF idx' = TopWidth THEN "fkt_bot" ELSE pc
      /\ UNCHANGED <<ctl, slot, tpm, ret, file>>

RewriteBottom ==
  /\ pc = "fkt_bot"
  /\ mem' = [mem EXCEPT !.pk = fresh]
  /\ home' = [home EXCEPT ![BotAt] = Enc(BotAt, mem.top[0].key, fresh)]
  /\ fresh' = fresh + 1
  /\ pc' = "pprf_key"
  /\ UNCHANGED <<ctl, slot, tpm, ret, idx, file>>

\* A recovery goes straight on to rotate_master, rotate_pprf by way of HPJ_NONE.
RewritePprf ==
  LET pprf == [root |-> mem.newroot, punct |-> {}]
      m    == [mem EXCEPT !.pprf = pprf]
  IN  /\ pc = "pprf_key"
      /\ home' = [home EXCEPT ![PprfAt] = Enc(PprfAt, mem.pk, pprf)]
      /\ IF ret \in {"idle", "closing"}
         THEN mem' = m /\ pc' = "none" /\ UNCHANGED <<idx, ret, fresh>>
         ELSE EnterMaster(m, ret)
      /\ UNCHANGED <<ctl, slot, tpm, file>>

-----------------------------------------------------------------------------
(* persist_unlink.                                                         *)

\* No punctured tag is below the node at depth d of a tag's path.
Unsplit(punct, tag, d) == \A p \in punct : p \div 2 ^ (Depth - d) # tag \div 2 ^ (Depth - d)

\* The depth find_key ends at: the keyleaf the tag hangs from, or the leaf of a tag
\* that was punctured.
LeafDepth(punct, tag) ==
  CHOOSE d \in 0 .. Depth :
    /\ d = Depth \/ Unsplit(punct, tag, d)
    /\ \A c \in 0 .. d - 1 : ~Unsplit(punct, tag, c)

\* The next tag, as the PPRF takes it: "tag <<= 64 - pprf_depth" drops whatever of
\* the counter does not fit in the tree.
NextTag(m) == m.top[0].ctr % (2 ^ Depth)

\* Seeded faults, for checking that the properties notice them.
PunctureNothing(m, s) ==
  [m EXCEPT !.cache[s].tag = NextTag(m), !.cur = s, !.pk = fresh,
            !.top[0] = [@ EXCEPT !.ctr = @ + 1, !.key = fresh + 1]]
PunctureReusingTag(m, s) ==
  [m EXCEPT !.cache[s].tag = NextTag(m), !.cur = s, !.pk = fresh,
            !.pprf.punct = @ \cup {m.cache[s].tag}, !.top[0].key = fresh + 1]
AllButFirstBucket == Sector \ {0}
ReplayFirstBlock ==
  /\ pc = "replay"
  /\ home' = [home EXCEPT ![ctl.addr[idx]] = slot[1]]
  /\ idx' = idx + 1
  /\ pc' = IF idx < 5 THEN pc ELSE IF ret = "recover" THEN "clear" ELSE "none"
  /\ UNCHANGED <<ctl, slot, tpm, mem, ret, fresh, file>>

\* In memory: the sector takes the next tag, the PPRF loses the old one, and the
\* keys above the PPRF are redrawn.
Punctured(m, s) ==
  LET c == m.cache[s]
  IN  [m EXCEPT !.cache[s].tag = NextTag(m), !.cur = s,
                !.pprf.punct = @ \cup {c.tag},
                !.top[0] = [key |-> fresh + 1, ctr |-> @.ctr + 1,
                            size |-> @.size + 2 * (Depth - LeafDepth(m.pprf.punct, c.tag))],
                !.pk = fresh]

\* The eviction thread and force_evict go through the cache bucket by bucket.
Buckets == Sector

PersistUnlink(s) ==
  /\ pc \in {"idle", "closing"}
  /\ s \in Buckets
  /\ s \in DOMAIN mem.cache /\ mem.cache[s].dirty
  /\ ret' = pc
  /\ IF mem.top[0].size + 2 * Depth > Capacity
     THEN /\ mem' = [mem EXCEPT !.newroot = fresh]
          /\ fresh' = fresh + 1
          /\ pc' = "rot_ctl" /\ idx' = 0
     ELSE /\ mem' = Punctured(mem, s)
          /\ fresh' = fresh + 2
          /\ pc' = "jnl" /\ idx' = 1
  /\ UNCHANGED <<home, ctl, slot, tpm, file>>

\* The transaction: top and bottom of the FKT, the PPRF key, which is in one sector,
\* the key table sector, the header.
Transaction(s) == <<TopAt(0), BotAt, PprfAt, TableAt(s), HeaderAt>>

JournalBlock(i) ==
  LET a == Transaction(mem.cur)[i]
      c == mem.cache[mem.cur]
  IN  CASE i = 1 -> Enc(a, mem.mk, mem.top[0])
        [] i = 2 -> Enc(a, mem.top[0].key, mem.pk)
        [] i = 3 -> Enc(a, mem.pk, mem.pprf)
        [] i = 4 -> Enc(a, <<mem.pprf.root, c.tag>>, c.keys)
        [] i = 5 -> Enc(a, Junk, InUse)

JournalSlot ==
  /\ pc = "jnl"
  /\ slot' = [slot EXCEPT ![idx] = JournalBlock(idx)]
  /\ mem' = IF idx = 4 THEN [mem EXCEPT !.cache[mem.cur].dirty = FALSE] ELSE mem
  /\ IF idx = 5 THEN pc' = "punct_ctl" /\ idx' = 1 ELSE pc' = pc /\ idx' = idx + 1
  /\ UNCHANGED <<home, ctl, tpm, ret, fresh, file>>

\* journal_commit: from here on the unlink is durable.
PunctureCtl ==
  /\ pc = "punct_ctl"
  /\ ctl' = [type |-> "PPRF_PUNCT", k |-> Junk, key |-> Junk, addr |-> Transaction(mem.cur)]
  /\ file' = [file EXCEPT ![mem.cur] = mem.cache[mem.cur].keys]
  /\ pc' = "replay"
  /\ UNCHANGED <<home, slot, tpm, mem, ret, idx, fresh>>

ReplayBlock ==
  /\ pc = "replay"
  /\ home' = [home EXCEPT ![ctl.addr[idx]] = slot[idx]]
  /\ idx' = idx + 1
  /\ pc' = IF idx < 5 THEN pc ELSE IF ret = "recover" THEN "clear" ELSE "none"
  /\ UNCHANGED <<ctl, slot, tpm, mem, ret, fresh, file>>

\* The end of journal_commit or of rotate_pprf's own part, then rotate_master.
ControlNone ==
  /\ pc = "none"
  /\ ctl' = [ctl EXCEPT !.type = "NONE"]
  /\ EnterMaster(mem, ret)
  /\ UNCHANGED <<home, slot, tpm, file>>

-----------------------------------------------------------------------------
(* The constructor, the destructor and the crash.                          *)

ReadFkt(m) ==
  LET top == [w \in Top |-> Dec(home[TopAt(w)], TopAt(w), m.mk, JunkTop)]
  IN  [m EXCEPT !.top = top, !.pk = Dec(home[BotAt], BotAt, top[0].key, Junk)]

ReadPprf(m) == [m EXCEPT !.pprf = Dec(home[PprfAt], PprfAt, m.pk, JunkPprf)]

Booted == [NoMem EXCEPT !.mk = tpm]

\* HPJ_NONE.  The PPRF key is read only if the header says the device is in use.
OpenClean ==
  /\ pc = "down" /\ ctl.type = "NONE"
  /\ mem' = IF InUse THEN ReadPprf(ReadFkt(Booted)) ELSE ReadFkt(Booted)
  /\ pc' = "finish" /\ ret' = "idle" /\ idx' = 0
  /\ UNCHANGED <<home, ctl, slot, tpm, fresh, file>>

\* HPJ_MASTER_ROT: redone while the TPM still has the old key.
RecoverMaster ==
  /\ pc = "down" /\ ctl.type = "MASTER_ROT"
  /\ IF ctl.k = tpm THEN mem' = [Booted EXCEPT !.newmk = ctl.key] /\ pc' = "m_top"
                    ELSE mem' = Booted /\ pc' = "clear"
  /\ ret' = "recover" /\ idx' = 0
  /\ UNCHANGED <<home, ctl, slot, tpm, fresh, file>>

\* HPJ_PPRF_ROT: the key table is scanned and the rest of it rotated.
RecoverPprfRotation ==
  /\ pc = "down" /\ ctl.type = "PPRF_ROT"
  /\ LET m == ReadPprf(ReadFkt(Booted))
     IN  EnterRewrite([m EXCEPT !.newroot = IF ctl.k = tpm THEN ctl.key ELSE Junk], FALSE)
  /\ ret' = "clear"
  /\ UNCHANGED <<home, ctl, slot, tpm, fresh, file>>

\* HPJ_PPRF_INIT: the first open of a device, or another try at it.
RecoverPprfInit ==
  /\ pc = "down" /\ ctl.type = "PPRF_INIT"
  /\ EnterRewrite([ReadFkt(Booted) EXCEPT !.newroot = fresh], TRUE)
  /\ fresh' = fresh + 1
  /\ ret' = "init"
  /\ UNCHANGED <<home, ctl, slot, tpm, file>>

\* HPJ_PPRF_PUNCT: the transaction is replayed.
RecoverPuncture ==
  /\ pc = "down" /\ ctl.type = "PPRF_PUNCT"
  /\ mem' = ReadPprf(ReadFkt(Booted))
  /\ pc' = "replay" /\ ret' = "recover" /\ idx' = 1
  /\ UNCHANGED <<home, ctl, slot, tpm, fresh, file>>

\* Seeded faults: a recovery that does not read the keys again, and one that
\* leaves the old master key.
ClearUnread ==
  /\ pc = "clear"
  /\ ctl' = [ctl EXCEPT !.type = "NONE"]
  /\ pc' = "finish"
  /\ UNCHANGED <<home, slot, tpm, mem, ret, idx, fresh, file>>
FinishUnrotated ==
  /\ pc = "finish"
  /\ home' = [home EXCEPT ![HeaderAt] = Enc(HeaderAt, Junk, TRUE)]
  /\ pc' = "idle"
  /\ UNCHANGED <<ctl, slot, tpm, mem, ret, idx, fresh, file>>

\* "read_fkt: read_pprf: journal_clear:", entered where the recovery jumps to.
JournalClear ==
  /\ pc = "clear"
  /\ mem' = CASE ret = "recover"    -> ReadPprf(ReadFkt(mem))
              [] ret = "init again" -> ReadPprf(mem)
              [] OTHER              -> mem
  /\ ctl' = [ctl EXCEPT !.type = "NONE"]
  /\ pc' = "finish"
  /\ UNCHANGED <<home, slot, tpm, ret, idx, fresh, file>>

\* A device found in use was not closed since its last unlink, for all the
\* constructor knows: the master key is rotated.
FinishOpen ==
  /\ pc = "finish"
  /\ IF InUse
     THEN EnterMaster(mem, "idle") /\ UNCHANGED home
     ELSE /\ home' = [home EXCEPT ![HeaderAt] = Enc(HeaderAt, Junk, TRUE)]
          /\ pc' = "idle"
          /\ UNCHANGED <<mem, fresh, ret, idx>>
  /\ UNCHANGED <<ctl, slot, tpm, file>>

\* The destructor: force_evict persists the dirty entries one by one
\* (PersistUnlink), then the header is written and the keys are wiped.
Close ==
  /\ pc = "idle" /\ fresh < MaxKeys
  /\ pc' = "closing"
  /\ UNCHANGED <<home, ctl, slot, tpm, mem, ret, idx, fresh, file>>

Closed ==
  /\ pc = "closing"
  /\ \A s \in DOMAIN mem.cache : ~mem.cache[s].dirty
  /\ home' = [home EXCEPT ![HeaderAt] = Enc(HeaderAt, Junk, InUse)]
  /\ mem' = NoMem
  /\ pc' = "down" /\ ret' = "idle" /\ idx' = 0
  /\ UNCHANGED <<ctl, slot, tpm, fresh, file>>

Crash ==
  /\ pc # "down" /\ fresh < MaxKeys
  /\ InUse \/ CreateCrash
  /\ mem' = NoMem
  /\ pc' = "down" /\ ret' = "idle" /\ idx' = 0
  /\ UNCHANGED <<home, ctl, slot, tpm, fresh, file>>

Open == OpenClean \/ RecoverMaster \/ RecoverPprfRotation \/ RecoverPprfInit \/ RecoverPuncture

Work ==
  \/ MasterSlot \/ MasterCtl \/ MasterTop \/ MasterTpm \/ MasterNone
  \/ RotateCtl \/ RewriteSector \/ RewriteTop \/ RewriteBottom \/ RewritePprf
  \/ JournalSlot \/ PunctureCtl \/ ReplayBlock \/ ControlNone
  \/ JournalClear \/ FinishOpen \/ Closed

Next ==
  \/ \E s \in Sector : GetInodeKey(s) \/ DropEntry(s) \/ PersistUnlink(s)
  \/ \E s \in Sector, e \in Entry : Unlink(s, e)
  \/ Open \/ Work \/ Close \/ Crash

Spec == Init /\ [][Next]_vars
\* While the device is open its threads keep running; the eviction thread writes
\* back every dirty entry.
Fairness ==
  /\ WF_vars(Work)
  /\ \A s \in Sector : WF_vars(PersistUnlink(s))
FairSpec == Spec /\ Fairness

-----------------------------------------------------------------------------
Steps == {"down", "idle", "closing", "finish", "clear", "none", "jnl", "punct_ctl",
          "replay", "m_slot", "m_ctl", "m_top", "m_tpm", "m_none", "rot_ctl", "rewrite",
          "fkt_top", "fkt_bot", "pprf_key"}
Key == 0 .. fresh - 1
TopBody == [key : Key, ctr : Nat, size : 1 .. Capacity]
PprfBody == [root : Key, punct : SUBSET Nat]
Keys == [Entry -> Key]

Block == [at : {HeaderAt}, k : {Junk}, body : BOOLEAN]
    \cup [at : {TopAt(w) : w \in Top}, k : Key, body : TopBody]
    \cup [at : {BotAt}, k : Key, body : Key]
    \cup [at : {PprfAt}, k : Key, body : PprfBody]
    \cup [at : {TableAt(s) : s \in Sector}, k : Key \X Nat, body : Keys]

TypeOK ==
  /\ DOMAIN home = Addr
  /\ \A a \in Addr : home[a] \in Block /\ (a[1] # "top" => home[a].at = a)
  /\ DOMAIN slot = Slot /\ \A i \in Slot : slot[i] \in Block
  /\ ctl.type \in {"NONE", "MASTER_ROT", "PPRF_ROT", "PPRF_INIT", "PPRF_PUNCT"}
  /\ {ctl.k, ctl.key, tpm, mem.mk, mem.newmk, mem.pk, mem.newroot} \subseteq Key
  /\ mem.top \in [Top -> TopBody] /\ mem.pprf \in PprfBody /\ mem.cur \in Sector
  /\ DOMAIN mem.cache \subseteq Sector
  /\ \A s \in DOMAIN mem.cache : mem.cache[s] \in [tag : Nat, keys : Keys, dirty : BOOLEAN]
  /\ pc \in Steps
  /\ ret \in {"idle", "closing", "clear", "recover", "init", "init again"}
  /\ idx \in 0 .. 6 \cup Sector
  /\ file \in [Sector -> Keys]

\* The tag an unlink takes is a leaf of the tree: the counter has not come round.
\* (PPRFStore has the sizes of do_create for which it does.)
TagsAreLeaves == pc = "jnl" => mem.top[0].ctr <= 2 ^ Depth

\* What a restart now would make of the disk and the TPM.
MasterPending == ctl.type = "MASTER_ROT" /\ ctl.k = tpm
RestartMaster == IF MasterPending THEN ctl.key ELSE tpm
RestartHome ==
  IF ctl.type = "PPRF_PUNCT"
  THEN [a \in Addr |-> IF \E i \in Slot : ctl.addr[i] = a
                       THEN slot[CHOOSE i \in Slot : ctl.addr[i] = a] ELSE home[a]]
  ELSE IF MasterPending
  THEN [a \in Addr |-> IF a[1] = "top" THEN slot[a[2] + 1] ELSE home[a]]
  ELSE home
RestartPprf ==
  LET h   == RestartHome
      top == Dec(h[TopAt(0)], TopAt(0), RestartMaster, JunkTop)
      pk  == Dec(h[BotAt], BotAt, top.key, Junk)
  IN  Dec(h[PprfAt], PprfAt, pk, JunkPprf)
RestartKeys(s) ==
  LET b == RestartHome[TableAt(s)]
      k == TableUnder(b, RestartPprf)
  IN  IF k = JunkKeys /\ ctl.type = "PPRF_ROT" /\ ctl.k = tpm
      THEN TableUnder(b, [root |-> ctl.key, punct |-> {}]) ELSE k

\* At every moment of every operation and of every recovery, the disk and the
\* TPM hold enough to give back the file keys made durable last: an unlink whose
\* control block is written has happened, one whose is not has not.
Recoverable == InUse => \A s \in Sector : RestartKeys(s) = file[s]

\* An open device reads the right keys: from the disk, with what it has in
\* memory, and from the entries of its cache that wait for no write.
Readable ==
  pc = "idle" => \A s \in Sector :
    /\ ReadKeys(s) = file[s]
    /\ s \in DOMAIN mem.cache /\ ~mem.cache[s].dirty => mem.cache[s].keys = file[s]

\* No two sectors share a tag, and every tag in use has a value and is behind
\* the counter: puncturing for one sector loses no other, now or later.
TagsLive ==
  pc = "idle" =>
    /\ \A s, t \in Sector : DiskTag(s) = DiskTag(t) => s = t
    /\ \A s \in Sector : DiskTag(s) \notin mem.pprf.punct /\ DiskTag(s) < mem.top[0].ctr

\* Under steady power an unlink in the cache becomes durable.
UnlinkCompletes ==
  (<>[](pc # "down")) =>
    \A s \in Sector : [](s \in DOMAIN mem.cache /\ mem.cache[s].dirty =>
                           <>(pc = "idle" /\ (s \in DOMAIN mem.cache => ~mem.cache[s].dirty)))

\* "If they match, pprf_fkt_top_width blocks should be copied from the journal to
\* pprf_fkt_start in sequence" (dm-holepunch-main.h:214-215)
TopCopied == pc = "m_tpm" => \A w \in Top : home[TopAt(w)] = slot[w + 1]
=============================================================================
