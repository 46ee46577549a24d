-------------------------------- MODULE Eraser --------------------------------
(***************************************************************************)
(* ERASER, the predecessor of holepunch (dm-eraser.c): two levels of maps  *)
(* and no journal.  The vault's master key opens the slot map, which is    *)
(* read whole when the device is opened and written back when it is        *)
(* closed; the key in slot s opens sector s of the inode map, which holds  *)
(* the file keys and is cached.  An unlink draws a new file key and a new  *)
(* slot key; a close after an unlink draws a new master key.               *)
(*                                                                         *)
(* A cache operation runs under the lock of the slot's bucket, which also  *)
(* guards the slot's entry of the slot map, and writes at most one sector: *)
(* it is one step.  The constructor and the destructor are split at every  *)
(* sector write and message, and a power failure may fall anywhere.        *)
(***************************************************************************)
EXTENDS KeySync, FiniteSets, Functions

CONSTANTS
  InodeLen,   \* inode_map_len, the number of slots
  PerSector,  \* ERASER_MAP_PER_SECTOR
  MaxKeys     \* a bound on the keys drawn before the last unlink

ASSUME MapAssumption == InodeLen \in Nat \ {0} /\ PerSector \in Nat \ {0} /\ MaxKeys \in Nat
ASSUME WipedAssumption == NoKey = 0   \* 0 is no key anybody draws

VARIABLES
  smap,      \* the slot map on the disk, by sector
  imap,      \* the inode map on the disk, by slot
  iv,        \* slot_map_iv of the header on the disk
  rhiv,      \* slot_map_iv of the header in memory
  slotkey,   \* slot_map, in memory
  cache,     \* map_cache_list
  mapDirty,  \* ERASER_KEY_SLOT_MAP_DIRTY
  pc, idx,   \* where the constructor or destructor is, its loop index
  fresh,     \* the next key or IV to draw
  file,      \* yardstick: the key each file should have
  risk,      \* slots with an unlink since the device was opened
  lost,      \* slots that a power failure found at risk
  dying,     \* file keys replaced since the device was opened
  dead,      \* file keys replaced in a session that was closed
  seen       \* every map sector there has ever been on the medium

maps == <<smap, imap, iv>>
mem == <<rhiv, slotkey, cache, mapDirty>>
ghosts == <<file, risk, lost, dying, dead>>
vars == <<syncVars, maps, mem, pc, idx, fresh, ghosts, seen>>

Slot == 0 .. InodeLen - 1
Entry == 0 .. PerSector - 1
SlotSector(s) == s \div PerSector
SlotSectors == {SlotSector(s) : s \in Slot}
SlotsOf(i) == {s \in Slot : SlotSector(s) = i}

Junk == [e \in Entry |-> NoKey]

\* An inode map sector under a slot key.
OpenSector(b, k) == IF b.k = k THEN b.keys ELSE Junk

\* read_slot_map: one CBC chain through all sectors.  A sector from another
\* write than the one before it loses its first block, and so its first key.
OpenSlot(s, k, v) ==
  LET b     == smap[SlotSector(s)]
      chain == IF SlotSector(s) = 0 THEN v ELSE smap[SlotSector(s) - 1].iv
  IN  IF b.k # k \/ (s % PerSector = 0 /\ chain # b.iv) THEN NoKey ELSE b.keys[s]

ReadSlotMap(k, v) == [s \in Slot |-> OpenSlot(s, k, v)]

\* do_create: a header, a master key in the vault, and maps of random bytes,
\* which are some keys or other under whatever opens them.
FirstSlotKey(s) == 3 + s
FirstFileKey(s, e) == 3 + InodeLen + s * PerSector + e

Init ==
  /\ vault = 1 /\ iv = 2
  /\ smap = [i \in SlotSectors |->
               [k |-> 1, iv |-> 2, keys |-> [s \in SlotsOf(i) |-> FirstSlotKey(s)]]]
  /\ file = [s \in Slot |-> [e \in Entry |-> FirstFileKey(s, e)]]
  /\ imap = [s \in Slot |-> [k |-> FirstSlotKey(s), keys |-> file[s]]]
  /\ fresh = 3 + InodeLen + InodeLen * PerSector
  /\ status = {} /\ mk = NoKey /\ newmk = NoKey /\ inbox = <<>> /\ helper = "gone"
  /\ rhiv = NoKey /\ slotkey = [s \in Slot |-> NoKey] /\ cache = <<>> /\ mapDirty = FALSE
  /\ pc = "down" /\ idx = 0
  /\ risk = {} /\ lost = {} /\ dying = {} /\ dead = {}
  /\ seen = [maps |-> {[k |-> smap[i].k, keys |-> Range(smap[i].keys)] : i \in SlotSectors},
             sectors |-> {[k |-> imap[s].k, keys |-> Range(imap[s].keys)] : s \in Slot}]

-----------------------------------------------------------------------------
(* The constructor: the header, the master key, the slot map.              *)

\* do_open forks the helper; the constructor reads the header.
Open ==
  /\ pc = "down"
  /\ helper' = "starting" /\ inbox' = <<>>
  /\ status' = {"GET_REQUESTED"}
  /\ rhiv' = iv
  /\ pc' = "get_send"
  /\ UNCHANGED <<mk, newmk, vault, maps, slotkey, cache, mapDirty, idx, fresh, ghosts, seen>>

AskKey ==
  /\ pc = "get_send"
  /\ SendGet
  /\ pc' = "get_wait"
  /\ UNCHANGED <<maps, mem, idx, fresh, ghosts, seen>>

LoadSlotMap ==
  /\ pc = "get_wait" /\ "GOT_KEY" \in status
  /\ slotkey' = ReadSlotMap(mk, rhiv)
  /\ cache' = <<>> /\ mapDirty' = FALSE
  /\ pc' = "open"
  /\ UNCHANGED <<syncVars, maps, rhiv, idx, fresh, ghosts, seen>>

-----------------------------------------------------------------------------
(* The map cache.                                                          *)

With(c, s, x) == [t \in DOMAIN c \cup {s} |-> IF t = s THEN x ELSE c[t]]
Without(c, s) == Restrict(c, DOMAIN c \ {s})

\* search_map_cache, then cache_map.
CacheEntry(s) ==
  IF s \in DOMAIN cache THEN cache[s]
  ELSE [keys |-> OpenSector(imap[s], slotkey[s]), dirty |-> FALSE]

\* get_key_for_inode, for a read or write of the file's data.
GetKey(s) ==
  /\ pc = "open"
  /\ cache' = With(cache, s, CacheEntry(s))
  /\ UNCHANGED <<syncVars, maps, rhiv, slotkey, mapDirty, pc, idx, fresh, ghosts, seen>>

\* Seeded faults, for checking that the properties notice them.
WriteBackStale(s) ==
  /\ imap' = [imap EXCEPT ![s] = [k |-> imap[s].k, keys |-> cache[s].keys]]
  /\ seen' = [seen EXCEPT !.sectors = @ \cup {[k |-> imap[s].k, keys |-> Range(cache[s].keys)]}]
RefreshFileKeyOnly(s, e) ==
  /\ cache' = With(cache, s, [CacheEntry(s) EXCEPT !.keys[e] = fresh, !.dirty = TRUE])
  /\ mapDirty' = TRUE /\ fresh' = fresh + 2
  /\ UNCHANGED slotkey
RefreshFromOneDraw(s, e) ==
  /\ cache' = With(cache, s, [CacheEntry(s) EXCEPT !.keys[e] = fresh, !.dirty = TRUE])
  /\ slotkey' = [slotkey EXCEPT ![s] = fresh + 1]
  /\ mapDirty' = TRUE
  /\ fresh' = fresh + 1

\* write_map_cache: under the slot key as it is in memory now.
WriteBack(s) ==
  /\ imap' = [imap EXCEPT ![s] = [k |-> slotkey[s], keys |-> cache[s].keys]]
  /\ seen' = [seen EXCEPT !.sectors = @ \cup {[k |-> slotkey[s], keys |-> Range(cache[s].keys)]}]

WriteIfDirty(s) == IF cache[s].dirty THEN WriteBack(s) ELSE UNCHANGED <<imap, seen>>

\* evict_map_cache, one entry: written if it is dirty and was dirtied or used
\* long ago, dropped if it was used long ago.
Evict(s, drop) ==
  /\ pc = "open" /\ s \in DOMAIN cache
  /\ WriteIfDirty(s)
  /\ cache' = IF drop THEN Without(cache, s) ELSE [cache EXCEPT ![s].dirty = FALSE]
  /\ UNCHANGED <<syncVars, smap, iv, rhiv, slotkey, mapDirty, pc, idx, fresh, ghosts>>

\* refresh_map_entry, of the file and of the slot.
Refresh(s, e) ==
  /\ cache' = With(cache, s, [CacheEntry(s) EXCEPT !.keys[e] = fresh, !.dirty = TRUE])
  /\ slotkey' = [slotkey EXCEPT ![s] = fresh + 1]
  /\ mapDirty' = TRUE
  /\ fresh' = fresh + 2

\* do_unlink.
Unlink(s, e) ==
  /\ pc = "open" /\ fresh < MaxKeys
  /\ Refresh(s, e)
  /\ file' = [file EXCEPT ![s][e] = fresh]
  /\ dying' = dying \cup ({CacheEntry(s).keys[e]} \ {NoKey})
  /\ risk' = risk \cup {s}
  /\ UNCHANGED <<syncVars, maps, rhiv, pc, idx, lost, dead, seen>>

-----------------------------------------------------------------------------
(* The destructor.  No unlink is pending when it starts: the code would    *)
(* run one on a slot map already freed, and TLC is not shown that.         *)

CloseBegin ==
  /\ pc = "open"
  /\ pc' = "evict"
  /\ UNCHANGED <<syncVars, maps, mem, idx, fresh, ghosts, seen>>

\* force_evict_map_cache, one entry.
ForceEvict(s) ==
  /\ pc = "evict" /\ s \in DOMAIN cache
  /\ WriteIfDirty(s)
  /\ cache' = Without(cache, s)
  /\ UNCHANGED <<syncVars, smap, iv, rhiv, slotkey, mapDirty, pc, idx, fresh, ghosts>>

\* A new master key is drawn when an unlink changed the slot map; otherwise
\* there is nothing left but the helper to stop and the header to write.
Evicted ==
  /\ pc = "evict" /\ DOMAIN cache = {}
  /\ IF mapDirty
     THEN RequestSet(fresh) /\ fresh' = fresh + 1 /\ pc' = "set_send"
     ELSE KillHelper /\ UNCHANGED fresh /\ pc' = "header"
  /\ UNCHANGED <<maps, mem, idx, ghosts, seen>>

SendKey ==
  /\ pc = "set_send"
  /\ SendSet
  /\ pc' = "set_wait"
  /\ UNCHANGED <<maps, mem, idx, fresh, ghosts, seen>>

\* The vault has the new key: take it, stop the helper, draw a new IV.
KeySet ==
  /\ pc = "set_wait"
  /\ Install
  /\ rhiv' = fresh /\ fresh' = fresh + 1
  /\ mapDirty' = FALSE
  /\ pc' = "write_map" /\ idx' = 0
  /\ UNCHANGED <<maps, slotkey, cache, ghosts, seen>>

\* Seeded fault: the slot map is written under the key it was read with.
MapUnderOldKey(i) ==
  [k |-> smap[i].k, iv |-> rhiv, keys |-> [s \in SlotsOf(i) |-> slotkey[s]]]

\* write_slot_map, one sector.
MapSector(i) == [k |-> mk, iv |-> rhiv, keys |-> [s \in SlotsOf(i) |-> slotkey[s]]]

WriteMap ==
  /\ pc = "write_map"
  /\ smap' = [smap EXCEPT ![idx] = MapSector(idx)]
  /\ seen' = [seen EXCEPT !.maps = @ \cup {[k |-> mk, keys |-> Range(smap'[idx].keys)]}]
  /\ IF idx + 1 \in SlotSectors
     THEN idx' = idx + 1 /\ UNCHANGED pc
     ELSE idx' = 0 /\ pc' = "header"
  /\ UNCHANGED <<syncVars, imap, iv, mem, fresh, ghosts>>

Forget ==
  /\ mk' = NoKey /\ newmk' = NoKey
  /\ slotkey' = [s \in Slot |-> NoKey] /\ cache' = <<>> /\ mapDirty' = FALSE /\ rhiv' = NoKey
  /\ pc' = "down" /\ idx' = 0
  /\ risk' = {} /\ dying' = {}

WriteHeader ==
  /\ pc = "header"
  /\ iv' = rhiv
  /\ Forget
  /\ dead' = dead \cup dying
  /\ UNCHANGED <<status, inbox, helper, vault, smap, imap, fresh, file, lost, seen>>

-----------------------------------------------------------------------------
(* A power failure.  Nothing is journaled: what it leaves depends on where *)
(* the medium and the vault were.                                          *)

\* The slots that a power failure would cost now: those with an unlink; from
\* the moment the vault has the new key, those whose slot map sector is not
\* yet under it; and until the header is written, the first one, whose slot
\* key is opened with the IV.
Exposed ==
  CASE pc = "set_wait" /\ vault = newmk -> Slot
    [] pc = "write_map" -> {0} \cup {s \in Slot : SlotSector(s) >= idx}
    [] pc = "header" -> IF rhiv = iv THEN {} ELSE {0}
    [] OTHER -> risk

Crash ==
  /\ pc # "down"
  /\ Forget
  /\ status' = {} /\ inbox' = <<>> /\ helper' = "gone"
  /\ lost' = lost \cup Exposed
  /\ UNCHANGED <<vault, maps, fresh, file, dead, seen>>

Helper ==
  /\ HelperStep \/ HelperFail
  /\ UNCHANGED <<maps, mem, pc, idx, fresh, ghosts, seen>>

Opening == Open \/ AskKey \/ LoadSlotMap
Working == \E s \in Slot :
             \/ GetKey(s)
             \/ \E drop \in BOOLEAN : Evict(s, drop)
             \/ \E e \in Entry : Unlink(s, e)
Closing == \/ \E s \in Slot : ForceEvict(s)
           \/ Evicted \/ SendKey \/ KeySet \/ WriteMap \/ WriteHeader

Next == Opening \/ Working \/ CloseBegin \/ Closing \/ Helper \/ Crash

\* The constructor, the destructor and the helper run on; the helper's failure
\* to reach the TPM, the next open or close and the power failures need not come.
Fairness ==
  /\ WF_vars(AskKey \/ LoadSlotMap)
  /\ WF_vars(Closing)
  /\ WF_vars(HelperStep /\ UNCHANGED <<maps, mem, pc, idx, fresh, ghosts, seen>>)

Spec == Init /\ [][Next]_vars /\ Fairness

-----------------------------------------------------------------------------
(* Properties.                                                             *)

Key == 0 .. fresh - 1

TypeOK ==
  /\ vault \in Key /\ mk \in Key /\ newmk \in Key /\ iv \in Key /\ rhiv \in Key
  /\ status \subseteq Flags
  /\ helper \in {"starting", "loop", "written", "failed", "gone"}
  /\ slotkey \in [Slot -> Key]
  /\ DOMAIN cache \subseteq Slot /\ mapDirty \in BOOLEAN
  /\ pc \in {"down", "get_send", "get_wait", "open", "evict", "set_send", "set_wait",
             "write_map", "header"}
  /\ idx \in SlotSectors /\ fresh \in Nat
  /\ risk \subseteq Slot /\ lost \subseteq Slot

\* What an open device answers: the file keys of every slot that no power
\* failure has cost are the ones last drawn for it, whatever mixture of cached
\* entries, written-back sectors and slot keys not yet on the medium they come
\* from.
Readable ==
  pc = "open" => \A s \in Slot \ lost : CacheEntry(s).keys = file[s]

\* What a power failure leaves: at every moment, the slots not exposed then can
\* be read from the medium with the key in the vault.
Survives ==
  \A s \in Slot \ (lost \cup Exposed) :
    OpenSector(imap[s], OpenSlot(s, vault, iv)) = file[s]

\* What ERASER promises: a file key replaced in a session that was closed can
\* no longer be had from the vault's key and anything ever written to the
\* medium, however many sessions and failures come after.
Opens(ks, sectors) == UNION {b.keys : b \in {c \in sectors : c.k \in ks}}
DeletedGone == dead \cap Opens(Opens({vault}, seen.maps), seen.sectors) = {}

\* The module acts on a master key only when the vault has the same: the slot
\* map is opened and written under no other.
KeysAgree == pc \in {"open", "evict", "set_send", "write_map"} => mk = vault

\* The constructor and the destructor come to an end unless the helper fails;
\* both wait without a timeout for what the helper sends once.
Completes ==
  pc \in {"get_send", "get_wait", "evict", "set_send", "set_wait", "write_map", "header"}
    ~> (pc \in {"open", "down"} \/ helper = "failed")
=============================================================================
