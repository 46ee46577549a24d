---------------------------- MODULE EraserProofs ----------------------------
(***************************************************************************)
(* Theorems about Eraser, for any map and any number of keys, whatever the *)
(* helper process does and wherever a power failure falls.                 *)
(*                                                                         *)
(* First, the device uses no master key that the vault does not have.      *)
(* That the key it takes is the one in the vault follows from what is on   *)
(* its way to and from the helper: at most one message is, and SyncInv     *)
(* says which, by where the device waits.                                  *)
(*                                                                         *)
(* Then, what an open device and a power failure leave of the file keys.   *)
(* MapInv relates the maps on the medium to the slot keys in memory, by    *)
(* how far the constructor or the destructor has got.                      *)
(*                                                                         *)
(* Last, that replaced keys are gone.                                      *)
(***************************************************************************)
EXTENDS Eraser, TLAPS

Get == [type |-> "GET"]
Set(k) == [type |-> "SET", key |-> k]
Die == [type |-> "DIE"]

NoMail == inbox = <<>> /\ helper # "written"

\* Before the key is asked for, while it is, and once the device has it.
Starting == pc = "get_send" => NoMail /\ status \cap {"GOT_KEY", "READY_TO_REFRESH"} = {}
Asking ==
  pc = "get_wait" =>
    /\ helper # "written" /\ "READY_TO_REFRESH" \notin status
    /\ \/ inbox = <<Get>> /\ "GOT_KEY" \notin status
       \/ inbox = <<>> /\ ("GOT_KEY" \in status => mk = vault)
Using ==
  pc \in {"open", "evict", "set_send"} =>
    NoMail /\ "READY_TO_REFRESH" \notin status /\ mk = vault

\* While the vault is told the new key, and once it has it.
Telling ==
  pc = "set_wait" =>
    \/ /\ inbox = <<Set(newmk)>> /\ "READY_TO_REFRESH" \notin status
       /\ helper = "written" => vault = newmk
    \/ NoMail /\ ("READY_TO_REFRESH" \in status => vault = newmk)
Writing == pc = "write_map" => mk = vault
Stopping ==
  pc \in {"write_map", "header", "down"} => inbox \in {<<>>, <<Die>>} /\ helper # "written"

Place == {"down", "get_send", "get_wait", "open", "evict", "set_send", "set_wait",
          "write_map", "header"}
SyncInv == pc \in Place /\ Starting /\ Asking /\ Using /\ Telling /\ Writing /\ Stopping

-----------------------------------------------------------------------------
\* A queue of one message.
LEMMA One ==
  ASSUME NEW m
  PROVE  Append(<<>>, m) = <<m>> /\ Head(<<m>>) = m /\ Tail(<<m>>) = <<>> /\ <<m>> # <<>>
OBVIOUS

LEMMA Types ==
  /\ Get.type = "GET" /\ Die.type = "DIE"
  /\ \A k : Set(k).type = "SET" /\ Set(k).key = k
BY DEF Get, Set, Die

LEMMA InitSync == Init => SyncInv
BY DEF Init, SyncInv, Place, Starting, Asking, Using, Telling, Writing, Stopping

\* The device's steps, one after another.
LEMMA DeviceKeepsSync ==
  ASSUME SyncInv, Opening \/ Working \/ CloseBegin \/ Closing \/ Crash
  PROVE  SyncInv'
<1> USE DEF SyncInv, Place, syncVars, NoMail
<1>1. ASSUME Open PROVE SyncInv'
  BY <1>1 DEF Open, Starting, Asking, Using, Telling, Writing, Stopping
<1>2. ASSUME AskKey PROVE SyncInv'
  <2>1. inbox' = <<Get>> /\ pc' = "get_wait" /\ UNCHANGED <<helper, status>>
    BY <1>2, One DEF AskKey, SendGet, Starting, Get
  <2> QED
    BY <1>2, <2>1 DEF AskKey, Reachable, Starting, Asking, Using, Telling, Writing, Stopping
<1>3. ASSUME LoadSlotMap PROVE SyncInv'
  <2>1. inbox = <<>>
    BY <1>3 DEF LoadSlotMap, Asking
  <2> QED
    BY <1>3, <2>1 DEF LoadSlotMap, Starting, Asking, Using, Telling, Writing, Stopping
<1>4. ASSUME pc \in {"open", "evict"}, pc' \in {"open", "evict"}, UNCHANGED syncVars PROVE SyncInv'
  BY <1>4 DEF Starting, Asking, Using, Telling, Writing, Stopping
<1>5. ASSUME Working \/ CloseBegin \/ \E s \in Slot : ForceEvict(s) PROVE SyncInv'
  BY <1>4, <1>5 DEF Working, GetKey, Evict, Unlink, CloseBegin, ForceEvict
<1>6. inbox = <<>> => InboxWithDie \in {<<>>, <<Die>>}
  BY One DEF InboxWithDie, Die
<1>7. ASSUME Evicted PROVE SyncInv'
  <2>1. CASE mapDirty
    BY <1>7, <2>1 DEF Evicted, RequestSet, Starting, Asking, Using, Telling, Writing, Stopping
  <2>2. CASE ~mapDirty
    BY <1>6, <1>7, <2>2 DEF Evicted, KillHelper, Starting, Asking, Using, Telling, Writing, Stopping
  <2> QED
    BY <2>1, <2>2
<1>8. ASSUME SendKey PROVE SyncInv'
  <2>1. inbox' = <<Set(newmk)>> /\ pc' = "set_wait" /\ UNCHANGED <<helper, status, newmk, vault>>
    BY <1>8, One DEF SendKey, SendSet, Using, Set
  <2> QED
    BY <1>8, <2>1 DEF SendKey, Starting, Asking, Using, Telling, Writing, Stopping, Set
<1>9. ASSUME KeySet PROVE SyncInv'
  <2>1. inbox = <<>> /\ helper # "written" /\ vault = newmk
    BY <1>9 DEF KeySet, Install, Telling
  <2> QED
    BY <1>6, <1>9, <2>1 DEF KeySet, Install, Starting, Asking, Using, Telling, Writing, Stopping
<1>10. ASSUME WriteMap PROVE SyncInv'
  BY <1>10 DEF WriteMap, Starting, Asking, Using, Telling, Writing, Stopping
<1>11. ASSUME WriteHeader PROVE SyncInv'
  BY <1>11 DEF WriteHeader, Forget, Starting, Asking, Using, Telling, Writing, Stopping
<1>12. ASSUME Crash PROVE SyncInv'
  BY <1>12 DEF Crash, Forget, Starting, Asking, Using, Telling, Writing, Stopping
<1> QED
  BY <1>1, <1>2, <1>3, <1>5, <1>7, <1>8, <1>9, <1>10, <1>11, <1>12 DEF Opening, Closing

\* The helper's steps: what it has in hand depends on where the device is.
LEMMA HelperKeepsSync == ASSUME SyncInv, Helper PROVE SyncInv'
<1> USE DEF SyncInv, Place, syncVars, NoMail
<1>1. UNCHANGED pc
  BY DEF Helper
<1>2. ASSUME HelperBind PROVE SyncInv'
  BY <1>1, <1>2 DEF HelperBind, Starting, Asking, Using, Telling, Writing, Stopping
<1>3. ASSUME HelperGet PROVE SyncInv'
  <2>1. pc = "get_wait" /\ inbox = <<Get>> /\ inbox' = <<>>
    BY <1>3, One, Types DEF HelperGet, Got, Starting, Asking, Using, Telling, Stopping
  <2>2. /\ helper' # "written" /\ "READY_TO_REFRESH" \notin status'
        /\ "GOT_KEY" \in status' => mk' = vault'
    BY <1>3, <2>1 DEF HelperGet, ReceiveKey, Asking
  <2> QED
    BY <1>1, <2>1, <2>2 DEF Starting, Asking, Using, Telling, Writing, Stopping
<1>4. ASSUME HelperWrite PROVE SyncInv'
  <2>1. pc = "set_wait" /\ inbox = <<Set(newmk)>>
    BY <1>4, One, Types DEF HelperWrite, Got, Starting, Asking, Using, Telling, Stopping
  <2>2. vault' = newmk' /\ UNCHANGED <<inbox, status, newmk>>
    BY <1>4, <2>1, One, Types DEF HelperWrite
  <2> QED
    BY <1>1, <2>1, <2>2 DEF Starting, Asking, Using, Telling, Writing, Stopping, Set
<1>5. ASSUME HelperAck PROVE SyncInv'
  <2>1. pc = "set_wait" /\ inbox = <<Set(newmk)>> /\ vault = newmk
    BY <1>5 DEF HelperAck, Starting, Asking, Using, Telling, Stopping
  <2>2. inbox' = <<>> /\ helper' # "written" /\ vault' = newmk'
    BY <1>5, <2>1, One DEF HelperAck, ReceiveAck
  <2> QED
    BY <1>1, <2>1, <2>2 DEF Starting, Asking, Using, Telling, Writing, Stopping
<1>6. ASSUME HelperDie PROVE SyncInv'
  BY <1>1, <1>6, One, Types DEF HelperDie, Got, Starting, Asking, Using, Telling, Writing, Stopping
<1>7. ASSUME HelperFail PROVE SyncInv'
  BY <1>1, <1>7, One, Types DEF HelperFail, Got, Starting, Asking, Using, Telling, Writing,
                                Stopping
<1> QED
  BY <1>2, <1>3, <1>4, <1>5, <1>6, <1>7 DEF Helper, HelperStep

LEMMA NextSync == SyncInv /\ [Next]_vars => SyncInv'
<1>1. ASSUME SyncInv, UNCHANGED vars PROVE SyncInv'
  BY <1>1 DEF vars, syncVars, SyncInv, NoMail, Starting, Asking, Using, Telling, Writing, Stopping, Set
<1> QED
  BY <1>1, DeviceKeepsSync, HelperKeepsSync DEF Next

\* The exchange keeps its invariant, whatever the helper does and wherever power fails.
THEOREM SyncInvariance == Spec => []SyncInv
BY InitSync, NextSync, PTL DEF Spec

\* The constructor opens the slot map (dm-eraser.c:1846) and the destructor writes
\* it (dm-eraser.c:1978) under the key that is in the vault.
THEOREM VaultHasTheKey == Spec => []KeysAgree
<1>1. SyncInv => KeysAgree
  BY DEF SyncInv, Using, Writing, KeysAgree
<1> QED
  BY <1>1, SyncInvariance, PTL

-----------------------------------------------------------------------------
(* The maps: how slots lie in the sectors of the slot map.                 *)

LEMMA Division ==
  ASSUME NEW s \in Nat, NEW p \in Nat \ {0}
  PROVE  s \div p \in Nat /\ s % p \in 0 .. p - 1 /\ s = (p * (s \div p)) + (s % p)
OBVIOUS

LEMMA Multiple == ASSUME NEW j \in Nat, NEW p \in Nat \ {0} PROVE (j * p) \div p = j
OBVIOUS

LEMMA Monotone ==
  ASSUME NEW i \in Nat, NEW j \in Nat, j <= i, NEW p \in Nat \ {0} PROVE p * j <= p * i
OBVIOUS

LEMMA SectorOfSlot ==
  ASSUME NEW s \in Slot
  PROVE  /\ SlotSector(s) \in Nat /\ SlotSector(s) \in SlotSectors /\ s \in SlotsOf(SlotSector(s))
         /\ s % PerSector = 0 /\ SlotSector(s) = 0 => s = 0
<1>1. s \in Nat
  BY MapAssumption DEF Slot
<1>2. SlotSector(s) \in Nat /\ s = (PerSector * SlotSector(s)) + (s % PerSector)
  BY <1>1, Division, MapAssumption DEF SlotSector
<1> QED
  BY <1>1, <1>2, MapAssumption DEF SlotSectors, SlotsOf

\* The sectors are numbered from 0 on without a gap.
LEMMA Contiguous ==
  ASSUME NEW s \in Slot, NEW j \in Nat, j <= SlotSector(s)
  PROVE  j \in SlotSectors
<1>1. s \in Nat /\ SlotSector(s) \in Nat /\ s < InodeLen
  BY SectorOfSlot, MapAssumption DEF Slot
<1>2. PerSector * j <= PerSector * SlotSector(s)
  BY <1>1, Monotone, MapAssumption
<1>3. PerSector * SlotSector(s) <= s
  BY <1>1, Division, MapAssumption DEF SlotSector
<1>4. j * PerSector \in Slot
  BY <1>1, <1>2, <1>3, MapAssumption DEF Slot
<1> QED
  BY <1>4, Multiple, MapAssumption DEF SlotSectors, SlotSector

LEMMA FirstSector == 0 \in Slot /\ 0 \in SlotSectors
<1>1. 0 \in Slot
  BY MapAssumption DEF Slot
<1> QED
  BY <1>1, SectorOfSlot, Contiguous

-----------------------------------------------------------------------------
(* What holds of the slots no power failure has cost.                      *)

Kept == Slot \ lost
Up == {"open", "evict", "set_send", "set_wait", "write_map", "header"}

Shapes ==
  /\ DOMAIN smap = SlotSectors /\ DOMAIN imap = Slot /\ DOMAIN slotkey = Slot
  /\ DOMAIN file = Slot /\ DOMAIN cache \subseteq Slot /\ idx \in SlotSectors
  /\ \A s \in DOMAIN cache : cache[s] = [keys |-> cache[s].keys, dirty |-> cache[s].dirty]

Dirty(s) == s \in DOMAIN cache /\ cache[s].dirty

\* While the device is down, the medium has it all; while it is up, the cache or
\* the inode map has the file keys, under the slot keys in memory.
AtRest ==
  pc \in {"down", "get_send", "get_wait"} =>
    /\ risk = {} /\ (pc # "down" => rhiv = iv)
    /\ \A s \in Kept : OpenSector(imap[s], OpenSlot(s, vault, iv)) = file[s]
Loaded ==
  pc \in Up => \A s \in Kept :
    /\ s \in DOMAIN cache => cache[s].keys = file[s]
    /\ ~Dirty(s) => OpenSector(imap[s], slotkey[s]) = file[s]
DirtyAtRisk ==
  pc \in {"open", "evict"} =>
    (\A s \in Slot : Dirty(s) => s \in risk) /\ (risk # {} => mapDirty)
Emptied == pc \in {"set_send", "set_wait", "write_map", "header"} => DOMAIN cache = {}

\* The slot map on the medium: as it was read until the vault has the new key,
\* then written sector by sector, then whole under the new IV.
Unsaved ==
  pc \in {"open", "evict", "set_send", "set_wait"} =>
    /\ rhiv = iv
    /\ \/ pc = "set_wait" /\ vault = newmk
       \/ \A s \in Kept \ risk : OpenSlot(s, vault, iv) = slotkey[s]
Saving == pc = "write_map" => \A i \in SlotSectors : i < idx => smap[i] = MapSector(i)
Saved == pc = "header" => \A s \in Kept : OpenSlot(s, vault, rhiv) = slotkey[s]

MapInv ==
  Shapes /\ AtRest /\ Loaded /\ DirtyAtRisk /\ Emptied /\ Unsaved /\ Saving /\ Saved

\* A slot whose sector, and the one before it, are written reads back; but for
\* the first slot, the IV of the header does not matter.
WrittenAt(s) ==
  /\ smap[SlotSector(s)] = MapSector(SlotSector(s))
  /\ SlotSector(s) # 0 => smap[SlotSector(s) - 1] = MapSector(SlotSector(s) - 1)

LEMMA Written ==
  \A s \in Slot : WrittenAt(s) =>
    /\ OpenSlot(s, mk, rhiv) = slotkey[s]
    /\ s # 0 => OpenSlot(s, mk, iv) = slotkey[s]
<1> SUFFICES ASSUME NEW s \in Slot, WrittenAt(s)
             PROVE  /\ OpenSlot(s, mk, rhiv) = slotkey[s]
                    /\ s # 0 => OpenSlot(s, mk, iv) = slotkey[s]
  OBVIOUS
<1>1. \A i : MapSector(i).k = mk /\ MapSector(i).iv = rhiv
  BY DEF MapSector
<1>2. MapSector(SlotSector(s)).keys[s] = slotkey[s]
  BY SectorOfSlot DEF MapSector
<1> QED
  BY <1>1, <1>2, SectorOfSlot DEF WrittenAt, OpenSlot

\* The IV of the header is needed for the first slot alone.
LEMMA OnlyFirstNeedsIv ==
  ASSUME NEW s \in Slot, s # 0, NEW k, NEW v, NEW w
  PROVE  OpenSlot(s, k, v) = OpenSlot(s, k, w)
BY SectorOfSlot DEF OpenSlot

LEMMA MapInvSurvives == SyncInv /\ MapInv => Survives
<1> SUFFICES ASSUME SyncInv, MapInv, NEW s \in Kept, s \notin Exposed
             PROVE  OpenSector(imap[s], OpenSlot(s, vault, iv)) = file[s]
  BY DEF Survives, Kept
<1> USE DEF MapInv, Kept
<1>1. CASE pc \in {"down", "get_send", "get_wait"}
  BY <1>1 DEF AtRest
<1>2. CASE pc \in {"open", "evict", "set_send", "set_wait"}
  <2>1. ~(pc = "set_wait" /\ vault = newmk) /\ s \notin risk
    BY <1>2 DEF Exposed
  <2>2. OpenSlot(s, vault, iv) = slotkey[s] /\ ~Dirty(s)
    BY <1>2, <2>1 DEF Unsaved, DirtyAtRisk, Emptied, Dirty
  <2> QED
    BY <1>2, <2>2 DEF Loaded, Up
<1>3. CASE pc = "write_map"
  <2>1. s # 0 /\ ~(SlotSector(s) >= idx)
    BY <1>3 DEF Exposed
  <2>2. idx \in Nat /\ SlotSector(s) \in Nat /\ SlotSector(s) < idx
    BY <2>1, SectorOfSlot DEF Shapes, SlotSectors
  <2>3. WrittenAt(s)
    BY <1>3, <2>2, SectorOfSlot, Contiguous DEF WrittenAt, Saving
  <2>4. OpenSlot(s, vault, iv) = slotkey[s]
    BY <1>3, <2>1, <2>3, Written DEF SyncInv, Writing
  <2> QED
    BY <1>3, <2>4 DEF Loaded, Up, Emptied, Dirty
<1>4. CASE pc = "header"
  <2>1. OpenSlot(s, vault, iv) = slotkey[s]
    BY <1>4, OnlyFirstNeedsIv DEF Saved, Exposed
  <2> QED
    BY <1>4, <2>1 DEF Loaded, Up, Emptied, Dirty
<1> QED
  BY <1>1, <1>2, <1>3, <1>4 DEF SyncInv, Place

LEMMA MapInvReadable == MapInv => Readable
BY DEF MapInv, Readable, Loaded, Up, Kept, CacheEntry, Dirty

-----------------------------------------------------------------------------
LEMMA InitMap == Init => MapInv
<1> SUFFICES ASSUME Init PROVE MapInv
  OBVIOUS
<1>1. DOMAIN cache = {}
  BY DEF Init
<1>2. Shapes
  BY <1>1, FirstSector DEF Init, Shapes
<1>3. ASSUME NEW s \in Slot PROVE OpenSector(imap[s], OpenSlot(s, vault, iv)) = file[s]
  <2>1. \A i \in SlotSectors : smap[i].k = 1 /\ smap[i].iv = 2
    BY DEF Init
  <2>2. smap[SlotSector(s)].keys[s] = FirstSlotKey(s)
    BY SectorOfSlot DEF Init
  <2>3. SlotSector(s) # 0 => SlotSector(s) - 1 \in SlotSectors
    BY SectorOfSlot, Contiguous
  <2>4. OpenSlot(s, vault, iv) = FirstSlotKey(s)
    BY <2>1, <2>2, <2>3, SectorOfSlot DEF OpenSlot, Init
  <2> QED
    BY <2>4 DEF Init, OpenSector
<1>4. AtRest
  BY <1>3 DEF Init, AtRest, Kept
<1> QED
  BY <1>2, <1>4 DEF Init, MapInv, Loaded, Up, DirtyAtRisk, Emptied, Unsaved, Saving, Saved

\* Opening the device, and a power failure.
LEMMA OpeningKeepsMap == ASSUME SyncInv, MapInv, Opening PROVE MapInv'
<1> USE DEF MapInv, Up
<1>1. ASSUME Open \/ AskKey PROVE MapInv'
  <2>1. Shapes'
    BY <1>1 DEF Open, AskKey, Shapes, maps, mem, ghosts, SlotSectors, SlotSector
  <2>2. UNCHANGED <<smap, imap, iv, risk, lost, file, vault>> /\ rhiv' = iv
    BY <1>1 DEF Open, AskKey, SendGet, maps, mem, ghosts, AtRest
  <2>3. pc \in {"down", "get_send"} /\ pc' \in {"get_send", "get_wait"}
    BY <1>1 DEF Open, AskKey
  <2>4. AtRest'
    BY <2>2, <2>3 DEF AtRest, Kept, OpenSlot, OpenSector
  <2> QED
    BY <2>1, <2>3, <2>4 DEF Loaded, DirtyAtRisk, Emptied, Unsaved, Saving, Saved
<1>2. ASSUME LoadSlotMap PROVE MapInv'
  <2>1. pc = "get_wait" /\ pc' = "open" /\ mk = vault /\ rhiv = iv /\ risk = {}
    BY <1>2 DEF LoadSlotMap, SyncInv, Asking, AtRest
  <2>2. UNCHANGED <<smap, imap, iv, rhiv, risk, lost, file, vault, idx>>
    BY <1>2 DEF LoadSlotMap, syncVars, maps, ghosts
  <2>3. DOMAIN cache' = {}
    BY <1>2 DEF LoadSlotMap
  <2>4. \A s \in Slot : slotkey'[s] = OpenSlot(s, vault, iv)
    BY <1>2, <2>1 DEF LoadSlotMap, ReadSlotMap
  <2>5. Shapes'
    BY <1>2, <2>2, <2>3 DEF LoadSlotMap, ReadSlotMap, Shapes
  <2>6. Loaded'
    BY <2>1, <2>2, <2>3, <2>4 DEF AtRest, Loaded, Kept, Dirty, OpenSector
  <2>7. Unsaved'
    BY <2>1, <2>2, <2>4 DEF Unsaved, Kept, OpenSlot
  <2> QED
    BY <2>1, <2>2, <2>3, <2>5, <2>6, <2>7 DEF AtRest, DirtyAtRisk, Dirty, Emptied, Saving, Saved
<1> QED
  BY <1>1, <1>2 DEF Opening

LEMMA CrashKeepsMap == ASSUME SyncInv, MapInv, Crash PROVE MapInv'
<1>1. Survives
  BY MapInvSurvives
<1>2. /\ UNCHANGED <<smap, imap, iv, file, vault>> /\ lost' = lost \cup Exposed /\ risk' = {}
      /\ pc' = "down" /\ DOMAIN cache' = {} /\ idx' = 0 /\ DOMAIN slotkey' = Slot
  BY DEF Crash, Forget, maps
<1>3. Shapes'
  BY <1>2, FirstSector DEF MapInv, Shapes
<1>4. AtRest'
  BY <1>1, <1>2 DEF AtRest, Survives, Kept, OpenSlot, OpenSector
<1> QED
  BY <1>2, <1>3, <1>4 DEF MapInv, Loaded, Up, DirtyAtRisk, Emptied, Unsaved, Saving, Saved

-----------------------------------------------------------------------------
(* The map cache: entries are added, written, dropped and changed.         *)

\* What a step on the cache of an open device has to show.
LEMMA CacheStep ==
  ASSUME MapInv, pc \in {"open", "evict"}, pc' \in {"open", "evict"},
         UNCHANGED <<smap, iv, rhiv, vault, idx, lost>>,
         DOMAIN imap' = Slot, DOMAIN slotkey' = Slot, DOMAIN file' = Slot,
         DOMAIN cache' \subseteq Slot,
         \A t \in DOMAIN cache' : cache'[t] = [keys |-> cache'[t].keys, dirty |-> cache'[t].dirty],
         Loaded', DirtyAtRisk',
         risk \subseteq risk', \A t \in Slot \ risk' : slotkey'[t] = slotkey[t]
  PROVE  MapInv'
<1>1. Shapes'
  BY DEF MapInv, Shapes, SlotSectors, SlotSector
<1>2. Unsaved'
  BY DEF MapInv, Unsaved, Kept, OpenSlot
<1> QED
  BY <1>1, <1>2 DEF MapInv, AtRest, Emptied, Saving, Saved

\* The entry an operation finds or reads.
LEMMA EntryFound ==
  ASSUME MapInv, pc \in Up, NEW s \in Slot
  PROVE  /\ CacheEntry(s) = [keys |-> CacheEntry(s).keys, dirty |-> CacheEntry(s).dirty]
         /\ s \in Kept => CacheEntry(s).keys = file[s]
         /\ CacheEntry(s).dirty => Dirty(s)
         /\ Dirty(s) => CacheEntry(s).dirty
<1>1. CASE s \in DOMAIN cache
  BY <1>1 DEF MapInv, Shapes, Loaded, CacheEntry, Dirty
<1>2. CASE s \notin DOMAIN cache
  BY <1>2 DEF MapInv, Loaded, CacheEntry, Dirty
<1> QED
  BY <1>1, <1>2

LEMMA GetKeyKeepsMap == ASSUME MapInv, NEW s \in Slot, GetKey(s) PROVE MapInv'
<1>1. pc = "open" /\ pc' = "open" /\ UNCHANGED <<maps, rhiv, vault, idx, ghosts, slotkey, mapDirty>>
  BY DEF GetKey, syncVars
<1>2. DOMAIN cache' = DOMAIN cache \cup {s}
  BY DEF GetKey, With
<1>3. \A t \in DOMAIN cache' : cache'[t] = IF t = s THEN CacheEntry(s) ELSE cache[t]
  BY DEF GetKey, With
<1>4. \A t \in Slot : Dirty(t)' => Dirty(t)
  BY <1>1, <1>2, <1>3, EntryFound DEF Dirty, Up
<1>5. \A t \in Slot : Dirty(t) => Dirty(t)'
  BY <1>1, <1>2, <1>3, EntryFound DEF Dirty, Up
<1>6. \A t \in DOMAIN cache' : cache'[t] = [keys |-> cache'[t].keys, dirty |-> cache'[t].dirty]
  BY <1>1, <1>2, <1>3, EntryFound DEF MapInv, Shapes, Up
<1>7. Loaded'
  BY <1>1, <1>2, <1>3, <1>4, <1>5, EntryFound DEF maps, ghosts, MapInv, Loaded, Up, Kept, OpenSector
<1>8. DirtyAtRisk'
  BY <1>1, <1>4 DEF ghosts, MapInv, DirtyAtRisk
<1> QED
  BY <1>1, <1>2, <1>6, <1>7, <1>8, CacheStep DEF maps, ghosts, MapInv, Shapes

\* What is written back opens under the slot key in memory.
LEMMA WrittenBack ==
  ASSUME MapInv, pc \in Up, NEW s \in DOMAIN cache, WriteIfDirty(s)
  PROVE  /\ DOMAIN imap' = Slot /\ \A t \in Slot \ {s} : imap'[t] = imap[t]
         /\ s \in Kept => OpenSector(imap'[s], slotkey[s]) = file[s]
<1>1. s \in Slot
  BY DEF MapInv, Shapes
<1>2. CASE cache[s].dirty
  <2>1. imap' = [imap EXCEPT ![s] = [k |-> slotkey[s], keys |-> cache[s].keys]]
    BY <1>2 DEF WriteIfDirty, WriteBack
  <2> QED
    BY <1>1, <2>1 DEF MapInv, Shapes, Loaded, OpenSector
<1>3. CASE ~cache[s].dirty
  BY <1>1, <1>3 DEF MapInv, Shapes, Loaded, WriteIfDirty, Dirty
<1> QED
  BY <1>2, <1>3

\* An entry is written back if it is dirty, and dropped or kept clean.
LEMMA WriteBackKeepsMap ==
  ASSUME MapInv, pc \in {"open", "evict"}, NEW s \in DOMAIN cache, WriteIfDirty(s),
         cache' = Without(cache, s) \/ cache' = [cache EXCEPT ![s].dirty = FALSE],
         UNCHANGED <<pc, smap, iv, rhiv, slotkey, mapDirty, idx, ghosts, vault>>
  PROVE  MapInv'
<1> USE DEF ghosts, Up
<1>1. DOMAIN imap' = Slot /\ \A t \in Slot \ {s} : imap'[t] = imap[t]
  BY WrittenBack
<1>2. s \in Kept => OpenSector(imap'[s], slotkey[s]) = file[s]
  BY WrittenBack
<1>3. DOMAIN cache' \subseteq DOMAIN cache
  BY DEF Without, Restrict
<1>4. \A t \in DOMAIN cache' : t # s => cache'[t] = cache[t]
  BY DEF Without, Restrict
<1>5. s \in DOMAIN cache' => cache'[s] = [keys |-> cache[s].keys, dirty |-> FALSE]
  BY DEF Without, Restrict, MapInv, Shapes
<1>6. DOMAIN cache \ {s} \subseteq DOMAIN cache'
  BY DEF Without, Restrict
<1>7. \A t \in Slot : Dirty(t)' => Dirty(t) /\ t # s
  BY <1>3, <1>4, <1>5 DEF Dirty
<1>8. \A t \in Slot \ {s} : Dirty(t) => Dirty(t)'
  BY <1>4, <1>6 DEF Dirty
<1>9. Loaded'
  <2> SUFFICES ASSUME NEW t \in Kept
               PROVE  /\ t \in DOMAIN cache' => cache'[t].keys = file[t]
                      /\ ~Dirty(t)' => OpenSector(imap'[t], slotkey[t]) = file[t]
    BY DEF Loaded, Kept, OpenSector
  <2>1. CASE t = s
    BY <1>2, <1>5, <2>1 DEF MapInv, Loaded
  <2>2. CASE t # s
    BY <1>1, <1>3, <1>4, <1>8, <2>2 DEF MapInv, Loaded, Kept
  <2> QED
    BY <2>1, <2>2
<1>10. DirtyAtRisk'
  BY <1>7 DEF MapInv, DirtyAtRisk
<1>11. \A t \in DOMAIN cache' : cache'[t] = [keys |-> cache'[t].keys, dirty |-> cache'[t].dirty]
  BY <1>3, <1>4, <1>5 DEF MapInv, Shapes
<1> QED
  BY <1>1, <1>3, <1>9, <1>10, <1>11, CacheStep DEF MapInv, Shapes

LEMMA Flagged ==
  ASSUME NEW k, NEW d, NEW b
  PROVE  [[keys |-> k, dirty |-> d] EXCEPT !.dirty = b] = [keys |-> k, dirty |-> b]
OBVIOUS

\* An unlink puts its slot at risk, and no other.
LEMMA UnlinkKeepsMap ==
  ASSUME MapInv, NEW s \in Slot, NEW e \in Entry, Unlink(s, e)
  PROVE  MapInv'
<1> DEFINE x == [CacheEntry(s) EXCEPT !.keys[e] = fresh, !.dirty = TRUE]
<1>1. /\ pc = "open" /\ pc' = "open" /\ UNCHANGED <<maps, rhiv, vault, idx, lost>>
      /\ file' = [file EXCEPT ![s][e] = fresh] /\ risk' = risk \cup {s} /\ mapDirty'
      /\ slotkey' = [slotkey EXCEPT ![s] = fresh + 1] /\ cache' = With(cache, s, x)
  BY DEF Unlink, Refresh, syncVars
<1>2. x = [keys |-> [CacheEntry(s).keys EXCEPT ![e] = fresh], dirty |-> TRUE]
  <2>1. pc \in Up
    BY <1>1 DEF Up
  <2>2. PICK k, d : CacheEntry(s) = [keys |-> k, dirty |-> d]
    BY <2>1, EntryFound
  <2> DEFINE y == [CacheEntry(s) EXCEPT !.keys[e] = fresh]
             l == [k EXCEPT ![e] = fresh]
  <2>3. x = [y EXCEPT !.dirty = TRUE]
    OBVIOUS
  <2>4. y = [keys |-> l, dirty |-> d]
    BY <2>2
  <2> HIDE DEF x, y, l
  <2>5. x = [keys |-> l, dirty |-> TRUE]
    BY <2>3, <2>4, Flagged
  <2>6. l = [CacheEntry(s).keys EXCEPT ![e] = fresh]
    BY <2>2 DEF l
  <2> QED
    BY <2>5, <2>6
<1> HIDE DEF x
<1>3. DOMAIN cache' = DOMAIN cache \cup {s}
  BY <1>1 DEF With
<1>4. \A t \in DOMAIN cache' : cache'[t] = IF t = s THEN x ELSE cache[t]
  BY <1>1 DEF With
<1>5. DOMAIN file' = Slot /\ DOMAIN slotkey' = Slot
  BY <1>1 DEF MapInv, Shapes
<1>6. \A t \in Slot \ {s} : file'[t] = file[t] /\ slotkey'[t] = slotkey[t]
  BY <1>1 DEF MapInv, Shapes
<1>7. s \in Kept => x.keys = file'[s]
  BY <1>1, <1>2, EntryFound DEF MapInv, Shapes, Up
<1>8. Dirty(s)' /\ \A t \in Slot \ {s} : (Dirty(t)' => Dirty(t)) /\ (Dirty(t) => Dirty(t)')
  BY <1>2, <1>3, <1>4 DEF Dirty
<1>9. Loaded'
  <2> SUFFICES ASSUME NEW t \in Kept
               PROVE  /\ t \in DOMAIN cache' => cache'[t].keys = file'[t]
                      /\ ~Dirty(t)' => OpenSector(imap[t], slotkey'[t]) = file'[t]
    BY <1>1 DEF Loaded, Kept, OpenSector, maps
  <2>1. CASE t = s
    BY <1>4, <1>7, <1>8, <2>1
  <2>2. CASE t # s
    BY <1>1, <1>3, <1>4, <1>6, <1>8, <2>2 DEF MapInv, Loaded, Kept, Up
  <2> QED
    BY <2>1, <2>2
<1>10. DirtyAtRisk'
  BY <1>1, <1>8 DEF MapInv, DirtyAtRisk
<1>11. \A t \in DOMAIN cache' : cache'[t] = [keys |-> cache'[t].keys, dirty |-> cache'[t].dirty]
  BY <1>2, <1>3, <1>4 DEF MapInv, Shapes
<1> QED
  BY <1>1, <1>3, <1>5, <1>6, <1>9, <1>10, <1>11, CacheStep DEF MapInv, Shapes, maps

LEMMA WorkingKeepsMap == ASSUME MapInv, Working \/ CloseBegin PROVE MapInv'
<1>1. ASSUME NEW s \in Slot, NEW drop \in BOOLEAN, Evict(s, drop) PROVE MapInv'
  BY <1>1, WriteBackKeepsMap DEF Evict, syncVars
<1>2. ASSUME CloseBegin PROVE MapInv'
  <2>1. /\ pc = "open" /\ pc' = "evict"
        /\ UNCHANGED <<smap, imap, iv, rhiv, slotkey, cache, mapDirty, idx, vault, ghosts>>
    BY <1>2 DEF CloseBegin, syncVars, maps, mem
  <2>2. Loaded' /\ DirtyAtRisk'
    BY <2>1 DEF MapInv, Loaded, DirtyAtRisk, Up, Kept, Dirty, OpenSector, ghosts
  <2> QED
    BY <2>1, <2>2, CacheStep DEF MapInv, Shapes, ghosts
<1> QED
  BY <1>1, <1>2, GetKeyKeepsMap, UnlinkKeepsMap DEF Working

-----------------------------------------------------------------------------
\* The destructor: entries, the new key, the slot map, the header.
LEMMA ClosingKeepsMap == ASSUME SyncInv, MapInv, Closing PROVE MapInv'
<1> USE DEF Up, ghosts, maps, mem, syncVars
<1>1. ASSUME NEW s \in Slot, ForceEvict(s) PROVE MapInv'
  BY <1>1, WriteBackKeepsMap DEF ForceEvict
<1>2. ASSUME Evicted PROVE MapInv'
  <2>1. /\ pc = "evict" /\ DOMAIN cache = {} /\ vault' = vault
        /\ pc' = IF mapDirty THEN "set_send" ELSE "header"
        /\ UNCHANGED <<maps, mem, idx, ghosts>>
    BY <1>2 DEF Evicted, RequestSet, KillHelper
  <2>2. Shapes'
    BY <2>1 DEF MapInv, Shapes, SlotSectors, SlotSector
  <2>3. Loaded' /\ Emptied'
    BY <2>1 DEF MapInv, Loaded, Emptied, Kept, Dirty, OpenSector
  <2>4. Unsaved'
    BY <2>1 DEF MapInv, Unsaved, Kept, OpenSlot
  <2>5. Saved'
    BY <2>1 DEF MapInv, Unsaved, DirtyAtRisk, Saved, Kept, OpenSlot
  <2> QED
    BY <2>1, <2>2, <2>3, <2>4, <2>5 DEF MapInv, AtRest, DirtyAtRisk, Saving
<1>3. ASSUME SendKey PROVE MapInv'
  <2>1. /\ pc = "set_send" /\ pc' = "set_wait" /\ vault' = vault
        /\ UNCHANGED <<maps, mem, idx, ghosts>>
    BY <1>3 DEF SendKey, SendSet
  <2>2. Shapes'
    BY <2>1 DEF MapInv, Shapes, SlotSectors, SlotSector
  <2>3. Loaded' /\ Emptied'
    BY <2>1 DEF MapInv, Loaded, Emptied, Kept, Dirty, OpenSector
  <2>4. Unsaved'
    BY <2>1 DEF MapInv, Unsaved, Kept, OpenSlot
  <2> QED
    BY <2>1, <2>2, <2>3, <2>4 DEF MapInv, AtRest, DirtyAtRisk, Saving, Saved
<1>4. ASSUME KeySet PROVE MapInv'
  <2>1. /\ pc = "set_wait" /\ pc' = "write_map" /\ idx' = 0 /\ vault' = vault
        /\ UNCHANGED <<maps, slotkey, cache, ghosts>>
    BY <1>4 DEF KeySet, Install
  <2>2. Shapes'
    BY <2>1, FirstSector DEF MapInv, Shapes, SlotSectors, SlotSector
  <2>3. Loaded' /\ Emptied'
    BY <2>1 DEF MapInv, Loaded, Emptied, Kept, Dirty, OpenSector
  <2>4. Saving'
    BY <2>1, SectorOfSlot DEF Saving, SlotSectors
  <2> QED
    BY <2>1, <2>2, <2>3, <2>4 DEF MapInv, AtRest, DirtyAtRisk, Unsaved, Saved
<1>5. ASSUME WriteMap PROVE MapInv'
  <2>1. /\ pc = "write_map" /\ mk = vault
        /\ smap' = [smap EXCEPT ![idx] = MapSector(idx)]
        /\ UNCHANGED <<imap, iv, rhiv, slotkey, cache, ghosts, mk, vault>>
    BY <1>5 DEF WriteMap, SyncInv, Writing
  <2>2. idx \in SlotSectors /\ idx \in Nat /\ SlotSectors \subseteq Nat
    BY SectorOfSlot DEF MapInv, Shapes, SlotSectors
  <2>3. idx' \in SlotSectors
    BY <1>5, FirstSector DEF WriteMap
  <2>4. Shapes'
    BY <2>1, <2>3 DEF MapInv, Shapes, SlotSectors, SlotSector
  <2>5. \A i : MapSector(i)' = MapSector(i)
    BY <2>1 DEF MapSector, SlotsOf, SlotSector
  <2>6. \A i \in SlotSectors : i <= idx => smap'[i] = MapSector(i)'
    BY <2>1, <2>2, <2>5 DEF MapInv, Shapes, Saving
  <2>7. Loaded' /\ Emptied'
    BY <1>5, <2>1 DEF WriteMap, MapInv, Loaded, Emptied, Kept, Dirty, OpenSector
  <2>8. CASE idx + 1 \in SlotSectors
    <3>1. idx' = idx + 1 /\ pc' = "write_map"
      BY <1>5, <2>8 DEF WriteMap
    <3>2. Saving'
      <4>1. \A i \in SlotSectors : i < idx + 1 => i <= idx
        BY <2>2
      <4> QED
        BY <2>6, <3>1, <4>1 DEF Saving, SlotSectors, SlotSector
    <3> QED
      BY <2>1, <2>4, <2>7, <3>1, <3>2 DEF MapInv, AtRest, DirtyAtRisk, Unsaved, Saved
  <2>9. CASE idx + 1 \notin SlotSectors
    <3>1. pc' = "header"
      BY <1>5, <2>9 DEF WriteMap
    <3>2. ASSUME NEW s \in Slot PROVE WrittenAt(s)'
      <4>1. SlotSector(s) \in SlotSectors /\ SlotSector(s) \in Nat
        BY SectorOfSlot
      <4>2. SlotSector(s) <= idx
        BY <2>2, <2>9, <4>1, Contiguous
      <4>3. SlotSector(s) # 0 => SlotSector(s) - 1 \in SlotSectors /\ SlotSector(s) - 1 <= idx
        BY <2>2, <4>1, <4>2, Contiguous
      <4> QED
        BY <2>6, <4>1, <4>2, <4>3 DEF WrittenAt, SlotSector
    <3>3. \A s \in Slot : WrittenAt(s)' => OpenSlot(s, mk, rhiv)' = slotkey'[s]
      <4>1. (\A s \in Slot : WrittenAt(s) =>
               /\ OpenSlot(s, mk, rhiv) = slotkey[s]
               /\ s # 0 => OpenSlot(s, mk, iv) = slotkey[s])'
        BY Written, PTL
      <4> QED
        BY <4>1 DEF Slot
    <3>4. Saved'
      BY <2>1, <3>2, <3>3 DEF Saved, Kept, OpenSlot
    <3> QED
      BY <2>1, <2>4, <2>7, <3>1, <3>4 DEF MapInv, AtRest, DirtyAtRisk, Unsaved, Saving
  <2> QED
    BY <2>8, <2>9
<1>6. ASSUME WriteHeader PROVE MapInv'
  <2>1. /\ pc = "header" /\ pc' = "down" /\ iv' = rhiv /\ risk' = {} /\ DOMAIN cache' = {}
        /\ idx' = 0 /\ DOMAIN slotkey' = Slot
        /\ UNCHANGED <<smap, imap, vault, lost, file>>
    BY <1>6 DEF WriteHeader, Forget
  <2>2. Shapes'
    BY <2>1, FirstSector DEF MapInv, Shapes, SlotSectors, SlotSector
  <2>3. \A s \in Kept : OpenSector(imap[s], OpenSlot(s, vault, rhiv)) = file[s]
    BY <2>1 DEF MapInv, Loaded, Saved, Emptied, Dirty
  <2>4. AtRest'
    BY <2>1, <2>3 DEF AtRest, Kept, OpenSlot, OpenSector
  <2> QED
    BY <2>1, <2>2, <2>4 DEF MapInv, Loaded, DirtyAtRisk, Emptied, Unsaved, Saving, Saved
<1> QED
  BY <1>1, <1>2, <1>3, <1>4, <1>5, <1>6 DEF Closing

\* The helper writes the vault only when the destructor waits for it.
LEMMA HelperKeepsMap == ASSUME SyncInv, MapInv, Helper PROVE MapInv'
<1>1. UNCHANGED <<maps, mem, pc, idx, ghosts>>
  BY DEF Helper
<1>2. vault' = vault \/ (pc = "set_wait" /\ vault' = newmk /\ newmk' = newmk)
  <2>1. ASSUME HelperWrite PROVE pc = "set_wait" /\ vault' = newmk /\ newmk' = newmk
    <3>1. pc = "set_wait" /\ inbox = <<Set(newmk)>>
      BY <2>1, One, Types DEF HelperWrite, Got, SyncInv, Place, NoMail, Starting, Asking, Using,
                              Telling, Stopping
    <3> QED
      BY <2>1, <3>1, One, Types DEF HelperWrite
  <2> QED
    BY <2>1 DEF Helper, HelperStep, HelperFail, HelperBind, HelperGet, HelperAck, HelperDie
<1>3. pc = "set_wait" /\ vault = newmk => newmk' = newmk
  BY DEF Helper, HelperStep, HelperFail, HelperBind, HelperGet, HelperWrite, HelperAck, HelperDie,
         ReceiveKey, ReceiveAck
<1>4. Shapes' /\ Loaded' /\ DirtyAtRisk' /\ Emptied'
  BY <1>1 DEF maps, mem, ghosts, MapInv, Shapes, SlotSectors, SlotSector, Loaded, Up, Kept, Dirty,
              OpenSector, DirtyAtRisk, Emptied
<1>5. AtRest' /\ Unsaved' /\ Saved'
  BY <1>1, <1>2, <1>3 DEF maps, mem, ghosts, MapInv, AtRest, Unsaved, Saved, Kept, OpenSector,
                          OpenSlot
<1>6. Saving'
  <2>1. ASSUME pc = "write_map" PROVE mk' = mk
    BY <1>1, <1>2, <2>1, HelperKeepsSync DEF SyncInv, Writing
  <2>2. ASSUME pc = "write_map", NEW i PROVE MapSector(i)' = MapSector(i)
    BY <1>1, <2>1, <2>2 DEF maps, mem, MapSector, SlotsOf, SlotSector
  <2> QED
    BY <1>1, <2>2 DEF maps, mem, MapInv, Saving, SlotSectors, SlotSector
<1> QED
  BY <1>4, <1>5, <1>6 DEF MapInv

LEMMA NextMap == SyncInv /\ MapInv /\ [Next]_vars => MapInv'
<1>1. ASSUME MapInv, UNCHANGED vars PROVE MapInv'
  BY <1>1 DEF vars, syncVars, maps, mem, ghosts, MapInv, Shapes, SlotSectors, SlotSector, AtRest,
              Loaded, Up, Kept, Dirty, OpenSector, OpenSlot, DirtyAtRisk, Emptied, Unsaved,
              Saving, MapSector, SlotsOf, Saved
<1> QED
  BY <1>1, OpeningKeepsMap, WorkingKeepsMap, ClosingKeepsMap, HelperKeepsMap, CrashKeepsMap DEF Next

\* So do the maps, on the medium and in memory.
THEOREM MapInvariance == Spec => []MapInv
BY InitMap, NextMap, SyncInvariance, PTL DEF Spec

\* What an open device answers (dm-eraser.c:961, eraser_get_key_for_inode): the
\* file keys of every slot that no power failure has cost are the ones last drawn.
THEOREM ReadsTheLastKeys == Spec => []Readable
BY MapInvReadable, MapInvariance, PTL

\* What a power failure costs: at every moment, a slot not exposed then can be
\* read from the medium with the key in the vault.
THEOREM NoMoreIsLost == Spec => []Survives
BY MapInvSurvives, SyncInvariance, MapInvariance, PTL

-----------------------------------------------------------------------------
(* Erasure: a file key replaced in a session that was closed cannot be had *)
(* any more from the vault's key and anything the medium has ever held.    *)
(* The promise alone is not inductive.  A replaced key must not come back  *)
(* from the cache, so no entry of it may hold one, nor any sector there    *)
(* has been under a slot key in memory; and replacing a key in one slot    *)
(* takes it from no other slot, because every key drawn has one place.     *)

\* Every key anywhere has been drawn.
InMemory ==
  /\ vault \in Key /\ mk \in Key /\ newmk \in Key /\ iv \in Key /\ rhiv \in Key
  /\ fresh \in Nat /\ NoKey \in Key
  /\ slotkey \in [Slot -> Key]
  /\ \A s \in DOMAIN cache : cache[s].keys \in [Entry -> Key]
OnMedium ==
  /\ \A i \in SlotSectors : smap[i].keys \in [SlotsOf(i) -> Key]
  /\ \A s \in Slot : imap[s].keys \in [Entry -> Key]
OfThePast ==
  /\ dying \subseteq Key \ {NoKey} /\ dead \subseteq Key \ {NoKey}
  /\ seen = [maps |-> seen.maps, sectors |-> seen.sectors]
  /\ \A c \in seen.maps : c.k \in Key /\ c.keys \subseteq Key
  /\ \A b \in seen.sectors : b.k \in Key \ {NoKey} /\ b.keys \subseteq Key
Ledger ==
  /\ \A i \in SlotSectors : [k |-> smap[i].k, keys |-> Range(smap[i].keys)] \in seen.maps
  /\ \A s \in Slot : [k |-> imap[s].k, keys |-> Range(imap[s].keys)] \in seen.sectors
Others ==
  /\ status \subseteq Flags /\ helper \in {"starting", "loop", "written", "failed", "gone"}
  /\ mapDirty \in BOOLEAN /\ risk \subseteq Slot /\ lost \subseteq Slot
DrawnInv == InMemory /\ OnMedium /\ OfThePast /\ Ledger /\ Others

\* Every key has one place: at a slot, and there, if it is a file key, at an entry.
Mine(at, en, keys, s) ==
  \A e \in Entry : keys[e] # NoKey => at[keys[e]] = s /\ en[keys[e]] = e
Placed(at, en) ==
  /\ \A s \in Slot :
       /\ slotkey[s] # NoKey => at[slotkey[s]] = s
       /\ smap[SlotSector(s)].keys[s] # NoKey => at[smap[SlotSector(s)].keys[s]] = s
       /\ Mine(at, en, imap[s].keys, s)
  /\ \A s \in DOMAIN cache : Mine(at, en, cache[s].keys, s)
  /\ \A b \in seen.sectors : \A x \in b.keys : x # NoKey => at[x] = at[b.k]
PlaceInv == \E at \in [Nat -> Slot], en \in [Nat -> Entry] : Placed(at, en)

\* No replaced key is in the cache or follows from a slot key in memory.
Clean ==
  /\ \A s \in Slot : \A b \in seen.sectors :
       b.k = slotkey[s] => b.keys \cap (dead \cup dying) = {}
  /\ \A s \in DOMAIN cache : \A e \in Entry : cache[s].keys[e] \notin dead \cup dying
  /\ \A s \in Slot : Dirty(s) => slotkey[s] # NoKey

\* A session that replaced keys ends with a new master key, under which nothing has
\* been written, and then nothing but the slot keys in memory.
Renewed ==
  /\ dying # {} =>
       \/ pc \in {"open", "evict"} /\ mapDirty
       \/ pc \in {"set_send", "set_wait"}
       \/ /\ pc \in {"write_map", "header"}
          /\ \A c \in seen.maps : c.k = vault => \A k \in c.keys : \E s \in Slot : k = slotkey[s]
  /\ pc \in {"set_send", "set_wait"} => \A c \in seen.maps : c.k # newmk

\* DeletedGone, spelt out.
Buried ==
  \A c \in seen.maps : \A b \in seen.sectors :
    c.k = vault /\ b.k \in c.keys => b.keys \cap dead = {}

ErasureInv == DrawnInv /\ PlaceInv /\ Clean /\ Renewed /\ Buried

-----------------------------------------------------------------------------
\* A step that draws no key and leaves the maps, in memory and not, alone.
LEMMA QuietStep ==
  ASSUME ErasureInv, UNCHANGED <<maps, slotkey, cache, mapDirty, fresh, ghosts, seen>>,
         vault' \in Key, mk' \in Key, newmk' \in Key, rhiv' \in Key,
         status' \subseteq Flags, helper' \in {"starting", "loop", "written", "failed", "gone"},
         Renewed', Buried'
  PROVE  ErasureInv'
<1> USE DEF ErasureInv, maps, ghosts
<1>1. DrawnInv'
  BY DEF DrawnInv, InMemory, OnMedium, OfThePast, Ledger, Others, Key, Slot, SlotSectors,
         SlotSector, SlotsOf, Entry
<1>2. PlaceInv'
  <2>1. PICK at \in [Nat -> Slot], en \in [Nat -> Entry] : Placed(at, en)
    BY DEF PlaceInv
  <2>2. Placed(at, en)'
    BY <2>1 DEF Placed, Mine, Slot, Entry, SlotSector
  <2> QED
    BY <2>2 DEF PlaceInv, Slot, Entry
<1>3. Clean'
  BY DEF Clean, Dirty, Slot, Entry
<1> QED
  BY <1>1, <1>2, <1>3

\* A step that empties the memory, and may write the header.
LEMMA ForgetStep ==
  ASSUME ErasureInv, Forget, UNCHANGED <<vault, smap, imap, fresh, file, seen>>,
         iv' \in Key, dead' \subseteq Key \ {NoKey}, lost' \subseteq Slot,
         status' \subseteq Flags, helper' \in {"starting", "loop", "written", "failed", "gone"},
         Buried'
  PROVE  ErasureInv'
<1> USE DEF ErasureInv
<1>1. DOMAIN cache' = {} /\ dying' = {} /\ risk' = {} /\ slotkey' = [s \in Slot |-> NoKey]
  BY DEF Forget
<1>2. DrawnInv'
  BY <1>1 DEF Forget, DrawnInv, InMemory, OnMedium, OfThePast, Ledger, Others, Key, Slot, SlotSectors,
         SlotSector, SlotsOf, Entry
<1>3. PlaceInv'
  <2>1. PICK at \in [Nat -> Slot], en \in [Nat -> Entry] : Placed(at, en)
    BY DEF PlaceInv
  <2>2. \A s \in Slot : slotkey'[s] = NoKey
    BY <1>1
  <2>3. \A s \in Slot : Mine(at, en, imap'[s].keys, s)
    BY <2>1 DEF Placed
  <2>4. Placed(at, en)'
    BY <1>1, <2>1, <2>2, <2>3 DEF Placed, Mine, Slot, Entry, SlotSector
  <2> QED
    BY <2>4 DEF PlaceInv, Slot, Entry
<1>4. Clean'
  BY <1>1 DEF Clean, Dirty, Slot, DrawnInv, OfThePast
<1>5. Renewed'
  BY <1>1 DEF Renewed, Forget
<1> QED
  BY <1>2, <1>3, <1>4, <1>5

\* Keys drawn before stay keys.
LEMMA Numbers ==
  ASSUME NEW p \in Nat, NEW q \in Nat, p <= q
  PROVE  /\ 0 .. p - 1 \subseteq 0 .. q - 1
         /\ \A n \in Nat : n < q => n \in 0 .. q - 1
OBVIOUS

LEMMA KeysStay ==
  ASSUME fresh \in Nat, fresh' \in Nat, fresh <= fresh'
  PROVE  Key \subseteq Key' /\ \A n \in Nat : n < fresh' => n \in Key'
BY Numbers DEF Key

-----------------------------------------------------------------------------
\* The constructor.
LEMMA OpeningKeepsErasure == ASSUME SyncInv, MapInv, ErasureInv, Opening PROVE ErasureInv'
<1>1. ASSUME Open \/ AskKey PROVE ErasureInv'
  <2>1. /\ UNCHANGED <<maps, slotkey, cache, mapDirty, fresh, ghosts, seen, vault, mk, newmk>>
        /\ pc \in {"down", "get_send"} /\ pc' \in {"get_send", "get_wait"}
        /\ rhiv' \in {iv, rhiv}
    BY <1>1 DEF Open, AskKey, SendGet, mem
  <2>2. status' \subseteq Flags /\ helper' \in {"starting", "loop", "written", "failed", "gone"}
    BY <1>1 DEF Open, AskKey, SendGet, Flags, ErasureInv, DrawnInv, Others
  <2>3. dying = {} /\ dying' = {}
    BY <2>1 DEF ErasureInv, Renewed, ghosts
  <2>4. Renewed' /\ Buried'
    BY <2>1, <2>3 DEF ErasureInv, Renewed, Buried, ghosts
  <2> QED
    BY <2>1, <2>2, <2>4, QuietStep DEF ErasureInv, DrawnInv, InMemory
<1>2. ASSUME LoadSlotMap PROVE ErasureInv'
  <2> USE DEF ErasureInv, maps, ghosts, syncVars
  <2>1. /\ UNCHANGED <<syncVars, maps, rhiv, idx, fresh, ghosts, seen>>
        /\ pc = "get_wait" /\ pc' = "open" /\ mk = vault
        /\ DOMAIN cache' = {} /\ mapDirty' = FALSE
    BY <1>2 DEF LoadSlotMap, SyncInv, Asking
  <2>2. slotkey' = [s \in Slot |-> OpenSlot(s, vault, rhiv)]
    BY <1>2, <2>1 DEF LoadSlotMap, ReadSlotMap
  <2>3. ASSUME NEW s \in Slot, OpenSlot(s, vault, rhiv) # NoKey
        PROVE  /\ OpenSlot(s, vault, rhiv) = smap[SlotSector(s)].keys[s]
               /\ smap[SlotSector(s)].k = vault
    BY <2>3 DEF OpenSlot
  <2>4. ASSUME NEW s \in Slot
        PROVE  smap[SlotSector(s)].keys[s] \in Range(smap[SlotSector(s)].keys) \cap Key
    BY SectorOfSlot DEF DrawnInv, OnMedium, Range
  <2>5. slotkey' \in [Slot -> Key]
    BY <2>2, <2>3, <2>4 DEF DrawnInv, InMemory
  <2>6. dying = {} /\ dying' = {}
    BY <2>1 DEF Renewed
  <2>7. DrawnInv'
    BY <2>1, <2>5, <2>6 DEF DrawnInv, InMemory, OnMedium, OfThePast, Ledger, Others, Key, Slot, SlotSectors,
         SlotSector, SlotsOf, Entry
  <2>8. PlaceInv'
    <3>1. PICK at \in [Nat -> Slot], en \in [Nat -> Entry] : Placed(at, en)
      BY DEF PlaceInv
    <3>2. \A s \in Slot : slotkey'[s] # NoKey => at[slotkey'[s]] = s
      BY <2>2, <2>3, <3>1 DEF Placed
    <3>3. Placed(at, en)'
      BY <2>1, <3>1, <3>2 DEF Placed, Mine, Slot, Entry, SlotSector
    <3> QED
      BY <3>3 DEF PlaceInv, Slot, Entry
  <2>9. Clean'
    <3>1. ASSUME NEW s \in Slot, NEW b \in seen.sectors, b.k = OpenSlot(s, vault, rhiv)
          PROVE  b.keys \cap dead = {}
      <4>1. b.k # NoKey
        BY DEF DrawnInv, OfThePast
      <4>2. [k |-> vault, keys |-> Range(smap[SlotSector(s)].keys)] \in seen.maps
        BY <2>3, <3>1, <4>1, SectorOfSlot DEF DrawnInv, Ledger
      <4> QED
        BY <2>3, <2>4, <3>1, <4>1, <4>2 DEF Buried
    <3> QED
      BY <2>1, <2>2, <2>6, <3>1 DEF Clean, Dirty, Slot
  <2>10. Renewed' /\ Buried'
    BY <2>1, <2>6 DEF Renewed, Buried
  <2> QED
    BY <2>7, <2>8, <2>9, <2>10
<1> QED
  BY <1>1, <1>2 DEF Opening

-----------------------------------------------------------------------------
\* The entry an operation finds or reads holds keys of its slot, none replaced.
LEMMA EntryDrawn ==
  ASSUME MapInv, ErasureInv, NEW s \in Slot
  PROVE  /\ CacheEntry(s).keys \in [Entry -> Key]
         /\ \A e \in Entry : CacheEntry(s).keys[e] \notin dead \cup dying
         /\ CacheEntry(s).dirty => Dirty(s)
         /\ \A at, en : Placed(at, en) => Mine(at, en, CacheEntry(s).keys, s)
<1> USE DEF ErasureInv, DrawnInv
<1>1. CASE s \in DOMAIN cache
  BY <1>1 DEF CacheEntry, InMemory, Clean, Dirty, Placed
<1>2. CASE s \notin DOMAIN cache /\ imap[s].k = slotkey[s]
  <2>1. CacheEntry(s) = [keys |-> imap[s].keys, dirty |-> FALSE]
    BY <1>2 DEF CacheEntry, OpenSector
  <2>2. imap[s].keys \in [Entry -> Key]
    BY DEF OnMedium
  <2>3. Range(imap[s].keys) \cap (dead \cup dying) = {}
    BY <1>2 DEF Ledger, Clean
  <2>4. \A e \in Entry : imap[s].keys[e] \in Range(imap[s].keys)
    BY <2>2 DEF Range
  <2> QED
    BY <2>1, <2>2, <2>3, <2>4 DEF Placed
<1>3. CASE s \notin DOMAIN cache /\ imap[s].k # slotkey[s]
  BY <1>3 DEF CacheEntry, OpenSector, Junk, InMemory, OfThePast, Mine
<1> QED
  BY <1>1, <1>2, <1>3

LEMMA GetKeyKeepsErasure == ASSUME MapInv, ErasureInv, NEW s \in Slot, GetKey(s) PROVE ErasureInv'
<1> USE DEF ErasureInv, maps, ghosts, syncVars
<1>1. /\ UNCHANGED <<syncVars, maps, rhiv, slotkey, mapDirty, pc, fresh, ghosts, seen>>
      /\ DOMAIN cache' = DOMAIN cache \cup {s}
      /\ \A t \in DOMAIN cache' : cache'[t] = IF t = s THEN CacheEntry(s) ELSE cache[t]
  BY DEF GetKey, With
<1>2. DrawnInv'
  <2>1. \A t \in DOMAIN cache' : cache'[t].keys \in [Entry -> Key]
    BY <1>1, EntryDrawn DEF DrawnInv, InMemory
  <2> QED
    BY <1>1, <2>1 DEF DrawnInv, InMemory, OnMedium, OfThePast, Ledger, Others, Key, Slot,
                      SlotSectors, SlotSector, SlotsOf, Entry
<1>3. PlaceInv'
  <2>1. PICK at \in [Nat -> Slot], en \in [Nat -> Entry] : Placed(at, en)
    BY DEF PlaceInv
  <2>2. \A t \in DOMAIN cache' : Mine(at, en, cache'[t].keys, t)
    BY <1>1, <2>1, EntryDrawn DEF Placed
  <2>3. Placed(at, en)'
    BY <1>1, <2>1, <2>2 DEF Placed, Mine, Slot, Entry, SlotSector
  <2> QED
    BY <2>3 DEF PlaceInv, Slot, Entry
<1>4. Clean'
  <2>1. \A t \in DOMAIN cache' : \A e \in Entry : cache'[t].keys[e] \notin dead \cup dying
    BY <1>1, EntryDrawn DEF Clean
  <2>2. \A t \in Slot : Dirty(t)' => Dirty(t)
    BY <1>1, EntryDrawn DEF Dirty
  <2> QED
    BY <1>1, <2>1, <2>2 DEF Clean, Slot, Entry
<1>5. Renewed' /\ Buried'
  BY <1>1 DEF Renewed, Buried, Slot
<1> QED
  BY <1>2, <1>3, <1>4, <1>5

\* An entry is written back if it is dirty, and dropped or kept clean.
LEMMA WriteBackKeepsErasure ==
  ASSUME MapInv, ErasureInv, NEW s \in DOMAIN cache, WriteIfDirty(s),
         cache' = Without(cache, s) \/ cache' = [cache EXCEPT ![s].dirty = FALSE],
         UNCHANGED <<pc, syncVars, smap, iv, rhiv, slotkey, mapDirty, fresh, ghosts>>
  PROVE  ErasureInv'
<1> DEFINE new == [k |-> slotkey[s], keys |-> Range(cache[s].keys)]
<1> USE DEF ErasureInv, ghosts, syncVars
<1>1. s \in Slot /\ new.k = slotkey[s] /\ new.keys = Range(cache[s].keys)
  BY DEF MapInv, Shapes
<1>2. /\ DOMAIN cache' \subseteq DOMAIN cache
      /\ \A t \in DOMAIN cache' : cache'[t].keys = cache[t].keys /\ (cache'[t].dirty => cache[t].dirty)
  BY DEF Without, Restrict, MapInv, Shapes
<1>3. /\ seen'.maps = seen.maps /\ seen' = [maps |-> seen'.maps, sectors |-> seen'.sectors]
      /\ seen.sectors \subseteq seen'.sectors
      /\ \A b \in seen'.sectors : b \in seen.sectors \/ (b = new /\ Dirty(s))
  <2>1. CASE cache[s].dirty
    <3>1. seen' = [seen EXCEPT !.sectors = @ \cup {new}]
      BY <2>1 DEF WriteIfDirty, WriteBack
    <3>2. seen = [maps |-> seen.maps, sectors |-> seen.sectors]
      BY DEF DrawnInv, OfThePast
    <3> HIDE DEF new
    <3> QED
      BY <2>1, <3>1, <3>2 DEF Dirty
  <2>2. CASE ~cache[s].dirty
    BY <2>2 DEF WriteIfDirty, DrawnInv, OfThePast
  <2> QED
    BY <2>1, <2>2
<1>4. \A t \in Slot : imap'[t] = imap[t]
        \/ (t = s /\ imap'[t] = [k |-> slotkey[s], keys |-> cache[s].keys] /\ new \in seen'.sectors)
  <2>1. CASE cache[s].dirty
    <3>1. imap' = [imap EXCEPT ![s] = [k |-> slotkey[s], keys |-> cache[s].keys]] /\ new \in seen'.sectors
      <4>1. seen' = [seen EXCEPT !.sectors = @ \cup {new}]
        BY <2>1 DEF WriteIfDirty, WriteBack
      <4>2. seen = [maps |-> seen.maps, sectors |-> seen.sectors]
        BY DEF DrawnInv, OfThePast
      <4> HIDE DEF new
      <4> QED
        BY <2>1, <4>1, <4>2 DEF WriteIfDirty, WriteBack
    <3> QED
      BY <3>1 DEF MapInv, Shapes
  <2>2. CASE ~cache[s].dirty
    BY <2>2 DEF WriteIfDirty
  <2> QED
    BY <2>1, <2>2
<1>5. cache[s].keys \in [Entry -> Key] /\ slotkey[s] \in Key /\ (Dirty(s) => slotkey[s] # NoKey)
  BY <1>1 DEF DrawnInv, InMemory, Clean
<1>6. Range(cache[s].keys) \subseteq Key /\ \A x \in Range(cache[s].keys) : \E e \in Entry : x = cache[s].keys[e]
  BY <1>5 DEF Range
<1> HIDE DEF new
<1>7. DrawnInv'
  <2>1. InMemory'
    BY <1>2 DEF DrawnInv, InMemory, Key, Slot, Entry
  <2>2. OnMedium'
    <3>1. \A t \in Slot : imap'[t].keys \in [Entry -> Key]
      BY <1>4, <1>5 DEF DrawnInv, OnMedium
    <3>2. \A i \in SlotSectors : smap'[i].keys \in [SlotsOf(i) -> Key]
      BY DEF DrawnInv, OnMedium
    <3> QED
      BY <3>1, <3>2 DEF OnMedium, Key, Slot, Entry, SlotsOf, SlotSectors, SlotSector
  <2>3. OfThePast'
    BY <1>1, <1>3, <1>5, <1>6 DEF DrawnInv, OfThePast, Key
  <2>4. Ledger'
    <3>1. \A i \in SlotSectors : [k |-> smap'[i].k, keys |-> Range(smap'[i].keys)] \in seen'.maps
      BY <1>3 DEF DrawnInv, Ledger
    <3>2. \A t \in Slot : [k |-> imap'[t].k, keys |-> Range(imap'[t].keys)] \in seen'.sectors
      BY <1>3, <1>4 DEF DrawnInv, Ledger, new
    <3> QED
      BY <3>1, <3>2 DEF Ledger, Slot, SlotSectors, SlotSector
  <2> QED
    BY <2>1, <2>2, <2>3, <2>4 DEF DrawnInv, Others, Slot
<1>8. PlaceInv'
  <2>1. PICK at \in [Nat -> Slot], en \in [Nat -> Entry] : Placed(at, en)
    BY DEF PlaceInv
  <2>2. Mine(at, en, cache[s].keys, s)
    BY <2>1 DEF Placed
  <2>3. Dirty(s) => \A x \in new.keys : x # NoKey => at[x] = at[new.k]
    BY <1>1, <1>5, <1>6, <2>1, <2>2 DEF Placed, Mine
  <2>4. \A b \in seen'.sectors : \A x \in b.keys : x # NoKey => at[x] = at[b.k]
    BY <1>3, <2>1, <2>3 DEF Placed
  <2>5. \A t \in Slot : Mine(at, en, imap'[t].keys, t)
    BY <1>4, <2>1, <2>2 DEF Placed
  <2>6. \A t \in DOMAIN cache' : Mine(at, en, cache'[t].keys, t)
    BY <1>2, <2>1 DEF Placed
  <2>7. Placed(at, en)'
    BY <2>1, <2>4, <2>5, <2>6 DEF Placed, Mine, Slot, Entry, SlotSector
  <2> QED
    BY <2>7 DEF PlaceInv, Slot, Entry
<1>9. new.keys \cap (dead \cup dying) = {}
  BY <1>1, <1>6 DEF Clean
<1>10. Clean'
  <2>1. \A t \in Slot : \A b \in seen'.sectors : b.k = slotkey[t] => b.keys \cap (dead \cup dying) = {}
    BY <1>3, <1>9 DEF Clean
  <2>2. \A t \in DOMAIN cache' : \A e \in Entry : cache'[t].keys[e] \notin dead \cup dying
    BY <1>2 DEF Clean
  <2>3. \A t \in Slot : Dirty(t)' => slotkey[t] # NoKey
    BY <1>2 DEF Dirty, Clean
  <2> QED
    BY <2>1, <2>2, <2>3 DEF Clean, Slot, Entry
<1>11. Buried'
  BY <1>3, <1>9 DEF Buried
<1>12. Renewed'
  BY <1>3 DEF Renewed, Slot
<1> QED
  BY <1>7, <1>8, <1>10, <1>11, <1>12

-----------------------------------------------------------------------------
\* An unlink takes the replaced key from its own slot, and from no other.
LEMMA UnlinkKeepsErasure ==
  ASSUME MapInv, ErasureInv, NEW s \in Slot, NEW e \in Entry, Unlink(s, e)
  PROVE  ErasureInv'
<1> DEFINE old == CacheEntry(s).keys
           x == [CacheEntry(s) EXCEPT !.keys[e] = fresh, !.dirty = TRUE]
<1> USE DEF ErasureInv, syncVars, maps
<1>1. /\ UNCHANGED <<syncVars, maps, rhiv, pc, lost, dead, seen>> /\ pc = "open"
      /\ slotkey' = [slotkey EXCEPT ![s] = fresh + 1] /\ cache' = With(cache, s, x)
      /\ mapDirty' = TRUE /\ fresh' = fresh + 2
      /\ risk' = risk \cup {s} /\ dying' = dying \cup ({old[e]} \ {NoKey})
  BY DEF Unlink, Refresh
<1>2. old \in [Entry -> Key] /\ \A i \in Entry : old[i] \notin dead \cup dying
  BY EntryDrawn
<1>3. x.keys = [old EXCEPT ![e] = fresh]
  <2>1. PICK k, d : CacheEntry(s) = [keys |-> k, dirty |-> d]
    BY <1>1, EntryFound DEF Up
  <2> QED
    BY <2>1
<1> HIDE DEF x, old
<1>4. /\ DOMAIN cache' = DOMAIN cache \cup {s}
      /\ \A t \in DOMAIN cache' : cache'[t] = IF t = s THEN x ELSE cache[t]
  BY <1>1 DEF With
<1>5. /\ fresh \in Nat /\ fresh' \in Nat /\ fresh + 1 \in Nat /\ Key \subseteq Key'
      /\ fresh \in Key' /\ fresh + 1 \in Key' /\ fresh \notin Key /\ fresh + 1 \notin Key
      /\ Key \subseteq Nat /\ NoKey \in Key
  <2>1. fresh \in Nat /\ NoKey \in Key
    BY DEF DrawnInv, InMemory
  <2>2. \A n \in Nat : n + 2 \in Nat /\ n + 1 \in Nat /\ n < n + 2 /\ n + 1 < n + 2 /\ n <= n + 2
                       /\ n \notin 0 .. n - 1 /\ n + 1 \notin 0 .. n - 1 /\ 0 .. n - 1 \subseteq Nat
    OBVIOUS
  <2>3. fresh' \in Nat /\ fresh <= fresh' /\ fresh < fresh' /\ fresh + 1 < fresh' /\ fresh + 1 \in Nat
    BY <1>1, <2>1, <2>2
  <2>4. Key \subseteq Key' /\ fresh \in Key' /\ fresh + 1 \in Key'
    BY <2>1, <2>3, KeysStay
  <2> QED
    BY <2>1, <2>2, <2>3, <2>4 DEF Key
<1>6. /\ slotkey \in [Slot -> Key] /\ slotkey'[s] = fresh + 1
      /\ \A t \in Slot \ {s} : slotkey'[t] = slotkey[t]
  BY <1>1 DEF DrawnInv, InMemory
<1>7. x.keys \in [Entry -> Key'] /\ x.keys[e] = fresh /\ \A i \in Entry \ {e} : x.keys[i] = old[i]
  BY <1>2, <1>3, <1>5
<1>8. DrawnInv'
  <2>1. \A t \in DOMAIN cache' : cache'[t].keys \in [Entry -> Key']
    BY <1>4, <1>5, <1>7 DEF DrawnInv, InMemory
  <2>2. slotkey' \in [Slot -> Key']
    BY <1>1, <1>5 DEF DrawnInv, InMemory
  <2>3. InMemory'
    BY <1>1, <1>5, <2>1, <2>2 DEF DrawnInv, InMemory, Slot, Entry
  <2>4. OnMedium'
    <3>1. \A t \in Slot : imap'[t].keys \in [Entry -> Key']
      BY <1>1, <1>5 DEF DrawnInv, OnMedium
    <3>2. \A i \in SlotSectors : smap'[i].keys \in [SlotsOf(i) -> Key']
      BY <1>1, <1>5 DEF DrawnInv, OnMedium
    <3> QED
      BY <3>1, <3>2 DEF OnMedium, Slot, Entry, SlotsOf, SlotSectors, SlotSector
  <2>5. OfThePast'
    <3>1. dying' \subseteq Key \ {NoKey}
      BY <1>1, <1>2 DEF DrawnInv, OfThePast
    <3> QED
      BY <1>1, <1>5, <3>1 DEF DrawnInv, OfThePast
  <2>6. Ledger'
    BY <1>1 DEF DrawnInv, Ledger, SlotSectors, SlotSector, Slot
  <2> QED
    BY <1>1, <2>3, <2>4, <2>5, <2>6 DEF DrawnInv, Others, Slot
<1>9. PICK at \in [Nat -> Slot], en \in [Nat -> Entry] : Placed(at, en)
  BY DEF PlaceInv
<1>10. Mine(at, en, old, s)
  BY <1>9, EntryDrawn DEF old
<1>11. PlaceInv'
  <2>1. PICK at2 \in [Nat -> Slot], en2 \in [Nat -> Entry] :
              at2 = [at EXCEPT ![fresh] = s, ![fresh + 1] = s] /\ en2 = [en EXCEPT ![fresh] = e]
    OBVIOUS
  <2>2. /\ \A k \in Key : at2[k] = at[k] /\ en2[k] = en[k]
        /\ at2[fresh] = s /\ at2[fresh + 1] = s /\ en2[fresh] = e
    <3>1. fresh # fresh + 1
      BY <1>5
    <3> QED
      BY <1>5, <2>1, <3>1
  <2>3. ASSUME NEW t \in Slot, NEW ks \in [Entry -> Key], Mine(at, en, ks, t)
        PROVE  Mine(at2, en2, ks, t)
    BY <2>2, <2>3 DEF Mine
  <2>4. \A t \in Slot : slotkey'[t] # NoKey => at2[slotkey'[t]] = t
    BY <1>6, <1>9, <2>2 DEF Placed
  <2>5. ASSUME NEW t \in Slot, smap[SlotSector(t)].keys[t] # NoKey
        PROVE  at2[smap[SlotSector(t)].keys[t]] = t
    <3>1. smap[SlotSector(t)].keys[t] \in Key
      BY SectorOfSlot DEF DrawnInv, OnMedium
    <3> QED
      BY <1>9, <2>2, <2>5, <3>1 DEF Placed
  <2>6. \A t \in Slot : Mine(at2, en2, imap[t].keys, t)
    BY <1>9, <2>3 DEF Placed, DrawnInv, OnMedium
  <2>7. Mine(at2, en2, x.keys, s)
    BY <1>2, <1>7, <1>10, <2>2 DEF Mine
  <2>8. \A t \in DOMAIN cache' : Mine(at2, en2, cache'[t].keys, t)
    BY <1>4, <1>9, <2>3, <2>7 DEF Placed, MapInv, Shapes, DrawnInv, InMemory
  <2>9. \A b \in seen.sectors : \A y \in b.keys : y # NoKey => at2[y] = at2[b.k]
    BY <1>9, <2>2 DEF Placed, DrawnInv, OfThePast
  <2>10. Placed(at2, en2)'
    <3>1. /\ imap' = imap /\ smap' = smap /\ seen' = seen
      BY <1>1
    <3>2. /\ \A t \in Slot : Mine(at2, en2, imap'[t].keys, t)
          /\ \A t \in Slot : smap'[SlotSector(t)].keys[t] # NoKey =>
               at2[smap'[SlotSector(t)].keys[t]] = t
      BY <2>5, <2>6, <3>1
    <3>3. \A b \in seen'.sectors : \A y \in b.keys : y # NoKey => at2[y] = at2[b.k]
      BY <2>9, <3>1
    <3> QED
      BY <2>4, <2>8, <3>2, <3>3 DEF Placed, Mine, Slot, Entry, SlotSector
  <2> QED
    BY <2>10 DEF PlaceInv, Slot, Entry
<1>12. Clean'
  <2>1. ASSUME NEW t \in Slot, NEW b \in seen.sectors, b.k = slotkey'[t]
        PROVE  b.keys \cap (dead \cup dying') = {}
    <3>1. t # s /\ b.k = slotkey[t] /\ b.k # NoKey
      BY <1>5, <1>6, <2>1 DEF DrawnInv, OfThePast
    <3>2. b.keys \cap (dead \cup dying) = {}
      BY <3>1 DEF Clean
    <3>3. old[e] \in b.keys /\ old[e] # NoKey => FALSE
      <4>1. at[b.k] = t
        BY <1>9, <3>1 DEF Placed
      <4>2. old[e] \in b.keys /\ old[e] # NoKey => at[old[e]] = at[b.k]
        BY <1>9 DEF Placed
      <4> QED
        BY <1>10, <3>1, <4>1, <4>2 DEF Mine
    <3> QED
      BY <1>1, <3>2, <3>3
  <2>2. ASSUME NEW t \in DOMAIN cache', NEW i \in Entry PROVE cache'[t].keys[i] \notin dead \cup dying'
    <3>1. CASE t = s /\ i = e
      <4>1. cache'[t].keys[i] = fresh
        BY <1>4, <1>7, <3>1
      <4>2. dead \cup dying' \subseteq Key
        BY <1>1, <1>2 DEF DrawnInv, OfThePast
      <4> QED
        BY <1>5, <4>1, <4>2
    <3>2. CASE t = s /\ i # e
      <4>1. cache'[t].keys[i] = old[i]
        BY <1>4, <1>7, <3>2
      <4>2. old[e] # NoKey => old[i] # old[e]
        BY <1>10, <3>2 DEF Mine
      <4> QED
        BY <1>1, <1>2, <4>1, <4>2
    <3>3. CASE t # s
      <4>1. t \in DOMAIN cache /\ cache'[t].keys[i] = cache[t].keys[i]
        BY <1>4, <3>3
      <4>2. cache[t].keys[i] \notin dead \cup dying /\ Mine(at, en, cache[t].keys, t)
        BY <1>9, <4>1 DEF Clean, Placed
      <4>3. old[e] # NoKey => cache[t].keys[i] # old[e]
        BY <1>10, <3>3, <4>2 DEF Mine
      <4> QED
        BY <1>1, <4>1, <4>2, <4>3
    <3> QED
      BY <3>1, <3>2, <3>3
  <2>3. ASSUME NEW t \in Slot, Dirty(t)' PROVE slotkey'[t] # NoKey
    <3>1. CASE t = s
      BY <1>5, <1>6, <3>1
    <3>2. CASE t # s
      BY <1>4, <1>6, <2>3, <3>2 DEF Dirty, Clean
    <3> QED
      BY <3>1, <3>2
  <2> QED
    BY <1>1, <2>1, <2>2, <2>3 DEF Clean, Slot, Entry
<1>13. Renewed' /\ Buried'
  BY <1>1 DEF Renewed, Buried
<1> QED
  BY <1>8, <1>11, <1>12, <1>13

LEMMA WorkingKeepsErasure == ASSUME MapInv, ErasureInv, Working \/ CloseBegin PROVE ErasureInv'
<1>1. ASSUME NEW s \in Slot, NEW drop \in BOOLEAN, Evict(s, drop) PROVE ErasureInv'
  BY <1>1, WriteBackKeepsErasure DEF Evict
<1>2. ASSUME CloseBegin PROVE ErasureInv'
  <2>1. /\ UNCHANGED <<syncVars, maps, mem, fresh, ghosts, seen>> /\ pc = "open" /\ pc' = "evict"
    BY <1>2 DEF CloseBegin
  <2>2. Renewed' /\ Buried'
    BY <2>1 DEF ErasureInv, Renewed, Buried, ghosts, mem, syncVars
  <2> QED
    BY <2>1, <2>2, QuietStep DEF ErasureInv, DrawnInv, InMemory, Others, Key, mem, syncVars
<1> QED
  BY <1>1, <1>2, GetKeyKeepsErasure, UnlinkKeepsErasure DEF Working

-----------------------------------------------------------------------------
(* The destructor.                                                         *)

\* A step that draws one key, the new master key or an IV.
LEMMA DrawStep ==
  ASSUME ErasureInv, UNCHANGED <<vault, maps, slotkey, cache, ghosts, seen>>, mapDirty' \in BOOLEAN,
         fresh' = fresh + 1, mk' \in {mk, newmk}, newmk' \in {newmk, fresh}, rhiv' \in {rhiv, fresh},
         status' \subseteq Flags, helper' \in {"starting", "loop", "written", "failed", "gone"},
         Renewed'
  PROVE  ErasureInv'
<1> USE DEF ErasureInv, maps, ghosts
<1>1. fresh \in Nat /\ fresh' \in Nat /\ Key \subseteq Key' /\ fresh \in Key'
  <2>1. \A n \in Nat : n + 1 \in Nat /\ n < n + 1 /\ n <= n + 1
    OBVIOUS
  <2>2. fresh \in Nat
    BY DEF DrawnInv, InMemory
  <2>3. fresh' \in Nat /\ fresh < fresh' /\ fresh <= fresh'
    BY <2>1, <2>2
  <2> QED
    BY <2>2, <2>3, KeysStay
<1>2. DrawnInv'
  <2>1. slotkey' \in [Slot -> Key'] /\ \A t \in DOMAIN cache : cache[t].keys \in [Entry -> Key']
    BY <1>1 DEF DrawnInv, InMemory
  <2>2. InMemory'
    BY <1>1, <2>1 DEF DrawnInv, InMemory, Slot, Entry
  <2>3. /\ \A t \in Slot : imap[t].keys \in [Entry -> Key']
        /\ \A i \in SlotSectors : smap[i].keys \in [SlotsOf(i) -> Key']
    BY <1>1 DEF DrawnInv, OnMedium
  <2>4. OnMedium'
    BY <2>3 DEF OnMedium, Slot, Entry, SlotsOf, SlotSectors, SlotSector
  <2>5. OfThePast'
    BY <1>1 DEF DrawnInv, OfThePast
  <2>6. Ledger'
    BY DEF DrawnInv, Ledger, SlotSectors, SlotSector, Slot
  <2> QED
    BY <2>2, <2>4, <2>5, <2>6 DEF DrawnInv, Others, Slot
<1>3. PlaceInv'
  <2>1. PICK at \in [Nat -> Slot], en \in [Nat -> Entry] : Placed(at, en)
    BY DEF PlaceInv
  <2>2. Placed(at, en)'
    BY <2>1 DEF Placed, Mine, Slot, Entry, SlotSector
  <2> QED
    BY <2>2 DEF PlaceInv, Slot, Entry
<1>4. Clean' /\ Buried'
  BY DEF Clean, Dirty, Slot, Entry, Buried
<1> QED
  BY <1>2, <1>3, <1>4

LEMMA WriteMapKeepsErasure == ASSUME SyncInv, MapInv, ErasureInv, WriteMap PROVE ErasureInv'
<1> DEFINE keys == [s \in SlotsOf(idx) |-> slotkey[s]]
           new == [k |-> vault, keys |-> Range(keys)]
<1> USE DEF ErasureInv, syncVars, mem, ghosts
<1>1. /\ UNCHANGED <<syncVars, imap, iv, mem, fresh, ghosts>> /\ mk = vault /\ idx \in SlotSectors
      /\ pc = "write_map" /\ pc' \in {"write_map", "header"}
      /\ smap' = [smap EXCEPT ![idx] = MapSector(idx)]
      /\ seen' = [seen EXCEPT !.maps = @ \cup {[k |-> mk, keys |-> Range(smap'[idx].keys)]}]
  BY DEF WriteMap, SyncInv, Writing, MapInv, Shapes
<1>2. smap'[idx] = [k |-> vault, iv |-> rhiv, keys |-> keys] /\ \A i \in SlotSectors \ {idx} : smap'[i] = smap[i]
  BY <1>1 DEF MapSector, MapInv, Shapes
<1>3. keys \in [SlotsOf(idx) -> Key] /\ \A s \in SlotsOf(idx) : keys[s] = slotkey[s]
  BY DEF DrawnInv, InMemory, SlotsOf
<1>4. Range(keys) \subseteq Key /\ \A k \in Range(keys) : \E s \in Slot : k = slotkey[s]
  BY <1>3 DEF Range, SlotsOf
<1>5. new.k = vault /\ new.keys = Range(keys) /\ new = [k |-> smap'[idx].k, keys |-> Range(smap'[idx].keys)]
  BY <1>2
<1> HIDE DEF new, keys
<1>6. /\ seen'.sectors = seen.sectors /\ seen' = [maps |-> seen'.maps, sectors |-> seen'.sectors]
      /\ seen'.maps = seen.maps \cup {new}
  <2>1. seen' = [seen EXCEPT !.maps = @ \cup {new}]
    BY <1>1, <1>2, <1>5
  <2>2. seen = [maps |-> seen.maps, sectors |-> seen.sectors]
    BY DEF DrawnInv, OfThePast
  <2> QED
    BY <2>1, <2>2
<1>7. DrawnInv'
  <2>1. OnMedium'
    <3>1. \A i \in SlotSectors : smap'[i].keys \in [SlotsOf(i) -> Key]
      BY <1>2, <1>3 DEF DrawnInv, OnMedium
    <3>2. \A t \in Slot : imap'[t].keys \in [Entry -> Key]
      BY <1>1 DEF DrawnInv, OnMedium
    <3> QED
      BY <1>1, <3>1, <3>2 DEF OnMedium, Key, Slot, Entry, SlotsOf, SlotSectors, SlotSector
  <2>2. OfThePast'
    BY <1>1, <1>4, <1>5, <1>6 DEF DrawnInv, OfThePast, InMemory, Key
  <2>3. Ledger'
    <3>1. \A i \in SlotSectors : [k |-> smap'[i].k, keys |-> Range(smap'[i].keys)] \in seen'.maps
      BY <1>2, <1>5, <1>6 DEF DrawnInv, Ledger
    <3> QED
      BY <1>1, <1>6, <3>1 DEF DrawnInv, Ledger, Slot, SlotSectors, SlotSector
  <2> QED
    BY <1>1, <2>1, <2>2, <2>3 DEF DrawnInv, InMemory, Others, Key, Slot, Entry
<1>8. PlaceInv'
  <2>1. PICK at \in [Nat -> Slot], en \in [Nat -> Entry] : Placed(at, en)
    BY DEF PlaceInv
  <2>2. ASSUME NEW s \in Slot, smap'[SlotSector(s)].keys[s] # NoKey
        PROVE  at[smap'[SlotSector(s)].keys[s]] = s
    BY <1>2, <1>3, <2>1, <2>2, SectorOfSlot DEF Placed
  <2>3. Placed(at, en)'
    BY <1>1, <1>6, <2>1, <2>2 DEF Placed, Mine, Slot, Entry, SlotSector
  <2> QED
    BY <2>3 DEF PlaceInv, Slot, Entry
<1>9. Clean'
  BY <1>1, <1>6 DEF Clean, Dirty, Slot, Entry
<1>10. Renewed'
  <2>1. ASSUME dying # {} PROVE \A c \in seen'.maps : c.k = vault => \A k \in c.keys : \E s \in Slot : k = slotkey[s]
    BY <1>1, <1>4, <1>5, <1>6, <2>1 DEF Renewed
  <2> QED
    BY <1>1, <2>1 DEF Renewed, Slot
<1>11. Buried'
  <2>1. ASSUME NEW b \in seen.sectors, b.k \in new.keys PROVE b.keys \cap dead = {}
    BY <1>4, <1>5, <2>1 DEF Clean
  <2> QED
    BY <1>1, <1>6, <2>1 DEF Buried
<1> QED
  BY <1>7, <1>8, <1>9, <1>10, <1>11

LEMMA ClosingKeepsErasure == ASSUME SyncInv, MapInv, ErasureInv, Closing PROVE ErasureInv'
<1> USE DEF ErasureInv, syncVars, maps, mem, ghosts
<1>1. ASSUME NEW s \in Slot, ForceEvict(s) PROVE ErasureInv'
  BY <1>1, WriteBackKeepsErasure DEF ForceEvict
<1>2. ASSUME Evicted PROVE ErasureInv'
  <2>1. CASE mapDirty
    <3>1. /\ UNCHANGED <<mk, inbox, helper, vault, maps, mem, ghosts, seen>>
          /\ newmk' = fresh /\ status' = status \cup {"SET_REQUESTED"} /\ fresh' = fresh + 1
          /\ pc = "evict" /\ pc' = "set_send"
      BY <1>2, <2>1 DEF Evicted, RequestSet
    <3>2. \A c \in seen.maps : c.k # fresh
      BY DEF DrawnInv, OfThePast, InMemory, Key
    <3>3. Renewed'
      BY <3>1, <3>2 DEF Renewed
    <3> QED
      BY <2>1, <3>1, <3>3, DrawStep DEF DrawnInv, Others, Flags
  <2>2. CASE ~mapDirty
    <3>1. /\ UNCHANGED <<status, mk, newmk, helper, vault, maps, mem, ghosts, seen, fresh>>
          /\ pc = "evict" /\ pc' = "header"
      BY <1>2, <2>2 DEF Evicted, KillHelper
    <3>2. Renewed' /\ Buried'
      BY <2>2, <3>1 DEF Renewed, Buried
    <3> QED
      BY <3>1, <3>2, QuietStep DEF DrawnInv, InMemory, Others, Key
  <2> QED
    BY <2>1, <2>2
<1>3. ASSUME SendKey PROVE ErasureInv'
  <2>1. /\ UNCHANGED <<status, mk, newmk, helper, vault, maps, mem, ghosts, seen, fresh>>
        /\ pc = "set_send" /\ pc' = "set_wait"
    BY <1>3 DEF SendKey, SendSet
  <2>2. Renewed' /\ Buried'
    BY <2>1 DEF Renewed, Buried
  <2> QED
    BY <2>1, <2>2, QuietStep DEF DrawnInv, InMemory, Others, Key
<1>4. ASSUME KeySet PROVE ErasureInv'
  <2>1. /\ UNCHANGED <<newmk, helper, vault, maps, slotkey, cache, ghosts, seen>>
        /\ status' = status \ {"READY_TO_REFRESH"} /\ mk' = newmk /\ mapDirty' = FALSE
        /\ rhiv' = fresh /\ fresh' = fresh + 1 /\ vault = newmk
        /\ pc = "set_wait" /\ pc' = "write_map"
    BY <1>4 DEF KeySet, Install, SyncInv, Telling, NoMail
  <2>2. Renewed'
    BY <2>1 DEF Renewed
  <2> QED
    BY <2>1, <2>2, DrawStep DEF DrawnInv, Others
<1>5. ASSUME WriteHeader PROVE ErasureInv'
  <2>1. /\ Forget /\ UNCHANGED <<status, helper, vault, smap, imap, fresh, file, lost, seen>>
        /\ iv' = rhiv /\ dead' = dead \cup dying /\ pc = "header"
    BY <1>5 DEF WriteHeader
  <2>2. ASSUME NEW c \in seen.maps, NEW b \in seen.sectors, c.k = vault, b.k \in c.keys
        PROVE  b.keys \cap (dead \cup dying) = {}
    <3>1. CASE dying = {}
      BY <2>2, <3>1 DEF Buried
    <3>2. CASE dying # {}
      <4>1. PICK s \in Slot : b.k = slotkey[s]
        BY <2>1, <2>2, <3>2 DEF Renewed
      <4> QED
        BY <4>1 DEF Clean
    <3> QED
      BY <3>1, <3>2
  <2>3. Buried'
    BY <2>1, <2>2 DEF Buried
  <2> QED
    BY <2>1, <2>3, ForgetStep DEF DrawnInv, InMemory, OfThePast, Others, Key
<1> QED
  BY <1>1, <1>2, <1>3, <1>4, <1>5, WriteMapKeepsErasure DEF Closing

-----------------------------------------------------------------------------
(* A power failure, and the helper.                                        *)

LEMMA CrashKeepsErasure == ASSUME ErasureInv, Crash PROVE ErasureInv'
<1> USE DEF ErasureInv, maps
<1>1. Exposed \subseteq Slot
  BY FirstSector DEF Exposed, DrawnInv, Others
<1>2. /\ Forget /\ UNCHANGED <<vault, maps, fresh, file, dead, seen>>
      /\ status' = {} /\ helper' = "gone" /\ lost' = lost \cup Exposed
  BY DEF Crash
<1>3. Buried'
  BY <1>2 DEF Buried
<1> QED
  BY <1>1, <1>2, <1>3, ForgetStep DEF DrawnInv, InMemory, OfThePast, Others, Key

LEMMA HelperKeepsErasure == ASSUME SyncInv, ErasureInv, Helper PROVE ErasureInv'
<1> USE DEF ErasureInv, mem
<1>1. UNCHANGED <<maps, mem, pc, idx, fresh, ghosts, seen>>
  BY DEF Helper
<1>2. \/ vault' = vault /\ newmk' = newmk /\ mk' \in {mk, vault}
      \/ pc = "set_wait" /\ vault' = newmk /\ newmk' = newmk /\ mk' = mk
  <2>1. ASSUME HelperWrite PROVE pc = "set_wait" /\ vault' = newmk /\ newmk' = newmk /\ mk' = mk
    <3>1. pc = "set_wait" /\ inbox = <<Set(newmk)>>
      BY <2>1, One, Types DEF HelperWrite, Got, SyncInv, Place, NoMail, Starting, Asking, Using,
                              Telling, Stopping
    <3> QED
      BY <2>1, <3>1, One, Types DEF HelperWrite
  <2> QED
    BY <2>1 DEF Helper, HelperStep, HelperFail, HelperBind, HelperGet, HelperAck, HelperDie,
                ReceiveKey, ReceiveAck
<1>3. status' \subseteq Flags /\ helper' \in {"starting", "loop", "written", "failed", "gone"}
  <2>1. status \subseteq Flags /\ helper \in {"starting", "loop", "written", "failed", "gone"}
    BY DEF DrawnInv, Others
  <2> QED
    BY <2>1 DEF Helper, HelperStep, HelperFail, HelperBind, HelperGet, HelperWrite, HelperAck,
                HelperDie, ReceiveKey, ReceiveAck, Flags
<1>4. Renewed'
  BY <1>1, <1>2 DEF Renewed, ghosts
<1>5. Buried'
  BY <1>1, <1>2 DEF Renewed, Buried, ghosts
<1>6. vault' \in Key /\ mk' \in Key /\ newmk' \in Key /\ rhiv' \in Key
  BY <1>1, <1>2 DEF DrawnInv, InMemory
<1> QED
  BY <1>1, <1>3, <1>4, <1>5, <1>6, QuietStep

-----------------------------------------------------------------------------
(* The device as it was made.                                              *)

LEMMA Position ==
  ASSUME NEW p \in Nat \ {0}, NEW s \in Nat, NEW e \in 0 .. p - 1
  PROVE  ((s * p) + e) \div p = s /\ ((s * p) + e) % p = e
OBVIOUS

LEMMA Within ==
  ASSUME NEW p \in Nat \ {0}, NEW n \in Nat, NEW s \in 0 .. n - 1, NEW e \in 0 .. p - 1
  PROVE  (s * p) + e \in Nat /\ (s * p) + e < n * p
<1>1. s + 1 <= n /\ s + 1 \in Nat
  OBVIOUS
<1>2. p * (s + 1) <= p * n
  BY <1>1, Monotone
<1> QED
  BY <1>2

LEMMA FirstKeys ==
  /\ \A s \in Slot : FirstSlotKey(s) \in Nat /\ FirstSlotKey(s) # 0
                     /\ FirstSlotKey(s) < 3 + InodeLen + InodeLen * PerSector
  /\ \A s \in Slot, e \in Entry : FirstFileKey(s, e) \in Nat
                                  /\ FirstFileKey(s, e) < 3 + InodeLen + InodeLen * PerSector
<1>1. InodeLen \in Nat /\ PerSector \in Nat \ {0} /\ InodeLen * PerSector \in Nat
  BY MapAssumption
<1>2. ASSUME NEW s \in Slot, NEW e \in Entry
      PROVE  FirstFileKey(s, e) \in Nat /\ FirstFileKey(s, e) < 3 + InodeLen + InodeLen * PerSector
  <2>1. (s * PerSector) + e \in Nat /\ (s * PerSector) + e < InodeLen * PerSector
    BY <1>1, Within DEF Slot, Entry
  <2>2. s * PerSector \in Nat /\ e \in Nat
    BY <1>1 DEF Slot, Entry
  <2> QED
    BY <1>1, <2>1, <2>2 DEF FirstFileKey
<1>3. ASSUME NEW s \in Slot
      PROVE  FirstSlotKey(s) \in Nat /\ FirstSlotKey(s) # 0
             /\ FirstSlotKey(s) < 3 + InodeLen + InodeLen * PerSector
  BY <1>1 DEF FirstSlotKey, Slot
<1> QED
  BY <1>2, <1>3

\* The first keys have a place each.
LEMMA FirstPlaces ==
  \E at \in [Nat -> Slot], en \in [Nat -> Entry] :
    \A s \in Slot : /\ at[FirstSlotKey(s)] = s
                    /\ \A e \in Entry : at[FirstFileKey(s, e)] = s /\ en[FirstFileKey(s, e)] = e
<1>1. InodeLen \in Nat /\ PerSector \in Nat \ {0}
  BY MapAssumption
<1> DEFINE pos(k) == k - 3 - InodeLen
           at == [k \in Nat |-> IF k - 3 \in Slot THEN k - 3
                                ELSE IF pos(k) \div PerSector \in Slot THEN pos(k) \div PerSector ELSE 0]
           en == [k \in Nat |-> IF pos(k) % PerSector \in Entry THEN pos(k) % PerSector ELSE 0]
<1>2. at \in [Nat -> Slot] /\ en \in [Nat -> Entry]
  <2>1. 0 \in Slot /\ 0 \in Entry
    BY <1>1, FirstSector DEF Entry
  <2> QED
    BY <2>1
<1>3. ASSUME NEW s \in Slot PROVE at[FirstSlotKey(s)] = s
  BY <1>1, <1>3, FirstKeys DEF FirstSlotKey, Slot
<1>4. ASSUME NEW s \in Slot, NEW e \in Entry
      PROVE  at[FirstFileKey(s, e)] = s /\ en[FirstFileKey(s, e)] = e
  <2> DEFINE n == (s * PerSector) + e
  <2>1. n \in Nat /\ n \div PerSector = s /\ n % PerSector = e
    BY <1>1, Within, Position DEF Slot, Entry
  <2>2. s * PerSector \in Nat /\ e \in Nat
    BY <1>1 DEF Slot, Entry
  <2>3. FirstFileKey(s, e) = 3 + InodeLen + n
    BY <1>1, <2>2 DEF FirstFileKey
  <2> HIDE DEF n
  <2>4. pos(FirstFileKey(s, e)) = n /\ FirstFileKey(s, e) - 3 \notin Slot /\ FirstFileKey(s, e) \in Nat
    BY <1>1, <2>1, <2>3 DEF Slot
  <2> HIDE DEF pos
  <2> QED
    BY <2>1, <2>4
<1> HIDE DEF at, en
<1> QED
  BY <1>2, <1>3, <1>4

LEMMA InitErasure == Init => ErasureInv
<1> SUFFICES ASSUME Init PROVE ErasureInv
  OBVIOUS
<1>1. fresh \in Nat /\ 2 < fresh /\ (\A s \in Slot : FirstSlotKey(s) \in Key \ {NoKey})
      /\ (\A s \in Slot, e \in Entry : FirstFileKey(s, e) \in Key) /\ {0, 1, 2} \subseteq Key
  <2>1. \A n, m \in Nat : 3 + n + m \in Nat /\ 2 < 3 + n + m
    OBVIOUS
  <2>2. InodeLen \in Nat /\ InodeLen * PerSector \in Nat
    BY MapAssumption
  <2>3. fresh = 3 + InodeLen + InodeLen * PerSector
    BY DEF Init
  <2>4. fresh \in Nat /\ 2 < fresh
    BY <2>1, <2>2, <2>3
  <2>5. \A n, m \in Nat : n < m => n \in 0 .. m - 1
    OBVIOUS
  <2> QED
    BY <2>3, <2>4, <2>5, FirstKeys, WipedAssumption DEF Key
<1>2. /\ \A i \in SlotSectors : smap[i] = [k |-> 1, iv |-> 2, keys |-> [s \in SlotsOf(i) |-> FirstSlotKey(s)]]
      /\ \A s \in Slot : imap[s] = [k |-> FirstSlotKey(s), keys |-> [e \in Entry |-> FirstFileKey(s, e)]]
      /\ \A s \in Slot : slotkey[s] = NoKey
  BY DEF Init
<1>3. /\ \A s \in Slot : imap[s].k = FirstSlotKey(s)
      /\ \A s \in Slot : imap[s].keys = [e \in Entry |-> FirstFileKey(s, e)]
      /\ \A i \in SlotSectors : smap[i].keys = [s \in SlotsOf(i) |-> FirstSlotKey(s)]
      /\ \A i \in SlotSectors : smap[i].k = 1
  <2>1. ASSUME NEW s \in Slot
        PROVE  imap[s].k = FirstSlotKey(s) /\ imap[s].keys = [e \in Entry |-> FirstFileKey(s, e)]
    <3>1. imap[s] = [k |-> FirstSlotKey(s), keys |-> [e \in Entry |-> FirstFileKey(s, e)]]
      BY <1>2
    <3> QED
      BY <3>1
  <2>2. ASSUME NEW i \in SlotSectors
        PROVE  smap[i].k = 1 /\ smap[i].keys = [s \in SlotsOf(i) |-> FirstSlotKey(s)]
    <3>1. smap[i] = [k |-> 1, iv |-> 2, keys |-> [s \in SlotsOf(i) |-> FirstSlotKey(s)]]
      BY <1>2
    <3> QED
      BY <3>1
  <2> QED
    BY <2>1, <2>2
<1>8. ASSUME NEW s \in Slot
      PROVE  /\ imap[s].keys \in [Entry -> Key]
             /\ \A e \in Entry : imap[s].keys[e] = FirstFileKey(s, e)
             /\ \A x \in Range(imap[s].keys) : \E e \in Entry : x = FirstFileKey(s, e)
             /\ Range(imap[s].keys) \subseteq Key
  <2>1. imap[s].keys = [e \in Entry |-> FirstFileKey(s, e)]
    BY <1>3
  <2> QED
    BY <1>1, <2>1 DEF Range
<1>9. ASSUME NEW i \in SlotSectors
      PROVE  smap[i].keys \in [SlotsOf(i) -> Key] /\ Range(smap[i].keys) \subseteq Key
  <2>1. smap[i].keys = [s \in SlotsOf(i) |-> FirstSlotKey(s)]
    BY <1>3
  <2> QED
    BY <1>1, <2>1 DEF Range, SlotsOf
<1>4. /\ seen.maps = {[k |-> smap[i].k, keys |-> Range(smap[i].keys)] : i \in SlotSectors}
      /\ seen.sectors = {[k |-> imap[s].k, keys |-> Range(imap[s].keys)] : s \in Slot}
      /\ seen = [maps |-> seen.maps, sectors |-> seen.sectors]
  BY DEF Init
<1>5. DrawnInv
  <2>1. InMemory
    <3>1. DOMAIN cache = {} /\ slotkey = [s \in Slot |-> NoKey]
      BY DEF Init
    <3> QED
      BY <1>1, <3>1, WipedAssumption DEF Init, InMemory
  <2>2. OnMedium
    BY <1>8, <1>9 DEF OnMedium
  <2>3. OfThePast
    <3>1. \A c \in seen.maps : c.k \in Key /\ c.keys \subseteq Key
      BY <1>1, <1>3, <1>4, <1>9
    <3>2. \A b \in seen.sectors : b.k \in Key \ {NoKey} /\ b.keys \subseteq Key
      BY <1>1, <1>3, <1>4, <1>8
    <3> QED
      BY <1>4, <3>1, <3>2 DEF Init, OfThePast
  <2>4. Ledger
    BY <1>4 DEF Ledger
  <2> QED
    BY <2>1, <2>2, <2>3, <2>4 DEF Init, DrawnInv, Others
<1>6. PlaceInv
  <2>1. PICK at \in [Nat -> Slot], en \in [Nat -> Entry] :
          \A s \in Slot : /\ at[FirstSlotKey(s)] = s
                          /\ \A e \in Entry : at[FirstFileKey(s, e)] = s /\ en[FirstFileKey(s, e)] = e
    BY FirstPlaces
  <2>2. \A s \in Slot : at[smap[SlotSector(s)].keys[s]] = s
    <3>1. ASSUME NEW s \in Slot PROVE smap[SlotSector(s)].keys[s] = FirstSlotKey(s)
      BY <1>3, SectorOfSlot
    <3> QED
      BY <2>1, <3>1
  <2>3. \A s \in Slot : Mine(at, en, imap[s].keys, s)
    BY <1>8, <2>1 DEF Mine
  <2>4. \A b \in seen.sectors : \A x \in b.keys : at[x] = at[b.k]
    <3>1. ASSUME NEW s \in Slot, NEW x \in Range(imap[s].keys) PROVE at[x] = at[imap[s].k]
      <4>1. PICK e \in Entry : x = FirstFileKey(s, e)
        BY <1>8, <3>1
      <4>2. imap[s].k = FirstSlotKey(s)
        BY <1>3
      <4> QED
        BY <2>1, <4>1, <4>2
    <3> QED
      BY <1>4, <3>1
  <2> QED
    <3>1. DOMAIN cache = {}
      BY DEF Init
    <3>2. Placed(at, en)
      BY <1>2, <2>2, <2>3, <2>4, <3>1 DEF Placed
    <3> QED
      BY <3>2 DEF PlaceInv
<1>7. Clean
  BY <1>1, <1>2, <1>4 DEF Init, Clean, Dirty
<1> QED
  BY <1>5, <1>6, <1>7 DEF ErasureInv, Init, Renewed, Buried

-----------------------------------------------------------------------------
LEMMA NextErasure == SyncInv /\ MapInv /\ ErasureInv /\ [Next]_vars => ErasureInv'
<1>1. ASSUME ErasureInv, UNCHANGED vars PROVE ErasureInv'
  <2>1. Renewed' /\ Buried'
    BY <1>1 DEF vars, syncVars, maps, mem, ghosts, ErasureInv, Renewed, Buried, Slot
  <2> QED
    BY <1>1, <2>1, QuietStep DEF vars, syncVars, mem, ErasureInv, DrawnInv, InMemory, Others, Key
<1> QED
  BY <1>1, OpeningKeepsErasure, WorkingKeepsErasure, ClosingKeepsErasure, HelperKeepsErasure,
     CrashKeepsErasure DEF Next

\* Keys drawn have one place each, those replaced are neither in the cache nor under a slot
\* key in memory, and a session that replaced any ends under a master key not used before
\* (eraser_refresh_keys, eraser_do_unlink and eraser_dtr).
THEOREM ErasureInvariance == Spec => []ErasureInv
BY InitErasure, NextErasure, SyncInvariance, MapInvariance, PTL DEF Spec

\* Every variable stays in its range, and every key in use has been drawn.
THEOREM EraserTypes == Spec => []TypeOK
<1>1. SyncInv /\ MapInv /\ ErasureInv => TypeOK
  BY DEF SyncInv, Place, MapInv, Shapes, ErasureInv, DrawnInv, InMemory, Others, TypeOK
<1> QED
  BY <1>1, SyncInvariance, MapInvariance, ErasureInvariance, PTL

\* What ERASER is for (eraser_do_unlink, dm-eraser.c:1162, and eraser_dtr): a file key
\* replaced in a session that was closed follows no more from the vault's key and
\* anything the medium ever held, through however many sessions and failures.
THEOREM DeletedStaysGone == Spec => []DeletedGone
<1>1. ErasureInv => DeletedGone
  <2> SUFFICES ASSUME ErasureInv, NEW d \in dead, d \in Opens(Opens({vault}, seen.maps), seen.sectors)
               PROVE  FALSE
    BY DEF DeletedGone
  <2>1. PICK b \in seen.sectors : b.k \in Opens({vault}, seen.maps) /\ d \in b.keys
    BY DEF Opens
  <2>2. PICK c \in seen.maps : c.k = vault /\ b.k \in c.keys
    BY <2>1 DEF Opens
  <2> QED
    BY <2>1, <2>2 DEF ErasureInv, Buried
<1> QED
  BY <1>1, ErasureInvariance, PTL
=============================================================================
