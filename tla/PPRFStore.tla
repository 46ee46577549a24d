------------------------------ MODULE PPRFStore ------------------------------
(***************************************************************************)
(* The PPRF key as persist_unlink uses it (dm-holepunch-main.c): in memory *)
(* and, sector by sector, on the disk; punctured at the tag of the key     *)
(* table sector that is written back, which takes the next tag; and        *)
(* renewed, root and all, when the room that is left might not do.         *)
(*                                                                         *)
(* Key bytes are those of PPRFTree, relative to the root in use: whatever  *)
(* was derived from an earlier root counts as NoKey.                       *)
(***************************************************************************)
EXTENDS PPRFKey

CONSTANTS
  KeyTableLen,   \* sectors of the key table
  PerSector,     \* HP_PPRF_PER_SECTOR
  Capacity,      \* pprf_capacity
  MaxRenewals,   \* bounds: how often the key is renewed,
  MaxBefore,     \* how often it has been punctured by then,
  MaxAfter       \* and how often it is punctured after that

ASSUME StoreAssumption ==
  /\ KeyTableLen \in 1 .. Pow2[Depth] /\ PerSector \in Nat \ {0}
  /\ Capacity \in Nat /\ Capacity >= 1 + 2 * Depth

VARIABLES
  disk,     \* the keynodes of the sectors from pprf_start on, as read_pprf reads them
  tail,     \* the last bytes of the sectors, which read_pprf leaves out
  renewals  \* how often the key was renewed

storeVars == <<vars, disk, tail, renewals>>

\* A sector is of ERASER_SECTOR bytes, and the HP_PPRF_PER_SECTOR keynodes it is for
\* fill 4068 of them: the other 28 are the first 28 of the 32 key bytes of the node
\* that comes next, the first of the next sector.  tail[n] is the key of node n those
\* bytes were taken from.
SectorHeads == {n \in 1 .. MaxNodes - 1 : n % PerSector = 0}
NoTail == [n \in SectorHeads |-> NoKey]

StoreInit ==
  /\ Init
  /\ disk = pprf
  /\ tail = NoTail
  /\ renewals = 0

Sectors(I) == {i \div PerSector : i \in I}

\* Seeded fault: the sector of the node that was split is not written.
AppendedOnly(at, start, end) == Sectors(start .. end - 1)

\* Which sectors are written: the punctured node's; and the appended nodes', "if
\* (start_sector > punctured_sector)".
Written(at, start, end) ==
  Sectors({at}) \cup (IF start \div PerSector > at \div PerSector
                      THEN Sectors(start .. end - 1) ELSE {})

WriteSectors(S) ==
  /\ disk' = [i \in DOMAIN disk |-> IF i \div PerSector \in S THEN pprf'[i] ELSE disk[i]]
  /\ tail' = [n \in SectorHeads |->
                IF (n - 1) \div PerSector \in S THEN pprf'[n].key ELSE tail[n]]

RoomLeft == size + 2 * Depth <= Capacity

\* The puncturing of persist_unlink.
Persist(tag) ==
  /\ renewals = 0 \/ Cardinality(punctured \cup {tag}) <= MaxAfter
  /\ PunctureAtTag(tag)
  /\ WriteSectors(Written(FindKey(pprf, TagBits(tag)).at, size, size'))
  /\ UNCHANGED renewals

\* do_pprf_rotation: "memset(rd->pprf_key, 0, ERASER_SECTOR)" clears one sector
\* in memory, and one is written.  In the others the nodes stay, with keys that
\* are none of the new root's, tails included.  (The memset reaches 28 bytes into a
\* node of those, which is beyond the new size.)
Stale(nodes) == [i \in DOMAIN nodes |-> [nodes[i] EXCEPT !.key = NoKey]]
Renewed(nodes) ==
  [i \in DOMAIN nodes |-> IF i < PerSector THEN InitMasterKey(MaxNodes)[i] ELSE Stale(nodes)[i]]

Renew ==
  /\ ~RoomLeft
  /\ renewals < MaxRenewals /\ Cardinality(punctured) <= MaxBefore
  /\ pprf' = Renewed(pprf)
  /\ disk' = Renewed(disk)
  /\ tail' = NoTail
  /\ size' = 1
  /\ punctured' = {}
  /\ renewals' = renewals + 1

\* The tags the counter has handed out since the last renewal: one for each
\* sector of the key table, one for each puncture.
HandedOut == KeyTableLen + Cardinality(punctured)
InUse(tag) == tag < HandedOut /\ tag \notin punctured

\* persist_unlink, for a sector of the key table and so for a tag in use.
PersistUnlink(tag) == RoomLeft /\ InUse(tag) /\ Persist(tag)

StoreNext == Renew \/ \E tag \in Tags : PersistUnlink(tag)

StoreSpec == StoreInit /\ [][StoreNext]_storeVars

-----------------------------------------------------------------------------
\* The nodes read_pprf reads back from the disk, whether their sector was written
\* by the last puncture or not, hold no ancestor of a punctured tag, whichever sectors
\* the split and the appended nodes fall in.
DiskPuncturedGone == Derivable(disk, DOMAIN disk) \cap punctured = {}

\* "deleted files are irrecoverable by an adversary that later obtains physical access
\* to the underlying storage medium" (README.md:2), who reads whole sectors: neither do
\* the bytes a sector ends with give the key of an ancestor of a punctured tag.
TailsPuncturedGone ==
  \A n \in SectorHeads, t \in punctured : tail[n] # NoKey => ~IsPrefixOf(tail[n], TagBits(t))

\* "Persists new crypto information to disk" (dm-holepunch-main.c:1731): what
\* read_pprf will find is the key in memory.
Persisted == \A i \in 0 .. size - 1 : disk[i] = pprf[i]

\* "The depth of the pprf is chosen such that num leaves is at least the number of
\* files + number of punctures before refresh is forced" (holepunch.c:452-453):
\* the counter never hands out a tag that is no leaf, which "tag <<= 64 - depth"
\* would make the tag of another sector, or of one punctured.
LeavesSuffice == HandedOut <= Cardinality(Tags)
=============================================================================
