---------------------------- MODULE RemanenceProofs ----------------------------
(***************************************************************************)
(* Theorems about Remanence: what the repository promises of deleted       *)
(* files, for a key table of any length, under the hypotheses of           *)
(* SecureStoreProofs (a one-sector PPRF key, tags that are leaves), when   *)
(* journal slots never committed leave no trace once they are overwritten. *)
(* (The run torn shows that this is needed.)                               *)
(*                                                                         *)
(* The invariant IInv of SecureStoreProofs says what the disk and the      *)
(* memory are; here is added what the medium ever held.  At each level of  *)
(* the hierarchy, what the key of that level was ever used for is what it  *)
(* is used for now, so that the way down from the TPM's key is the one the *)
(* device itself takes: Ways for the keys of the FKT and the PPRF, Only    *)
(* for the master key, Match for the tags of the key table.                *)
(***************************************************************************)
EXTENDS Remanence, SecureStoreProofs

\* The third hypothesis.
NoTraces == KeepsTorn = FALSE

\* What one sector adds to what was under which key.
LinkOf(b, x) ==
  (b.at[1] = "top" /\ x = <<b.k, b.body.key>>) \/ (b.at[1] = "bottom" /\ x = <<b.k, b.body>>)
LockOf(b, x) == b.at[1] = "pprf" /\ x = <<b.k, b.body.root, b.body.punct>>
FileOf(b, x) == b.at[1] = "table" /\ \E e \in Entry : x = <<b.k[1], b.k[2], b.body[e]>>

\* ... and what a control block does.
CtlLinks(c) == IF c.type = "MASTER_ROT" THEN {<<c.k, c.key>>} ELSE {}
CtlLocks(c) == IF c.type = "PPRF_ROT" THEN {<<c.k, c.key, {}>>} ELSE {}

\* What is under which key, on the medium at any time or torn in the journal.
Links == wraps \cup WrapsIn(Torn, ctl)
Locks == pprfs \cup PprfsIn(Torn, ctl)

\* What is on the disk now has been recorded.
Written == Sectors(home, slot, CommittedSlots(ctl))
Recorded ==
  WrapsIn(Written, ctl) \subseteq wraps /\ PprfsIn(Written, ctl) \subseteq pprfs
    /\ FilesIn(Written) \subseteq files

\* A sector holds one kind of thing, and each journal slot one kind, once used.
KindsOk ==
  /\ \A a \in Addr : home[a].at = a
  /\ slot[1].at \in {HeaderAt, TopAt(0)} /\ slot[2].at \in {HeaderAt, BotAt}
  /\ slot[3].at \in {HeaderAt, PprfAt} /\ slot[5].at = HeaderAt
  /\ slot[4].at = HeaderAt \/ \E s \in Sector : slot[4].at = TableAt(s)

\* No key in use is the next one to draw.
DrawnMedium ==
  /\ \A x \in Links : x[1] \in Key /\ x[2] \in Key
  /\ \A p \in Locks : p[1] \in Key
  /\ \A f \in files : f[1] \in Key
  /\ slot[4].at # HeaderAt => slot[4].k[1] \in Key
DrawnKeys ==
  /\ dead \subseteq Key
  /\ \A s \in Sector : file[s] \in Keys
  /\ \A s \in DOMAIN mem.cache : mem.cache[s].keys \in Keys

-----------------------------------------------------------------------------
(* With L the links and P the locks there ever were, F the file keys ever  *)
(* written, f those durable, D those dead and j the journal's fourth slot. *)

\* Top key t was used for bottom key b alone, b for PPRF key p alone.
Below(L, P, t, b, p) ==
  /\ t # b
  /\ \A x \in L : (x[1] = t => x[2] = b) /\ x[1] # b
  /\ \A x \in P : x[1] # t /\ (x[1] = b => x[2] = p.root /\ x[3] = p.punct)

\* Master key k was used for top key t alone.
Only(L, P, k, t) ==
  /\ \A x \in L : x[1] = k => x[2] = t
  /\ \A x \in P : x[1] # k

Separate(k, h) == k # TopOf(h).key /\ k # BotOf(h)

Ways(L, P, h, k) == Below(L, P, TopOf(h).key, BotOf(h), PprfOf(h)) /\ Separate(k, h)

\* What the PPRF key of h still opens is the file keys of its key table.
Match(F, f, h) ==
  \A x \in F :
    x[1] = PprfOf(h).root /\ x[2] \notin PprfOf(h).punct =>
      \E s \in Sector : x[2] = TagOf(h, s) /\ \E e \in Entry : x[3] = f[s][e]

\* What is left of a torn transaction holds no dead key.
TornOk(j, D, h) ==
  (j.at # HeaderAt /\ j.k[1] = PprfOf(h).root /\ j.k[2] \notin PprfOf(h).punct) =>
    \A e \in Entry : j.body[e] \notin D

Sealed(L, P, F, f, j, D, h, k) == Ways(L, P, h, k) /\ Match(F, f, h) /\ TornOk(j, D, h)

\* Under a new PPRF key, the file keys of the sectors below n and nothing else.
OnlyNew(F, f, j, root, n) ==
  /\ \A x \in F :
       x[1] = root => \E s \in Sector : s < n /\ x[2] = s /\ \E e \in Entry : x[3] = f[s][e]
  /\ j.at # HeaderAt => j.k[1] # root

Live(f, D, s) == \A e \in Entry : f[s][e] # Junk /\ f[s][e] \notin D

-----------------------------------------------------------------------------
(* What holds wherever power fails, and what by the step the device is at. *)

SealedNow(h, k) == Sealed(Links, Locks, files, file, slot[4], dead, h, k)

RotationMedium ==
  /\ \A x \in files : x[1] = ctl.key =>
       \E s \in Sector : Rewritten(s, ctl.key) /\ x[2] = s /\ \E e \in Entry : x[3] = file[s][e]
  /\ slot[4].at # HeaderAt => slot[4].k[1] # ctl.key

MediumInv ==
  /\ ctl.type \in {"NONE", "MASTER_ROT", "PPRF_PUNCT"} => SealedNow(RestartHome, RestartMaster)
  /\ ctl.type = "MASTER_ROT" =>
       /\ Only(Links, Locks, ctl.key, TopOf(RestartHome).key)
       /\ Separate(ctl.key, RestartHome)
  /\ ctl.type = "PPRF_ROT" => RotationMedium
  /\ ctl.type = "PPRF_PUNCT" => slot[4].at = ctl.addr[4]
  /\ InUse => \A s \in Sector : Live(file, dead, s)

\* Before and in a rotation of the master key, and after one in a recovery.
AtSealed == pc \in {"clear", "none", "m_slot", "m_ctl"} => SealedNow(home, tpm)

AtOnly ==
  pc \in {"idle", "closing"} \/ (pc \in {"clear", "finish"} /\ ~InUse) =>
    Only(Links, Locks, tpm, TopOf(home).key)

AtMaster ==
  pc \in {"m_slot", "m_ctl"} =>
    /\ Only(Links, Locks, mem.newmk, TopOf(home).key)
    /\ Separate(mem.newmk, home)

AtJournal ==
  pc \in {"jnl", "punct_ctl"} =>
    /\ mem.top[0].key \in Key /\ mem.pk \in Key
    /\ {mem.top[0].key, mem.pk} \cap {tpm, TopOf(home).key, BotOf(home)} = {}
    /\ Below(Links, Locks, mem.top[0].key, mem.pk, mem.pprf)

AtRotation ==
  /\ pc = "rot_ctl" => OnlyNew(files, file, slot[4], mem.newroot, 0)
  /\ pc = "rewrite" => OnlyNew(files, file, slot[4], mem.newroot, idx)
  /\ pc \in {"fkt_top", "fkt_bot", "pprf_key"} =>
       OnlyNew(files, file, slot[4], mem.newroot, KeyTableLen)

AtRefill ==
  /\ pc \in {"fkt_bot", "pprf_key"} =>
       /\ mem.top[0].key \in Key /\ mem.top[0].key # tpm
       /\ \A x \in Links : x[1] = mem.top[0].key => pc = "pprf_key" /\ x[2] = mem.pk
       /\ \A x \in Locks : x[1] # mem.top[0].key
  /\ pc = "pprf_key" =>
       /\ mem.pk \in Key /\ mem.pk # tpm /\ mem.pk # mem.top[0].key
       /\ \A x \in Links : x[1] # mem.pk
       /\ \A x \in Locks : x[1] # mem.pk

AtLive ==
  /\ pc \notin {"down", "rewrite"} => \A s \in Sector : Live(file, dead, s)
  /\ pc = "rewrite" => \A s \in Sector : s < idx => Live(file, dead, s)

DeviceInv == AtSealed /\ AtOnly /\ AtMaster /\ AtJournal /\ AtRotation /\ AtRefill /\ AtLive

\* The file keys, made durable or drawn, have each a place of their own; none in the
\* cache is dead.
Placed(at) ==
  /\ \A s \in Sector, e \in Entry : file[s][e] # Junk => at[file[s][e]] = <<s, e>>
  /\ \A s \in DOMAIN mem.cache, e \in Entry : at[mem.cache[s].keys[e]] = <<s, e>>
PlaceInv == \E at \in [Nat -> Sector \X Entry] : Placed(at)

CacheLive == \A s \in DOMAIN mem.cache, e \in Entry :
  mem.cache[s].keys[e] # Junk /\ mem.cache[s].keys[e] \notin dead

MediumOk == Recorded /\ KindsOk /\ DrawnMedium /\ MediumInv
CacheOk == DrawnKeys /\ PlaceInv /\ CacheLive
ErasureInv == MediumOk /\ DeviceInv /\ CacheOk

-----------------------------------------------------------------------------
(* Keys of which nothing is known yet.                                     *)

LEMMA Wrapped ==
  ASSUME NEW B, NEW c
  PROVE  /\ \A x : x \in WrapsIn(B, c) <=> (\E b \in B : LinkOf(b, x)) \/ x \in CtlLinks(c)
         /\ \A x : x \in PprfsIn(B, c) <=> (\E b \in B : LockOf(b, x)) \/ x \in CtlLocks(c)
         /\ \A x : x \in FilesIn(B) <=> \E b \in B : FileOf(b, x)
<1>1. \A x : x \in WrapsIn(B, c) <=> (\E b \in B : LinkOf(b, x)) \/ x \in CtlLinks(c)
  BY DEF WrapsIn, Held, LinkOf, CtlLinks
<1>2. \A x : x \in PprfsIn(B, c) <=> (\E b \in B : LockOf(b, x)) \/ x \in CtlLocks(c)
  BY DEF PprfsIn, Held, LockOf, CtlLocks
<1>3. \A x : x \in FilesIn(B) <=> \E b \in B : FileOf(b, x)
  BY DEF FilesIn, Held, FileOf
<1> QED
  BY <1>1, <1>2, <1>3

\* Fewer keys were used for less.
LEMMA WaysKept ==
  ASSUME NEW L, NEW P, NEW L2, NEW P2, NEW h, NEW k, Ways(L, P, h, k),
         \A x \in L2 : x \in L \/ x[1] \notin {TopOf(h).key, BotOf(h)},
         \A x \in P2 : x \in P \/ x[1] \notin {TopOf(h).key, BotOf(h)}
  PROVE  Ways(L2, P2, h, k)
BY DEF Ways, Below

LEMMA OnlyKept ==
  ASSUME NEW L, NEW P, NEW L2, NEW P2, NEW k, NEW t, Only(L, P, k, t),
         \A x \in L2 : x \in L \/ (x[1] = k => x[2] = t),
         \A x \in P2 : x \in P \/ x[1] # k
  PROVE  Only(L2, P2, k, t)
BY DEF Only

LEMMA BelowKept ==
  ASSUME NEW L, NEW P, NEW L2, NEW P2, NEW t, NEW b, NEW p, Below(L, P, t, b, p),
         \A x \in L2 : x \in L \/ x[1] \notin {t, b},
         \A x \in P2 : x \in P \/ x[1] \notin {t, b}
  PROVE  Below(L2, P2, t, b, p)
BY DEF Below

\* Sectors that hold the same keys.
SameKeys(g, h) ==
  /\ TopOf(h).key = TopOf(g).key /\ BotOf(h) = BotOf(g) /\ PprfOf(h) = PprfOf(g)
  /\ \A s \in Sector : TagOf(h, s) = TagOf(g, s)

LEMMA SealedSame ==
  ASSUME NEW L, NEW P, NEW F, NEW f, NEW j, NEW D, NEW g, NEW h, NEW k,
         Sealed(L, P, F, f, j, D, g, k), SameKeys(g, h)
  PROVE  Sealed(L, P, F, f, j, D, h, k)
BY DEF Sealed, SameKeys, Ways, Separate, Match, TornOk

LEMMA SealedKept ==
  ASSUME NEW L, NEW P, NEW F, NEW f, NEW j, NEW D, NEW L2, NEW P2, NEW F2, NEW h, NEW k,
         Sealed(L, P, F, f, j, D, h, k), F2 \subseteq F,
         \A x \in L2 : x \in L \/ x[1] \notin {TopOf(h).key, BotOf(h)},
         \A x \in P2 : x \in P \/ x[1] \notin {TopOf(h).key, BotOf(h)}
  PROVE  Sealed(L2, P2, F2, f, j, D, h, k)
<1>1. Ways(L2, P2, h, k)
  BY WaysKept DEF Sealed
<1> QED
  BY <1>1 DEF Sealed, Match

LEMMA OnlyNewKept ==
  ASSUME NEW F, NEW f, NEW j, NEW F2, NEW root, NEW n, OnlyNew(F, f, j, root, n), F2 \subseteq F
  PROVE  OnlyNew(F2, f, j, root, n)
BY DEF OnlyNew

-----------------------------------------------------------------------------
(* What a step adds to the history.                                        *)

Ledger ==
  /\ wraps' = wraps \cup WrapsIn(Written', ctl')
  /\ pprfs' = pprfs \cup PprfsIn(Written', ctl')
  /\ files' = files \cup FilesIn(Written')
  /\ dead' = dead \cup (FileKeys(file) \ FileKeys(file'))

LEMMA LedgerOfNext == ASSUME NoTraces, RNext PROVE Ledger
BY DEF NoTraces, RNext, Ledger, Written

LEMMA LedgerOfStutter == ASSUME Recorded, UNCHANGED rvars PROVE Ledger
<1>1. UNCHANGED <<wraps, pprfs, files, dead, home, slot, ctl, file>>
  BY DEF rvars, vars
<1>2. Written' = Written
  BY <1>1 DEF Written
<1> QED
  BY <1>1, <1>2 DEF Recorded, Ledger

LEMMA RecordedNext == ASSUME Ledger PROVE Recorded'
BY DEF Ledger, Recorded

LEMMA Committed ==
  ASSUME OneTop, NEW c
  PROVE  /\ c.type = "MASTER_ROT" => CommittedSlots(c) = {1}
         /\ c.type = "PPRF_PUNCT" => CommittedSlots(c) = Slot
         /\ c.type \notin {"MASTER_ROT", "PPRF_PUNCT"} => CommittedSlots(c) = {}
         /\ CommittedSlots(c) \subseteq Slot
<1>1. 1 \in Slot /\ {w + 1 : w \in Top} = {1}
  <2>1. Top = {0}
    BY Places
  <2>2. {w + 1 : w \in {0}} = {1}
    OBVIOUS
  <2> QED
    BY <2>1, <2>2, Constants
<1> QED
  BY <1>1 DEF CommittedSlots

\* Whatever is on the disk now is what was there, on the medium or in the journal,
\* or the sector just written.
LEMMA Grown ==
  ASSUME OneTop, Recorded, KindsOk', Ledger, NEW n,
         \A a \in Addr : \/ \E b \in Addr : home'[a] = home[b]
                         \/ \E i \in CommittedSlots(ctl) : home'[a] = slot[i]
                         \/ home'[a] = n,
         \A i \in Slot : (\E j \in Slot : slot'[i] = slot[j]) \/ slot'[i] = n
  PROVE  /\ \A x \in Links' : x \in Links \/ LinkOf(n, x) \/ x \in CtlLinks(ctl')
         /\ \A x \in Locks' : x \in Locks \/ LockOf(n, x) \/ x \in CtlLocks(ctl')
         /\ \A x \in files' : \/ x \in files \/ FileOf(n, x)
                              \/ ctl'.type = "PPRF_PUNCT" /\ FileOf(slot'[4], x)
<1>1. \A b \in Written' : \/ b \in Written \/ b = n
                          \/ \E i \in CommittedSlots(ctl') : b = slot'[i]
  BY DEF Written, Sectors
<1>2. \A b \in Torn' : b \in Torn \/ b = n
  BY DEF Torn
<1>3. CommittedSlots(ctl') \subseteq Slot
  BY Committed
<1>4. \A b \in Written' \cup Torn' : b \in Written \/ b \in Torn \/ b = n
  BY <1>1, <1>2, <1>3 DEF Torn
<1>5. ASSUME NEW x \in Links', ~LinkOf(n, x), x \notin CtlLinks(ctl') PROVE x \in Links
  <2>1. x \in wraps \/ (\E b \in Written' : LinkOf(b, x)) \/ (\E b \in Torn' : LinkOf(b, x))
    BY <1>5, Wrapped DEF Links, Ledger
  <2>2. (\E b \in Written : LinkOf(b, x)) => x \in wraps
    BY Wrapped DEF Recorded
  <2>3. (\E b \in Torn : LinkOf(b, x)) => x \in Links
    BY Wrapped DEF Links
  <2> QED
    BY <1>4, <1>5, <2>1, <2>2, <2>3 DEF Links
<1>6. ASSUME NEW x \in Locks', ~LockOf(n, x), x \notin CtlLocks(ctl') PROVE x \in Locks
  <2>1. x \in pprfs \/ (\E b \in Written' : LockOf(b, x)) \/ (\E b \in Torn' : LockOf(b, x))
    BY <1>6, Wrapped DEF Locks, Ledger
  <2>2. (\E b \in Written : LockOf(b, x)) => x \in pprfs
    BY Wrapped DEF Recorded
  <2>3. (\E b \in Torn : LockOf(b, x)) => x \in Locks
    BY Wrapped DEF Locks
  <2> QED
    BY <1>4, <1>6, <2>1, <2>2, <2>3 DEF Locks
<1>7. ASSUME NEW x \in files', ~FileOf(n, x), x \notin files
      PROVE  ctl'.type = "PPRF_PUNCT" /\ FileOf(slot'[4], x)
  <2>1. PICK b \in Written' : FileOf(b, x)
    BY <1>7, Wrapped DEF Ledger
  <2>2. b \notin Written
    BY <1>7, <2>1, Wrapped DEF Recorded
  <2>3. PICK i \in CommittedSlots(ctl') : b = slot'[i]
    BY <1>1, <1>7, <2>1, <2>2
  <2>4. b.at[1] = "table"
    BY <2>1 DEF FileOf
  <2>5. slot'[1].at[1] # "table" /\ slot'[2].at[1] # "table" /\ slot'[3].at[1] # "table"
        /\ slot'[5].at[1] # "table"
    BY DEF KindsOk, HeaderAt, TopAt, BotAt, PprfAt
  <2>6. i \in {1, 2, 3, 4, 5}
    BY <1>3, <2>3, Constants
  <2>7. i = 4
    BY <2>3, <2>4, <2>5, <2>6
  <2>8. ctl'.type = "PPRF_PUNCT"
    BY <2>3, <2>7, Committed
  <2> QED
    BY <2>1, <2>3, <2>7, <2>8
<1> QED
  BY <1>5, <1>6, <1>7

-----------------------------------------------------------------------------
(* Steps of the memory alone, and what the cache needs of any step.        *)

LEMMA Widen ==
  ASSUME FreshInv, fresh' \in Nat, fresh' >= fresh
  PROVE  Key \subseteq Key' /\ Keys \subseteq Keys' /\ fresh \notin Key
<1>1. Key \subseteq Key' /\ fresh \notin Key
  <2>1. \A n, m \in Nat : m >= n => 0 .. n - 1 \subseteq 0 .. m - 1 /\ n \notin 0 .. n - 1
    OBVIOUS
  <2> QED
    BY <2>1 DEF Key, FreshInv
<1> QED
  BY <1>1 DEF Keys

LEMMA FileKeysKept == ASSUME Ledger, file' = file PROVE dead' = dead
BY DEF Ledger, FileKeys

\* The cache holds no more than it did, and the durable keys are the same.
CacheKept ==
  \A s \in DOMAIN mem'.cache :
    s \in DOMAIN mem.cache /\ mem'.cache[s].keys = mem.cache[s].keys

LEMMA CacheSteady ==
  ASSUME CacheOk, FreshInv, Ledger, file' = file, CacheKept, fresh' \in Nat, fresh' >= fresh
  PROVE  CacheOk'
<1>1. dead' = dead
  BY FileKeysKept
<1>2. Key \subseteq Key' /\ Keys \subseteq Keys'
  BY Widen
<1>3. DrawnKeys'
  <2>1. dead' \subseteq Key'
    BY <1>1, <1>2 DEF CacheOk, DrawnKeys
  <2>2. \A s \in Sector : file'[s] \in Keys'
    BY <1>2 DEF CacheOk, DrawnKeys
  <2>3. \A s \in DOMAIN mem'.cache : mem'.cache[s].keys \in Keys'
    BY <1>2 DEF CacheOk, DrawnKeys, CacheKept
  <2> QED
    BY <2>1, <2>2, <2>3 DEF DrawnKeys
<1>4. PICK at \in [Nat -> Sector \X Entry] : Placed(at)
  BY DEF CacheOk, PlaceInv
<1>5. /\ \A s \in Sector, e \in Entry : file'[s][e] # Junk => at[file'[s][e]] = <<s, e>>
      /\ \A s \in DOMAIN mem'.cache, e \in Entry : at[mem'.cache[s].keys[e]] = <<s, e>>
  BY <1>4 DEF Placed, CacheKept
<1>6. PlaceInv'
  BY <1>5 DEF PlaceInv, Placed
<1>7. CacheLive'
  BY <1>1 DEF CacheOk, CacheLive, CacheKept
<1> QED
  BY <1>3, <1>6, <1>7 DEF CacheOk

\* The disk is as it was: what was under which key is too.
Quiet == UNCHANGED <<home, ctl, slot, tpm, file>>

LEMMA QuietHistory ==
  ASSUME Recorded, Ledger, Quiet
  PROVE  /\ Links' = Links /\ Locks' = Locks /\ files' = files /\ dead' = dead
         /\ wraps' = wraps /\ pprfs' = pprfs
<1>1. Written' = Written /\ Torn' = Torn
  BY DEF Quiet, Written, Torn
<1>2. wraps' = wraps /\ pprfs' = pprfs /\ files' = files
  BY <1>1 DEF Recorded, Ledger, Quiet
<1>3. Links' = Links /\ Locks' = Locks
  BY <1>1, <1>2 DEF Links, Locks, Quiet
<1>4. dead' = dead
  BY FileKeysKept DEF Quiet
<1> QED
  BY <1>2, <1>3, <1>4

LEMMA DrawnQuiet ==
  ASSUME DrawnMedium, FreshInv, fresh' \in Nat, fresh' >= fresh,
         Links' = Links, Locks' = Locks, files' = files, slot' = slot
  PROVE  DrawnMedium'
<1>1. Key \subseteq Key'
  BY Widen
<1> QED
  BY <1>1 DEF DrawnMedium

LEMMA MediumQuiet ==
  ASSUME MediumOk, FreshInv, Ledger, Quiet, fresh' \in Nat, fresh' >= fresh
  PROVE  MediumOk'
<1>1. Recorded'
  BY RecordedNext
<1>2. KindsOk'
  BY DEF MediumOk, KindsOk, Quiet
<1>3. Links' = Links /\ Locks' = Locks /\ files' = files /\ dead' = dead
  BY QuietHistory DEF MediumOk
<1>4. DrawnMedium'
  BY <1>3, DrawnQuiet DEF MediumOk, Quiet
<1>5. RestartHome' = RestartHome /\ RestartMaster' = RestartMaster
  BY RestartKept DEF Quiet, disk
<1>6. SealedNow(RestartHome, RestartMaster)' = SealedNow(RestartHome, RestartMaster)
  BY <1>3, <1>5 DEF SealedNow, Quiet
<1>7. RotationMedium => RotationMedium'
  BY <1>3 DEF RotationMedium, Quiet, Rewritten
<1>8. MediumInv'
  BY <1>3, <1>5, <1>6, <1>7 DEF MediumOk, MediumInv, Quiet, InUse
<1> QED
  BY <1>1, <1>2, <1>4, <1>8 DEF MediumOk

\* With nothing in the journal, the disk is as a restart would find it.
LEMMA SealedAtNone ==
  ASSUME MediumInv, ctl.type = "NONE"
  PROVE  SealedNow(home, tpm)
BY RestartPlain DEF MediumInv

LEMMA SealedQuiet ==
  ASSUME Recorded, Ledger, Quiet
  PROVE  SealedNow(home, tpm)' = SealedNow(home, tpm)
BY QuietHistory DEF SealedNow, Quiet

\* The device is at rest, before and after: idle or closing.
LEMMA DeviceAtRest ==
  ASSUME ErasureInv, Ledger, Quiet, pc \in {"idle", "closing"}, pc' \in {"idle", "closing"}
  PROVE  DeviceInv'
<1>1. Links' = Links /\ Locks' = Locks /\ files' = files /\ dead' = dead
  BY QuietHistory DEF ErasureInv, MediumOk
<1>2. AtSealed' /\ AtMaster' /\ AtJournal' /\ AtRotation' /\ AtRefill'
  BY DEF AtSealed, AtMaster, AtJournal, AtRotation, AtRefill
<1>3. AtOnly'
  BY <1>1 DEF ErasureInv, DeviceInv, AtOnly, Quiet
<1>4. AtLive'
  BY <1>1 DEF ErasureInv, DeviceInv, AtLive, Quiet
<1> QED
  BY <1>2, <1>3, <1>4 DEF DeviceInv

LEMMA CloseKeeps ==
  ASSUME IInv, ErasureInv, Ledger, Close
  PROVE  ErasureInv'
<1>1. Quiet /\ mem' = mem /\ fresh' = fresh /\ pc = "idle" /\ pc' = "closing"
  BY DEF Close, Quiet
<1>2. fresh' \in Nat /\ fresh' >= fresh /\ CacheKept /\ FreshInv
  BY <1>1 DEF IInv, FreshInv, CacheKept
<1> QED
  BY <1>1, <1>2, MediumQuiet, CacheSteady, DeviceAtRest DEF ErasureInv, Quiet

LEMMA DropEntryKeeps ==
  ASSUME IInv, ErasureInv, Ledger, NEW s \in Sector, DropEntry(s)
  PROVE  ErasureInv'
<1>1. Quiet /\ fresh' = fresh /\ pc = "idle" /\ pc' = "idle"
  BY DEF DropEntry, Quiet
<1>2. mem'.cache = Without(mem.cache, s)
  BY CacheWithout DEF DropEntry, IInv, Shape
<1>3. fresh' \in Nat /\ fresh' >= fresh /\ CacheKept /\ FreshInv
  BY <1>1, <1>2 DEF IInv, FreshInv, CacheKept, Without, Restrict
<1> QED
  BY <1>1, <1>3, MediumQuiet, CacheSteady, DeviceAtRest DEF ErasureInv, Quiet

\* An entry read into the cache has the durable keys, which are not dead.
LEMMA EntryKeys ==
  ASSUME IInv, pc = "idle", NEW s \in Sector
  PROVE  /\ EntryShape(CacheEntry(s))
         /\ CacheEntry(s).keys = IF s \in DOMAIN mem.cache THEN mem.cache[s].keys ELSE file[s]
<1>1. Shape /\ TableOk(home, file) /\ mem.pprf = PprfOf(home) /\ CacheIn(mem, home, file)
  BY DEF IInv, MemInv, AtRest, Whole, WholeIn, Image, KeysIn
<1>2. EntryShape(CacheEntry(s))
  BY <1>1, CachedEntry
<1>3. ReadKeys(s) = file[s]
  BY <1>1, SectorOpened
<1> QED
  BY <1>2, <1>3 DEF CacheEntry

LEMMA GetInodeKeyKeeps ==
  ASSUME IInv, ErasureInv, Ledger, NEW s \in Sector, GetInodeKey(s)
  PROVE  ErasureInv'
<1>1. Quiet /\ fresh' = fresh /\ pc = "idle" /\ pc' = "idle"
  BY DEF GetInodeKey, Quiet
<1>2. /\ EntryShape(CacheEntry(s))
      /\ CacheEntry(s).keys = IF s \in DOMAIN mem.cache THEN mem.cache[s].keys ELSE file[s]
  BY <1>1, EntryKeys
<1>3. mem'.cache = With(mem.cache, s, CacheEntry(s))
  BY <1>2, CacheWith DEF GetInodeKey, IInv, Shape
<1>4. \A t \in DOMAIN mem'.cache :
        \/ t \in DOMAIN mem.cache /\ mem'.cache[t].keys = mem.cache[t].keys
        \/ t = s /\ mem'.cache[t].keys = file[s]
  BY <1>2, <1>3 DEF With
<1>5. dead' = dead
  BY <1>1, FileKeysKept DEF Quiet
<1>6. Live(file, dead, s)
  BY <1>1 DEF ErasureInv, DeviceInv, AtLive
<1>7. Keys' = Keys
  BY <1>1 DEF Keys, Key
<1>8. DrawnKeys'
  <2>1. dead' \subseteq Key' /\ \A t \in Sector : file'[t] \in Keys'
    BY <1>1, <1>5, <1>7 DEF ErasureInv, CacheOk, DrawnKeys, Quiet, Key
  <2>2. \A t \in DOMAIN mem'.cache : mem'.cache[t].keys \in Keys'
    BY <1>4, <1>7 DEF ErasureInv, CacheOk, DrawnKeys
  <2> QED
    BY <2>1, <2>2 DEF DrawnKeys
<1>9. PICK at \in [Nat -> Sector \X Entry] : Placed(at)
  BY DEF ErasureInv, CacheOk, PlaceInv
<1>10. /\ \A t \in Sector, e \in Entry : file'[t][e] # Junk => at[file'[t][e]] = <<t, e>>
       /\ \A t \in DOMAIN mem'.cache, e \in Entry : at[mem'.cache[t].keys[e]] = <<t, e>>
  BY <1>1, <1>4, <1>6, <1>9 DEF Placed, Quiet, Live
<1>11. PlaceInv'
  BY <1>10 DEF PlaceInv, Placed
<1>12. CacheLive'
  BY <1>4, <1>5, <1>6 DEF ErasureInv, CacheOk, CacheLive, Live
<1>13. CacheOk'
  BY <1>8, <1>11, <1>12 DEF CacheOk
<1>14. fresh' \in Nat /\ fresh' >= fresh /\ FreshInv
  BY <1>1 DEF IInv, FreshInv
<1> QED
  BY <1>1, <1>13, <1>14, MediumQuiet, DeviceAtRest DEF ErasureInv

\* A key drawn has had no place before.
LEMMA UnlinkKeeps ==
  ASSUME IInv, ErasureInv, Ledger, NEW s \in Sector, NEW e \in Entry, Unlink(s, e)
  PROVE  ErasureInv'
<1> DEFINE x == [CacheEntry(s) EXCEPT !.keys[e] = fresh, !.dirty = TRUE]
           old == CacheEntry(s).keys
<1>1. Quiet /\ fresh' = fresh + 1 /\ pc = "idle" /\ pc' = "idle"
  BY DEF Unlink, Quiet
<1>2. /\ EntryShape(CacheEntry(s))
      /\ old = IF s \in DOMAIN mem.cache THEN mem.cache[s].keys ELSE file[s]
  BY <1>1, EntryKeys
<1>3. EntryShape(x) /\ x.keys = [old EXCEPT ![e] = fresh]
  <2> DEFINE k == [CacheEntry(s).keys EXCEPT ![e] = fresh]
             y == [CacheEntry(s) EXCEPT !.keys = k]
  <2>1. y = [tag |-> CacheEntry(s).tag, keys |-> k, dirty |-> CacheEntry(s).dirty]
    BY <1>2, SetEntry
  <2>2. x = [y EXCEPT !.dirty = TRUE]
    OBVIOUS
  <2>0. k = [old EXCEPT ![e] = fresh]
    OBVIOUS
  <2> HIDE DEF k, y
  <2>3. EntryShape(y) /\ y.keys = k
    BY <1>2, <2>1 DEF EntryShape
  <2>4. x = [tag |-> y.tag, keys |-> y.keys, dirty |-> TRUE]
    BY <2>2, <2>3, SetEntry
  <2> HIDE DEF x, old
  <2> QED
    BY <2>0, <2>3, <2>4 DEF EntryShape
<1>4. mem' = [mem EXCEPT !.cache = With(@, s, x)]
  BY DEF Unlink
<1> HIDE DEF x
<1>5. mem'.cache = With(mem.cache, s, x)
  BY <1>3, <1>4, CacheWith DEF IInv, Shape
<1>6. \A t \in DOMAIN mem'.cache :
        \/ t \in DOMAIN mem.cache /\ mem'.cache[t].keys = mem.cache[t].keys
        \/ t = s /\ mem'.cache[t].keys = [old EXCEPT ![e] = fresh]
  BY <1>3, <1>5 DEF With
<1>7. dead' = dead
  BY <1>1, FileKeysKept DEF Quiet
<1>8. Live(file, dead, s)
  BY <1>1 DEF ErasureInv, DeviceInv, AtLive
<1>9. fresh \in Nat \ {0} /\ fresh' \in Nat /\ fresh' >= fresh /\ FreshInv
  BY <1>1 DEF IInv, FreshInv
<1>10. Key \subseteq Key' /\ Keys \subseteq Keys' /\ fresh \notin Key /\ fresh \in Key'
  BY <1>1, <1>9, Widen DEF Key
<1>11. old \in Keys
  BY <1>2 DEF ErasureInv, CacheOk, DrawnKeys
<1>12. PICK at \in [Nat -> Sector \X Entry] : Placed(at)
  BY DEF ErasureInv, CacheOk, PlaceInv
<1>13. \A d \in Entry : old[d] # Junk /\ old[d] \notin dead /\ at[old[d]] = <<s, d>> /\ old[d] \in Key
  BY <1>2, <1>8, <1>11, <1>12 DEF ErasureInv, CacheOk, CacheLive, Placed, Live, Keys
<1>14. \A d \in Entry : [old EXCEPT ![e] = fresh][d] = IF d = e THEN fresh ELSE old[d]
  BY <1>11 DEF Keys
<1> HIDE DEF old
<1>15. DrawnKeys'
  <2>1. dead' \subseteq Key' /\ \A t \in Sector : file'[t] \in Keys'
    BY <1>1, <1>7, <1>10 DEF ErasureInv, CacheOk, DrawnKeys, Quiet
  <2>2. [old EXCEPT ![e] = fresh] \in Keys'
    BY <1>10, <1>11 DEF Keys
  <2>3. \A t \in DOMAIN mem'.cache : mem'.cache[t].keys \in Keys'
    BY <1>6, <1>10, <2>2 DEF ErasureInv, CacheOk, DrawnKeys
  <2> QED
    BY <2>1, <2>3 DEF DrawnKeys
<1> DEFINE at2 == [at EXCEPT ![fresh] = <<s, e>>]
<1>16. at2 \in [Nat -> Sector \X Entry] /\ at2[fresh] = <<s, e>>
       /\ \A k \in Key : at2[k] = at[k]
  BY <1>9, <1>10 DEF Key
<1>17. /\ \A t \in Sector, d \in Entry : file[t][d] # Junk => at[file[t][d]] = <<t, d>> /\ file[t][d] \in Key
       /\ \A t \in DOMAIN mem.cache, d \in Entry :
            at[mem.cache[t].keys[d]] = <<t, d>> /\ mem.cache[t].keys[d] \in Key
  BY <1>12 DEF ErasureInv, CacheOk, DrawnKeys, Placed, Keys
<1> HIDE DEF at2
<1>18. /\ \A t \in Sector, d \in Entry : file'[t][d] # Junk => at2[file'[t][d]] = <<t, d>>
       /\ \A t \in DOMAIN mem'.cache, d \in Entry : at2[mem'.cache[t].keys[d]] = <<t, d>>
  <2>1. \A t \in Sector, d \in Entry : file'[t][d] # Junk => at2[file'[t][d]] = <<t, d>>
    BY <1>1, <1>16, <1>17 DEF Quiet
  <2>2. ASSUME NEW t \in DOMAIN mem'.cache, NEW d \in Entry PROVE at2[mem'.cache[t].keys[d]] = <<t, d>>
    <3>1. CASE t \in DOMAIN mem.cache /\ mem'.cache[t].keys = mem.cache[t].keys
      BY <1>16, <1>17, <3>1
    <3>2. CASE t = s /\ mem'.cache[t].keys = [old EXCEPT ![e] = fresh]
      <4>1. mem'.cache[t].keys[d] = IF d = e THEN fresh ELSE old[d]
        BY <1>14, <3>2
      <4>2. at2[old[d]] = <<s, d>>
        BY <1>13, <1>16
      <4> QED
        BY <1>16, <3>2, <4>1, <4>2
    <3> QED
      BY <1>6, <3>1, <3>2
  <2> QED
    BY <2>1, <2>2
<1>19. PlaceInv'
  BY <1>16, <1>18 DEF PlaceInv, Placed
<1>20. CacheLive'
  <2>1. fresh # Junk /\ fresh \notin dead
    BY <1>9, <1>10 DEF ErasureInv, CacheOk, DrawnKeys, Junk
  <2>2. ASSUME NEW t \in DOMAIN mem'.cache, NEW d \in Entry
        PROVE  mem'.cache[t].keys[d] # Junk /\ mem'.cache[t].keys[d] \notin dead
    <3>1. CASE t \in DOMAIN mem.cache /\ mem'.cache[t].keys = mem.cache[t].keys
      BY <3>1 DEF ErasureInv, CacheOk, CacheLive
    <3>2. CASE t = s /\ mem'.cache[t].keys = [old EXCEPT ![e] = fresh]
      BY <1>13, <1>14, <2>1, <3>2
    <3> QED
      BY <1>6, <3>1, <3>2
  <2> QED
    BY <1>7, <2>2 DEF CacheLive
<1>21. CacheOk'
  BY <1>15, <1>19, <1>20 DEF CacheOk
<1> QED
  BY <1>1, <1>9, <1>21, MediumQuiet, DeviceAtRest DEF ErasureInv

-----------------------------------------------------------------------------
(* Into an operation, into the constructor, and the crash.                 *)

\* The keys of the sectors outside the journal have been drawn.
LEMMA HomeKeys ==
  ASSUME OneTop, MediumOk
  PROVE  TopOf(home).key \in Key /\ BotOf(home) \in Key
<1>1. \A a \in Addr : home[a] \in Written
  BY DEF Written, Sectors
<1>2. TopAt(0)[1] = "top" /\ BotAt[1] = "bottom" /\ TopAt(0) \in Addr /\ BotAt \in Addr
  BY Places DEF TopAt, BotAt
<1>3. LinkOf(home[TopAt(0)], <<home[TopAt(0)].k, TopOf(home).key>>)
  BY <1>2 DEF MediumOk, KindsOk, LinkOf, TopOf
<1>4. LinkOf(home[BotAt], <<home[BotAt].k, BotOf(home)>>)
  BY <1>2 DEF MediumOk, KindsOk, LinkOf, BotOf
<1>5. <<home[TopAt(0)].k, TopOf(home).key>> \in Links /\ <<home[BotAt].k, BotOf(home)>> \in Links
  BY <1>1, <1>2, <1>3, <1>4, Wrapped DEF MediumOk, Recorded, Links
<1> QED
  BY <1>5 DEF MediumOk, DrawnMedium

\* The file keys are not dead when the device is in use.
LEMMA LiveInUse ==
  ASSUME MediumInv, InUse
  PROVE  \A s \in Sector : Live(file, dead, s)
BY DEF MediumInv

\* A step of the memory after which all durable keys are live, and which draws nothing
\* for the cache.
LEMMA QuietKeeps ==
  ASSUME IInv, ErasureInv, Ledger, Quiet, CacheKept, fresh' \in Nat, fresh' >= fresh,
         pc' \notin {"idle", "closing"}, pc' \in {"clear", "finish"} => InUse,
         \A s \in Sector : Live(file, dead, s),
         pc' \in {"clear", "none", "m_slot", "m_ctl"} => SealedNow(home, tpm),
         AtMaster', AtJournal', AtRotation', AtRefill'
  PROVE  ErasureInv'
<1>1. MediumOk' /\ CacheOk'
  BY MediumQuiet, CacheSteady DEF ErasureInv, IInv, Quiet
<1>2. dead' = dead /\ file' = file /\ InUse' = InUse
  BY FileKeysKept DEF Quiet, InUse
<1>3. AtSealed'
  BY SealedQuiet DEF AtSealed, ErasureInv, MediumOk
<1>4. AtOnly' /\ AtLive'
  BY <1>2 DEF AtOnly, AtLive
<1> QED
  BY <1>1, <1>3, <1>4 DEF ErasureInv, DeviceInv

LEMMA CrashKeeps ==
  ASSUME OneTop, IInv, ErasureInv, Ledger, Crash
  PROVE  ErasureInv'
<1>1. Quiet /\ fresh' = fresh /\ pc' = "down" /\ DOMAIN mem'.cache = {}
  BY Blank DEF Crash, Quiet, IInv
<1>2. fresh' \in Nat /\ fresh' >= fresh /\ CacheKept
  BY <1>1 DEF IInv, FreshInv, CacheKept
<1>3. DeviceInv'
  BY <1>1 DEF DeviceInv, AtSealed, AtOnly, AtMaster, AtJournal, AtRotation, AtRefill, AtLive
<1> QED
  BY <1>1, <1>2, <1>3, MediumQuiet, CacheSteady DEF ErasureInv, IInv, Quiet

LEMMA PersistUnlinkKeeps ==
  ASSUME OneTop, IInv, ErasureInv, Ledger, NEW s \in Sector, PersistUnlink(s)
  PROVE  ErasureInv'
<1>1. Quiet /\ pc \in {"idle", "closing"} /\ s \in DOMAIN mem.cache /\ MemShape(mem)
  BY DEF PersistUnlink, Quiet, IInv, Shape
<1>2. \A t \in Sector : Live(file, dead, t)
  BY <1>1 DEF ErasureInv, DeviceInv, AtLive
<1>3. fresh \in Nat /\ fresh \notin Key /\ \A n \in Nat : n + 1 \in Nat /\ n + 1 >= n /\ n + 2 \in Nat /\ n + 2 >= n
  BY DEF IInv, FreshInv, Key
<1>4. Links' = Links /\ Locks' = Locks /\ files' = files /\ slot' = slot /\ home' = home /\ tpm' = tpm
  BY <1>1, QuietHistory DEF ErasureInv, MediumOk, Quiet
<1>5. CASE mem.top[0].size + 2 * Depth > Capacity
  <2>1. mem' = [mem EXCEPT !.newroot = fresh] /\ fresh' = fresh + 1 /\ pc' = "rot_ctl"
    BY <1>5 DEF PersistUnlink
  <2>2. mem'.newroot = fresh /\ mem'.cache = mem.cache
    BY <1>1, <2>1, SetKey DEF SameBut
  <2>3. OnlyNew(files, file, slot[4], fresh, 0)
    BY <1>3 DEF ErasureInv, MediumOk, DrawnMedium, OnlyNew
  <2>4. AtRotation'
    BY <1>1, <1>4, <2>1, <2>2, <2>3 DEF AtRotation, Quiet
  <2>5. AtMaster' /\ AtJournal' /\ AtRefill' /\ CacheKept
    BY <2>1, <2>2 DEF AtMaster, AtJournal, AtRefill, CacheKept
  <2> QED
    BY <1>1, <1>2, <1>3, <2>1, <2>4, <2>5, QuietKeeps
<1>6. CASE ~(mem.top[0].size + 2 * Depth > Capacity)
  <2>1. mem' = Punctured(mem, s) /\ fresh' = fresh + 2 /\ pc' = "jnl"
    BY <1>6 DEF PersistUnlink
  <2>2. mem'.pk = fresh /\ mem'.top[0].key = fresh + 1
    BY <1>1, <2>1 DEF MemShape, Punctured
  <2>3. /\ DOMAIN mem'.cache = DOMAIN mem.cache /\ mem'.cache[s].keys = mem.cache[s].keys
        /\ \A t \in DOMAIN mem.cache : t # s => mem'.cache[t] = mem.cache[t]
    <3>1. /\ mem'.cur = s
          /\ mem'.top[0].ctr = mem.top[0].ctr + 1
          /\ mem'.pprf = [root |-> mem.pprf.root, punct |-> mem.pprf.punct \cup {mem.cache[s].tag}]
          /\ DOMAIN mem'.cache = DOMAIN mem.cache
          /\ mem'.cache[s].tag = NextTag(mem) /\ mem'.cache[s].keys = mem.cache[s].keys
          /\ \A t \in DOMAIN mem.cache : t # s => mem'.cache[t] = mem.cache[t]
          /\ SameBut(mem, mem', {"cache", "cur", "pprf", "top", "pk"})
          /\ MemShape(mem')
      BY <1>1, <2>1, PuncturedMemory
    <3> QED
      BY <3>1
  <2>4. CacheKept
    BY <2>3 DEF CacheKept
  <2>5. /\ fresh \in Key' /\ fresh + 1 \in Key' /\ fresh \notin Key /\ fresh + 1 \notin Key
        /\ fresh # fresh + 1
    <3>1. \A n \in Nat : n \in 0 .. (n + 2) - 1 /\ n + 1 \in 0 .. (n + 2) - 1
                         /\ n \notin 0 .. n - 1 /\ n + 1 \notin 0 .. n - 1 /\ n # n + 1
      OBVIOUS
    <3> QED
      BY <1>3, <2>1, <3>1 DEF Key
  <2>6. tpm \in Key /\ TopOf(home).key \in Key /\ BotOf(home) \in Key
    BY HomeKeys DEF IInv, FreshInv, ErasureInv
  <2>7. Below(Links, Locks, fresh + 1, fresh, mem'.pprf)
    BY <2>5 DEF ErasureInv, MediumOk, DrawnMedium, Below
  <2>8. AtJournal'
    BY <1>4, <2>2, <2>5, <2>6, <2>7 DEF AtJournal
  <2>9. AtMaster' /\ AtRotation' /\ AtRefill'
    BY <2>1 DEF AtMaster, AtRotation, AtRefill
  <2> QED
    BY <1>1, <1>2, <1>3, <2>1, <2>4, <2>8, <2>9, QuietKeeps
<1> QED
  BY <1>5, <1>6

LEMMA OpenCleanKeeps ==
  ASSUME OneTop, IInv, ErasureInv, Ledger, OpenClean
  PROVE  ErasureInv'
<1>1. Quiet /\ fresh' = fresh /\ pc' = "finish" /\ pc = "down" /\ ctl.type = "NONE"
  BY DEF OpenClean, Quiet
<1>2. InUse
  BY <1>1 DEF IInv, MemInv, Down
<1>3. mem' = ReadPprf(ReadFkt(Booted))
  BY <1>2 DEF OpenClean
<1>4. DOMAIN mem'.cache = {}
  BY <1>1, <1>3, BootedReads
<1>5. CacheKept /\ fresh' \in Nat /\ fresh' >= fresh
  BY <1>1, <1>4 DEF CacheKept, IInv, FreshInv
<1>6. \A s \in Sector : Live(file, dead, s)
  BY <1>2, LiveInUse DEF ErasureInv, MediumOk
<1>7. AtMaster' /\ AtJournal' /\ AtRotation' /\ AtRefill'
  BY <1>1 DEF AtMaster, AtJournal, AtRotation, AtRefill
<1> QED
  BY <1>1, <1>2, <1>5, <1>6, <1>7, QuietKeeps

LEMMA RecoverPunctureKeeps ==
  ASSUME OneTop, IInv, ErasureInv, Ledger, RecoverPuncture
  PROVE  ErasureInv'
<1>1. /\ Quiet /\ fresh' = fresh /\ pc' = "replay" /\ pc = "down" /\ ctl.type = "PPRF_PUNCT"
      /\ mem' = ReadPprf(ReadFkt(Booted))
  BY DEF RecoverPuncture, Quiet
<1>2. InUse
  BY <1>1 DEF IInv, DiskInv
<1>4. DOMAIN mem'.cache = {}
  BY <1>1, BootedReads
<1>5. CacheKept /\ fresh' \in Nat /\ fresh' >= fresh
  BY <1>1, <1>4 DEF CacheKept, IInv, FreshInv
<1>6. \A s \in Sector : Live(file, dead, s)
  BY <1>2, LiveInUse DEF ErasureInv, MediumOk
<1>7. AtMaster' /\ AtJournal' /\ AtRotation' /\ AtRefill'
  BY <1>1 DEF AtMaster, AtJournal, AtRotation, AtRefill
<1> QED
  BY <1>1, <1>2, <1>5, <1>6, <1>7, QuietKeeps

LEMMA RecoverMasterKeeps ==
  ASSUME OneTop, IInv, ErasureInv, Ledger, RecoverMaster
  PROVE  ErasureInv'
<1>1. Quiet /\ fresh' = fresh /\ pc' \in {"m_top", "clear"} /\ pc = "down" /\ ctl.type = "MASTER_ROT"
  BY DEF RecoverMaster, Quiet
<1>2. InUse /\ MemShape(Booted) /\ DOMAIN Booted.cache = {}
  BY <1>1, OpensDown DEF IInv, MemInv, Down
<1>3. DOMAIN mem'.cache = {}
  <2>1. CASE ctl.k = tpm
    <3>1. mem' = [Booted EXCEPT !.newmk = ctl.key]
      BY <2>1 DEF RecoverMaster
    <3> QED
      BY <1>2, <3>1, SetKey DEF SameBut
  <2>2. CASE ctl.k # tpm
    BY <1>2, <2>2 DEF RecoverMaster
  <2> QED
    BY <2>1, <2>2
<1>4. pc' = "clear" => SealedNow(home, tpm)
  <2>1. pc' = "clear" => ctl.k # tpm
    BY DEF RecoverMaster
  <2>2. ctl.k # tpm => RestartHome = home /\ RestartMaster = tpm
    BY <1>1, RestartPlain
  <2> QED
    BY <1>1, <2>1, <2>2 DEF ErasureInv, MediumOk, MediumInv
<1>5. CacheKept /\ fresh' \in Nat /\ fresh' >= fresh
  BY <1>1, <1>3 DEF CacheKept, IInv, FreshInv
<1>6. \A s \in Sector : Live(file, dead, s)
  BY <1>2, LiveInUse DEF ErasureInv, MediumOk
<1>7. AtMaster' /\ AtJournal' /\ AtRotation' /\ AtRefill'
  BY <1>1 DEF AtMaster, AtJournal, AtRotation, AtRefill
<1> QED
  BY <1>1, <1>2, <1>4, <1>5, <1>6, <1>7, QuietKeeps

\* The sectors already under the new PPRF key are those the scan passes over.
LEMMA RecoverPprfRotationKeeps ==
  ASSUME OneTop, IInv, IInv', ErasureInv, Ledger, RecoverPprfRotation
  PROVE  ErasureInv'
<1>1. /\ Quiet /\ fresh' = fresh /\ pc' \in {"rewrite", "fkt_top"} /\ pc = "down"
      /\ ctl.type = "PPRF_ROT" /\ ret' = "clear"
  BY DEF RecoverPprfRotation, EnterRewrite, Quiet
<1>2. InUse /\ RotationMedium
  BY <1>1 DEF IInv, DiskInv, ErasureInv, MediumOk, MediumInv
<1>3. Rotating' /\ (pc' = "rewrite" => Rewriting')
  BY <1>1 DEF IInv, MemInv, Rewriting, Refilling
<1>4. mem'.newroot = ctl.key
  BY <1>1, <1>3 DEF Rotating, Quiet
<1>5. Links' = Links /\ Locks' = Locks /\ files' = files /\ slot' = slot /\ home' = home /\ file' = file
  BY <1>1, QuietHistory DEF ErasureInv, MediumOk, Quiet
<1>6. ASSUME pc' = "rewrite" PROVE OnlyNew(files, file, slot[4], ctl.key, idx')
  <2>1. idx' \in Sector /\ \A s \in Sector : s >= idx' => RootOf(home, s) # ctl.key
    BY <1>3, <1>4, <1>5, <1>6, <1>1 DEF Rewriting
  <2>2. \A s \in Sector : Rewritten(s, ctl.key) => s < idx'
    <3>1. \A s, t \in Sector : s < t \/ s >= t
      BY Constants
    <3> QED
      BY <2>1, <3>1 DEF Rewritten
  <2> QED
    BY <1>2, <2>2 DEF RotationMedium, OnlyNew
<1>7. OnlyNew(files, file, slot[4], ctl.key, KeyTableLen)
  BY <1>2, Constants DEF RotationMedium, OnlyNew
<1>8. AtRotation'
  BY <1>1, <1>4, <1>5, <1>6, <1>7 DEF AtRotation
<1>9. DOMAIN mem'.cache = {}
  <2>1. mem' = [ReadPprf(ReadFkt(Booted)) EXCEPT !.newroot = IF ctl.k = tpm THEN ctl.key ELSE Junk]
    BY DEF RecoverPprfRotation, EnterRewrite
  <2>2. MemShape(ReadPprf(ReadFkt(Booted))) /\ DOMAIN ReadPprf(ReadFkt(Booted)).cache = {}
    BY <1>1, BootedReads
  <2> QED
    BY <2>1, <2>2, SetKey DEF SameBut
<1>10. CacheKept /\ fresh' \in Nat /\ fresh' >= fresh
  BY <1>1, <1>9 DEF CacheKept, IInv, FreshInv
<1>11. \A s \in Sector : Live(file, dead, s)
  BY <1>2, LiveInUse DEF ErasureInv, MediumOk
<1>12. AtMaster' /\ AtJournal' /\ AtRefill'
  BY <1>1 DEF AtMaster, AtJournal, AtRefill
<1> QED
  BY <1>1, <1>8, <1>10, <1>11, <1>12, QuietKeeps

LEMMA RecoverPprfInitKeeps ==
  ASSUME OneTop, IInv, ErasureInv, Ledger, RecoverPprfInit
  PROVE  ErasureInv'
<1> DEFINE r == ReadFkt(Booted)
           m == [r EXCEPT !.newroot = fresh]
<1>1. /\ Quiet /\ fresh' = fresh + 1 /\ EnterRewrite(m, TRUE) /\ pc = "down"
      /\ ctl.type = "PPRF_INIT"
  BY DEF RecoverPprfInit, Quiet
<1>2. MemShape(r) /\ DOMAIN r.cache = {}
  BY <1>1, OpensDown, ReadFktMemory DEF SameBut
<1> HIDE DEF r
<1>3. m.newroot = fresh /\ DOMAIN m.cache = {}
  BY <1>2, SetKey DEF SameBut
<1> HIDE DEF m
<1>4. mem' = m /\ pc' = "rewrite" /\ idx' = 0
  <2>1. 0 \in Sector /\ Unrotated(m, TRUE) = Sector /\ \A x \in Sector : x <= 0 => x = 0
    BY Constants DEF Unrotated
  <2>2. mem' = m /\ pc' = "rewrite" /\ idx' = FirstUnrotated(m, TRUE)
    BY <1>1, <2>1 DEF EnterRewrite
  <2>3. FirstUnrotated(m, TRUE) \in Sector /\ FirstUnrotated(m, TRUE) <= 0
    BY <2>1, FirstIsLeast
  <2> QED
    BY <2>1, <2>2, <2>3
<1>5. fresh \notin Key /\ fresh' \in Nat /\ fresh' >= fresh /\ FreshInv
  BY <1>1 DEF IInv, FreshInv, Key
<1>6. OnlyNew(files, file, slot[4], fresh, 0)
  BY <1>5 DEF ErasureInv, MediumOk, DrawnMedium, OnlyNew
<1>7. files' = files /\ file' = file /\ slot' = slot
  BY <1>1, QuietHistory DEF ErasureInv, MediumOk, Quiet
<1>8. AtRotation'
  BY <1>3, <1>4, <1>6, <1>7 DEF AtRotation
<1>9. AtLive'
  <2>1. \A s \in Sector : ~(s < 0)
    BY Constants
  <2> QED
    BY <1>4, <2>1 DEF AtLive
<1>10. AtSealed' /\ AtOnly' /\ AtMaster' /\ AtJournal' /\ AtRefill'
  BY <1>4 DEF AtSealed, AtOnly, AtMaster, AtJournal, AtRefill
<1>11. CacheKept
  BY <1>3, <1>4 DEF CacheKept
<1>12. MediumOk' /\ CacheOk'
  BY <1>1, <1>5, <1>7, <1>11, MediumQuiet, CacheSteady DEF ErasureInv
<1> QED
  BY <1>8, <1>9, <1>10, <1>12 DEF ErasureInv, DeviceInv

-----------------------------------------------------------------------------
(* rotate_master, and the ends of the constructor and the destructor.      *)

\* Nothing is written but what is in the journal, and headers.
NoNews ==
  /\ Links' \subseteq Links /\ Locks' \subseteq Locks /\ files' \subseteq files

LEMMA Unheard ==
  ASSUME OneTop, MediumOk, KindsOk', Ledger, NEW n, n.at = HeaderAt,
         \A a \in Addr : \/ \E b \in Addr : home'[a] = home[b]
                         \/ \E i \in CommittedSlots(ctl) : home'[a] = slot[i]
                         \/ home'[a] = n,
         slot' = slot,
         CtlLinks(ctl') \subseteq CtlLinks(ctl), CtlLocks(ctl') \subseteq CtlLocks(ctl),
         ctl'.type = "PPRF_PUNCT" => ctl.type = "PPRF_PUNCT",
         FreshInv, fresh' \in Nat, fresh' >= fresh
  PROVE  NoNews /\ Recorded' /\ DrawnMedium'
<1>1. /\ \A x \in Links' : x \in Links \/ LinkOf(n, x) \/ x \in CtlLinks(ctl')
      /\ \A x \in Locks' : x \in Locks \/ LockOf(n, x) \/ x \in CtlLocks(ctl')
      /\ \A x \in files' : \/ x \in files \/ FileOf(n, x)
                           \/ ctl'.type = "PPRF_PUNCT" /\ FileOf(slot'[4], x)
  BY Grown DEF MediumOk
<1>2. n.at[1] \notin {"top", "bottom", "pprf", "table"}
  BY DEF HeaderAt
<1>3. CtlLinks(ctl) \subseteq Links /\ CtlLocks(ctl) \subseteq Locks
  BY Wrapped DEF Links, Locks
<1>4. ASSUME ctl.type = "PPRF_PUNCT", NEW x, FileOf(slot[4], x) PROVE x \in files
  <2>1. 4 \in CommittedSlots(ctl)
    BY <1>4, Committed, Constants
  <2>2. slot[4] \in Written
    BY <2>1 DEF Written, Sectors
  <2> QED
    BY <1>4, <2>2, Wrapped DEF MediumOk, Recorded
<1>5. NoNews
  BY <1>1, <1>2, <1>3, <1>4 DEF NoNews, LinkOf, LockOf, FileOf
<1>6. Key \subseteq Key'
  BY Widen
<1>7. DrawnMedium'
  BY <1>5, <1>6 DEF NoNews, MediumOk, DrawnMedium
<1> QED
  BY <1>5, <1>7, RecordedNext

\* A step that leaves the file keys to what they were.
LEMMA SealedUnheard ==
  ASSUME NEW h, NEW k, SealedNow(h, k), NoNews, dead' = dead, file' = file, slot'[4] = slot[4]
  PROVE  Sealed(Links', Locks', files', file', slot'[4], dead', h, k)
BY SealedKept DEF SealedNow, NoNews

LEMMA OnlyUnheard ==
  ASSUME NEW k, NEW t, Only(Links, Locks, k, t), NoNews
  PROVE  Only(Links', Locks', k, t)
BY OnlyKept DEF NoNews

LEMMA RotationUnheard ==
  ASSUME RotationMedium, files' \subseteq files, file' = file, slot'[4] = slot[4],
         ctl'.key = ctl.key, \A s \in Sector : home'[TableAt(s)] = home[TableAt(s)]
  PROVE  RotationMedium'
BY DEF RotationMedium, Rewritten, RootOf, TagOf

\* The journal is empty after the step: all that matters is what is on the disk.
LEMMA MediumAtNone ==
  ASSUME ctl'.type \notin {"MASTER_ROT", "PPRF_PUNCT", "PPRF_ROT"},
         ctl'.type = "NONE" => Sealed(Links', Locks', files', file', slot'[4], dead', home', tpm'),
         InUse' => \A s \in Sector : Live(file', dead', s)
  PROVE  MediumInv'
BY RestartPlainNext DEF MediumInv, SealedNow

\* Into the first step of rotate_master.
LEMMA IntoMaster ==
  ASSUME DrawnMedium, FreshInv, pc' = "m_slot", mem'.newmk = fresh,
         \A x \in Links' : x \in Links \/ x[1] # fresh,
         \A x \in Locks' : x \in Locks \/ x[1] # fresh,
         TopOf(home').key \in Key, BotOf(home') \in Key,
         Sealed(Links', Locks', files', file', slot'[4], dead', home', tpm'),
         \A s \in Sector : Live(file', dead', s)
  PROVE  DeviceInv'
<1>1. fresh \notin Key
  BY DEF FreshInv, Key
<1>2. Only(Links', Locks', fresh, TopOf(home').key)
  BY <1>1 DEF Only, DrawnMedium
<1>3. Separate(fresh, home')
  BY <1>1 DEF Separate
<1>4. AtSealed' /\ AtMaster' /\ AtLive'
  BY <1>2, <1>3 DEF AtSealed, AtMaster, AtLive, SealedNow
<1>5. AtOnly' /\ AtJournal' /\ AtRotation' /\ AtRefill'
  BY DEF AtOnly, AtJournal, AtRotation, AtRefill
<1> QED
  BY <1>4, <1>5 DEF DeviceInv

LEMMA Entered ==
  ASSUME NEW m, NEW r, MemShape(m), EnterMaster(m, r), IInv
  PROVE  /\ pc' = "m_slot" /\ mem'.newmk = fresh /\ mem'.cache = m.cache
         /\ fresh' \in Nat /\ fresh' >= fresh
BY SetKey DEF EnterMaster, IInv, FreshInv, SameBut

LEMMA MasterSlotKeeps ==
  ASSUME OneTop, IInv, ErasureInv, Ledger, MasterSlot
  PROVE  ErasureInv'
<1> DEFINE n == Enc(TopAt(0), mem.newmk, mem.top[0])
<1>1. MasterDrawn /\ idx = 0 /\ pc = "m_slot"
  BY DEF IInv, MemInv, MasterSlot, MasterDrawn
<1>2. /\ slot' = [slot EXCEPT ![1] = n]
      /\ pc' = "m_ctl" /\ UNCHANGED <<home, ctl, tpm, mem, ret, fresh, file>>
  BY <1>1 DEF MasterSlot, OneTop
<1>3. slot'[1] = n /\ \A i \in Slot : i # 1 => slot'[i] = slot[i]
  <2>1. slot = [i \in Slot |-> slot[i]] /\ 1 \in Slot
    BY Constants DEF IInv, Shape
  <2> QED
    BY <1>2, <2>1
<1>4. n.at = TopAt(0) /\ n.k = mem.newmk /\ n.body.key = mem.top[0].key
  BY DEF Enc
<1> HIDE DEF n
<1>5. mem.top[0] = TopOf(home) /\ mem.newmk # tpm /\ ctl.type \in {"NONE", "PPRF_ROT", "PPRF_INIT"}
  BY <1>1 DEF MasterDrawn, Whole, WholeIn, KeysIn
<1>6. slot'[2] = slot[2] /\ slot'[3] = slot[3] /\ slot'[4] = slot[4] /\ slot'[5] = slot[5]
  BY <1>3, Constants
<1>7. KindsOk'
  BY <1>2, <1>3, <1>4, <1>6 DEF ErasureInv, MediumOk, KindsOk
<1>8. /\ \A x \in Links' : x \in Links \/ LinkOf(n, x) \/ x \in CtlLinks(ctl')
      /\ \A x \in Locks' : x \in Locks \/ LockOf(n, x) \/ x \in CtlLocks(ctl')
      /\ \A x \in files' : \/ x \in files \/ FileOf(n, x)
                           \/ ctl'.type = "PPRF_PUNCT" /\ FileOf(slot'[4], x)
  <2>1. \A i \in Slot : (\E j \in Slot : slot'[i] = slot[j]) \/ slot'[i] = n
    BY <1>3
  <2>2. \A a \in Addr : \E b \in Addr : home'[a] = home[b]
    BY <1>2
  <2> QED
    BY <1>7, <2>1, <2>2, Grown DEF ErasureInv, MediumOk
<1>9. CtlLinks(ctl) \subseteq Links /\ CtlLocks(ctl) \subseteq Locks
  BY Wrapped DEF Links, Locks
<1>10. /\ \A x \in Links' : x \in Links \/ x = <<mem.newmk, TopOf(home).key>>
       /\ Locks' \subseteq Locks /\ files' \subseteq files
  BY <1>2, <1>4, <1>5, <1>8, <1>9, Apart, Kinds DEF LinkOf, LockOf, FileOf, TopAt
<1>11. dead' = dead /\ CacheOk'
  <2>1. CacheKept /\ fresh' \in Nat /\ fresh' >= fresh
    BY <1>2 DEF CacheKept, IInv, FreshInv
  <2> QED
    BY <1>2, <2>1, CacheSteady, FileKeysKept DEF IInv, ErasureInv
<1>12. SealedNow(home, tpm) /\ Only(Links, Locks, mem.newmk, TopOf(home).key) /\ Separate(mem.newmk, home)
  BY <1>1 DEF ErasureInv, DeviceInv, AtSealed, AtMaster
<1>13. Sealed(Links', Locks', files', file', slot'[4], dead', home, tpm)
  <2>1. \A x \in Links' : x \in Links \/ x[1] \notin {TopOf(home).key, BotOf(home)}
    BY <1>10, <1>12 DEF Separate
  <2> QED
    BY <1>2, <1>6, <1>10, <1>11, <1>12, <2>1, SealedKept DEF SealedNow
<1>14. Only(Links', Locks', mem.newmk, TopOf(home).key)
  BY <1>10, <1>12, OnlyKept
<1>15. DrawnMedium'
  <2>1. mem.newmk \in Key /\ TopOf(home).key \in Key /\ Key' = Key
    BY <1>2, HomeKeys DEF IInv, FreshInv, ErasureInv, Key
  <2> QED
    BY <1>6, <1>10, <2>1 DEF ErasureInv, MediumOk, DrawnMedium
<1>16. MediumInv'
  <2>1. RestartHome' = home' /\ RestartMaster' = tpm'
    BY <1>2, <1>5, RestartPlainNext
  <2>2. RotationMedium => RotationMedium'
    BY <1>2, <1>6, <1>10 DEF RotationMedium, Rewritten
  <2> QED
    BY <1>2, <1>5, <1>11, <1>13, <2>1, <2>2 DEF ErasureInv, MediumOk, MediumInv, SealedNow, InUse
<1>17. DeviceInv'
  <2>1. AtSealed' /\ AtMaster' /\ AtLive'
    BY <1>1, <1>2, <1>11, <1>12, <1>13, <1>14
       DEF AtSealed, AtMaster, SealedNow, AtLive, ErasureInv, DeviceInv
  <2>2. AtOnly' /\ AtJournal' /\ AtRotation' /\ AtRefill'
    BY <1>2 DEF AtOnly, AtJournal, AtRotation, AtRefill
  <2> QED
    BY <2>1, <2>2 DEF DeviceInv
<1> QED
  BY <1>7, <1>11, <1>15, <1>16, <1>17, RecordedNext DEF ErasureInv, MediumOk

LEMMA MasterCtlKeeps ==
  ASSUME OneTop, IInv, ErasureInv, Ledger, MasterCtl
  PROVE  ErasureInv'
<1>1. MasterDrawn /\ pc = "m_ctl"
  BY DEF IInv, MemInv, MasterCtl
<1>2. /\ ctl'.type = "MASTER_ROT" /\ ctl'.k = mem.mk /\ ctl'.key = mem.newmk
      /\ pc' = "m_top" /\ UNCHANGED <<home, slot, tpm, mem, ret, fresh, file>>
  BY DEF MasterCtl
<1>3. /\ mem.mk = tpm /\ mem.newmk # tpm /\ mem.top[0] = TopOf(home)
      /\ slot[1] = Enc(TopAt(0), mem.newmk, TopOf(home))
      /\ tpm \in Key /\ mem.newmk \in Key
  BY <1>1 DEF MasterDrawn, Whole, WholeIn, KeysIn, IInv, FreshInv
<1>4. KindsOk'
  BY <1>2 DEF ErasureInv, MediumOk, KindsOk
<1>5. CtlLinks(ctl') = {<<tpm, mem.newmk>>} /\ CtlLocks(ctl') = {}
  BY <1>2, <1>3 DEF CtlLinks, CtlLocks
<1>6. /\ \A x \in Links' : x \in Links \/ x = <<tpm, mem.newmk>>
      /\ Locks' \subseteq Locks /\ files' \subseteq files
  <2>1. HeaderAt \in Addr /\ home[HeaderAt].at[1] = "header"
    BY Places DEF ErasureInv, MediumOk, KindsOk, HeaderAt
  <2> DEFINE n == home[HeaderAt]
  <2>2. \A a \in Addr : \E b \in Addr : home'[a] = home[b]
    BY <1>2
  <2>3. \A i \in Slot : \E j \in Slot : slot'[i] = slot[j]
    BY <1>2
  <2>4. /\ \A x \in Links' : x \in Links \/ LinkOf(n, x) \/ x \in CtlLinks(ctl')
        /\ \A x \in Locks' : x \in Locks \/ LockOf(n, x) \/ x \in CtlLocks(ctl')
        /\ \A x \in files' : \/ x \in files \/ FileOf(n, x)
                             \/ ctl'.type = "PPRF_PUNCT" /\ FileOf(slot'[4], x)
    BY <1>4, <2>2, <2>3, Grown DEF ErasureInv, MediumOk
  <2> QED
    BY <1>2, <1>5, <2>1, <2>4 DEF LinkOf, LockOf, FileOf
<1>7. dead' = dead /\ CacheOk'
  <2>1. CacheKept /\ fresh' \in Nat /\ fresh' >= fresh
    BY <1>2 DEF CacheKept, IInv, FreshInv
  <2> QED
    BY <1>2, <2>1, CacheSteady, FileKeysKept DEF IInv, ErasureInv
<1>8. SealedNow(home, tpm) /\ Only(Links, Locks, mem.newmk, TopOf(home).key) /\ Separate(mem.newmk, home)
  BY <1>1 DEF ErasureInv, DeviceInv, AtSealed, AtMaster
<1>9. Sealed(Links', Locks', files', file', slot'[4], dead', home, mem.newmk)
  <2>1. \A x \in Links' : x \in Links \/ x[1] \notin {TopOf(home).key, BotOf(home)}
    BY <1>6, <1>8 DEF SealedNow, Sealed, Ways, Separate
  <2>2. Sealed(Links', Locks', files', file', slot'[4], dead', home, tpm)
    BY <1>2, <1>6, <1>7, <1>8, <2>1, SealedKept DEF SealedNow
  <2> QED
    BY <1>8, <2>2 DEF Sealed, Ways
<1>10. Only(Links', Locks', mem.newmk, TopOf(home).key)
  BY <1>3, <1>6, <1>8, OnlyKept
<1> DEFINE h == RestartHome'
<1>11. RestartMaster' = mem.newmk /\ h = [a \in Addr |-> IF a = TopAt(0) THEN slot[1] ELSE home[a]]
  BY <1>2, <1>3, RestartPendingNext
<1>12. SameKeys(home, h)
  <2>1. h[TopAt(0)] = slot[1] /\ h[BotAt] = home[BotAt] /\ h[PprfAt] = home[PprfAt]
        /\ \A s \in Sector : h[TableAt(s)] = home[TableAt(s)]
    BY <1>11, Places, Apart
  <2>2. h[TopAt(0)].body = TopOf(home)
    BY <1>3, <2>1 DEF Enc
  <2> HIDE DEF h
  <2> QED
    BY <2>1, <2>2 DEF SameKeys, TopOf, BotOf, PprfOf, TagOf
<1> HIDE DEF h
<1>13. Sealed(Links', Locks', files', file', slot'[4], dead', h, mem.newmk)
  BY <1>9, <1>12, SealedSame
<1>14. Only(Links', Locks', ctl'.key, TopOf(h).key) /\ Separate(ctl'.key, h)
  BY <1>2, <1>8, <1>10, <1>12 DEF SameKeys, Separate
<1>15. MediumInv'
  BY <1>2, <1>7, <1>11, <1>13, <1>14 DEF MediumInv, SealedNow, h, InUse, ErasureInv, MediumOk
<1>16. DrawnMedium'
  <2>1. Key' = Key
    BY <1>2 DEF Key
  <2> QED
    BY <1>2, <1>3, <1>6, <2>1 DEF ErasureInv, MediumOk, DrawnMedium
<1>17. DeviceInv'
  <2>1. AtLive'
    BY <1>1, <1>2, <1>7 DEF AtLive, ErasureInv, DeviceInv
  <2>2. AtSealed' /\ AtOnly' /\ AtMaster' /\ AtJournal' /\ AtRotation' /\ AtRefill'
    BY <1>2 DEF AtSealed, AtOnly, AtMaster, AtJournal, AtRotation, AtRefill
  <2> QED
    BY <2>1, <2>2 DEF DeviceInv
<1> QED
  BY <1>4, <1>7, <1>15, <1>16, <1>17, RecordedNext DEF ErasureInv, MediumOk

\* Steps that are neither at rest nor in one of the operations followed above.
LEMMA DeviceElsewhere ==
  ASSUME pc' \in {"m_top", "m_tpm", "m_none", "replay"}, \A s \in Sector : Live(file', dead', s)
  PROVE  DeviceInv'
BY DEF DeviceInv, AtSealed, AtOnly, AtMaster, AtJournal, AtRotation, AtRefill, AtLive

\* A step of rotate_master, of the constructor or of the destructor: h is the header it
\* writes, or the one there is.
LEMMA Silent ==
  ASSUME OneTop, IInv, ErasureInv, Ledger, UNCHANGED <<slot, file>>, CacheKept,
         NEW h, h.at = HeaderAt,
         \A a \in Addr : \/ \E b \in Addr : home'[a] = home[b]
                         \/ \E i \in CommittedSlots(ctl) : home'[a] = slot[i]
                         \/ home'[a] = h,
         \A a \in Addr : home'[a].at = a,
         CtlLinks(ctl') \subseteq CtlLinks(ctl), CtlLocks(ctl') \subseteq CtlLocks(ctl),
         ctl'.type = "PPRF_PUNCT" => ctl.type = "PPRF_PUNCT",
         fresh' \in Nat, fresh' >= fresh
  PROVE  NoNews /\ Recorded' /\ DrawnMedium' /\ KindsOk' /\ CacheOk' /\ dead' = dead
<1>1. KindsOk'
  BY DEF ErasureInv, MediumOk, KindsOk
<1>2. CacheOk' /\ dead' = dead
  BY CacheSteady, FileKeysKept DEF IInv, ErasureInv
<1> QED
  BY <1>1, <1>2, Unheard DEF IInv, ErasureInv

LEMMA HeaderThere ==
  ASSUME OneTop, ErasureInv
  PROVE  HeaderAt \in Addr /\ home[HeaderAt].at = HeaderAt /\ \A a \in Addr : home[a].at = a
BY Places DEF ErasureInv, MediumOk, KindsOk

LEMMA MasterTopKeeps ==
  ASSUME OneTop, IInv, ErasureInv, Ledger, MasterTop
  PROVE  ErasureInv'
<1>1. MasterLogged /\ idx = 0 /\ Shape /\ pc = "m_top"
  BY DEF IInv, MemInv, MasterTop, MasterLogged
<1>2. /\ home' = [home EXCEPT ![TopAt(0)] = slot[1]]
      /\ pc' = "m_tpm" /\ UNCHANGED <<ctl, slot, tpm, mem, ret, fresh, file>>
      /\ ctl.type = "MASTER_ROT" /\ ctl.k = tpm
  BY <1>1 DEF MasterTop, OneTop, MasterLogged
<1>3. /\ home'[TopAt(0)] = slot[1] /\ home'[HeaderAt] = home[HeaderAt]
      /\ \A a \in Addr : a # TopAt(0) => home'[a] = home[a]
  BY <1>1, <1>2, Places, Apart DEF Shape
<1>4. /\ RestartHome = [a \in Addr |-> IF a = TopAt(0) THEN slot[1] ELSE home[a]]
      /\ RestartHome' = [a \in Addr |-> IF a = TopAt(0) THEN slot[1] ELSE home'[a]]
      /\ RestartMaster' = RestartMaster
  BY <1>2, RestartPending, RestartPendingNext
<1>5. RestartHome' = RestartHome
  BY <1>3, <1>4
<1>6. slot[1].at = TopAt(0)
  <2>1. RestartHome[TopAt(0)].at = TopAt(0)
    BY <1>2 DEF IInv, DiskInv, Image, Chained
  <2> QED
    BY <1>4, <2>1, Places
<1>7. NoNews /\ Recorded' /\ DrawnMedium' /\ KindsOk' /\ CacheOk' /\ dead' = dead
  <2>1. 1 \in CommittedSlots(ctl)
    BY <1>2, Committed
  <2>2. fresh' \in Nat /\ fresh' >= fresh /\ CacheKept
    BY <1>2 DEF IInv, FreshInv, CacheKept
  <2>3. \A a \in Addr : home'[a].at = a
    BY <1>3, <1>6, HeaderThere
  <2>4. \A a \in Addr : \/ \E b \in Addr : home'[a] = home[b]
                        \/ \E i \in CommittedSlots(ctl) : home'[a] = slot[i]
                        \/ home'[a] = home[HeaderAt]
    BY <1>3, <2>1
  <2> QED
    BY <1>2, <2>2, <2>3, <2>4, HeaderThere, Silent
<1>8. MediumInv'
  <2>1. SealedNow(RestartHome, RestartMaster) /\ Only(Links, Locks, ctl.key, TopOf(RestartHome).key)
        /\ Separate(ctl.key, RestartHome) /\ (InUse => \A s \in Sector : Live(file, dead, s))
    BY <1>2 DEF ErasureInv, MediumOk, MediumInv
  <2>2. Sealed(Links', Locks', files', file', slot'[4], dead', RestartHome, RestartMaster)
    BY <1>2, <1>7, <2>1, SealedUnheard
  <2>3. Only(Links', Locks', ctl.key, TopOf(RestartHome).key)
    BY <1>7, <2>1, OnlyUnheard
  <2> QED
    BY <1>2, <1>3, <1>4, <1>5, <1>7, <2>1, <2>2, <2>3 DEF MediumInv, SealedNow, InUse
<1>9. DeviceInv'
  BY <1>1, <1>2, <1>7, DeviceElsewhere DEF ErasureInv, DeviceInv, AtLive
<1> QED
  BY <1>7, <1>8, <1>9 DEF ErasureInv, MediumOk

LEMMA MasterTpmKeeps ==
  ASSUME OneTop, IInv, ErasureInv, Ledger, MasterTpm
  PROVE  ErasureInv'
<1>1. MasterLogged /\ Shape /\ home[TopAt(0)] = slot[1] /\ pc = "m_tpm"
  BY DEF IInv, MemInv, MasterTpm, MasterLogged
<1>2. /\ ctl.type = "MASTER_ROT" /\ ctl.k = tpm /\ ctl.key = mem.newmk
      /\ tpm' = ctl.key /\ mem' = [mem EXCEPT !.mk = ctl.key]
      /\ pc' \in {"clear", "m_none"}
      /\ UNCHANGED <<home, ctl, slot, fresh, file>>
  BY <1>1 DEF MasterTpm, MasterLogged
<1>3. ctl.k # ctl.key
  BY <1>2 DEF IInv, DiskInv
<1>4. RestartHome = home /\ RestartMaster = ctl.key
  BY <1>1, <1>2, RestartPending DEF Shape
<1>5. RestartHome' = home /\ RestartMaster' = ctl.key
  BY <1>2, <1>3, RestartPlainNext
<1>6. mem'.cache = mem.cache
  BY <1>1, <1>2, SetKey DEF Shape, SameBut
<1>7. NoNews /\ Recorded' /\ DrawnMedium' /\ KindsOk' /\ CacheOk' /\ dead' = dead
  <2>1. fresh' \in Nat /\ fresh' >= fresh /\ CacheKept
    BY <1>2, <1>6 DEF IInv, FreshInv, CacheKept
  <2> QED
    BY <1>2, <2>1, HeaderThere, Silent
<1>8. /\ SealedNow(home, ctl.key) /\ Only(Links, Locks, ctl.key, TopOf(home).key)
      /\ Separate(ctl.key, home) /\ (InUse => \A s \in Sector : Live(file, dead, s))
  BY <1>2, <1>4 DEF ErasureInv, MediumOk, MediumInv
<1>9. Sealed(Links', Locks', files', file', slot'[4], dead', home, ctl.key)
  BY <1>2, <1>7, <1>8, SealedUnheard
<1>10. Only(Links', Locks', ctl.key, TopOf(home).key)
  BY <1>7, <1>8, OnlyUnheard
<1>11. MediumInv'
  BY <1>2, <1>5, <1>7, <1>8, <1>9, <1>10 DEF MediumInv, SealedNow, InUse
<1>12. DeviceInv'
  <2>1. AtSealed' /\ AtOnly'
    BY <1>2, <1>9, <1>10 DEF AtSealed, AtOnly, SealedNow
  <2>2. AtLive'
    BY <1>1, <1>2, <1>7 DEF ErasureInv, DeviceInv, AtLive
  <2>3. AtMaster' /\ AtJournal' /\ AtRotation' /\ AtRefill'
    BY <1>2 DEF AtMaster, AtJournal, AtRotation, AtRefill
  <2> QED
    BY <2>1, <2>2, <2>3 DEF DeviceInv
<1> QED
  BY <1>7, <1>11, <1>12 DEF ErasureInv, MediumOk

\* The control block is overwritten: it was the only trace of what it held.
LEMMA NoControlKept ==
  ASSUME Shape, ctl' = [ctl EXCEPT !.type = "NONE"]
  PROVE  ctl'.type = "NONE" /\ ctl'.key = ctl.key /\ CtlLinks(ctl') = {} /\ CtlLocks(ctl') = {}
BY DEF Shape, CtlLinks, CtlLocks

LEMMA MasterNoneKeeps ==
  ASSUME OneTop, IInv, ErasureInv, Ledger, MasterNone
  PROVE  ErasureInv'
<1>1. MasterMoved /\ Shape /\ FreshInv /\ MemShape(mem) /\ pc = "m_none"
  BY DEF IInv, MemInv, MasterNone, Shape
<1>2. ctl' = [ctl EXCEPT !.type = "NONE"] /\ UNCHANGED <<home, slot, tpm, file>>
  BY DEF MasterNone
<1>3. ctl'.type = "NONE" /\ CtlLinks(ctl') = {} /\ CtlLocks(ctl') = {}
  BY <1>1, <1>2, NoControlKept
<1>4. tpm = ctl.key /\ ctl.type = "MASTER_ROT" /\ RestartHome = home /\ RestartMaster = tpm
  BY <1>1, RestartPlain DEF MasterMoved, IInv, DiskInv
<1>5. SealedNow(home, tpm) /\ Only(Links, Locks, tpm, TopOf(home).key)
  BY <1>4 DEF ErasureInv, MediumOk, MediumInv
<1>6. \/ ret = "init" /\ EnterMaster(mem, "init again")
      \/ pc' \in {"clear", "idle", "closing"} /\ UNCHANGED <<mem, fresh>>
  BY <1>1 DEF MasterNone, MasterMoved, Caller, Creating
<1>7. mem'.cache = mem.cache /\ fresh' \in Nat /\ fresh' >= fresh
  <2>1. CASE EnterMaster(mem, "init again")
    BY <1>1, <2>1, Entered
  <2>2. CASE UNCHANGED <<mem, fresh>>
    BY <1>1, <2>2 DEF FreshInv
  <2> QED
    BY <1>6, <2>1, <2>2
<1>8. NoNews /\ Recorded' /\ DrawnMedium' /\ KindsOk' /\ CacheOk' /\ dead' = dead
  <2>1. CacheKept
    BY <1>7 DEF CacheKept
  <2> QED
    BY <1>2, <1>3, <1>7, <2>1, HeaderThere, Silent
<1>9. Sealed(Links', Locks', files', file', slot'[4], dead', home', tpm')
  BY <1>2, <1>5, <1>8, SealedUnheard
<1>10. Only(Links', Locks', tpm', TopOf(home').key)
  BY <1>2, <1>5, <1>8, OnlyUnheard
<1>11. \A s \in Sector : Live(file', dead', s)
  BY <1>1, <1>2, <1>8 DEF ErasureInv, DeviceInv, AtLive
<1>12. MediumInv'
  BY <1>3, <1>9, <1>11, MediumAtNone
<1>13. CASE EnterMaster(mem, "init again")
  <2>1. pc' = "m_slot" /\ mem'.newmk = fresh
    BY <1>1, <1>13, Entered
  <2>2. DeviceInv'
    BY <1>1, <1>2, <1>8, <1>9, <1>11, <2>1, HomeKeys, IntoMaster DEF ErasureInv, MediumOk, NoNews
  <2> QED
    BY <1>8, <1>12, <2>2 DEF ErasureInv, MediumOk
<1>14. CASE pc' \in {"clear", "idle", "closing"}
  <2>1. AtSealed' /\ AtOnly' /\ AtLive'
    BY <1>9, <1>10, <1>11 DEF AtSealed, AtOnly, AtLive, SealedNow
  <2>2. AtMaster' /\ AtJournal' /\ AtRotation' /\ AtRefill'
    BY <1>14 DEF AtMaster, AtJournal, AtRotation, AtRefill
  <2> QED
    BY <1>8, <1>12, <2>1, <2>2 DEF ErasureInv, MediumOk, DeviceInv
<1> QED
  BY <1>6, <1>13, <1>14

LEMMA ControlNoneKeeps ==
  ASSUME OneTop, IInv, ErasureInv, Ledger, ControlNone
  PROVE  ErasureInv'
<1>1. Shape /\ FreshInv /\ MemShape(mem) /\ pc = "none"
  BY DEF IInv, ControlNone, Shape
<1>2. /\ ctl' = [ctl EXCEPT !.type = "NONE"] /\ UNCHANGED <<home, slot, tpm, file>>
      /\ EnterMaster(mem, ret)
  BY DEF ControlNone
<1>3. ctl'.type = "NONE" /\ CtlLinks(ctl') = {} /\ CtlLocks(ctl') = {}
  BY <1>1, <1>2, NoControlKept
<1>4. /\ pc' = "m_slot" /\ mem'.newmk = fresh /\ mem'.cache = mem.cache
      /\ fresh' \in Nat /\ fresh' >= fresh
  BY <1>1, <1>2, Entered
<1>5. NoNews /\ Recorded' /\ DrawnMedium' /\ KindsOk' /\ CacheOk' /\ dead' = dead
  <2>1. CacheKept
    BY <1>4 DEF CacheKept
  <2> QED
    BY <1>2, <1>3, <1>4, <2>1, HeaderThere, Silent
<1>6. Sealed(Links', Locks', files', file', slot'[4], dead', home', tpm')
  <2>1. SealedNow(home, tpm)
    BY <1>1 DEF ErasureInv, DeviceInv, AtSealed
  <2> QED
    BY <1>2, <1>5, <2>1, SealedUnheard
<1>7. \A s \in Sector : Live(file', dead', s)
  BY <1>1, <1>2, <1>5 DEF ErasureInv, DeviceInv, AtLive
<1>8. MediumInv'
  BY <1>3, <1>6, <1>7, MediumAtNone
<1>9. DeviceInv'
  BY <1>1, <1>2, <1>4, <1>5, <1>6, <1>7, HomeKeys, IntoMaster DEF ErasureInv, MediumOk, NoNews
<1> QED
  BY <1>5, <1>8, <1>9 DEF ErasureInv, MediumOk

LEMMA JournalClearKeeps ==
  ASSUME OneTop, IInv, ErasureInv, Ledger, JournalClear
  PROVE  ErasureInv'
<1>1. Shape /\ FreshInv /\ MemShape(mem) /\ pc = "clear"
  BY DEF IInv, JournalClear, Shape
<1>2. /\ ctl' = [ctl EXCEPT !.type = "NONE"] /\ pc' = "finish"
      /\ UNCHANGED <<home, slot, tpm, fresh, file>>
      /\ mem' \in {mem, ReadPprf(mem), ReadPprf(ReadFkt(mem))}
  BY DEF JournalClear
<1>3. ctl'.type = "NONE" /\ CtlLinks(ctl') = {} /\ CtlLocks(ctl') = {}
  BY <1>1, <1>2, NoControlKept
<1>4. mem'.cache = mem.cache
  <2>1. SameBut(mem, ReadPprf(mem), {"pprf"})
    BY <1>1, ReadPprfMemory
  <2>2. SameBut(mem, ReadPprf(ReadFkt(mem)), {"top", "pk", "pprf"})
    BY <1>1, ReadMemory
  <2> QED
    BY <1>2, <2>1, <2>2 DEF SameBut
<1>5. NoNews /\ Recorded' /\ DrawnMedium' /\ KindsOk' /\ CacheOk' /\ dead' = dead
  <2>1. CacheKept /\ fresh' \in Nat /\ fresh' >= fresh
    BY <1>1, <1>2, <1>4 DEF CacheKept, FreshInv
  <2> QED
    BY <1>2, <1>3, <2>1, HeaderThere, Silent
<1>6. Sealed(Links', Locks', files', file', slot'[4], dead', home', tpm')
  <2>1. SealedNow(home, tpm)
    BY <1>1 DEF ErasureInv, DeviceInv, AtSealed
  <2> QED
    BY <1>2, <1>5, <2>1, SealedUnheard
<1>7. \A s \in Sector : Live(file', dead', s)
  BY <1>1, <1>2, <1>5 DEF ErasureInv, DeviceInv, AtLive
<1>8. MediumInv'
  BY <1>3, <1>6, <1>7, MediumAtNone
<1>9. AtOnly'
  <2>1. ~InUse => Only(Links, Locks, tpm, TopOf(home).key)
    BY <1>1 DEF ErasureInv, DeviceInv, AtOnly
  <2>2. ~InUse => Only(Links', Locks', tpm, TopOf(home).key)
    BY <1>5, <2>1, OnlyUnheard
  <2> QED
    BY <1>2, <2>2 DEF AtOnly, InUse
<1>10. AtSealed' /\ AtMaster' /\ AtJournal' /\ AtRotation' /\ AtRefill' /\ AtLive'
  BY <1>2, <1>7 DEF AtSealed, AtMaster, AtJournal, AtRotation, AtRefill, AtLive
<1> QED
  BY <1>5, <1>8, <1>9, <1>10 DEF ErasureInv, MediumOk, DeviceInv

\* The header alone is written.
LEMMA HeaderAlone ==
  ASSUME OneTop, IInv, ErasureInv, NEW b, home' = [home EXCEPT ![HeaderAt] = Enc(HeaderAt, Junk, b)]
  PROVE  /\ SameKeys(home, home') /\ \A a \in Addr : home'[a].at = a
         /\ \A a \in Addr : (\E c \in Addr : home'[a] = home[c]) \/ home'[a] = Enc(HeaderAt, Junk, b)
         /\ Enc(HeaderAt, Junk, b).at = HeaderAt
<1>1. /\ home'[TopAt(0)] = home[TopAt(0)] /\ home'[BotAt] = home[BotAt]
      /\ home'[PprfAt] = home[PprfAt]
      /\ \A s \in Sector : home'[TableAt(s)] = home[TableAt(s)]
  BY HeaderWritten DEF IInv
<1>2. SameKeys(home, home')
  BY <1>1 DEF SameKeys, TopOf, BotOf, PprfOf, TagOf
<1>3. Enc(HeaderAt, Junk, b).at = HeaderAt
  BY DEF Enc
<1>4. home = [a \in Addr |-> home[a]]
  BY DEF IInv, Shape
<1>5. \A a \in Addr : home'[a] = IF a = HeaderAt THEN Enc(HeaderAt, Junk, b) ELSE home[a]
  BY <1>4
<1>6. \A a \in Addr : home'[a].at = a
  BY <1>3, <1>5, HeaderThere
<1> QED
  BY <1>2, <1>3, <1>5, <1>6

LEMMA FinishOpenKeeps ==
  ASSUME OneTop, IInv, ErasureInv, Ledger, FinishOpen
  PROVE  ErasureInv'
<1>1. Shape /\ FreshInv /\ MemShape(mem) /\ pc = "finish" /\ ctl.type = "NONE"
      /\ UNCHANGED <<ctl, slot, tpm, file>>
  BY DEF IInv, FinishOpen, Shape, MemInv, AtRest
<1>2. SealedNow(home, tpm)
  BY <1>1, SealedAtNone DEF ErasureInv, MediumOk
<1>3. \A s \in Sector : Live(file, dead, s)
  BY <1>1 DEF ErasureInv, DeviceInv, AtLive
<1>4. CASE InUse
  <2>1. EnterMaster(mem, "idle") /\ home' = home
    BY <1>4 DEF FinishOpen
  <2>2. /\ pc' = "m_slot" /\ mem'.newmk = fresh /\ mem'.cache = mem.cache
        /\ fresh' \in Nat /\ fresh' >= fresh
    BY <1>1, <2>1, Entered
  <2>3. NoNews /\ Recorded' /\ DrawnMedium' /\ KindsOk' /\ CacheOk' /\ dead' = dead
    <3>1. CacheKept
      BY <2>2 DEF CacheKept
    <3> QED
      BY <1>1, <2>1, <2>2, <3>1, HeaderThere, Silent
  <2>4. Sealed(Links', Locks', files', file', slot'[4], dead', home', tpm')
    BY <1>1, <1>2, <2>1, <2>3, SealedUnheard
  <2>5. \A s \in Sector : Live(file', dead', s)
    BY <1>1, <1>3, <2>3
  <2>6. MediumInv'
    BY <1>1, <2>4, <2>5, MediumAtNone
  <2>7. DeviceInv'
    BY <1>1, <2>1, <2>2, <2>3, <2>4, <2>5, HomeKeys, IntoMaster DEF ErasureInv, MediumOk, NoNews
  <2> QED
    BY <2>3, <2>6, <2>7 DEF ErasureInv, MediumOk
<1>5. CASE ~InUse
  <2>1. /\ home' = [home EXCEPT ![HeaderAt] = Enc(HeaderAt, Junk, TRUE)]
        /\ pc' = "idle" /\ UNCHANGED <<mem, fresh>>
    BY <1>5 DEF FinishOpen
  <2>2. /\ SameKeys(home, home') /\ \A a \in Addr : home'[a].at = a
        /\ \A a \in Addr : (\E c \in Addr : home'[a] = home[c]) \/ home'[a] = Enc(HeaderAt, Junk, TRUE)
        /\ Enc(HeaderAt, Junk, TRUE).at = HeaderAt
    BY <2>1, HeaderAlone
  <2>3. NoNews /\ Recorded' /\ DrawnMedium' /\ KindsOk' /\ CacheOk' /\ dead' = dead
    <3>1. CacheKept /\ fresh' \in Nat /\ fresh' >= fresh
      BY <1>1, <2>1 DEF CacheKept, FreshInv
    <3> QED
      BY <1>1, <2>2, <3>1, Silent
  <2>4. Sealed(Links', Locks', files', file', slot'[4], dead', home', tpm')
    <3>1. Sealed(Links', Locks', files', file', slot'[4], dead', home, tpm)
      BY <1>1, <1>2, <2>3, SealedUnheard
    <3> QED
      BY <1>1, <2>2, <3>1, SealedSame
  <2>5. \A s \in Sector : Live(file', dead', s)
    BY <1>1, <1>3, <2>3
  <2>6. MediumInv'
    BY <1>1, <2>4, <2>5, MediumAtNone
  <2>7. AtOnly'
    <3>1. Only(Links, Locks, tpm, TopOf(home).key)
      BY <1>1, <1>5 DEF ErasureInv, DeviceInv, AtOnly
    <3>2. Only(Links', Locks', tpm, TopOf(home).key)
      BY <2>3, <3>1, OnlyUnheard
    <3>3. TopOf(home').key = TopOf(home).key
      BY <2>2 DEF SameKeys
    <3> QED
      BY <1>1, <3>2, <3>3 DEF AtOnly
  <2>8. AtSealed' /\ AtMaster' /\ AtJournal' /\ AtRotation' /\ AtRefill' /\ AtLive'
    BY <2>1, <2>5 DEF AtSealed, AtMaster, AtJournal, AtRotation, AtRefill, AtLive
  <2> QED
    BY <2>3, <2>6, <2>7, <2>8 DEF ErasureInv, MediumOk, DeviceInv
<1> QED
  BY <1>4, <1>5

LEMMA ClosedKeeps ==
  ASSUME OneTop, IInv, ErasureInv, Ledger, Closed
  PROVE  ErasureInv'
<1>1. FreshInv /\ pc = "closing" /\ ctl.type = "NONE" /\ UNCHANGED <<ctl, slot, tpm, fresh, file>>
      /\ pc' = "down" /\ mem' = NoMem
      /\ home' = [home EXCEPT ![HeaderAt] = Enc(HeaderAt, Junk, InUse)]
  BY DEF IInv, Closed, MemInv, AtRest
<1>2. PICK b : home' = [home EXCEPT ![HeaderAt] = Enc(HeaderAt, Junk, b)]
  BY <1>1
<1>3. /\ SameKeys(home, home') /\ \A a \in Addr : home'[a].at = a
      /\ \A a \in Addr : (\E c \in Addr : home'[a] = home[c]) \/ home'[a] = Enc(HeaderAt, Junk, b)
      /\ Enc(HeaderAt, Junk, b).at = HeaderAt
  BY <1>2, HeaderAlone
<1>4. NoNews /\ Recorded' /\ DrawnMedium' /\ KindsOk' /\ CacheOk' /\ dead' = dead
  <2>1. CacheKept /\ fresh' \in Nat /\ fresh' >= fresh
    BY <1>1, Blank DEF CacheKept, FreshInv
  <2> QED
    BY <1>1, <1>3, <2>1, Silent
<1>5. Sealed(Links', Locks', files', file', slot'[4], dead', home', tpm')
  <2>1. SealedNow(home, tpm)
    BY <1>1, SealedAtNone DEF ErasureInv, MediumOk
  <2>2. Sealed(Links', Locks', files', file', slot'[4], dead', home, tpm)
    BY <1>1, <1>4, <2>1, SealedUnheard
  <2> QED
    BY <1>1, <1>3, <2>2, SealedSame
<1>6. \A s \in Sector : Live(file', dead', s)
  BY <1>1, <1>4 DEF ErasureInv, DeviceInv, AtLive
<1>7. MediumInv'
  BY <1>1, <1>5, <1>6, MediumAtNone
<1>8. DeviceInv'
  BY <1>1 DEF DeviceInv, AtSealed, AtOnly, AtMaster, AtJournal, AtRotation, AtRefill, AtLive
<1> QED
  BY <1>4, <1>7, <1>8 DEF ErasureInv, MediumOk

-----------------------------------------------------------------------------
(* rotate_pprf.                                                            *)

\* A step that writes sector n, or none, and has no transaction in the journal.
LEMMA OneSector ==
  ASSUME OneTop, IInv, ErasureInv, Ledger, UNCHANGED slot, ctl'.type # "PPRF_PUNCT",
         NEW n, \A a \in Addr : home'[a] = home[a] \/ home'[a] = n,
         \A a \in Addr : home'[a].at = a
  PROVE  /\ KindsOk'
         /\ \A x \in Links' : x \in Links \/ LinkOf(n, x) \/ x \in CtlLinks(ctl')
         /\ \A x \in Locks' : x \in Locks \/ LockOf(n, x) \/ x \in CtlLocks(ctl')
         /\ \A x \in files' : x \in files \/ FileOf(n, x)
<1>1. KindsOk'
  BY DEF ErasureInv, MediumOk, KindsOk
<1>2. /\ \A x \in Links' : x \in Links \/ LinkOf(n, x) \/ x \in CtlLinks(ctl')
      /\ \A x \in Locks' : x \in Locks \/ LockOf(n, x) \/ x \in CtlLocks(ctl')
      /\ \A x \in files' : \/ x \in files \/ FileOf(n, x)
                           \/ ctl'.type = "PPRF_PUNCT" /\ FileOf(slot'[4], x)
  BY <1>1, Grown DEF ErasureInv, MediumOk
<1> QED
  BY <1>1, <1>2

\* What a control block holds is under some key already.
LEMMA ControlHeard == CtlLinks(ctl) \subseteq Links /\ CtlLocks(ctl) \subseteq Locks
BY Wrapped DEF Links, Locks

LEMMA RotateCtlKeeps ==
  ASSUME OneTop, IInv, ErasureInv, Ledger, RotateCtl
  PROVE  ErasureInv'
<1>1. RotationDrawn /\ Shape /\ FreshInv /\ pc = "rot_ctl"
  BY DEF IInv, MemInv, RotateCtl
<1>2. /\ ctl'.type = "PPRF_ROT" /\ ctl'.k = mem.mk /\ ctl'.key = mem.newroot
      /\ EnterRewrite(mem, FALSE) /\ UNCHANGED <<home, slot, tpm, ret, fresh, file>>
  BY DEF RotateCtl
<1>3. Image(home, tpm, file) /\ mem.mk = tpm /\ mem.newroot # PprfOf(home).root
  BY <1>1 DEF RotationDrawn, Whole, WholeIn, KeysIn
<1>4. 0 \in Sector /\ \A s \in Sector : ~(s < 0) /\ (s <= 0 => s = 0)
  BY Constants
<1>5. Unrotated(mem, FALSE) = Sector
  BY <1>3 DEF Image, TableOk, Unrotated, RootOf
<1>6. mem' = mem /\ pc' = "rewrite" /\ idx' = 0
  <2>1. mem' = mem /\ pc' = "rewrite" /\ idx' = FirstUnrotated(mem, FALSE)
    BY <1>2, <1>4, <1>5 DEF EnterRewrite
  <2>2. FirstUnrotated(mem, FALSE) \in Sector /\ FirstUnrotated(mem, FALSE) <= 0
    BY <1>4, <1>5, FirstIsLeast
  <2> QED
    BY <1>4, <2>1, <2>2
<1>7. /\ KindsOk' /\ Links' \subseteq Links /\ files' \subseteq files
      /\ \A x \in Locks' : x \in Locks \/ x = <<tpm, mem.newroot, {}>>
  <2> DEFINE n == home[HeaderAt]
  <2>1. n.at[1] = "header" /\ \A a \in Addr : home'[a].at = a
    BY <1>2, HeaderThere DEF HeaderAt
  <2>2. \A a \in Addr : home'[a] = home[a] \/ home'[a] = n
    BY <1>2
  <2> HIDE DEF n
  <2>3. /\ KindsOk'
        /\ \A x \in Links' : x \in Links \/ LinkOf(n, x) \/ x \in CtlLinks(ctl')
        /\ \A x \in Locks' : x \in Locks \/ LockOf(n, x) \/ x \in CtlLocks(ctl')
        /\ \A x \in files' : x \in files \/ FileOf(n, x)
    BY <1>2, <2>1, <2>2, OneSector
  <2>4. CtlLinks(ctl') = {} /\ CtlLocks(ctl') = {<<tpm, mem.newroot, {}>>}
    BY <1>2, <1>3 DEF CtlLinks, CtlLocks
  <2> QED
    BY <2>1, <2>3, <2>4 DEF LinkOf, LockOf, FileOf
<1>8. dead' = dead /\ CacheOk'
  <2>1. CacheKept /\ fresh' \in Nat /\ fresh' >= fresh
    BY <1>1, <1>2, <1>6 DEF CacheKept, FreshInv
  <2> QED
    BY <1>1, <1>2, <2>1, CacheSteady, FileKeysKept DEF ErasureInv
<1>9. DrawnMedium'
  <2>1. Key' = Key /\ tpm \in Key
    BY <1>1, <1>2 DEF Key, FreshInv
  <2> QED
    BY <1>2, <1>7, <2>1 DEF ErasureInv, MediumOk, DrawnMedium
<1>10. OnlyNew(files', file', slot'[4], mem.newroot, 0)
  BY <1>1, <1>2, <1>7, OnlyNewKept DEF ErasureInv, DeviceInv, AtRotation
<1>11. \A s \in Sector : Live(file', dead', s)
  BY <1>1, <1>2, <1>8 DEF ErasureInv, DeviceInv, AtLive
<1>12. RotationMedium'
  BY <1>2, <1>4, <1>10 DEF RotationMedium, OnlyNew
<1>13. MediumInv'
  BY <1>2, <1>11, <1>12 DEF MediumInv
<1>14. DeviceInv'
  <2>1. AtRotation' /\ AtLive'
    BY <1>4, <1>6, <1>10 DEF AtRotation, AtLive
  <2>2. AtSealed' /\ AtOnly' /\ AtMaster' /\ AtJournal' /\ AtRefill'
    BY <1>6 DEF AtSealed, AtOnly, AtMaster, AtJournal, AtRefill
  <2> QED
    BY <2>1, <2>2 DEF DeviceInv
<1> QED
  BY <1>7, <1>8, <1>9, <1>13, <1>14, RecordedNext DEF ErasureInv, MediumOk

\* File keys that are made durable are not dead for it.
LEMMA NotDying ==
  ASSUME Ledger, NEW s \in Sector, \A e \in Entry : file'[s][e] # Junk /\ file'[s][e] \notin dead
  PROVE  Live(file', dead', s)
BY DEF Ledger, Live, FileKeys

\* Fresh keys for all the entries of a sector.
LEMMA PlacesDrawn ==
  ASSUME FreshInv, NEW at \in [Nat -> Sector \X Entry], NEW i \in Sector
  PROVE  \E at2 \in [Nat -> Sector \X Entry] :
           /\ \A k \in Key : at2[k] = at[k]
           /\ \A e \in Entry : at2[fresh + e - 1] = <<i, e>>
<1> DEFINE at2 == [k \in Nat |-> IF k - fresh + 1 \in Entry THEN <<i, k - fresh + 1>> ELSE at[k]]
<1>1. fresh \in Nat /\ Entry = 1 .. Entries /\ Entries \in Nat
  BY Constants DEF FreshInv, Entry
<1>2. \A k \in Key : k \in Nat /\ k - fresh + 1 \notin Entry
  BY <1>1 DEF Key
<1>3. \A e \in Entry : fresh + e - 1 \in Nat /\ (fresh + e - 1) - fresh + 1 = e
  BY <1>1
<1>4. at2 \in [Nat -> Sector \X Entry]
  OBVIOUS
<1>5. \A k \in Key : at2[k] = at[k]
  BY <1>2
<1>6. \A e \in Entry : at2[fresh + e - 1] = <<i, e>>
  BY <1>3
<1> HIDE DEF at2
<1> QED
  BY <1>4, <1>5, <1>6

\* Whatever file keys a sector is rewritten with, they are its own and not dead: those of
\* its entry in the cache, those it has, or new ones.
LEMMA RewrittenKeys ==
  ASSUME OneTop, IInv, ErasureInv, RewriteSector
  PROVE  \E i \in Sector, keys \in Keys' :
           /\ i = idx
           /\ home' = [home EXCEPT ![TableAt(i)] = Enc(TableAt(i), <<mem.newroot, i>>, keys)]
           /\ file'[i] = keys /\ \A t \in Sector : t # i => file'[t] = file[t]
           /\ \A e \in Entry : keys[e] # Junk /\ keys[e] \notin dead
           /\ \E at \in [Nat -> Sector \X Entry] :
                Placed(at) /\ \A e \in Entry : at[keys[e]] = <<i, e>>
<1>0. PICK i \in Sector : i = idx
  BY DEF IInv, MemInv, RewriteSector, Rewriting
<1> DEFINE cached == i \in DOMAIN mem.cache
           drawn == [e \in Entry |-> fresh + e - 1]
           keys == CASE ret = "init" -> drawn
                     [] cached       -> mem.cache[i].keys
                     [] OTHER        -> TableUnder(home[TableAt(i)], mem.pprf)
<1>1. Rewriting /\ Rotating /\ pc = "rewrite" /\ Shape /\ FreshInv /\ DiskInv
  BY DEF IInv, MemInv, RewriteSector, Rewriting
<1>2. /\ home' = [home EXCEPT ![TableAt(i)] = Enc(TableAt(i), <<mem.newroot, i>>, keys)]
      /\ file' = (IF ret = "init" \/ cached THEN [file EXCEPT ![i] = keys] ELSE file)
      /\ fresh' = (IF ret = "init" THEN fresh + Entries ELSE fresh)
  BY <1>0, <1>1 DEF RewriteSector
<1>3. fresh \in Nat /\ fresh' \in Nat /\ fresh' >= fresh /\ Entry = 1 .. Entries
      /\ Entries \in Nat
  BY <1>1, <1>2, Constants DEF FreshInv, Entry
<1>4. Key \subseteq Key' /\ Keys \subseteq Keys'
  BY <1>1, <1>3, Widen
<1>5. PICK at0 \in [Nat -> Sector \X Entry] : Placed(at0)
  BY DEF ErasureInv, CacheOk, PlaceInv
<1>6. /\ \/ ret = "init" /\ keys = drawn
         \/ cached /\ keys = mem.cache[i].keys
         \/ ret # "init" /\ ~cached /\ keys = TableUnder(home[TableAt(i)], mem.pprf)
      /\ file = [s \in Sector |-> file[s]]
  BY <1>1 DEF Shape
<1> HIDE DEF keys
<1>7. ASSUME ret # "init" PROVE InUse /\ \A s \in Sector : Live(file, dead, s)
  <2>1. InUse
    BY <1>1, <1>7 DEF Rotating, DiskInv
  <2> QED
    BY <2>1, LiveInUse DEF ErasureInv, MediumOk
<1>8. ret # "init" /\ ~cached /\ keys = TableUnder(home[TableAt(i)], mem.pprf) => keys = file[i]
  <2>1. SUFFICES ASSUME ret # "init", keys = TableUnder(home[TableAt(i)], mem.pprf)
                 PROVE  keys = file[i]
    OBVIOUS
  <2>2. ctl.type = "PPRF_ROT" /\ ctl.key = mem.newroot /\ HalfRotated /\ mem.pprf = PprfOf(home)
        /\ RootOf(home, i) # mem.newroot
    <3>1. ctl.type = "PPRF_ROT" /\ ctl.key = mem.newroot
      BY <1>1, <2>1 DEF Rotating
    <3>2. HalfRotated
      BY <1>1, <3>1 DEF DiskInv
    <3>3. i >= idx
      BY <1>0, Constants
    <3> QED
      BY <1>1, <2>1, <3>1, <3>2, <3>3 DEF Rewriting
  <2>3. ~Rewritten(i, ctl.key) /\ home[TableAt(i)].body = file[i]
    BY <2>2 DEF Rewritten, HalfRotated
  <2>4. Unwritten(i)
    BY <2>2, <2>3 DEF HalfRotated
  <2> QED
    BY <2>1, <2>2, <2>3, <2>4 DEF Unwritten, TableUnder, RootOf, TagOf
<1>9. file'[i] = keys /\ \A t \in Sector : t # i => file'[t] = file[t]
  <2>1. CASE ret = "init" \/ cached
    BY <1>2, <1>6, <2>1
  <2>2. CASE ret # "init" /\ ~cached
    BY <1>2, <1>6, <1>8, <2>2
  <2> QED
    BY <2>1, <2>2
<1> HIDE DEF cached
<1>10. ASSUME keys = drawn, ret = "init"
       PROVE  /\ keys \in Keys' /\ \A e \in Entry : keys[e] # Junk /\ keys[e] \notin dead
              /\ \E at \in [Nat -> Sector \X Entry] :
                   Placed(at) /\ \A e \in Entry : at[keys[e]] = <<i, e>>
  <2>1. fresh' = fresh + Entries
    BY <1>2, <1>10
  <2>2. \A e \in Entry : drawn[e] = fresh + e - 1
    OBVIOUS
  <2>3. \A e \in Entry : fresh + e - 1 \in 0 .. (fresh + Entries) - 1 /\ fresh + e - 1 # 0
                         /\ fresh + e - 1 \notin 0 .. fresh - 1
    BY <1>1, <1>3 DEF FreshInv
  <2>4. \A e \in Entry : drawn[e] \in Key' /\ drawn[e] # Junk /\ drawn[e] \notin Key
    BY <2>1, <2>2, <2>3 DEF Key, Junk
  <2>5. drawn \in Keys' /\ \A e \in Entry : drawn[e] \notin dead
    BY <2>4 DEF Keys, ErasureInv, CacheOk, DrawnKeys
  <2>6. PICK at \in [Nat -> Sector \X Entry] :
          /\ \A k \in Key : at[k] = at0[k]
          /\ \A e \in Entry : at[fresh + e - 1] = <<i, e>>
    BY <1>1, <1>5, PlacesDrawn
  <2>7. Placed(at)
    <3>1. /\ \A s \in Sector, e \in Entry : file[s][e] \in Key
          /\ \A s \in DOMAIN mem.cache, e \in Entry : mem.cache[s].keys[e] \in Key
      BY DEF ErasureInv, CacheOk, DrawnKeys, Keys
    <3> QED
      BY <1>5, <2>6, <3>1 DEF Placed
  <2> HIDE DEF drawn
  <2> QED
    BY <1>10, <2>2, <2>4, <2>5, <2>6, <2>7
<1>11. ASSUME cached, keys = mem.cache[i].keys
       PROVE  /\ keys \in Keys' /\ \A e \in Entry : keys[e] # Junk /\ keys[e] \notin dead
              /\ \E at \in [Nat -> Sector \X Entry] :
                   Placed(at) /\ \A e \in Entry : at[keys[e]] = <<i, e>>
  <2>1. keys \in Keys' /\ \A e \in Entry : keys[e] # Junk /\ keys[e] \notin dead
                                           /\ at0[keys[e]] = <<i, e>>
    BY <1>4, <1>5, <1>11 DEF ErasureInv, CacheOk, DrawnKeys, CacheLive, Placed, cached
  <2> QED
    BY <1>5, <2>1
<1>12. ASSUME keys = file[i], ret # "init"
       PROVE  /\ keys \in Keys' /\ \A e \in Entry : keys[e] # Junk /\ keys[e] \notin dead
              /\ \E at \in [Nat -> Sector \X Entry] :
                   Placed(at) /\ \A e \in Entry : at[keys[e]] = <<i, e>>
  <2>1. keys \in Keys' /\ \A e \in Entry : keys[e] # Junk /\ keys[e] \notin dead
    BY <1>4, <1>7, <1>12 DEF ErasureInv, CacheOk, DrawnKeys, Live
  <2>2. \A e \in Entry : at0[keys[e]] = <<i, e>>
    BY <1>5, <1>12, <2>1 DEF Placed
  <2> QED
    BY <1>5, <2>1, <2>2
<1>13. /\ keys \in Keys' /\ \A e \in Entry : keys[e] # Junk /\ keys[e] \notin dead
       /\ \E at \in [Nat -> Sector \X Entry] :
            Placed(at) /\ \A e \in Entry : at[keys[e]] = <<i, e>>
  BY <1>6, <1>8, <1>10, <1>11, <1>12
<1>14. home' = [home EXCEPT ![TableAt(i)] = Enc(TableAt(i), <<mem.newroot, i>>, keys)]
  BY <1>2
<1> QED
  BY <1>0, <1>9, <1>13, <1>14

\* No key of another sector's entry dies when sector i is given keys of its own.
LEMMA CacheRekeyed ==
  ASSUME IInv, ErasureInv, Ledger, NEW i \in Sector, NEW keys \in Keys',
         file'[i] = keys, \A t \in Sector : t # i => file'[t] = file[t],
         \A s \in DOMAIN mem'.cache :
           /\ s \in DOMAIN mem.cache /\ mem'.cache[s].keys = mem.cache[s].keys
           /\ s # i \/ mem.cache[s].keys = keys,
         NEW at \in [Nat -> Sector \X Entry], Placed(at),
         \A e \in Entry : at[keys[e]] = <<i, e>>,
         fresh' \in Nat, fresh' >= fresh
  PROVE  CacheOk'
<1>1. Key \subseteq Key' /\ Keys \subseteq Keys' /\ DOMAIN mem.cache \subseteq Sector
  BY Widen DEF IInv, Shape, MemShape
<1>2. \A k \in dead' : k \in dead \/ \E s \in Sector, e \in Entry : k = file[s][e] /\ k \notin FileKeys(file')
  BY DEF Ledger, FileKeys
<1>3. DrawnKeys'
  <2>1. dead' \subseteq Key'
    BY <1>1, <1>2 DEF ErasureInv, CacheOk, DrawnKeys, Keys
  <2>2. \A s \in Sector : file'[s] \in Keys'
    BY <1>1 DEF ErasureInv, CacheOk, DrawnKeys
  <2>3. \A s \in DOMAIN mem'.cache : mem'.cache[s].keys \in Keys'
    BY <1>1 DEF ErasureInv, CacheOk, DrawnKeys
  <2> QED
    BY <2>1, <2>2, <2>3 DEF DrawnKeys
<1>4. /\ \A s \in Sector, e \in Entry : file'[s][e] # Junk => at[file'[s][e]] = <<s, e>>
      /\ \A s \in DOMAIN mem'.cache, e \in Entry : at[mem'.cache[s].keys[e]] = <<s, e>>
  <2>1. ASSUME NEW s \in Sector, NEW e \in Entry, file'[s][e] # Junk PROVE at[file'[s][e]] = <<s, e>>
    <3>1. CASE s = i
      BY <3>1
    <3>2. CASE s # i
      BY <2>1, <3>2 DEF Placed
    <3> QED
      BY <3>1, <3>2
  <2>2. \A s \in DOMAIN mem'.cache, e \in Entry : at[mem'.cache[s].keys[e]] = <<s, e>>
    BY DEF Placed
  <2> QED
    BY <2>1, <2>2
<1>5. PlaceInv'
  BY <1>4 DEF PlaceInv, Placed
<1>6. CacheLive'
  <2>1. SUFFICES ASSUME NEW t \in DOMAIN mem'.cache, NEW d \in Entry
                 PROVE  mem'.cache[t].keys[d] # Junk /\ mem'.cache[t].keys[d] \notin dead'
    BY DEF CacheLive
  <2>2. PICK k : k = mem.cache[t].keys[d]
    OBVIOUS
  <2>3. k = mem'.cache[t].keys[d] /\ k # Junk /\ k \notin dead /\ at[k] = <<t, d>> /\ t \in Sector
    BY <1>1, <2>2 DEF ErasureInv, CacheOk, CacheLive, Placed
  <2>4. ASSUME NEW s \in Sector, NEW e \in Entry, k = file[s][e] PROVE k \in FileKeys(file')
    <3>1. CASE t # i
      <4>1. s = t /\ e = d
        BY <2>3, <2>4 DEF Placed
      <4>2. file'[s][e] = k
        BY <2>3, <2>4, <3>1, <4>1
      <4> QED
        BY <4>2 DEF FileKeys
    <3>2. CASE t = i
      <4>1. file'[i][d] = k
        BY <2>2, <3>2
      <4> QED
        BY <4>1 DEF FileKeys
    <3> QED
      BY <3>1, <3>2
  <2> QED
    BY <1>2, <2>3, <2>4
<1> QED
  BY <1>3, <1>5, <1>6 DEF CacheOk

LEMMA RewriteSectorKeeps ==
  ASSUME OneTop, IInv, IInv', ErasureInv, Ledger, RewriteSector
  PROVE  ErasureInv'
<1>1. PICK i \in Sector, keys \in Keys', at \in [Nat -> Sector \X Entry] :
        /\ i = idx
        /\ home' = [home EXCEPT ![TableAt(i)] = Enc(TableAt(i), <<mem.newroot, i>>, keys)]
        /\ file'[i] = keys /\ \A t \in Sector : t # i => file'[t] = file[t]
        /\ \A e \in Entry : keys[e] # Junk /\ keys[e] \notin dead
        /\ Placed(at) /\ \A e \in Entry : at[keys[e]] = <<i, e>>
  BY RewrittenKeys
<1>2. Rewriting /\ Rotating /\ pc = "rewrite" /\ Shape /\ FreshInv /\ MemShape(mem)
  BY DEF IInv, MemInv, RewriteSector, Rewriting, Shape
<1>3. /\ mem' = [mem EXCEPT !.cache = Without(@, i)]
      /\ fresh' = (IF ret = "init" THEN fresh + Entries ELSE fresh)
      /\ IF i + 1 = KeyTableLen THEN pc' = "fkt_top" /\ idx' = 0
                                ELSE pc' = "rewrite" /\ idx' = i + 1
      /\ UNCHANGED <<ctl, slot, tpm, ret>>
  BY <1>1, <1>2 DEF RewriteSector
<1>4. mem'.cache = Without(mem.cache, i) /\ mem'.newroot = mem.newroot
  BY <1>2, <1>3, CacheWithout DEF SameBut
<1>5. fresh' \in Nat /\ fresh' >= fresh /\ Key \subseteq Key'
  <2>1. fresh' \in Nat /\ fresh' >= fresh
    <3>1. \A k, m \in Nat : k + m \in Nat /\ k + m >= k /\ k >= k
      OBVIOUS
    <3>2. fresh' \in {fresh, fresh + Entries} /\ fresh \in Nat /\ Entries \in Nat
      BY <1>2, <1>3, Constants DEF FreshInv
    <3> QED
      BY <3>1, <3>2
  <2> QED
    BY <1>2, <2>1, Widen
<1>6. CacheOk'
  <2>1. \A s \in DOMAIN mem'.cache :
          s \in DOMAIN mem.cache /\ mem'.cache[s].keys = mem.cache[s].keys /\ s # i
    BY <1>4 DEF Without, Restrict
  <2> QED
    BY <1>1, <1>5, <2>1, CacheRekeyed
<1> DEFINE n == Enc(TableAt(i), <<mem.newroot, i>>, keys)
<1>7. n.at = TableAt(i) /\ n.at[1] = "table" /\ n.k = <<mem.newroot, i>> /\ n.body = keys
  BY DEF Enc, TableAt
<1>8. home'[TableAt(i)] = n /\ \A a \in Addr : a # TableAt(i) => home'[a] = home[a]
  <2>1. TableAt(i) \in Addr /\ home = [a \in Addr |-> home[a]]
    BY <1>2, Places DEF Shape
  <2> QED
    BY <1>1, <2>1
<1> HIDE DEF n
<1>9. /\ KindsOk' /\ Links' \subseteq Links /\ Locks' \subseteq Locks
      /\ \A x \in files' : x \in files \/ \E e \in Entry : x = <<mem.newroot, i, keys[e]>>
  <2>1. \A a \in Addr : home'[a] = home[a] \/ home'[a] = n
    BY <1>8
  <2>2. \A a \in Addr : home'[a].at = a
    BY <1>7, <1>8, HeaderThere
  <2>3. ctl'.type # "PPRF_PUNCT"
    BY <1>2, <1>3 DEF Rotating
  <2>4. /\ KindsOk'
        /\ \A x \in Links' : x \in Links \/ LinkOf(n, x) \/ x \in CtlLinks(ctl')
        /\ \A x \in Locks' : x \in Locks \/ LockOf(n, x) \/ x \in CtlLocks(ctl')
        /\ \A x \in files' : x \in files \/ FileOf(n, x)
    BY <1>3, <2>1, <2>2, <2>3, OneSector
  <2> QED
    BY <1>3, <1>7, <2>4, ControlHeard DEF LinkOf, LockOf, FileOf
<1>10. DrawnMedium'
  <2>1. mem.newroot \in Key
    BY <1>2 DEF FreshInv
  <2>2. \A x \in files' : x[1] \in Key
    BY <1>9, <2>1 DEF ErasureInv, MediumOk, DrawnMedium
  <2> QED
    BY <1>3, <1>5, <1>9, <2>2 DEF ErasureInv, MediumOk, DrawnMedium
<1>11. OnlyNew(files, file, slot[4], mem.newroot, i)
  BY <1>1, <1>2 DEF ErasureInv, DeviceInv, AtRotation
<1>12. OnlyNew(files', file', slot'[4], mem.newroot, i + 1)
  <2>1. \A s \in Sector : s < i => s < i + 1 /\ s # i
    BY Constants
  <2>2. i < i + 1
    BY Constants
  <2>3. ASSUME NEW x \in files', x[1] = mem.newroot
        PROVE  \E s \in Sector : s < i + 1 /\ x[2] = s /\ \E e \in Entry : x[3] = file'[s][e]
    <3>1. CASE x \in files
      <4>1. PICK s \in Sector : s < i /\ x[2] = s /\ \E e \in Entry : x[3] = file[s][e]
        BY <1>11, <2>3, <3>1 DEF OnlyNew
      <4> QED
        BY <1>1, <2>1, <4>1
    <3>2. CASE \E e \in Entry : x = <<mem.newroot, i, keys[e]>>
      BY <1>1, <2>2, <3>2
    <3> QED
      BY <1>9, <3>1, <3>2
  <2> QED
    BY <1>3, <1>11, <2>3 DEF OnlyNew
<1>13. ASSUME NEW s \in Sector, s # i, Live(file, dead, s) PROVE Live(file', dead', s)
  BY <1>1, <1>13, NotDying DEF Live
<1>14. Live(file', dead', i)
  BY <1>1, NotDying
<1>15. ret # "init" => /\ ctl.type = "PPRF_ROT" /\ ctl.key = mem.newroot /\ InUse
                       /\ \A s \in Sector : Live(file', dead', s)
  <2>1. SUFFICES ASSUME ret # "init"
                 PROVE  /\ ctl.type = "PPRF_ROT" /\ ctl.key = mem.newroot /\ InUse
                        /\ \A s \in Sector : Live(file', dead', s)
    OBVIOUS
  <2>2. ctl.type = "PPRF_ROT" /\ ctl.key = mem.newroot /\ InUse
    BY <1>2, <2>1 DEF Rotating, IInv, DiskInv
  <2> QED
    BY <1>13, <1>14, <2>2, LiveInUse DEF ErasureInv, MediumOk
<1>16. \A s \in Sector : s < i + 1 => Live(file', dead', s) /\ Done(s)'
  <2>1. ASSUME NEW s \in Sector, s < i PROVE Live(file', dead', s)
    <3>1. Live(file, dead, s)
      BY <1>1, <1>2, <2>1 DEF ErasureInv, DeviceInv, AtLive
    <3>2. s # i
      BY <2>1, Constants
    <3> QED
      BY <1>13, <3>1, <3>2
  <2>2. ASSUME NEW s \in Sector, s < i + 1 PROVE Done(s)'
    <3>1. CASE i + 1 = KeyTableLen
      <4>1. Refilling'
        BY <1>3, <3>1 DEF IInv, MemInv
      <4> QED
        BY <4>1 DEF Refilling
    <3>2. CASE i + 1 # KeyTableLen
      <4>1. Rewriting' /\ idx' = i + 1
        BY <1>3, <3>2 DEF IInv, MemInv
      <4> QED
        BY <2>2, <4>1 DEF Rewriting
    <3> QED
      BY <3>1, <3>2
  <2>3. \A s \in Sector : s < i + 1 => s < i \/ s = i
    BY Constants
  <2> QED
    BY <1>14, <2>1, <2>2, <2>3
<1>17. MediumInv'
  <2>1. CASE ret = "init"
    <3>1. ctl'.type = "PPRF_INIT" /\ ~InUse'
      BY <1>2, <1>3, <2>1 DEF Rotating, IInv, DiskInv
    <3> QED
      BY <3>1, MediumAtNone
  <2>2. CASE ret # "init"
    <3>1. \A s \in Sector : s < i + 1 => Rewritten(s, ctl.key)'
      BY <1>3, <1>4, <1>15, <1>16, <2>2 DEF Done, Rewritten
    <3>2. RotationMedium'
      BY <1>3, <1>12, <1>15, <2>2, <3>1 DEF RotationMedium, OnlyNew
    <3> QED
      BY <1>3, <1>15, <2>2, <3>2 DEF MediumInv
  <2> QED
    BY <2>1, <2>2
<1>18. DeviceInv'
  <2>1. AtSealed' /\ AtOnly' /\ AtMaster' /\ AtJournal' /\ AtRefill'
    BY <1>3 DEF AtSealed, AtOnly, AtMaster, AtJournal, AtRefill
  <2>2. CASE i + 1 = KeyTableLen
    <3>1. \A s \in Sector : s < i + 1
      BY <2>2, Constants
    <3>2. pc' = "fkt_top"
      BY <1>3, <2>2
    <3>3. AtRotation' /\ AtLive'
      BY <1>4, <1>12, <1>16, <2>2, <3>1, <3>2 DEF AtRotation, AtLive
    <3> QED
      BY <2>1, <3>3 DEF DeviceInv
  <2>3. CASE i + 1 # KeyTableLen
    <3>1. pc' = "rewrite" /\ idx' = i + 1
      BY <1>3, <2>3
    <3>2. AtRotation' /\ AtLive'
      BY <1>4, <1>12, <1>16, <3>1 DEF AtRotation, AtLive
    <3> QED
      BY <2>1, <3>2 DEF DeviceInv
  <2> QED
    BY <2>2, <2>3
<1> QED
  BY <1>6, <1>9, <1>10, <1>17, <1>18, RecordedNext DEF ErasureInv, MediumOk

\* The steps that replace the keys above the key table: n goes to address a.
LEMMA Refills ==
  ASSUME OneTop, IInv, ErasureInv, Ledger, UNCHANGED <<ctl, slot, tpm, file>>,
         Refilling, pc \in {"fkt_top", "fkt_bot", "pprf_key"},
         NEW a \in {TopAt(0), BotAt, PprfAt}, NEW n, n.at = a, home' = [home EXCEPT ![a] = n],
         mem'.cache = mem.cache, fresh' \in Nat, fresh' >= fresh
  PROVE  /\ KindsOk' /\ files' \subseteq files /\ dead' = dead /\ CacheOk'
         /\ \A x \in Links' : x \in Links \/ LinkOf(n, x)
         /\ \A x \in Locks' : x \in Locks \/ LockOf(n, x)
         /\ OnlyNew(files', file', slot'[4], mem.newroot, KeyTableLen)
         /\ \A s \in Sector : Live(file', dead', s)
         /\ MediumInv' /\ Key \subseteq Key' /\ fresh \notin Key
         /\ ctl'.type \in {"PPRF_ROT", "PPRF_INIT"}
<1>1. home'[a] = n /\ \A b \in Addr : b # a => home'[b] = home[b]
  BY Places DEF IInv, Shape
<1>2. ctl'.type # "PPRF_PUNCT" /\ ctl'.type \in {"PPRF_ROT", "PPRF_INIT"}
  BY DEF Refilling, Rotating
<1>3. /\ KindsOk'
      /\ \A x \in Links' : x \in Links \/ LinkOf(n, x) \/ x \in CtlLinks(ctl')
      /\ \A x \in Locks' : x \in Locks \/ LockOf(n, x) \/ x \in CtlLocks(ctl')
      /\ \A x \in files' : x \in files \/ FileOf(n, x)
  <2>1. \A b \in Addr : home'[b] = home[b] \/ home'[b] = n
    BY <1>1
  <2>2. \A b \in Addr : home'[b].at = b
    BY <1>1, HeaderThere
  <2> QED
    BY <1>2, <2>1, <2>2, OneSector
<1>4. /\ \A x \in Links' : x \in Links \/ LinkOf(n, x)
      /\ \A x \in Locks' : x \in Locks \/ LockOf(n, x)
      /\ files' \subseteq files
  <2>1. n.at[1] # "table"
    BY DEF TopAt, BotAt, PprfAt
  <2> QED
    BY <1>3, <2>1, ControlHeard DEF FileOf
<1>5. dead' = dead /\ CacheOk' /\ Key \subseteq Key' /\ fresh \notin Key
  <2>1. CacheKept
    BY DEF CacheKept
  <2> QED
    BY <2>1, CacheSteady, FileKeysKept, Widen DEF IInv, ErasureInv
<1>6. OnlyNew(files', file', slot'[4], mem.newroot, KeyTableLen)
  <2>1. pc = "fkt_top" \/ pc \in {"fkt_bot", "pprf_key"}
    OBVIOUS
  <2>2. OnlyNew(files, file, slot[4], mem.newroot, KeyTableLen)
    BY <2>1 DEF ErasureInv, DeviceInv, AtRotation
  <2> QED
    BY <1>4, <2>2, OnlyNewKept
<1>7. \A s \in Sector : Live(file', dead', s)
  BY <1>5 DEF ErasureInv, DeviceInv, AtLive
<1>8. MediumInv'
  <2>1. CASE ctl.type = "PPRF_ROT"
    <3>1. \A s \in Sector : home'[TableAt(s)] = home[TableAt(s)]
      BY <1>1, Places, Apart
    <3>2. RotationMedium'
      BY <1>4, <2>1, <3>1, RotationUnheard DEF ErasureInv, MediumOk, MediumInv
    <3> QED
      BY <1>7, <2>1, <3>2 DEF MediumInv
  <2>2. CASE ctl.type = "PPRF_INIT"
    BY <1>7, <2>2, MediumAtNone
  <2> QED
    BY <1>2, <2>1, <2>2
<1> QED
  BY <1>2, <1>3, <1>4, <1>5, <1>6, <1>7, <1>8

\* What was drawn on the medium still is, with what the sector written adds.
LEMMA DrawnAfter ==
  ASSUME DrawnMedium, slot' = slot, files' \subseteq files, Key \subseteq Key',
         \A x \in Links' : x \in Links \/ (x[1] \in Key' /\ x[2] \in Key'),
         \A x \in Locks' : x \in Locks \/ x[1] \in Key'
  PROVE  DrawnMedium'
BY DEF DrawnMedium

LEMMA RewriteTopKeeps ==
  ASSUME OneTop, IInv, ErasureInv, Ledger, RewriteTop
  PROVE  ErasureInv'
<1> DEFINE body == [key |-> fresh, ctr |-> KeyTableLen, size |-> 1]
           n == Enc(TopAt(0), mem.mk, body)
<1>1. Refilling /\ idx = 0 /\ pc = "fkt_top" /\ FreshInv /\ MemShape(mem) /\ mem.mk = tpm
  BY DEF IInv, MemInv, RewriteTop, Shape, Refilling, Rotating
<1>2. /\ mem' = [mem EXCEPT !.top[0] = body] /\ home' = [home EXCEPT ![TopAt(0)] = n]
      /\ fresh' = fresh + 1 /\ pc' = "fkt_bot" /\ UNCHANGED <<ctl, slot, tpm, ret, file>>
  BY <1>1 DEF RewriteTop, OneTop
<1>3. body.key = fresh
  OBVIOUS
<1> HIDE DEF body
<1>4. mem'.top[0] = body /\ mem'.cache = mem.cache /\ mem'.newroot = mem.newroot
  BY <1>1, <1>2, SetTop DEF SameBut
<1>5. n.at = TopAt(0) /\ n.k = tpm /\ n.body = body /\ n.at[1] = "top"
  BY <1>1 DEF Enc, TopAt
<1> HIDE DEF n
<1>6. fresh' \in Nat /\ fresh' >= fresh /\ fresh \in Key'
  <2>1. \A k \in Nat : k + 1 \in Nat /\ k + 1 >= k /\ k \in 0 .. (k + 1) - 1
    OBVIOUS
  <2> QED
    BY <1>1, <1>2, <2>1 DEF FreshInv, Key
<1>7. /\ KindsOk' /\ files' \subseteq files /\ dead' = dead /\ CacheOk'
      /\ \A x \in Links' : x \in Links \/ LinkOf(n, x)
      /\ \A x \in Locks' : x \in Locks \/ LockOf(n, x)
      /\ OnlyNew(files', file', slot'[4], mem.newroot, KeyTableLen)
      /\ \A s \in Sector : Live(file', dead', s)
      /\ MediumInv' /\ Key \subseteq Key' /\ fresh \notin Key
  BY <1>1, <1>2, <1>4, <1>5, <1>6, Refills
<1>8. Locks' \subseteq Locks /\ \A x \in Links' : x \in Links \/ x = <<tpm, fresh>>
  BY <1>3, <1>5, <1>7 DEF LinkOf, LockOf
<1>9. tpm \in Key
  BY <1>1 DEF FreshInv
<1>10. DrawnMedium'
  BY <1>2, <1>6, <1>7, <1>8, <1>9, DrawnAfter DEF ErasureInv, MediumOk
<1>11. AtRefill'
  <2>1. fresh # tpm /\ mem'.top[0].key = fresh /\ tpm' = tpm
    BY <1>2, <1>3, <1>4, <1>7, <1>9
  <2>2. \A x \in Links' : x[1] # fresh
    BY <1>7, <1>8, <2>1 DEF ErasureInv, MediumOk, DrawnMedium
  <2>3. \A x \in Locks' : x[1] # fresh
    BY <1>7, <1>8 DEF ErasureInv, MediumOk, DrawnMedium
  <2> QED
    BY <1>2, <1>6, <2>1, <2>2, <2>3 DEF AtRefill
<1>12. AtRotation' /\ AtLive'
  BY <1>2, <1>4, <1>7 DEF AtRotation, AtLive
<1>13. AtSealed' /\ AtOnly' /\ AtMaster' /\ AtJournal'
  BY <1>2 DEF AtSealed, AtOnly, AtMaster, AtJournal
<1> QED
  BY <1>7, <1>10, <1>11, <1>12, <1>13, RecordedNext DEF ErasureInv, MediumOk, DeviceInv

LEMMA RewriteBottomKeeps ==
  ASSUME OneTop, IInv, ErasureInv, Ledger, RewriteBottom
  PROVE  ErasureInv'
<1> DEFINE n == Enc(BotAt, mem.top[0].key, fresh)
<1>1. Refilling /\ pc = "fkt_bot" /\ FreshInv /\ MemShape(mem)
  BY DEF IInv, MemInv, RewriteBottom, Shape
<1>2. /\ mem' = [mem EXCEPT !.pk = fresh] /\ home' = [home EXCEPT ![BotAt] = n]
      /\ fresh' = fresh + 1 /\ pc' = "pprf_key" /\ UNCHANGED <<ctl, slot, tpm, ret, file>>
  BY DEF RewriteBottom
<1>3. /\ mem'.pk = fresh /\ mem'.cache = mem.cache /\ mem'.newroot = mem.newroot
      /\ mem'.top = mem.top
  BY <1>1, <1>2, SetKey DEF SameBut
<1>4. n.at = BotAt /\ n.k = mem.top[0].key /\ n.body = fresh /\ n.at[1] = "bottom"
  BY DEF Enc, BotAt
<1> HIDE DEF n
<1>5. fresh' \in Nat /\ fresh' >= fresh /\ fresh \in Key'
  <2>1. \A k \in Nat : k + 1 \in Nat /\ k + 1 >= k /\ k \in 0 .. (k + 1) - 1
    OBVIOUS
  <2> QED
    BY <1>1, <1>2, <2>1 DEF FreshInv, Key
<1>6. /\ KindsOk' /\ files' \subseteq files /\ dead' = dead /\ CacheOk'
      /\ \A x \in Links' : x \in Links \/ LinkOf(n, x)
      /\ \A x \in Locks' : x \in Locks \/ LockOf(n, x)
      /\ OnlyNew(files', file', slot'[4], mem.newroot, KeyTableLen)
      /\ \A s \in Sector : Live(file', dead', s)
      /\ MediumInv' /\ Key \subseteq Key' /\ fresh \notin Key
  BY <1>1, <1>2, <1>3, <1>4, <1>5, Refills
<1>7. Locks' \subseteq Locks /\ \A x \in Links' : x \in Links \/ x = <<mem.top[0].key, fresh>>
  BY <1>4, <1>6 DEF LinkOf, LockOf
<1>8. /\ mem.top[0].key \in Key /\ mem.top[0].key # tpm
      /\ \A x \in Links : x[1] # mem.top[0].key
      /\ \A x \in Locks : x[1] # mem.top[0].key
  BY <1>1 DEF ErasureInv, DeviceInv, AtRefill
<1>9. DrawnMedium'
  BY <1>2, <1>5, <1>6, <1>7, <1>8, DrawnAfter DEF ErasureInv, MediumOk
<1>10. AtRefill'
  <2>1. fresh # tpm /\ fresh # mem.top[0].key /\ tpm' = tpm
    BY <1>1, <1>2, <1>6, <1>8 DEF FreshInv
  <2>2. \A x \in Links' : x[1] # fresh /\ (x[1] = mem.top[0].key => x[2] = fresh)
    BY <1>6, <1>7, <1>8, <2>1 DEF ErasureInv, MediumOk, DrawnMedium
  <2>3. \A x \in Locks' : x[1] # fresh /\ x[1] # mem.top[0].key
    BY <1>6, <1>7, <1>8 DEF ErasureInv, MediumOk, DrawnMedium
  <2>4. mem'.top[0].key \in Key'
    BY <1>3, <1>6, <1>8
  <2> QED
    BY <1>2, <1>3, <1>5, <1>8, <2>1, <2>2, <2>3, <2>4 DEF AtRefill
<1>11. AtRotation' /\ AtLive'
  BY <1>2, <1>3, <1>6 DEF AtRotation, AtLive
<1>12. AtSealed' /\ AtOnly' /\ AtMaster' /\ AtJournal'
  BY <1>2 DEF AtSealed, AtOnly, AtMaster, AtJournal
<1> QED
  BY <1>6, <1>9, <1>10, <1>11, <1>12, RecordedNext DEF ErasureInv, MediumOk, DeviceInv

LEMMA RewritePprfKeeps ==
  ASSUME OneTop, IInv, ErasureInv, Ledger, RewritePprf
  PROVE  ErasureInv'
<1> DEFINE pprf == [root |-> mem.newroot, punct |-> {}]
           n == Enc(PprfAt, mem.pk, pprf)
           m == [mem EXCEPT !.pprf = pprf]
<1>1. Refilling /\ pc = "pprf_key" /\ Shape /\ FreshInv /\ MemShape(mem)
  BY DEF IInv, MemInv, RewritePprf, Shape
<1>2. /\ home' = [home EXCEPT ![PprfAt] = n] /\ UNCHANGED <<ctl, slot, tpm, file>>
      /\ \/ mem' = m /\ pc' = "none" /\ UNCHANGED <<idx, ret, fresh>>
         \/ EnterMaster(m, ret)
  BY DEF RewritePprf
<1>3. PprfShape(pprf) /\ pprf.root = mem.newroot /\ pprf.punct = {}
  BY DEF PprfShape
<1> HIDE DEF pprf
<1>4. m.cache = mem.cache /\ MemShape(m)
  BY <1>1, <1>3, SetPprf DEF SameBut
<1> HIDE DEF m
<1>5. n.at = PprfAt /\ n.k = mem.pk /\ n.body = pprf /\ n.at[1] = "pprf"
  BY DEF Enc, PprfAt
<1> HIDE DEF n
<1>6. mem'.cache = mem.cache /\ fresh' \in Nat /\ fresh' >= fresh
  <2>1. CASE EnterMaster(m, ret)
    BY <1>4, <2>1, Entered
  <2>2. CASE mem' = m /\ UNCHANGED fresh
    BY <1>1, <1>4, <2>2 DEF FreshInv
  <2> QED
    BY <1>2, <2>1, <2>2
<1>7. /\ KindsOk' /\ files' \subseteq files /\ dead' = dead /\ CacheOk'
      /\ \A x \in Links' : x \in Links \/ LinkOf(n, x)
      /\ \A x \in Locks' : x \in Locks \/ LockOf(n, x)
      /\ OnlyNew(files', file', slot'[4], mem.newroot, KeyTableLen)
      /\ \A s \in Sector : Live(file', dead', s)
      /\ MediumInv' /\ Key \subseteq Key' /\ fresh \notin Key
  BY <1>1, <1>2, <1>5, <1>6, Refills
<1>8. Links' \subseteq Links /\ \A x \in Locks' : x \in Locks \/ x = <<mem.pk, mem.newroot, {}>>
  BY <1>3, <1>5, <1>7 DEF LinkOf, LockOf
<1> DEFINE t == mem.top[0].key
           b == mem.pk
<1>9. /\ t \in Key /\ t # tpm /\ b \in Key /\ b # tpm /\ b # t
      /\ \A x \in Links : (x[1] = t => x[2] = b) /\ x[1] # b
      /\ \A x \in Locks : x[1] # t /\ x[1] # b
  BY <1>1 DEF ErasureInv, DeviceInv, AtRefill
<1>10. DrawnMedium'
  BY <1>2, <1>7, <1>8, <1>9, DrawnAfter DEF ErasureInv, MediumOk
<1>11. /\ home'[PprfAt] = n /\ home'[TopAt(0)] = home[TopAt(0)] /\ home'[BotAt] = home[BotAt]
       /\ \A s \in Sector : home'[TableAt(s)] = home[TableAt(s)]
  BY <1>1, <1>2, Places, Apart DEF Shape
<1>12. TopOf(home').key = t /\ BotOf(home') = b /\ PprfOf(home') = pprf
       /\ \A s \in Sector : TagOf(home', s) = s
  <2>1. home[TopAt(0)].body = mem.top[0] /\ home[BotAt].body = b /\ \A s \in Sector : TagOf(home, s) = s
    BY <1>1 DEF Refilling, Enc, Done, Rewritten
  <2> QED
    BY <1>5, <1>11, <2>1 DEF TopOf, BotOf, PprfOf, TagOf
<1> HIDE DEF t, b
<1>13. Ways(Links', Locks', home', tpm)
  <2>1. Below(Links', Locks', t, b, pprf)
    <3>1. \A x \in Links' : (x[1] = t => x[2] = b) /\ x[1] # b
      BY <1>8, <1>9
    <3>2. \A x \in Locks' : x[1] # t /\ (x[1] = b => x[2] = pprf.root /\ x[3] = pprf.punct)
      BY <1>3, <1>8, <1>9 DEF b
    <3> QED
      BY <1>9, <3>1, <3>2 DEF Below
  <2> QED
    BY <1>9, <1>12, <2>1 DEF Ways, Separate
<1>14. Match(files', file', home')
  BY <1>3, <1>7, <1>12 DEF Match, OnlyNew
<1>15. TornOk(slot'[4], dead', home')
  BY <1>3, <1>7, <1>12 DEF TornOk, OnlyNew
<1>16. Sealed(Links', Locks', files', file', slot'[4], dead', home', tpm')
  BY <1>2, <1>13, <1>14, <1>15 DEF Sealed
<1>17. DeviceInv'
  <2>1. CASE EnterMaster(m, ret)
    <3>1. pc' = "m_slot" /\ mem'.newmk = fresh
      BY <1>4, <2>1, Entered
    <3>2. TopOf(home').key \in Key /\ BotOf(home') \in Key
      BY <1>9, <1>12
    <3>3. /\ \A x \in Links' : x \in Links \/ x[1] # fresh
          /\ \A x \in Locks' : x \in Locks \/ x[1] # fresh
      BY <1>7, <1>8, <1>9 DEF b
    <3> QED
      BY <1>1, <1>7, <1>16, <3>1, <3>2, <3>3, IntoMaster DEF ErasureInv, MediumOk
  <2>2. CASE pc' = "none"
    <3>1. AtSealed' /\ AtLive'
      BY <1>7, <1>16 DEF AtSealed, AtLive, SealedNow
    <3>2. AtOnly' /\ AtMaster' /\ AtJournal' /\ AtRotation' /\ AtRefill'
      BY <2>2 DEF AtOnly, AtMaster, AtJournal, AtRotation, AtRefill
    <3> QED
      BY <3>1, <3>2 DEF DeviceInv
  <2> QED
    BY <1>2, <2>1, <2>2
<1> QED
  BY <1>7, <1>10, <1>17, RecordedNext DEF ErasureInv, MediumOk

-----------------------------------------------------------------------------
(* persist_unlink.                                                         *)

\* The blocks of the transaction, one by one.
LEMMA Blocks ==
  ASSUME NEW i \in Slot, NEW n, n = JournalBlock(i)
  PROVE  /\ n.at = Transaction(mem.cur)[i]
         /\ i = 1 => n.at = TopAt(0) /\ n.k = mem.mk /\ n.body = mem.top[0]
         /\ i = 2 => n.at = BotAt /\ n.k = mem.top[0].key /\ n.body = mem.pk
         /\ i = 3 => n.at = PprfAt /\ n.k = mem.pk /\ n.body = mem.pprf
         /\ i = 4 => /\ n.at = TableAt(mem.cur)
                     /\ n.k = <<mem.pprf.root, mem.cache[mem.cur].tag>>
                     /\ n.body = mem.cache[mem.cur].keys
         /\ i = 5 => n.at = HeaderAt
<1>1. i \in {1, 2, 3, 4, 5}
  BY Constants
<1>2. CASE i = 1
  BY <1>2, Transacted DEF JournalBlock, Enc
<1>3. CASE i = 2
  BY <1>3, Transacted DEF JournalBlock, Enc
<1>4. CASE i = 3
  BY <1>4, Transacted DEF JournalBlock, Enc
<1>5. CASE i = 4
  BY <1>5, Transacted DEF JournalBlock, Enc
<1>6. CASE i = 5
  BY <1>6, Transacted DEF JournalBlock, Enc
<1> QED
  BY <1>1, <1>2, <1>3, <1>4, <1>5, <1>6

LEMMA JournalSlotKeeps ==
  ASSUME OneTop, IInv, ErasureInv, Ledger, JournalSlot
  PROVE  ErasureInv'
<1> DEFINE n == JournalBlock(idx)
           t == mem.top[0].key
           b == mem.pk
           c == mem.cache[mem.cur]
<1>1. Journaling /\ pc = "jnl" /\ Shape /\ FreshInv /\ MemShape(mem)
  BY DEF IInv, MemInv, JournalSlot, Shape
<1>2. /\ slot' = [slot EXCEPT ![idx] = n]
      /\ mem' = IF idx = 4 THEN [mem EXCEPT !.cache[mem.cur].dirty = FALSE] ELSE mem
      /\ pc' \in {"jnl", "punct_ctl"} /\ UNCHANGED <<home, ctl, tpm, ret, fresh, file>>
  BY <1>1 DEF JournalSlot
<1>3. /\ idx \in Slot /\ mem.cur \in DOMAIN mem.cache /\ ctl.type = "NONE" /\ mem.mk = tpm
      /\ mem.pprf.root = PprfOf(home).root
  BY <1>1 DEF Journaling
<1>4. /\ DOMAIN mem'.cache = DOMAIN mem.cache
      /\ \A s \in DOMAIN mem.cache : mem'.cache[s].keys = mem.cache[s].keys
      /\ mem'.top = mem.top /\ mem'.pk = mem.pk /\ mem'.pprf = mem.pprf
  <2>1. CASE idx = 4
    <3>1. mem' = Cleaned(mem, mem.cur)
      BY <1>2, <2>1 DEF Cleaned
    <3>2. /\ DOMAIN mem'.cache = DOMAIN mem.cache
          /\ mem'.cache[mem.cur].tag = mem.cache[mem.cur].tag
          /\ mem'.cache[mem.cur].keys = mem.cache[mem.cur].keys
          /\ \A s \in DOMAIN mem.cache : s # mem.cur => mem'.cache[s] = mem.cache[s]
          /\ SameBut(mem, mem', {"cache"}) /\ MemShape(mem')
      BY <1>1, <1>3, <3>1, EntryCleaned
    <3> QED
      BY <3>2 DEF SameBut
  <2>2. CASE idx # 4
    BY <1>2, <2>2
  <2> QED
    BY <2>1, <2>2
<1>5. /\ n.at = Transaction(mem.cur)[idx]
      /\ idx = 1 => n.at = TopAt(0) /\ n.k = tpm /\ n.body.key = t
      /\ idx = 2 => n.at = BotAt /\ n.k = t /\ n.body = b
      /\ idx = 3 => n.at = PprfAt /\ n.k = b /\ n.body = mem.pprf
      /\ idx = 4 => /\ n.at = TableAt(mem.cur) /\ n.k = <<mem.pprf.root, c.tag>>
                    /\ n.body = c.keys
      /\ idx = 5 => n.at = HeaderAt
  BY <1>3, Blocks
<1>6. slot'[idx] = n /\ \A i \in Slot : i # idx => slot'[i] = slot[i]
  BY <1>1, <1>2, <1>3 DEF Shape
<1> HIDE DEF n
<1>7. idx \in {1, 2, 3, 4, 5} /\ {1, 2, 3, 4, 5} \subseteq Slot /\ mem.cur \in Sector
  BY <1>1, <1>3, Constants DEF MemShape
<1>8. KindsOk'
  <2>1. \A a \in Addr : home'[a].at = a
    BY <1>2, HeaderThere
  <2>2. slot'[1].at \in {HeaderAt, TopAt(0)} /\ slot'[2].at \in {HeaderAt, BotAt}
        /\ slot'[3].at \in {HeaderAt, PprfAt} /\ slot'[5].at = HeaderAt
    BY <1>5, <1>6, <1>7 DEF ErasureInv, MediumOk, KindsOk
  <2>3. slot'[4].at = HeaderAt \/ \E s \in Sector : slot'[4].at = TableAt(s)
    BY <1>5, <1>6, <1>7 DEF ErasureInv, MediumOk, KindsOk
  <2> QED
    BY <2>1, <2>2, <2>3 DEF KindsOk
<1>9. files' = files
  <2>1. Written' = Written
    BY <1>2, <1>3, Committed DEF Written, Sectors
  <2> QED
    BY <2>1 DEF Ledger, ErasureInv, MediumOk, Recorded
<1>10. /\ \A x \in Links' : x \in Links \/ x = <<tpm, t>> \/ x = <<t, b>>
       /\ \A x \in Locks' : x \in Locks \/ x = <<b, mem.pprf.root, mem.pprf.punct>>
  <2>1. \A i \in Slot : (\E j \in Slot : slot'[i] = slot[j]) \/ slot'[i] = n
    BY <1>6
  <2>2. \A a \in Addr : \E d \in Addr : home'[a] = home[d]
    BY <1>2
  <2>3. /\ \A x \in Links' : x \in Links \/ LinkOf(n, x) \/ x \in CtlLinks(ctl')
        /\ \A x \in Locks' : x \in Locks \/ LockOf(n, x) \/ x \in CtlLocks(ctl')
        /\ \A x \in files' : \/ x \in files \/ FileOf(n, x)
                             \/ ctl'.type = "PPRF_PUNCT" /\ FileOf(slot'[4], x)
    BY <1>8, <2>1, <2>2, Grown DEF ErasureInv, MediumOk
  <2>4. n.at[1] = "top" => idx = 1
    BY <1>5, <1>7 DEF BotAt, PprfAt, TableAt, HeaderAt
  <2>5. n.at[1] = "bottom" => idx = 2
    BY <1>5, <1>7 DEF TopAt, PprfAt, TableAt, HeaderAt
  <2>6. n.at[1] = "pprf" => idx = 3
    BY <1>5, <1>7 DEF TopAt, BotAt, TableAt, HeaderAt
  <2>7. \A x : LinkOf(n, x) => x = <<tpm, t>> \/ x = <<t, b>>
    BY <1>5, <2>4, <2>5 DEF LinkOf
  <2>8. \A x : LockOf(n, x) => x = <<b, mem.pprf.root, mem.pprf.punct>>
    BY <1>5, <2>6 DEF LockOf
  <2> QED
    BY <1>2, <2>3, <2>7, <2>8, ControlHeard
<1>11. dead' = dead /\ CacheOk'
  <2>1. CacheKept /\ fresh' \in Nat /\ fresh' >= fresh
    BY <1>1, <1>2, <1>4 DEF CacheKept, FreshInv
  <2> QED
    BY <1>1, <1>2, <2>1, CacheSteady, FileKeysKept DEF ErasureInv
<1>12. /\ t \in Key /\ b \in Key /\ {t, b} \cap {tpm, TopOf(home).key, BotOf(home)} = {}
       /\ Below(Links, Locks, t, b, mem.pprf)
  BY <1>1 DEF ErasureInv, DeviceInv, AtJournal
<1>13. SealedNow(home, tpm)
  BY <1>3, SealedAtNone DEF ErasureInv, MediumOk
<1> HIDE DEF t, b
<1>14. Below(Links', Locks', t, b, mem.pprf)
  <2>1. t # b /\ tpm # t /\ tpm # b
    BY <1>12 DEF Below
  <2>2. \A x \in Links' : (x[1] = t => x[2] = b) /\ x[1] # b
    BY <1>10, <1>12, <2>1 DEF Below
  <2>3. \A x \in Locks' : x[1] # t /\ (x[1] = b => x[2] = mem.pprf.root /\ x[3] = mem.pprf.punct)
    BY <1>10, <1>12, <2>1 DEF Below
  <2> QED
    BY <2>1, <2>2, <2>3 DEF Below
<1>15. Sealed(Links', Locks', files', file', slot'[4], dead', home, tpm)
  <2>1. Ways(Links, Locks, home, tpm) /\ Match(files, file, home) /\ TornOk(slot[4], dead, home)
    BY <1>13 DEF SealedNow, Sealed
  <2>2. \A x \in Links' : x \in Links \/ x[1] \notin {TopOf(home).key, BotOf(home)}
    <3>1. tpm \notin {TopOf(home).key, BotOf(home)}
      BY <2>1 DEF Ways, Separate
    <3>2. t \notin {TopOf(home).key, BotOf(home)}
      BY <1>12
    <3>3. <<tpm, t>>[1] = tpm /\ <<t, b>>[1] = t
      OBVIOUS
    <3> QED
      BY <1>10, <3>1, <3>2, <3>3
  <2>3. \A x \in Locks' : x \in Locks \/ x[1] \notin {TopOf(home).key, BotOf(home)}
    <3>1. b \notin {TopOf(home).key, BotOf(home)}
      BY <1>12
    <3>2. <<b, mem.pprf.root, mem.pprf.punct>>[1] = b
      OBVIOUS
    <3> QED
      BY <1>10, <3>1, <3>2
  <2>4. Ways(Links', Locks', home, tpm)
    BY <2>1, <2>2, <2>3, WaysKept
  <2>5. TornOk(slot'[4], dead, home)
    <3>1. CASE idx = 4
      <4>1. slot'[4].body = c.keys
        BY <1>5, <1>6, <3>1
      <4>2. \A e \in Entry : c.keys[e] \notin dead
        BY <1>3 DEF ErasureInv, CacheOk, CacheLive
      <4> HIDE DEF c
      <4> QED
        BY <4>1, <4>2 DEF TornOk
    <3>2. CASE idx # 4
      BY <1>6, <1>7, <2>1, <3>2
    <3> QED
      BY <3>1, <3>2
  <2> QED
    BY <1>2, <1>9, <1>11, <2>1, <2>4, <2>5 DEF Sealed
<1>16. \A s \in Sector : Live(file', dead', s)
  BY <1>1, <1>2, <1>11 DEF ErasureInv, DeviceInv, AtLive
<1>17. MediumInv'
  BY <1>2, <1>3, <1>15, <1>16, MediumAtNone
<1>18. DrawnMedium'
  <2>1. Key' = Key /\ tpm \in Key /\ mem.pprf.root \in Key
    BY <1>1, <1>2, <1>3 DEF Key, FreshInv, PprfOf
  <2>2. slot'[4].at # HeaderAt => slot'[4].k[1] \in Key
    BY <1>5, <1>6, <1>7, <2>1 DEF ErasureInv, MediumOk, DrawnMedium
  <2>3. \A x \in Links' : x[1] \in Key /\ x[2] \in Key
    BY <1>10, <1>12, <2>1 DEF ErasureInv, MediumOk, DrawnMedium
  <2>4. \A x \in Locks' : x[1] \in Key
    BY <1>10, <1>12 DEF ErasureInv, MediumOk, DrawnMedium
  <2> QED
    BY <1>9, <2>1, <2>2, <2>3, <2>4 DEF ErasureInv, MediumOk, DrawnMedium
<1>19. DeviceInv'
  <2>1. AtJournal'
    <3>1. mem'.top[0].key = t /\ mem'.pk = b /\ Key' = Key
      BY <1>2, <1>4 DEF t, b, Key
    <3> QED
      BY <1>2, <1>4, <1>12, <1>14, <3>1 DEF AtJournal
  <2>2. AtLive'
    BY <1>2, <1>16 DEF AtLive
  <2>3. AtSealed' /\ AtOnly' /\ AtMaster' /\ AtRotation' /\ AtRefill'
    BY <1>2 DEF AtSealed, AtOnly, AtMaster, AtRotation, AtRefill
  <2> QED
    BY <2>1, <2>2, <2>3 DEF DeviceInv
<1> QED
  BY <1>8, <1>11, <1>17, <1>18, <1>19, RecordedNext DEF ErasureInv, MediumOk

\* From the commit on, the sector is under a new tag, and the old one is punctured.
LEMMA PunctureCtlKeeps ==
  ASSUME OneTop, IInv, ErasureInv, Ledger, PunctureCtl
  PROVE  ErasureInv'
<1>1. Journaling /\ pc = "punct_ctl" /\ Shape /\ FreshInv /\ MemShape(mem)
  BY DEF IInv, MemInv, PunctureCtl, Shape
<1>2. PICK s \in Sector : s = mem.cur
  BY <1>1 DEF MemShape, Journaling
<1> DEFINE keys == mem.cache[s].keys
           c == TopOf(home).ctr
           root == PprfOf(home).root
<1>3. /\ ctl'.type = "PPRF_PUNCT" /\ ctl'.addr = Transaction(s)
      /\ file' = [file EXCEPT ![s] = keys]
      /\ pc' = "replay" /\ UNCHANGED <<home, slot, tpm, mem, ret, idx, fresh>>
  BY <1>2 DEF PunctureCtl
<1>4. /\ s \in DOMAIN mem.cache /\ mem.cache[s].tag = c /\ InUse
      /\ mem.pprf.root = root /\ mem.pprf.punct = PprfOf(home).punct \cup {TagOf(home, s)}
      /\ Image(home, tpm, file) /\ \A i \in Slot : slot[i] = JournalBlock(i)
      /\ ctl.type = "NONE"
  BY <1>1, <1>2 DEF Journaling
<1>5. /\ slot[1].body = mem.top[0] /\ slot[2].body = mem.pk /\ slot[3].body = mem.pprf
      /\ slot[4].at = TableAt(s) /\ slot[4].k = <<root, c>> /\ slot[4].body = keys
  <2>1. 1 \in Slot /\ 2 \in Slot /\ 3 \in Slot /\ 4 \in Slot
    BY Constants
  <2> HIDE DEF c, root
  <2> QED
    BY <1>2, <1>4, <2>1, Blocks
<1>6. PICK h : h = RestartHome'
  OBVIOUS
<1>7. RestartMaster' = tpm /\ h = Overlay(home, slot, s)
  BY <1>3, <1>6, RestartTransactionNext
<1>8. /\ h[TopAt(0)] = slot[1] /\ h[BotAt] = slot[2] /\ h[PprfAt] = slot[3]
      /\ h[TableAt(s)] = slot[4]
      /\ \A t \in Sector : t # s => h[TableAt(t)] = home[TableAt(t)]
  <2>1. \A i \in Slot : h[Transaction(s)[i]] = slot[i]
    BY <1>7, Overlaid
  <2>2. 1 \in Slot /\ 2 \in Slot /\ 3 \in Slot /\ 4 \in Slot
    BY Constants
  <2>3. \A t \in Sector : t # s => h[TableAt(t)] = home[TableAt(t)]
    BY <1>7, Overlaid
  <2> QED
    BY <2>1, <2>2, <2>3, Transacted
<1>9. /\ TopOf(h) = mem.top[0] /\ BotOf(h) = mem.pk /\ PprfOf(h) = mem.pprf
      /\ TagOf(h, s) = c /\ \A t \in Sector : t # s => TagOf(h, t) = TagOf(home, t)
  BY <1>5, <1>8 DEF TopOf, BotOf, PprfOf, TagOf
<1>10. file'[s] = keys /\ \A t \in Sector : t # s => file'[t] = file[t]
  BY <1>1, <1>3 DEF Shape
<1>11. \A e \in Entry : keys[e] # Junk /\ keys[e] \notin dead
  BY <1>4 DEF ErasureInv, CacheOk, CacheLive
<1> HIDE DEF keys
<1>12. \A t \in Sector : Live(file', dead', t)
  <2>1. \A t \in Sector : Live(file, dead, t)
    BY <1>1 DEF ErasureInv, DeviceInv, AtLive
  <2>2. \A t \in Sector, e \in Entry : file'[t][e] # Junk /\ file'[t][e] \notin dead
    BY <1>10, <1>11, <2>1 DEF Live
  <2> QED
    BY <2>2, NotDying
<1>13. CacheOk'
  <2>1. PICK at \in [Nat -> Sector \X Entry] : Placed(at)
    BY DEF ErasureInv, CacheOk, PlaceInv
  <2>2. \A e \in Entry : at[keys[e]] = <<s, e>>
    BY <1>4, <2>1 DEF Placed, keys
  <2>3. keys \in Keys'
    <3>1. Keys' = Keys
      BY <1>3 DEF Keys, Key
    <3> QED
      BY <1>4, <3>1 DEF ErasureInv, CacheOk, DrawnKeys, keys
  <2>4. fresh' \in Nat /\ fresh' >= fresh
    BY <1>1, <1>3 DEF FreshInv
  <2>5. \A t \in DOMAIN mem'.cache :
          /\ t \in DOMAIN mem.cache /\ mem'.cache[t].keys = mem.cache[t].keys
          /\ t # s \/ mem.cache[t].keys = keys
    BY <1>3 DEF keys
  <2> QED
    BY <1>10, <2>1, <2>2, <2>3, <2>4, <2>5, CacheRekeyed
<1>14. KindsOk'
  BY <1>3 DEF ErasureInv, MediumOk, KindsOk
<1>15. /\ Links' \subseteq Links /\ Locks' \subseteq Locks
       /\ \A x \in files' : x \in files \/ \E e \in Entry : x = <<root, c, keys[e]>>
  <2> DEFINE n == home[HeaderAt]
  <2>1. n.at[1] = "header" /\ HeaderAt \in Addr
    BY HeaderThere DEF HeaderAt
  <2>2. \A a \in Addr : \E b \in Addr : home'[a] = home[b]
    BY <1>3
  <2>3. \A i \in Slot : \E j \in Slot : slot'[i] = slot[j]
    BY <1>3
  <2> HIDE DEF n
  <2>4. /\ \A x \in Links' : x \in Links \/ LinkOf(n, x) \/ x \in CtlLinks(ctl')
        /\ \A x \in Locks' : x \in Locks \/ LockOf(n, x) \/ x \in CtlLocks(ctl')
        /\ \A x \in files' : \/ x \in files \/ FileOf(n, x)
                             \/ ctl'.type = "PPRF_PUNCT" /\ FileOf(slot'[4], x)
    BY <1>14, <2>2, <2>3, Grown DEF ErasureInv, MediumOk
  <2>5. CtlLinks(ctl') = {} /\ CtlLocks(ctl') = {}
    BY <1>3 DEF CtlLinks, CtlLocks
  <2>6. \A x : FileOf(slot'[4], x) => \E e \in Entry : x = <<root, c, keys[e]>>
    <3>1. slot'[4].k[1] = root /\ slot'[4].k[2] = c /\ slot'[4].body = keys
      BY <1>3, <1>5
    <3> HIDE DEF root, c
    <3> QED
      BY <3>1 DEF FileOf
  <2> HIDE DEF root, c
  <2> QED
    BY <2>1, <2>4, <2>5, <2>6 DEF LinkOf, LockOf, FileOf
<1>16. /\ {mem.top[0].key, mem.pk} \cap {tpm, TopOf(home).key, BotOf(home)} = {}
       /\ Below(Links, Locks, mem.top[0].key, mem.pk, mem.pprf)
  BY <1>1 DEF ErasureInv, DeviceInv, AtJournal
<1>17. Ways(Links', Locks', h, tpm)
  <2>1. Below(Links', Locks', mem.top[0].key, mem.pk, mem.pprf)
    BY <1>15, <1>16, BelowKept
  <2>2. tpm # mem.top[0].key /\ tpm # mem.pk
    BY <1>16
  <2> QED
    BY <1>9, <2>1, <2>2 DEF Ways, Separate
<1>18. Match(files', file', h)
  <2>1. Match(files, file, home)
    BY <1>4, SealedAtNone DEF ErasureInv, MediumOk, SealedNow, Sealed
  <2>2. SUFFICES ASSUME NEW x \in files', x[1] = PprfOf(h).root, x[2] \notin PprfOf(h).punct
                 PROVE  \E t \in Sector : x[2] = TagOf(h, t) /\ \E e \in Entry : x[3] = file'[t][e]
    BY DEF Match
  <2>3. x[1] = root /\ x[2] \notin PprfOf(home).punct /\ x[2] # TagOf(home, s)
    BY <1>4, <1>9, <2>2
  <2>4. ASSUME x \in files PROVE \E t \in Sector : x[2] = TagOf(h, t) /\ \E e \in Entry : x[3] = file'[t][e]
    <3>1. PICK t \in Sector : x[2] = TagOf(home, t) /\ \E e \in Entry : x[3] = file[t][e]
      BY <2>1, <2>3, <2>4 DEF Match
    <3>2. t # s
      BY <2>3, <3>1
    <3> QED
      BY <1>9, <1>10, <3>1, <3>2
  <2>5. ASSUME NEW e \in Entry, x = <<root, c, keys[e]>>
        PROVE  \E t \in Sector : x[2] = TagOf(h, t) /\ \E d \in Entry : x[3] = file'[t][d]
    <3>1. x[2] = c /\ x[3] = keys[e]
      BY <2>5
    <3> HIDE DEF c
    <3> QED
      BY <1>9, <1>10, <3>1
  <2> QED
    BY <1>15, <2>4, <2>5
<1>19. TornOk(slot'[4], dead', h)
  <2>1. slot'[4].body = file'[s]
    BY <1>3, <1>5, <1>10
  <2> QED
    BY <1>12, <2>1 DEF TornOk, Live
<1>20. Sealed(Links', Locks', files', file', slot'[4], dead', h, tpm)
  BY <1>17, <1>18, <1>19 DEF Sealed
<1>21. MediumInv'
  <2>1. slot'[4].at = ctl'.addr[4]
    BY <1>3, <1>5, Transacted
  <2>2. SealedNow(RestartHome, RestartMaster)'
    BY <1>6, <1>7, <1>20 DEF SealedNow
  <2> QED
    BY <1>3, <1>12, <2>1, <2>2 DEF MediumInv
<1>22. DrawnMedium'
  <2>1. Key' = Key /\ root \in Key
    BY <1>1, <1>3 DEF Key, FreshInv, PprfOf
  <2> HIDE DEF root, c
  <2>2. \A f \in files' : f[1] \in Key
    BY <1>15, <2>1 DEF ErasureInv, MediumOk, DrawnMedium
  <2> QED
    BY <1>3, <1>15, <2>1, <2>2 DEF ErasureInv, MediumOk, DrawnMedium
<1>23. DeviceInv'
  BY <1>3, <1>12, DeviceElsewhere
<1> QED
  BY <1>13, <1>14, <1>21, <1>22, <1>23, RecordedNext DEF ErasureInv, MediumOk

\* The blocks of the transaction go where they came from; a restart finds the same.
LEMMA ReplayBlockKeeps ==
  ASSUME OneTop, IInv, IInv', ErasureInv, Ledger, ReplayBlock
  PROVE  ErasureInv'
<1>1. Replaying /\ pc = "replay" /\ Shape /\ FreshInv
  BY DEF IInv, MemInv, ReplayBlock
<1>2. PICK s \in Sector : ctl.addr = Transaction(s)
  BY <1>1 DEF IInv, DiskInv, Replaying
<1>3. /\ home' = [home EXCEPT ![Transaction(s)[idx]] = slot[idx]]
      /\ pc' = (IF idx < 5 THEN "replay" ELSE IF ret = "recover" THEN "clear" ELSE "none")
      /\ UNCHANGED <<ctl, slot, tpm, mem, ret, fresh, file>>
  BY <1>1, <1>2 DEF ReplayBlock
<1>4. /\ ctl.type = "PPRF_PUNCT" /\ idx \in Slot
      /\ \A i \in Slot : i < idx => home[Transaction(s)[i]] = slot[i]
      /\ Image(RestartHome, RestartMaster, file) /\ InUse
  BY <1>1, <1>2 DEF IInv, DiskInv, Replaying
<1>5. /\ RestartMaster = tpm /\ RestartHome = Overlay(home, slot, s)
      /\ RestartMaster' = tpm /\ RestartHome' = Overlay(home', slot, s)
  BY <1>2, <1>3, <1>4, RestartTransaction, RestartTransactionNext
<1>6. \A i \in Slot : Transaction(s)[i] \in Addr
  BY Places, Transacted, Constants
<1>7. /\ home'[Transaction(s)[idx]] = slot[idx]
      /\ \A a \in Addr : a # Transaction(s)[idx] => home'[a] = home[a]
      /\ home' = [a \in Addr |-> home'[a]]
  BY <1>1, <1>3, <1>4, <1>6 DEF Shape
<1>8. RestartHome' = RestartHome
  <2>1. \A a \in Addr : (\A i \in Slot : Transaction(s)[i] # a) => home'[a] = home[a]
    BY <1>4, <1>7
  <2> QED
    BY <1>5, <2>1 DEF Overlay
<1>9. PICK h : h = RestartHome
  OBVIOUS
<1>10. /\ h = [a \in Addr |-> h[a]]
       /\ \A i \in Slot : h[Transaction(s)[i]] = slot[i]
       /\ \A a \in Addr : (\A i \in Slot : Transaction(s)[i] # a) => h[a] = home[a]
  BY <1>5, <1>9, Overlaid
<1>11. slot[idx].at = Transaction(s)[idx]
  <2>1. slot[1].at = TopAt(0) /\ slot[2].at = BotAt /\ slot[3].at = PprfAt
    BY <1>4, <1>9, <1>10, Transacted, Constants DEF Image, Chained
  <2>2. slot[4].at = TableAt(s) /\ slot[5].at = HeaderAt
    BY <1>2, <1>4, Transacted DEF ErasureInv, MediumOk, MediumInv, KindsOk
  <2>3. idx \in {1, 2, 3, 4, 5}
    BY <1>4, Constants
  <2> QED
    BY <2>1, <2>2, <2>3, Transacted
<1>12. NoNews /\ Recorded' /\ DrawnMedium' /\ KindsOk' /\ CacheOk' /\ dead' = dead
  <2>1. idx \in CommittedSlots(ctl)
    BY <1>4, Committed
  <2>2. fresh' \in Nat /\ fresh' >= fresh /\ CacheKept
    BY <1>1, <1>3 DEF FreshInv, CacheKept
  <2>3. \A a \in Addr : home'[a].at = a
    BY <1>7, <1>11, HeaderThere
  <2>4. \A a \in Addr : \/ \E b \in Addr : home'[a] = home[b]
                        \/ \E i \in CommittedSlots(ctl) : home'[a] = slot[i]
                        \/ home'[a] = home[HeaderAt]
    BY <1>7, <2>1
  <2> QED
    BY <1>3, <2>2, <2>3, <2>4, HeaderThere, Silent
<1>13. Sealed(Links', Locks', files', file', slot'[4], dead', h, tpm)
  <2>1. SealedNow(h, tpm)
    BY <1>4, <1>5, <1>9 DEF ErasureInv, MediumOk, MediumInv
  <2> QED
    BY <1>3, <1>12, <2>1, SealedUnheard
<1>14. \A t \in Sector : Live(file', dead', t)
  BY <1>3, <1>4, <1>12, LiveInUse DEF ErasureInv, MediumOk
<1>15. MediumInv'
  <2>1. SealedNow(RestartHome, RestartMaster)'
    BY <1>5, <1>8, <1>9, <1>13 DEF SealedNow
  <2>2. slot'[4].at = ctl'.addr[4]
    BY <1>3, <1>4 DEF ErasureInv, MediumOk, MediumInv
  <2> QED
    BY <1>3, <1>4, <1>14, <2>1, <2>2 DEF MediumInv
<1>16. InUse'
  BY <1>3, <1>4 DEF IInv, DiskInv
<1>17. CASE idx < 5
  <2>1. DeviceInv'
    BY <1>3, <1>14, <1>17, DeviceElsewhere
  <2> QED
    BY <1>12, <1>15, <2>1 DEF ErasureInv, MediumOk
<1>18. CASE ~(idx < 5)
  <2>1. pc' \in {"clear", "none"}
    BY <1>3, <1>18
  <2>2. home' = h
    <3>1. \A i \in Slot : i = idx \/ i < idx
      BY <1>4, <1>18 DEF Slot
    <3>2. \A i, j \in Slot : Transaction(s)[i] = Transaction(s)[j] => i = j
      BY Transacted, Constants, Apart
    <3>3. \A i \in Slot : home'[Transaction(s)[i]] = slot[i]
      BY <1>4, <1>6, <1>7, <3>1, <3>2
    <3>4. ASSUME NEW a \in Addr PROVE home'[a] = h[a]
      <4>1. CASE \E i \in Slot : Transaction(s)[i] = a
        BY <1>10, <3>3, <4>1
      <4>2. CASE \A i \in Slot : Transaction(s)[i] # a
        BY <1>4, <1>7, <1>10, <4>2
      <4> QED
        BY <4>1, <4>2
    <3> QED
      BY <1>7, <1>10, <3>4
  <2>3. AtSealed'
    BY <1>3, <1>13, <2>2 DEF AtSealed, SealedNow
  <2>4. AtOnly' /\ AtMaster' /\ AtJournal' /\ AtRotation' /\ AtRefill'
    BY <1>16, <2>1 DEF AtOnly, AtMaster, AtJournal, AtRotation, AtRefill
  <2>5. AtLive'
    BY <1>14, <2>1 DEF AtLive
  <2> QED
    BY <1>12, <1>15, <2>3, <2>4, <2>5 DEF ErasureInv, MediumOk, DeviceInv
<1> QED
  BY <1>17, <1>18

-----------------------------------------------------------------------------
(* The initial states.                                                     *)

\* What the initial states have in common.
Begun ==
  /\ slot = [i \in Slot |-> Enc(HeaderAt, Junk, FALSE)] /\ ctl.type \in {"NONE", "PPRF_INIT"}
  /\ pc = "down" /\ DOMAIN mem.cache = {} /\ dead = {}
  /\ wraps = WrapsIn(Written, ctl) /\ pprfs = PprfsIn(Written, ctl) /\ files = FilesIn(Written)

LEMMA Begins ==
  ASSUME OneTop, RInit
  PROVE  Begun /\ (ctl.type = "NONE" <=> InitInUse) /\ (ctl.type = "PPRF_INIT" <=> InitCreated)
<1>1. slot = [i \in Slot |-> Enc(HeaderAt, Junk, FALSE)] /\ mem = NoMem /\ pc = "down" /\ dead = {}
  BY DEF RInit, Init
<1>2. DOMAIN mem.cache = {}
  BY <1>1 DEF NoMem
<1>3. /\ InitInUse \/ InitCreated
      /\ InitInUse => ctl.type = "NONE"
      /\ InitCreated => ctl.type = "PPRF_INIT"
  <2>1. InitInUse \/ InitCreated
    BY DEF RInit, Init
  <2>2. InitInUse => ctl = NoControl
    BY DEF InitInUse
  <2>3. InitCreated => ctl = [NoControl EXCEPT !.type = "PPRF_INIT"]
    BY DEF InitCreated
  <2> QED
    BY <2>1, <2>2, <2>3 DEF NoControl
<1>4. Written = Sectors(home, slot, {})
  BY <1>3, Committed DEF Written
<1>5. wraps = WrapsIn(Written, ctl) /\ pprfs = PprfsIn(Written, ctl) /\ files = FilesIn(Written)
  BY <1>4 DEF RInit
<1> QED
  BY <1>1, <1>2, <1>3, <1>5 DEF Begun

\* Only what is in the sectors has been written.
LEMMA BegunHistory ==
  ASSUME OneTop, Begun, \A a \in Addr : home[a].at = a
  PROVE  /\ Recorded /\ KindsOk /\ slot[4].at = HeaderAt
         /\ \A x \in Links : LinkOf(home[TopAt(0)], x) \/ LinkOf(home[BotAt], x)
         /\ \A x \in Locks : LockOf(home[PprfAt], x)
         /\ \A x \in files : \E s \in Sector : FileOf(home[TableAt(s)], x)
         /\ DeviceInv
<1>1. \A i \in Slot : slot[i].at = HeaderAt
  BY DEF Begun, Enc
<1>2. Recorded
  BY DEF Begun, Recorded
<1>3. 1 \in Slot /\ 2 \in Slot /\ 3 \in Slot /\ 4 \in Slot /\ 5 \in Slot
  BY Constants
<1>4. KindsOk /\ slot[4].at = HeaderAt
  BY <1>1, <1>3 DEF KindsOk
<1>5. CtlLinks(ctl) = {} /\ CtlLocks(ctl) = {} /\ CommittedSlots(ctl) = {}
  BY Committed DEF Begun, CtlLinks, CtlLocks
<1>6. \A b \in Written : \E a \in Addr : b = home[a] /\ b.at = a
  BY <1>5 DEF Written, Sectors
<1>7. \A b \in Torn : b.at[1] = "header"
  BY <1>1 DEF Torn, HeaderAt
<1>8. /\ HeaderAt[1] = "header" /\ TopAt(0)[1] = "top" /\ BotAt[1] = "bottom" /\ PprfAt[1] = "pprf"
      /\ \A s : TableAt(s)[1] = "table"
  BY DEF HeaderAt, TopAt, BotAt, PprfAt, TableAt
<1>9. \A x \in Links : LinkOf(home[TopAt(0)], x) \/ LinkOf(home[BotAt], x)
  <2>1. SUFFICES ASSUME NEW x \in Links PROVE LinkOf(home[TopAt(0)], x) \/ LinkOf(home[BotAt], x)
    OBVIOUS
  <2>2. PICK b \in Written \cup Torn : LinkOf(b, x)
    BY <1>5, Wrapped DEF Links, Begun
  <2>3. b.at[1] \in {"top", "bottom"}
    BY <2>2 DEF LinkOf
  <2>4. PICK a \in Addr : b = home[a] /\ b.at = a
    BY <1>6, <1>7, <2>2, <2>3
  <2>5. a \in {TopAt(0), BotAt}
    BY <1>8, <2>3, <2>4, Places
  <2> QED
    BY <2>2, <2>4, <2>5
<1>10. \A x \in Locks : LockOf(home[PprfAt], x)
  <2>1. SUFFICES ASSUME NEW x \in Locks PROVE LockOf(home[PprfAt], x)
    OBVIOUS
  <2>2. PICK b \in Written \cup Torn : LockOf(b, x)
    BY <1>5, Wrapped DEF Locks, Begun
  <2>3. b.at[1] = "pprf"
    BY <2>2 DEF LockOf
  <2>4. PICK a \in Addr : b = home[a] /\ b.at = a
    BY <1>6, <1>7, <2>2, <2>3
  <2>5. a = PprfAt
    BY <1>8, <2>3, <2>4, Places
  <2> QED
    BY <2>2, <2>4, <2>5
<1>11. \A x \in files : \E s \in Sector : FileOf(home[TableAt(s)], x)
  <2>1. SUFFICES ASSUME NEW x \in files PROVE \E s \in Sector : FileOf(home[TableAt(s)], x)
    OBVIOUS
  <2>2. PICK b \in Written : FileOf(b, x)
    BY Wrapped DEF Begun
  <2>3. b.at[1] = "table"
    BY <2>2 DEF FileOf
  <2>4. PICK a \in Addr : b = home[a] /\ b.at = a
    BY <1>6, <2>2
  <2>5. \E s \in Sector : a = TableAt(s)
    BY <1>8, <2>3, <2>4, Places
  <2> QED
    BY <2>2, <2>4, <2>5
<1>12. DeviceInv
  BY DEF Begun, DeviceInv, AtSealed, AtOnly, AtMaster, AtJournal, AtRotation, AtRefill, AtLive
<1> QED
  BY <1>2, <1>4, <1>9, <1>10, <1>11, <1>12

\* The file keys of the first device, each of its own number.
LEMMA FirstPlaces ==
  ASSUME OneTop, InitInUse
  PROVE  /\ \A s \in Sector, e \in Entry :
              file[s][e] \in 5 .. fresh - 1 /\ \A t \in Sector, d \in Entry :
                file[s][e] = file[t][d] => s = t /\ e = d
         /\ \A s \in Sector : file[s] = [e \in Entry |-> file[s][e]]
         /\ fresh \in Nat
<1>1. \A s \in Sector : s * Entries \in Nat
  BY Constants
<1>2. \A s \in Sector, e \in Entry : file[s][e] = 4 + s * Entries + e
  <2>1. file = FirstKeys /\ TopWidth + 3 = 4
    BY DEF InitInUse, OneTop
  <2> QED
    BY <2>1 DEF FirstKeys
<1>3. \A s \in Sector : file[s] = [e \in Entry |-> file[s][e]]
  BY DEF InitInUse, FirstKeys
<1>4. PICK n \in Nat : n = KeyTableLen * Entries
  BY Constants
<1>5. fresh = 5 + n
  BY <1>4 DEF InitInUse, OneTop
<1>6. \A s, t \in Nat : s < t => s * Entries + Entries <= t * Entries
  <2>1. ASSUME NEW s \in Nat, NEW t \in Nat, s < t PROVE s * Entries + Entries <= t * Entries
    <3>1. PICK k \in Nat : t = s + 1 + k
      <4>1. t - s - 1 \in Nat /\ t = s + 1 + (t - s - 1)
        BY <2>1
      <4> QED
        BY <4>1
    <3>2. k * Entries \in Nat /\ s * Entries \in Nat
      BY Constants
    <3>3. t * Entries = s * Entries + Entries + k * Entries
      BY <3>1, Constants
    <3> QED
      BY <3>2, <3>3, Constants
  <2> QED
    BY <2>1
<1>7. \A s \in Sector : s \in Nat /\ s < KeyTableLen /\ KeyTableLen \in Nat
  BY Constants
<1>8. ASSUME NEW s \in Sector, NEW e \in Entry PROVE file[s][e] \in 5 .. fresh - 1
  <2>1. PICK m \in Nat : m = s * Entries
    BY <1>1
  <2>2. m + Entries <= n
    BY <1>4, <1>6, <1>7, <2>1
  <2>3. file[s][e] = 4 + m + e /\ e \in 1 .. Entries /\ Entries \in Nat
    BY <1>2, <2>1, Constants DEF Entry
  <2> QED
    BY <1>5, <2>2, <2>3
<1>9. ASSUME NEW s \in Sector, NEW e \in Entry, NEW t \in Sector, NEW d \in Entry, s < t
      PROVE  file[s][e] # file[t][d]
  <2>1. PICK m \in Nat : m = s * Entries
    BY <1>1
  <2>2. PICK k \in Nat : k = t * Entries
    BY <1>1
  <2>3. m + Entries <= k
    BY <1>6, <1>7, <1>9, <2>1, <2>2
  <2>4. file[s][e] = 4 + m + e /\ file[t][d] = 4 + k + d /\ e \in 1 .. Entries /\ d \in 1 .. Entries
        /\ Entries \in Nat
    BY <1>2, <2>1, <2>2, Constants DEF Entry
  <2> QED
    BY <2>3, <2>4
<1>10. ASSUME NEW s \in Sector, NEW e \in Entry, NEW t \in Sector, NEW d \in Entry,
              file[s][e] = file[t][d]
       PROVE  s = t /\ e = d
  <2>1. s = t
    <3>1. s < t \/ t < s \/ s = t
      BY <1>7
    <3> QED
      BY <1>9, <1>10, <3>1
  <2>2. PICK m \in Nat : m = s * Entries
    BY <1>1
  <2>3. file[s][e] = 4 + m + e /\ file[s][d] = 4 + m + d /\ e \in 1 .. Entries /\ d \in 1 .. Entries
        /\ Entries \in Nat
    BY <1>2, <2>2, Constants DEF Entry
  <2> QED
    BY <1>10, <2>1, <2>3
<1> QED
  BY <1>3, <1>5, <1>8, <1>10

LEMMA InitInUseErasure == ASSUME OneTop, RInit, InitInUse PROVE ErasureInv
<1>1. Begun /\ ctl.type = "NONE"
  BY Begins
<1>2. /\ home[HeaderAt] = Enc(HeaderAt, Junk, TRUE)
      /\ home[TopAt(0)] = Enc(TopAt(0), 1, [key |-> 2, ctr |-> KeyTableLen, size |-> 1])
      /\ home[BotAt] = Enc(BotAt, 2, 3)
      /\ home[PprfAt] = Enc(PprfAt, 3, [root |-> 4, punct |-> {}])
      /\ \A s \in Sector : home[TableAt(s)] = Enc(TableAt(s), <<4, s>>, file[s])
  BY FirstSectors
<1>3. /\ home[TopAt(0)].k = 1 /\ home[TopAt(0)].body.key = 2
      /\ home[BotAt].k = 2 /\ home[BotAt].body = 3
      /\ home[PprfAt].k = 3 /\ home[PprfAt].body.root = 4 /\ home[PprfAt].body.punct = {}
  BY <1>2 DEF Enc
<1>4. ASSUME NEW s \in Sector
      PROVE  /\ home[TableAt(s)].at = TableAt(s) /\ home[TableAt(s)].k = <<4, s>>
             /\ home[TableAt(s)].body = file[s]
  <2>1. home[TableAt(s)] = Enc(TableAt(s), <<4, s>>, file[s])
    BY <1>2
  <2> QED
    BY <2>1 DEF Enc
<1>5. \A a \in Addr : home[a].at = a
  <2>1. home[HeaderAt].at = HeaderAt /\ home[TopAt(0)].at = TopAt(0) /\ home[BotAt].at = BotAt
        /\ home[PprfAt].at = PprfAt
    BY <1>2 DEF Enc
  <2> QED
    BY <1>4, <2>1, Places
<1>6. /\ Recorded /\ KindsOk /\ slot[4].at = HeaderAt /\ DeviceInv
      /\ \A x \in Links : LinkOf(home[TopAt(0)], x) \/ LinkOf(home[BotAt], x)
      /\ \A x \in Locks : LockOf(home[PprfAt], x)
      /\ \A x \in files : \E s \in Sector : FileOf(home[TableAt(s)], x)
  BY <1>1, <1>5, BegunHistory
<1>7. /\ \A x \in Links : x = <<1, 2>> \/ x = <<2, 3>>
      /\ \A x \in Locks : x = <<3, 4, {}>>
      /\ \A x \in files : \E s \in Sector, e \in Entry : x = <<4, s, file[s][e]>>
  <2>1. \A x \in Links : x = <<1, 2>> \/ x = <<2, 3>>
    BY <1>3, <1>5, <1>6, Places DEF LinkOf, TopAt, BotAt
  <2>2. \A x \in Locks : x = <<3, 4, {}>>
    BY <1>3, <1>6 DEF LockOf
  <2>3. \A s \in Sector : home[TableAt(s)].k[1] = 4 /\ home[TableAt(s)].k[2] = s
    BY <1>4
  <2>4. \A x \in files : \E s \in Sector, e \in Entry : x = <<4, s, file[s][e]>>
    BY <1>4, <1>6, <2>3 DEF FileOf
  <2> QED
    BY <2>1, <2>2, <2>4
<1>8. /\ \A s \in Sector, e \in Entry :
           file[s][e] \in 5 .. fresh - 1 /\ \A t \in Sector, d \in Entry :
             file[s][e] = file[t][d] => s = t /\ e = d
      /\ \A s \in Sector : file[s] = [e \in Entry |-> file[s][e]]
      /\ fresh \in Nat
  BY FirstPlaces
<1>9. 0 \in Sector /\ 1 \in Entry
  BY Constants DEF Entry
<1>10. fresh > 5
  BY <1>8, <1>9
<1>11. {1, 2, 3, 4} \subseteq Key /\ 5 .. fresh - 1 \subseteq Key
  BY <1>8, <1>10 DEF Key
<1>12. DrawnMedium
  <2>1. \A x \in Links : x[1] \in Key /\ x[2] \in Key
    BY <1>7, <1>11
  <2>2. \A x \in Locks : x[1] \in Key
    BY <1>7, <1>11
  <2>3. \A x \in files : x[1] \in Key
    BY <1>7, <1>11
  <2> QED
    BY <1>6, <2>1, <2>2, <2>3 DEF DrawnMedium
<1>13. DrawnKeys
  <2>1. \A s \in Sector : file[s] \in Keys
    BY <1>8, <1>11 DEF Keys
  <2> QED
    BY <1>1, <2>1 DEF Begun, DrawnKeys
<1>14. PlaceInv
  <2> DEFINE Here(k, p) == p \in Sector \X Entry /\ file[p[1]][p[2]] = k
             at == [k \in Nat |-> IF \E p : Here(k, p) THEN CHOOSE p : Here(k, p) ELSE <<0, 1>>]
  <2>1. at \in [Nat -> Sector \X Entry]
    BY <1>9
  <2>2. ASSUME NEW s \in Sector, NEW e \in Entry PROVE at[file[s][e]] = <<s, e>>
    <3>1. PICK k \in Nat : k = file[s][e]
      BY <1>8
    <3>2. Here(k, <<s, e>>)
      BY <3>1
    <3>3. \A p : Here(k, p) => p = <<s, e>>
      BY <1>8, <3>1
    <3> HIDE DEF Here
    <3>4. (CHOOSE p : Here(k, p)) = <<s, e>>
      BY <3>2, <3>3
    <3> QED
      BY <3>1, <3>2, <3>4
  <2> HIDE DEF at
  <2>3. Placed(at)
    BY <1>1, <2>2 DEF Placed, Begun
  <2> QED
    BY <2>1, <2>3 DEF PlaceInv
<1>15. CacheLive
  BY <1>1 DEF CacheLive, Begun
<1>16. MediumInv
  <2>1. tpm = 1
    BY DEF InitInUse
  <2>2. TopOf(home).key = 2 /\ BotOf(home) = 3 /\ PprfOf(home).root = 4 /\ PprfOf(home).punct = {}
        /\ \A s \in Sector : TagOf(home, s) = s
    BY <1>3, <1>4 DEF TopOf, BotOf, PprfOf, TagOf
  <2>3. \A x \in Links : (x[1] = 2 => x[2] = 3) /\ x[1] # 3
    BY <1>7
  <2>4. \A x \in Locks : x[1] # 2 /\ x[2] = 4 /\ x[3] = {}
    BY <1>7
  <2>5. Ways(Links, Locks, home, tpm)
    BY <2>1, <2>2, <2>3, <2>4 DEF Ways, Below, Separate
  <2>6. Match(files, file, home)
    BY <1>7, <2>2 DEF Match
  <2>7. TornOk(slot[4], dead, home)
    BY <1>6 DEF TornOk
  <2>8. SealedNow(RestartHome, RestartMaster)
    BY <1>1, <2>5, <2>6, <2>7, RestartPlain DEF SealedNow, Sealed
  <2>9. \A s \in Sector : Live(file, dead, s)
    BY <1>1, <1>8 DEF Live, Begun, Junk
  <2> QED
    BY <1>1, <2>8, <2>9 DEF MediumInv
<1> QED
  BY <1>6, <1>12, <1>13, <1>14, <1>15, <1>16 DEF ErasureInv, MediumOk, CacheOk

LEMMA InitCreatedErasure == ASSUME OneTop, RInit, InitCreated PROVE ErasureInv
<1>1. Begun /\ ctl.type = "PPRF_INIT"
  BY Begins
<1>2. /\ home[HeaderAt] = Enc(HeaderAt, Junk, FALSE)
      /\ home[TopAt(0)] = Enc(TopAt(0), Junk, JunkTop) /\ home[BotAt] = Enc(BotAt, Junk, Junk)
      /\ home[PprfAt] = Enc(PprfAt, Junk, JunkPprf)
      /\ \A s \in Sector : home[TableAt(s)] = Enc(TableAt(s), <<Junk, 0>>, JunkKeys)
  <2>1. /\ HeaderAt[1] = "header" /\ BotAt[1] = "bottom" /\ PprfAt[1] = "pprf"
        /\ TopAt(0)[1] = "top" /\ \A s : TableAt(s)[1] = "table"
    BY DEF HeaderAt, TopAt, BotAt, PprfAt, TableAt
  <2>2. home[HeaderAt] = Enc(HeaderAt, Junk, FALSE)
    BY <2>1, Places DEF InitCreated
  <2>3. home[TopAt(0)] = Enc(TopAt(0), Junk, JunkTop)
    BY <2>1, Places DEF InitCreated
  <2>4. home[BotAt] = Enc(BotAt, Junk, Junk)
    BY <2>1, Places DEF InitCreated
  <2>5. home[PprfAt] = Enc(PprfAt, Junk, JunkPprf)
    BY <2>1, Places DEF InitCreated
  <2>6. \A s \in Sector : home[TableAt(s)] = Enc(TableAt(s), <<Junk, 0>>, JunkKeys)
    BY <2>1, Places DEF InitCreated
  <2> QED
    BY <2>2, <2>3, <2>4, <2>5, <2>6
<1>3. ASSUME NEW s \in Sector
       PROVE  home[TableAt(s)].at = TableAt(s) /\ home[TableAt(s)].k = <<Junk, 0>>
  <2>1. home[TableAt(s)] = Enc(TableAt(s), <<Junk, 0>>, JunkKeys)
    BY <1>2
  <2> QED
    BY <2>1 DEF Enc
<1>4. \A a \in Addr : home[a].at = a
  <2>1. home[HeaderAt].at = HeaderAt /\ home[TopAt(0)].at = TopAt(0) /\ home[BotAt].at = BotAt
        /\ home[PprfAt].at = PprfAt
    BY <1>2 DEF Enc
  <2> QED
    BY <1>3, <2>1, Places
<1>5. /\ Recorded /\ KindsOk /\ slot[4].at = HeaderAt /\ DeviceInv
      /\ \A x \in Links : LinkOf(home[TopAt(0)], x) \/ LinkOf(home[BotAt], x)
      /\ \A x \in Locks : LockOf(home[PprfAt], x)
      /\ \A x \in files : \E s \in Sector : FileOf(home[TableAt(s)], x)
  BY <1>1, <1>4, BegunHistory
<1>6. Junk \in Key /\ file = [s \in Sector |-> JunkKeys]
  BY DEF InitCreated, Key, Junk
<1>7. DrawnMedium
  <2>1. home[TopAt(0)].k = Junk /\ home[TopAt(0)].body.key = Junk
        /\ home[BotAt].k = Junk /\ home[BotAt].body = Junk /\ home[PprfAt].k = Junk
    BY <1>2 DEF Enc, JunkTop
  <2>2. \A s \in Sector : home[TableAt(s)].k[1] = Junk
    BY <1>3
  <2>3. \A x \in Links : x[1] \in Key /\ x[2] \in Key
    <3>1. \A x : LinkOf(home[TopAt(0)], x) => x[1] = Junk /\ x[2] = Junk
      <4>1. home[TopAt(0)].at[1] # "bottom"
        BY <1>4, Places DEF TopAt
      <4> QED
        BY <2>1, <4>1 DEF LinkOf
    <3>2. \A x : LinkOf(home[BotAt], x) => x[1] = Junk /\ x[2] = Junk
      <4>1. home[BotAt].at[1] # "top"
        BY <1>4, Places DEF BotAt
      <4> QED
        BY <2>1, <4>1 DEF LinkOf
    <3> QED
      BY <1>5, <1>6, <3>1, <3>2
  <2>4. \A x \in Locks : x[1] \in Key
    BY <1>5, <1>6, <2>1 DEF LockOf
  <2>5. \A x \in files : x[1] \in Key
    BY <1>5, <1>6, <2>2 DEF FileOf
  <2> QED
    BY <1>5, <2>3, <2>4, <2>5 DEF DrawnMedium
<1>8. DrawnKeys
  BY <1>1, <1>6 DEF Begun, DrawnKeys, JunkKeys, Keys
<1>9. PlaceInv
  <2>1. PICK at : at = [k \in Nat |-> <<0, 1>>]
    OBVIOUS
  <2>2. at \in [Nat -> Sector \X Entry]
    BY <2>1, Constants DEF Entry
  <2>3. Placed(at)
    BY <1>1, <1>6 DEF Placed, Begun, JunkKeys
  <2> QED
    BY <2>2, <2>3 DEF PlaceInv
<1>10. CacheLive
  BY <1>1 DEF CacheLive, Begun
<1>11. MediumInv
  BY <1>1, <1>2 DEF MediumInv, InUse, Enc
<1> QED
  BY <1>5, <1>7, <1>8, <1>9, <1>10, <1>11 DEF ErasureInv, MediumOk, CacheOk

-----------------------------------------------------------------------------
(* The theorems.                                                           *)

LEMMA InitErasure == ASSUME OneTop, RInit PROVE IInv /\ ErasureInv
<1>1. IInv /\ (InitInUse \/ InitCreated)
  BY InitInv DEF RInit, Init
<1> QED
  BY <1>1, InitInUseErasure, InitCreatedErasure

LEMMA StutterKeeps ==
  ASSUME OneTop, IInv, ErasureInv, UNCHANGED rvars
  PROVE  ErasureInv'
<1>1. Quiet /\ mem' = mem /\ pc' = pc /\ idx' = idx /\ fresh' = fresh
  BY DEF rvars, vars, Quiet
<1>2. Ledger
  BY LedgerOfStutter DEF ErasureInv, MediumOk
<1>3. MediumOk' /\ CacheOk'
  <2>1. fresh' \in Nat /\ fresh' >= fresh /\ CacheKept /\ FreshInv
    BY <1>1 DEF IInv, FreshInv, CacheKept
  <2> QED
    BY <1>1, <1>2, <2>1, MediumQuiet, CacheSteady DEF ErasureInv, Quiet
<1>4. Links' = Links /\ Locks' = Locks /\ files' = files /\ dead' = dead
  BY <1>1, <1>2, QuietHistory DEF ErasureInv, MediumOk
<1>5. AtSealed' /\ AtOnly' /\ AtMaster'
  BY <1>1, <1>2, <1>4, SealedQuiet
     DEF ErasureInv, MediumOk, DeviceInv, AtSealed, AtOnly, AtMaster, Quiet, InUse
<1>6. AtJournal' /\ AtRotation' /\ AtRefill' /\ AtLive'
  BY <1>1, <1>4 DEF ErasureInv, DeviceInv, AtJournal, AtRotation, AtRefill, AtLive, Quiet, Key
<1> QED
  BY <1>3, <1>5, <1>6 DEF ErasureInv, DeviceInv

LEMMA NextErasure ==
  ASSUME OneTop, SafeCreation, NoTraces, IInv, ErasureInv, TagsAreLeaves', [RNext]_rvars
  PROVE  IInv' /\ ErasureInv'
<1>1. CASE UNCHANGED rvars
  <2>1. IInv'
    BY <1>1, NextInv DEF rvars
  <2> QED
    BY <1>1, <2>1, StutterKeeps
<1>2. CASE RNext
  <2>1. IInv' /\ Ledger /\ Next
    BY <1>2, NextInv, LedgerOfNext DEF RNext
  <2>2. CASE \E s \in Sector : GetInodeKey(s) \/ DropEntry(s) \/ PersistUnlink(s)
    BY <2>1, <2>2, GetInodeKeyKeeps, DropEntryKeeps, PersistUnlinkKeeps
  <2>3. CASE \E s \in Sector, e \in Entry : Unlink(s, e)
    BY <2>1, <2>3, UnlinkKeeps
  <2>4. CASE Open
    BY <2>1, <2>4, OpenCleanKeeps, RecoverMasterKeeps, RecoverPprfRotationKeeps,
       RecoverPprfInitKeeps, RecoverPunctureKeeps DEF Open
  <2>5. CASE Work
    <3>1. CASE MasterSlot \/ MasterCtl \/ MasterTop \/ MasterTpm \/ MasterNone
      BY <2>1, <3>1, MasterSlotKeeps, MasterCtlKeeps, MasterTopKeeps, MasterTpmKeeps,
         MasterNoneKeeps
    <3>2. CASE RotateCtl \/ RewriteSector \/ RewriteTop \/ RewriteBottom \/ RewritePprf
      BY <2>1, <3>2, RotateCtlKeeps, RewriteSectorKeeps, RewriteTopKeeps, RewriteBottomKeeps,
         RewritePprfKeeps
    <3>3. CASE JournalSlot \/ PunctureCtl \/ ReplayBlock \/ ControlNone
      BY <2>1, <3>3, JournalSlotKeeps, PunctureCtlKeeps, ReplayBlockKeeps, ControlNoneKeeps
    <3>4. CASE JournalClear \/ FinishOpen \/ Closed
      BY <2>1, <3>4, JournalClearKeeps, FinishOpenKeeps, ClosedKeeps
    <3> QED
      BY <2>5, <3>1, <3>2, <3>3, <3>4 DEF Work
  <2>6. CASE Close
    BY <2>1, <2>6, CloseKeeps
  <2>7. CASE Crash
    BY <2>1, <2>7, CrashKeeps
  <2> QED
    BY <2>1, <2>2, <2>3, <2>4, <2>5, <2>6, <2>7 DEF Next
<1> QED
  BY <1>1, <1>2

\* What every step of every operation, recovery and crash keeps of the medium: a key
\* on the way from the TPM down to the file keys was never used, in all that was ever
\* written, for anything but the key it opens now.
THEOREM InductiveErasure ==
  ASSUME OneTop, SafeCreation, NoTraces
  PROVE  RSpec /\ []TagsAreLeaves => [](IInv /\ ErasureInv)
<1>1. RInit => IInv /\ ErasureInv
  BY InitErasure
<1>2. (IInv /\ ErasureInv) /\ TagsAreLeaves' /\ [RNext]_rvars => (IInv /\ ErasureInv)'
  BY NextErasure
<1> QED
  BY <1>1, <1>2, PTL DEF RSpec

\* At rest, the TPM's key opens the top of the FKT as it is, its bottom, and no more.
LEMMA OpenedAtRest ==
  ASSUME OneTop, IInv, ErasureInv, pc = "idle"
  PROVE  /\ OpenedKeys = {tpm, TopOf(home).key, BotOf(home)}
         /\ Unwrapped(OpenedKeys, wraps) = OpenedKeys
         /\ \A p \in Locks : p[1] \in OpenedKeys =>
              p[2] = PprfOf(home).root /\ p[3] = PprfOf(home).punct
<1>1. ctl.type = "NONE" /\ Image(home, tpm, file)
  BY DEF IInv, MemInv, AtRest, Whole, WholeIn
<1>2. Ways(Links, Locks, home, tpm) /\ Only(Links, Locks, tpm, TopOf(home).key)
  BY <1>1, SealedAtNone DEF ErasureInv, MediumOk, DeviceInv, AtOnly, SealedNow, Sealed
<1>3. PICK t : t = TopOf(home).key
  OBVIOUS
<1>4. PICK b : b = BotOf(home)
  OBVIOUS
<1>5. /\ t # b /\ tpm # t /\ tpm # b
      /\ \A x \in Links : (x[1] = tpm => x[2] = t) /\ (x[1] = t => x[2] = b) /\ x[1] # b
      /\ \A p \in Locks : p[1] # tpm /\ p[1] # t
           /\ (p[1] = b => p[2] = PprfOf(home).root /\ p[3] = PprfOf(home).punct)
  BY <1>2, <1>3, <1>4 DEF Ways, Below, Separate, Only
<1>6. <<tpm, t>> \in Links /\ <<t, b>> \in Links
  <2>1. home[TopAt(0)] \in Written /\ home[BotAt] \in Written
    BY Places DEF Written, Sectors
  <2>2. LinkOf(home[TopAt(0)], <<tpm, t>>) /\ LinkOf(home[BotAt], <<t, b>>)
    BY <1>1, <1>3, <1>4 DEF Image, Chained, LinkOf, TopOf, BotOf, TopAt, BotAt
  <2> QED
    BY <2>1, <2>2, Wrapped DEF ErasureInv, MediumOk, Recorded, Links
<1>7. \A K, L : \A k : k \in Unwrapped(K, L) <=> k \in K \/ \E x \in L : x[1] \in K /\ k = x[2]
  BY DEF Unwrapped
<1>8. Unwrapped({tpm}, Links) = {tpm, t}
  BY <1>5, <1>6, <1>7
<1>9. Unwrapped({tpm, t}, Links) = {tpm, t, b}
  BY <1>5, <1>6, <1>7
<1>10. Unwrapped({tpm, t, b}, Links) = {tpm, t, b}
  BY <1>5, <1>6, <1>7
<1>11. OpenedKeys = {tpm, t, b}
  BY <1>8, <1>9, <1>10 DEF OpenedKeys, Links
<1>12. Unwrapped({tpm, t, b}, wraps) = {tpm, t, b}
  BY <1>5, <1>7 DEF Links
<1> QED
  BY <1>3, <1>4, <1>5, <1>11, <1>12

\* "Deleted files are irrecoverable by an adversary that later obtains physical access
\* to the underlying storage medium" (README.md:2): for a key table of any length, after
\* any sequence of unlinks, crashes and recoveries, the TPM's key and all that was ever
\* written give, of a device at rest, no file key that an unlink replaced
\* (persist_unlink, rotate_pprf and rotate_master with their journals), for a PPRF key of
\* one sector, as long as the tags taken are leaves.
THEOREM DeletedUnreachable ==
  ASSUME OneTop, SafeCreation, NoTraces
  PROVE  RSpec /\ []TagsAreLeaves => []ErasedUnreachable
<1>1. ASSUME IInv, ErasureInv, pc = "idle", NEW k \in OpenedFileKeys PROVE k \notin dead
  <2>1. \A p \in Locks : p[1] \in OpenedKeys => p[2] = PprfOf(home).root /\ p[3] = PprfOf(home).punct
    BY <1>1, OpenedAtRest
  <2>2. PICK f \in files \cup FilesIn(Torn) :
          k = f[3] /\ \E p \in Locks : p[1] \in OpenedKeys /\ p[2] = f[1] /\ f[2] \notin p[3]
    BY <1>1 DEF OpenedFileKeys, Locks
  <2>3. f[1] = PprfOf(home).root /\ f[2] \notin PprfOf(home).punct
    BY <2>1, <2>2
  <2>4. Match(files, file, home) /\ TornOk(slot[4], dead, home)
    <3>1. ctl.type = "NONE"
      BY <1>1 DEF IInv, MemInv, AtRest
    <3> QED
      BY <1>1, <3>1, SealedAtNone DEF ErasureInv, MediumOk, SealedNow, Sealed
  <2>5. CASE f \in files
    <3>1. PICK s \in Sector, e \in Entry : f[3] = file[s][e]
      BY <2>3, <2>4, <2>5 DEF Match
    <3> QED
      BY <1>1, <2>2, <3>1 DEF ErasureInv, DeviceInv, AtLive, Live
  <2>6. CASE f \in FilesIn(Torn)
    <3>1. PICK i \in Slot : FileOf(slot[i], f)
      BY <2>6, Wrapped DEF Torn
    <3>2. /\ slot[1].at[1] # "table" /\ slot[2].at[1] # "table" /\ slot[3].at[1] # "table"
          /\ slot[5].at[1] # "table" /\ HeaderAt[1] # "table"
      BY <1>1 DEF ErasureInv, MediumOk, KindsOk, HeaderAt, TopAt, BotAt, PprfAt
    <3>3. i = 4 /\ slot[4].at # HeaderAt
      BY <3>1, <3>2, Constants DEF FileOf
    <3>4. PICK e \in Entry : f = <<slot[4].k[1], slot[4].k[2], slot[4].body[e]>>
      BY <3>1, <3>3 DEF FileOf
    <3>5. f[1] = slot[4].k[1] /\ f[2] = slot[4].k[2] /\ f[3] = slot[4].body[e]
      BY <3>4
    <3> QED
      BY <2>2, <2>3, <2>4, <3>3, <3>5 DEF TornOk
  <2> QED
    BY <2>2, <2>5, <2>6
<1>2. IInv /\ ErasureInv => ErasedUnreachable
  <2>1. SUFFICES ASSUME IInv, ErasureInv, pc = "idle"
                 PROVE  /\ OpenedFileKeys \cap dead = {}
                        /\ Unwrapped(OpenedKeys, wraps) = OpenedKeys
    BY DEF ErasedUnreachable
  <2> QED
    BY <1>1, <2>1, OpenedAtRest
<1> QED
  BY <1>2, InductiveErasure, PTL
=============================================================================
