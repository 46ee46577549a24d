-------------------------- MODULE SecureStoreProofs --------------------------
(***************************************************************************)
(* Theorems about SecureStore: a key table of any length, for a top of the *)
(* file key table in one sector, when power does not fail before the first *)
(* open is complete.  (The runs store_wide and store_create show what      *)
(* happens without these two conditions.)                                  *)
(*                                                                         *)
(* Nor are they about every PPRF key.  Its capacity is that of one sector, *)
(* as OneSectorAssumption has it (pprf_spill: what a puncture over several *)
(* sectors forgets to write), and they are about the behaviours in which   *)
(* every tag an unlink takes is a leaf, []TagsAreLeaves, so that its       *)
(* shift into place drops nothing (pprf_wrap: the counter can come round). *)
(*                                                                         *)
(* DiskInv says what the disk, the journal and the TPM hold, by the type   *)
(* of the control block alone: a crash, which leaves them as they are,     *)
(* preserves it.  FreshInv says which keys are older than the next one to  *)
(* draw.  MemInv relates the memory of the open device to the disk, by     *)
(* how far the operation or the recovery under way is.                     *)
(***************************************************************************)
EXTENDS SecureStore, WellFoundedInduction, TLAPS

\* The hypotheses of the theorems.
OneTop == TopWidth = 1
SafeCreation == CreateCrash = FALSE

\* What the sectors of h hold.
TopOf(h) == h[TopAt(0)].body
BotOf(h) == h[BotAt].body
PprfOf(h) == h[PprfAt].body
RootOf(h, s) == h[TableAt(s)].k[1]
TagOf(h, s) == h[TableAt(s)].k[2]

\* Master key k opens the top of the FKT, that the bottom, that the PPRF key.
Chained(h, k) ==
  /\ h[TopAt(0)].at = TopAt(0) /\ h[TopAt(0)].k = k
  /\ h[BotAt].at = BotAt       /\ h[BotAt].k = TopOf(h).key
  /\ h[PprfAt].at = PprfAt     /\ h[PprfAt].k = BotOf(h)

\* The PPRF key opens every key table sector; no two share a tag, and the tags
\* in use and the tags punctured are behind the counter.
TagsOk(h) ==
  /\ TopOf(h).ctr \in Nat
  /\ PprfOf(h).punct \subseteq 0 .. TopOf(h).ctr - 1
  /\ \A s \in Sector : TagOf(h, s) \in 0 .. TopOf(h).ctr - 1 \ PprfOf(h).punct
  /\ \A s, t \in Sector : TagOf(h, s) = TagOf(h, t) => s = t

TableOk(h, f) ==
  /\ \A s \in Sector : RootOf(h, s) = PprfOf(h).root /\ h[TableAt(s)].body = f[s]
  /\ TagsOk(h)

Image(h, k, f) == Chained(h, k) /\ TableOk(h, f)

\* A key table sector a rotation has rewritten, and one it has yet to.
Rewritten(s, root) == RootOf(home, s) = root /\ TagOf(home, s) = s
Unwritten(s) ==
  RootOf(home, s) = PprfOf(home).root /\ TagOf(home, s) \notin PprfOf(home).punct

\* The sectors are rewritten in order, and the keys above them after the last.
HalfRotated ==
  /\ ctl.k = tpm
  /\ \A s \in Sector : home[TableAt(s)].body = file[s]
  /\ PprfOf(home).root = ctl.key => PprfOf(home).punct = {}
  /\ \/ \A s \in Sector : Rewritten(s, ctl.key)
     \/ /\ Chained(home, tpm) /\ PprfOf(home).root # ctl.key
        /\ \A s \in Sector : Rewritten(s, ctl.key) \/ Unwritten(s)
        /\ \A s, t \in Sector : s < t /\ Rewritten(t, ctl.key) => Rewritten(s, ctl.key)

DiskInv ==
  /\ ctl.type \in {"NONE", "MASTER_ROT", "PPRF_ROT", "PPRF_INIT", "PPRF_PUNCT"}
  /\ ctl.type = "PPRF_INIT" => ~InUse
  /\ ctl.type \in {"NONE", "MASTER_ROT", "PPRF_PUNCT"} => Image(RestartHome, RestartMaster, file)
  /\ ctl.type = "MASTER_ROT" => ctl.k # ctl.key /\ tpm \in {ctl.k, ctl.key}
  /\ ctl.type = "PPRF_PUNCT" =>
       InUse /\ slot[5].body /\ \E s \in Sector : ctl.addr = Transaction(s)
  /\ ctl.type = "PPRF_ROT" => InUse /\ HalfRotated

-----------------------------------------------------------------------------
\* No key in use is the next one to draw.
FreshInv ==
  /\ fresh \in Nat \ {0}
  /\ {tpm, ctl.key, mem.newmk, mem.newroot, home[PprfAt].body.root} \subseteq Key
  /\ slot[3].at = PprfAt => slot[3].body.root \in Key

PprfShape(p) == p = [root |-> p.root, punct |-> p.punct]

\* The variables are functions and records of the right shape.
EntryShape(x) == x = [tag |-> x.tag, keys |-> x.keys, dirty |-> x.dirty]

MemShape(m) ==
  /\ m = [mk |-> m.mk, newmk |-> m.newmk, top |-> m.top, pk |-> m.pk, pprf |-> m.pprf,
          newroot |-> m.newroot, cache |-> m.cache, cur |-> m.cur]
  /\ DOMAIN m.top = {0}
  /\ PprfShape(m.pprf)
  /\ DOMAIN m.cache \subseteq Sector
  /\ \A s \in DOMAIN m.cache : EntryShape(m.cache[s])

Shape ==
  /\ home = [a \in Addr |-> home[a]]
  /\ slot = [i \in Slot |-> slot[i]]
  /\ ctl = [type |-> ctl.type, k |-> ctl.k, key |-> ctl.key, addr |-> ctl.addr]
  /\ file = [s \in Sector |-> file[s]]
  /\ home[PprfAt].at = PprfAt /\ PprfShape(home[PprfAt].body)
  /\ slot[3].at = PprfAt => PprfShape(slot[3].body)
  /\ MemShape(mem)

-----------------------------------------------------------------------------
\* Memory m holds the keys of the sectors of h, under master key k.
KeysIn(m, h, k) ==
  m.mk = k /\ m.top[0] = TopOf(h) /\ m.pk = BotOf(h) /\ m.pprf = PprfOf(h)

\* The tags in its cache are those of the disk, and the entries that wait for no
\* write the file keys f.
EntryOk(x, tag, keys) == x.tag = tag /\ (~x.dirty => x.keys = keys)
CacheIn(m, h, f) == \A s \in DOMAIN m.cache : EntryOk(m.cache[s], TagOf(h, s), f[s])

\* Disk, memory and cache agree.
WholeIn(m, h, k, f) == Image(h, k, f) /\ KeysIn(m, h, k) /\ CacheIn(m, h, f)
Whole == WholeIn(mem, home, tpm, file)

Caller == {"idle", "closing"}
Creating == {"init", "init again"}

AtRest == ctl.type = "NONE" /\ Whole /\ (pc # "finish" => InUse)

\* rotate_master, before and after its control block is written.
MasterDrawn ==
  /\ ctl.type \in {"NONE", "PPRF_ROT", "PPRF_INIT"}
  /\ Whole
  /\ mem.newmk # tpm
  /\ idx = 0 \/ pc = "m_ctl"
  /\ pc = "m_ctl" => slot[1] = Enc(TopAt(0), mem.newmk, mem.top[0])
  /\ ret \in Caller \cup Creating \cup {"clear"}
  /\ ret \in Caller \cup {"clear"} => InUse

MasterLogged ==
  /\ ctl.type = "MASTER_ROT" /\ ctl.k = tpm /\ ctl.key = mem.newmk
  /\ mem.mk = tpm
  /\ idx = IF pc = "m_top" THEN 0 ELSE 1
  /\ pc = "m_tpm" => home[TopAt(0)] = slot[1]
  /\ ret = "recover" \/ (KeysIn(mem, home, tpm) /\ slot[1].body = mem.top[0])
  /\ CacheIn(mem, home, file)
  /\ ret \in Caller \cup Creating \cup {"clear", "recover"}
  /\ ret \notin Creating => InUse

MasterMoved ==
  /\ ctl.type = "MASTER_ROT" /\ ctl.k # tpm
  /\ Whole
  /\ ret \in Caller \cup Creating \cup {"clear"}
  /\ ret \notin Creating => InUse

Cleared ==
  /\ ctl.type \in {"NONE", "MASTER_ROT", "PPRF_PUNCT"} /\ RestartMaster = tpm
  /\ Image(home, tpm, file)
  /\ mem.mk = tpm
  /\ ret = "recover" \/ KeysIn(mem, home, tpm)
  /\ CacheIn(mem, home, file)

\* rotate_pprf.
RotationDrawn ==
  /\ ctl.type = "NONE" /\ InUse /\ Whole
  /\ mem.newroot # PprfOf(home).root
  /\ ret \in Caller

\* The call under way is a rotation or the initialization, with its control block.
Rotating ==
  /\ mem.mk = tpm
  /\ ret \in Caller \cup {"clear", "init"}
  /\ ret = "init" => ctl.type = "PPRF_INIT"
  /\ ret # "init" => ctl.type = "PPRF_ROT" /\ ctl.key = mem.newroot

Done(s) == Rewritten(s, mem.newroot) /\ home[TableAt(s)].body = file[s]

Rewriting ==
  /\ Rotating
  /\ idx \in Sector
  /\ \A s \in Sector : s < idx => Done(s) /\ s \notin DOMAIN mem.cache
  /\ ret # "init" => /\ mem.pprf = PprfOf(home)
                     /\ \A s \in Sector : s >= idx => RootOf(home, s) # mem.newroot

\* All sectors are rewritten; the keys above them are, one by one.
Refilling ==
  /\ Rotating
  /\ DOMAIN mem.cache = {}
  /\ \A s \in Sector : Done(s)
  /\ pc = "fkt_top" => idx = 0
  /\ pc \in {"fkt_bot", "pprf_key"} =>
       /\ home[TopAt(0)] = Enc(TopAt(0), tpm, mem.top[0])
       /\ mem.top[0].ctr = KeyTableLen
  /\ pc = "pprf_key" => home[BotAt] = Enc(BotAt, mem.top[0].key, mem.pk)

\* persist_unlink: the transaction is written to the journal.
Journaling ==
  /\ ctl.type = "NONE" /\ InUse /\ ret \in Caller
  /\ Image(home, tpm, file) /\ mem.mk = tpm
  /\ mem.cur \in DOMAIN mem.cache
  /\ mem.cache[mem.cur].tag = TopOf(home).ctr
  /\ mem.top[0].ctr = TopOf(home).ctr + 1
  /\ mem.pprf = [root |-> PprfOf(home).root,
                 punct |-> PprfOf(home).punct \cup {TagOf(home, mem.cur)}]
  /\ \A s \in DOMAIN mem.cache \ {mem.cur} : EntryOk(mem.cache[s], TagOf(home, s), file[s])
  /\ idx \in Slot /\ (pc = "punct_ctl" => idx = 1)
  /\ \A i \in Slot : (i < idx \/ pc = "punct_ctl") => slot[i] = JournalBlock(i)

Replaying ==
  /\ ctl.type = "PPRF_PUNCT"
  /\ idx \in Slot
  /\ \A i \in Slot : i < idx => home[ctl.addr[i]] = slot[i]
  /\ mem.mk = tpm
  /\ ret \in Caller \cup {"recover"}
  /\ ret = "recover" \/ KeysIn(mem, RestartHome, tpm)
  /\ CacheIn(mem, RestartHome, file)

Replayed ==
  /\ ctl.type \in {"PPRF_PUNCT", "PPRF_ROT"}
  /\ Whole /\ ret \in Caller

Down == mem = NoMem /\ (~InUse => ctl.type = "PPRF_INIT")

MemInv ==
  /\ pc \in Steps
  /\ pc = "down" => Down
  /\ pc \in {"idle", "closing", "finish"} => AtRest
  /\ pc \in {"m_slot", "m_ctl"} => MasterDrawn
  /\ pc \in {"m_top", "m_tpm"} => MasterLogged
  /\ pc = "m_none" => MasterMoved
  /\ pc = "clear" => Cleared
  /\ pc = "rot_ctl" => RotationDrawn
  /\ pc = "rewrite" => Rewriting
  /\ pc \in {"fkt_top", "fkt_bot", "pprf_key"} => Refilling
  /\ pc \in {"jnl", "punct_ctl"} => Journaling
  /\ pc = "replay" => Replaying
  /\ pc = "none" => Replayed

IInv == Shape /\ FreshInv /\ DiskInv /\ MemInv

-----------------------------------------------------------------------------
(* The constants and the addresses.                                        *)

LEMMA Constants ==
  /\ KeyTableLen \in Nat \ {0} /\ Entries \in Nat \ {0} /\ Depth \in Nat \ {0}
  /\ Sector = 0 .. KeyTableLen - 1 /\ Slot = 1 .. 5
BY SizeAssumption DEF Sector, Slot

LEMMA Least ==
  ASSUME NEW T, T \subseteq Nat, T # {}
  PROVE  \E x \in T : \A y \in T : x <= y
<1> DEFINE R == OpToRel(<, Nat)
<1>1. ASSUME NEW x \in Nat, NEW y \in Nat, x < y PROVE <<x, y>> \in R
  BY <1>1 DEF OpToRel
<1>2. IsWellFoundedOn(R, Nat)
  BY NatLessThanWellFounded
<1> HIDE DEF R
<1>3. PICK x \in T : \A y \in T : ~ (<<y, x>> \in R)
  BY <1>2, WFMin
<1>4. \A y \in T : ~(y < x)
  BY <1>1, <1>3
<1> QED
  BY <1>4

LEMMA Places ==
  ASSUME OneTop
  PROVE  /\ Top = {0}
         /\ {HeaderAt, TopAt(0), BotAt, PprfAt} \subseteq Addr
         /\ \A s \in Sector : TableAt(s) \in Addr
         /\ \A a \in Addr : \/ a \in {HeaderAt, TopAt(0), BotAt, PprfAt}
                            \/ \E s \in Sector : a = TableAt(s)
<1>1. Top = {0}
  BY DEF OneTop, Top
<1> QED
  BY <1>1 DEF Addr

LEMMA Apart ==
  /\ HeaderAt # TopAt(0) /\ HeaderAt # BotAt /\ HeaderAt # PprfAt
  /\ TopAt(0) # BotAt /\ TopAt(0) # PprfAt /\ BotAt # PprfAt
  /\ \A s : TableAt(s) \notin {HeaderAt, TopAt(0), BotAt, PprfAt}
  /\ \A s, t : TableAt(s) = TableAt(t) => s = t
BY DEF HeaderAt, TopAt, BotAt, PprfAt, TableAt

LEMMA Kinds ==
  /\ TopAt(0)[1] = "top" /\ TopAt(0)[2] = 0
  /\ HeaderAt[1] # "top" /\ BotAt[1] # "top" /\ PprfAt[1] # "top"
  /\ \A s : TableAt(s)[1] # "top"
BY DEF HeaderAt, TopAt, BotAt, PprfAt, TableAt

LEMMA Transacted ==
  \A s : /\ Transaction(s)[1] = TopAt(0) /\ Transaction(s)[2] = BotAt
         /\ Transaction(s)[3] = PprfAt /\ Transaction(s)[4] = TableAt(s)
         /\ Transaction(s)[5] = HeaderAt
BY DEF Transaction

\* What a restart would find, by sector, when nothing is in the journal ...
LEMMA RestartPlain ==
  ASSUME ctl.type # "PPRF_PUNCT", ctl.type = "MASTER_ROT" => ctl.k # tpm
  PROVE  RestartHome = home /\ RestartMaster = tpm
BY DEF RestartHome, RestartMaster, MasterPending

\* ... when a new master key is ...
LEMMA RestartPending ==
  ASSUME OneTop, ctl.type = "MASTER_ROT", ctl.k = tpm
  PROVE  /\ RestartMaster = ctl.key
         /\ RestartHome = [a \in Addr |-> IF a = TopAt(0) THEN slot[1] ELSE home[a]]
<1>1. RestartHome = [a \in Addr |-> IF a[1] = "top" THEN slot[a[2] + 1] ELSE home[a]]
  BY DEF RestartHome, MasterPending
<1>2. \A a \in Addr : (IF a[1] = "top" THEN slot[a[2] + 1] ELSE home[a])
                      = (IF a = TopAt(0) THEN slot[1] ELSE home[a])
  BY Places, Kinds
<1>3. RestartMaster = ctl.key
  BY DEF RestartMaster, MasterPending
<1> QED
  BY <1>1, <1>2, <1>3

\* ... and when a transaction is: the sectors of h, with blocks b over them.
Overlay(h, b, s) ==
  [a \in Addr |-> IF \E i \in Slot : Transaction(s)[i] = a
                  THEN b[CHOOSE i \in Slot : Transaction(s)[i] = a] ELSE h[a]]

LEMMA Overlaid ==
  ASSUME OneTop, NEW s \in Sector, NEW h, NEW b, NEW g, g = Overlay(h, b, s)
  PROVE  /\ g = [a \in Addr |-> g[a]]
         /\ \A i \in Slot : g[Transaction(s)[i]] = b[i]
         /\ \A a \in Addr : (\A i \in Slot : Transaction(s)[i] # a) => g[a] = h[a]
         /\ \A t \in Sector : t # s => g[TableAt(t)] = h[TableAt(t)]
<1>2. \A i \in Slot : Transaction(s)[i] \in Addr
  BY Places, Transacted, Constants
<1>3. \A i, j \in Slot : Transaction(s)[i] = Transaction(s)[j] => i = j
  BY Transacted, Constants, Apart
<1>4. ASSUME NEW i \in Slot PROVE g[Transaction(s)[i]] = b[i]
  <2>1. (CHOOSE j \in Slot : Transaction(s)[j] = Transaction(s)[i]) = i
    BY <1>3
  <2> QED
    BY <1>2, <2>1 DEF Overlay
<1>5. ASSUME NEW a \in Addr, \A i \in Slot : Transaction(s)[i] # a PROVE g[a] = h[a]
  BY <1>5 DEF Overlay
<1>6. ASSUME NEW t \in Sector, t # s PROVE g[TableAt(t)] = h[TableAt(t)]
  <2>1. \A i \in Slot : Transaction(s)[i] # TableAt(t)
    BY <1>6, Transacted, Constants, Apart
  <2> QED
    BY <1>5, <2>1, Places
<1>7. g = [a \in Addr |-> g[a]]
  BY DEF Overlay
<1> QED
  BY <1>4, <1>5, <1>6, <1>7

LEMMA RestartTransaction ==
  ASSUME ctl.type = "PPRF_PUNCT", NEW s \in Sector, ctl.addr = Transaction(s)
  PROVE  RestartMaster = tpm /\ RestartHome = Overlay(home, slot, s)
BY DEF Overlay, RestartHome, RestartMaster, MasterPending

-----------------------------------------------------------------------------
(* The operators on the memory, field by field.                            *)

SameBut(m, n, F) ==
  \A f \in {"mk", "newmk", "top", "pk", "pprf", "newroot", "cache", "cur"} \ F : n[f] = m[f]

LEMMA SetKey ==
  ASSUME NEW m, MemShape(m), NEW x
  PROVE  /\ LET n == [m EXCEPT !.mk = x] IN n.mk = x /\ SameBut(m, n, {"mk"}) /\ MemShape(n)
         /\ LET n == [m EXCEPT !.newmk = x] IN n.newmk = x /\ SameBut(m, n, {"newmk"}) /\ MemShape(n)
         /\ LET n == [m EXCEPT !.pk = x] IN n.pk = x /\ SameBut(m, n, {"pk"}) /\ MemShape(n)
         /\ LET n == [m EXCEPT !.newroot = x] IN n.newroot = x /\ SameBut(m, n, {"newroot"}) /\ MemShape(n)
BY DEF MemShape, SameBut

LEMMA SetTop ==
  ASSUME NEW m, MemShape(m), NEW x
  PROVE  LET n == [m EXCEPT !.top[0] = x]
         IN  n.top[0] = x /\ SameBut(m, n, {"top"}) /\ MemShape(n)
BY DEF MemShape, SameBut

LEMMA SetPprf ==
  ASSUME NEW m, MemShape(m), NEW p, PprfShape(p)
  PROVE  LET n == [m EXCEPT !.pprf = p]
         IN  n.pprf = p /\ SameBut(m, n, {"pprf"}) /\ MemShape(n)
BY DEF MemShape, SameBut

LEMMA SetCache ==
  ASSUME NEW m, MemShape(m), NEW c, DOMAIN c \subseteq Sector,
         \A s \in DOMAIN c : EntryShape(c[s])
  PROVE  LET n == [m EXCEPT !.cache = c]
         IN  n.cache = c /\ SameBut(m, n, {"cache"}) /\ MemShape(n)
BY DEF MemShape, SameBut

LEMMA CacheWith ==
  ASSUME NEW m, MemShape(m), NEW s \in Sector, NEW x, EntryShape(x)
  PROVE  LET n == [m EXCEPT !.cache = With(@, s, x)]
         IN  n.cache = With(m.cache, s, x) /\ SameBut(m, n, {"cache"}) /\ MemShape(n)
<1> DEFINE c == With(m.cache, s, x)
<1>1. DOMAIN c \subseteq Sector /\ \A t \in DOMAIN c : EntryShape(c[t])
  BY DEF MemShape, With
<1> HIDE DEF c
<1>2. LET n == [m EXCEPT !.cache = c]
      IN  n.cache = c /\ SameBut(m, n, {"cache"}) /\ MemShape(n)
  BY <1>1, SetCache
<1> QED
  BY <1>2 DEF c

LEMMA CacheWithout ==
  ASSUME NEW m, MemShape(m), NEW s
  PROVE  LET n == [m EXCEPT !.cache = Without(@, s)]
         IN  n.cache = Without(m.cache, s) /\ SameBut(m, n, {"cache"}) /\ MemShape(n)
<1> DEFINE c == Without(m.cache, s)
<1>1. DOMAIN c \subseteq Sector /\ \A t \in DOMAIN c : EntryShape(c[t])
  BY DEF MemShape, Without, Restrict
<1> HIDE DEF c
<1>2. LET n == [m EXCEPT !.cache = c]
      IN  n.cache = c /\ SameBut(m, n, {"cache"}) /\ MemShape(n)
  BY <1>1, SetCache
<1> QED
  BY <1>2 DEF c

LEMMA SetEntry ==
  ASSUME NEW e, EntryShape(e), NEW x
  PROVE  /\ [e EXCEPT !.tag = x] = [tag |-> x, keys |-> e.keys, dirty |-> e.dirty]
         /\ [e EXCEPT !.keys = x] = [tag |-> e.tag, keys |-> x, dirty |-> e.dirty]
         /\ [e EXCEPT !.dirty = x] = [tag |-> e.tag, keys |-> e.keys, dirty |-> x]
BY DEF EntryShape

Cleaned(m, s) == [m EXCEPT !.cache[s].dirty = FALSE]

LEMMA EntryCleaned ==
  ASSUME NEW m, MemShape(m), NEW s \in DOMAIN m.cache, NEW n, n = Cleaned(m, s)
  PROVE  /\ DOMAIN n.cache = DOMAIN m.cache
         /\ n.cache[s].tag = m.cache[s].tag /\ n.cache[s].keys = m.cache[s].keys
         /\ \A t \in DOMAIN m.cache : t # s => n.cache[t] = m.cache[t]
         /\ SameBut(m, n, {"cache"}) /\ MemShape(n)
<1> DEFINE x == [tag |-> m.cache[s].tag, keys |-> m.cache[s].keys, dirty |-> FALSE]
           c == [m.cache EXCEPT ![s] = x]
<1>1. [m.cache[s] EXCEPT !.dirty = FALSE] = x
  BY SetEntry DEF MemShape
<1>2. n = [m EXCEPT !.cache = c]
  BY <1>1 DEF Cleaned
<1>3. DOMAIN c = DOMAIN m.cache /\ c[s] = x /\ \A t \in DOMAIN m.cache : t # s => c[t] = m.cache[t]
  OBVIOUS
<1>4. EntryShape(x) /\ x.tag = m.cache[s].tag /\ x.keys = m.cache[s].keys
  BY DEF EntryShape
<1> HIDE DEF x, c
<1>5. DOMAIN c \subseteq Sector /\ \A t \in DOMAIN c : EntryShape(c[t])
  BY <1>3, <1>4 DEF MemShape
<1> QED
  BY <1>2, <1>3, <1>4, <1>5, SetCache

\* Punctured, in the three parts it changes.
LEMMA PuncturedMemory ==
  ASSUME NEW m, MemShape(m), NEW s \in DOMAIN m.cache
  PROVE  LET n == Punctured(m, s)
         IN  /\ n.cur = s
             /\ n.top[0].ctr = m.top[0].ctr + 1
             /\ n.pprf = [root |-> m.pprf.root, punct |-> m.pprf.punct \cup {m.cache[s].tag}]
             /\ DOMAIN n.cache = DOMAIN m.cache
             /\ n.cache[s].tag = NextTag(m) /\ n.cache[s].keys = m.cache[s].keys
             /\ \A t \in DOMAIN m.cache : t # s => n.cache[t] = m.cache[t]
             /\ SameBut(m, n, {"cache", "cur", "pprf", "top", "pk"})
             /\ MemShape(n)
<1> DEFINE n == Punctured(m, s)
<1>1. n.cur = s /\ n.pk = fresh /\ n.mk = m.mk /\ n.newmk = m.newmk /\ n.newroot = m.newroot
  BY DEF MemShape, Punctured
<1>2. n.top[0].ctr = m.top[0].ctr + 1 /\ DOMAIN n.top = {0}
  BY DEF MemShape, Punctured
<1>3. n.pprf = [m.pprf EXCEPT !.punct = m.pprf.punct \cup {m.cache[s].tag}]
  BY DEF MemShape, Punctured
<1>4. n.pprf = [root |-> m.pprf.root, punct |-> m.pprf.punct \cup {m.cache[s].tag}]
  BY <1>3 DEF MemShape, PprfShape
<1>5. DOMAIN n.cache = DOMAIN m.cache /\ \A t \in DOMAIN m.cache : t # s => n.cache[t] = m.cache[t]
  BY DEF MemShape, Punctured
<1>6. n.cache[s] = [m.cache[s] EXCEPT !.tag = NextTag(m)]
  BY DEF MemShape, Punctured
<1>7. n.cache[s] = [tag |-> NextTag(m), keys |-> m.cache[s].keys, dirty |-> m.cache[s].dirty]
  BY <1>6, SetEntry DEF MemShape
<1>8. n = [mk |-> n.mk, newmk |-> n.newmk, top |-> n.top, pk |-> n.pk, pprf |-> n.pprf,
           newroot |-> n.newroot, cache |-> n.cache, cur |-> n.cur]
  <2>1. m = [i \in DOMAIN m |-> m[i]]
    BY DEF MemShape
  <2>2. n = [i \in DOMAIN m |-> n[i]]
    BY <2>1 DEF Punctured
  <2> HIDE DEF n
  <2>3. DOMAIN m = {"mk", "newmk", "top", "pk", "pprf", "newroot", "cache", "cur"}
    BY DEF MemShape
  <2> QED
    BY <2>2, <2>3
<1> HIDE DEF n
<1>9. EntryShape(n.cache[s])
  BY <1>7 DEF MemShape, EntryShape
<1>10. MemShape(n)
  BY <1>2, <1>4, <1>5, <1>8, <1>9 DEF MemShape, PprfShape
<1>11. SameBut(m, n, {"cache", "cur", "pprf", "top", "pk"})
  BY <1>1 DEF SameBut
<1> QED
  BY <1>1, <1>2, <1>4, <1>5, <1>7, <1>10, <1>11 DEF n

\* No memory, and that of a constructor that has asked for the master key.
LEMMA Blank ==
  ASSUME OneTop, FreshInv
  PROVE  /\ MemShape(NoMem) /\ NoMem.newmk = Junk /\ NoMem.newroot = Junk
         /\ MemShape(Booted) /\ Booted.mk = tpm /\ SameBut(NoMem, Booted, {"mk"})
         /\ DOMAIN NoMem.cache = {} /\ Junk \in Key
<1>1. PprfShape(JunkPprf) /\ Junk \in Key
  BY DEF PprfShape, JunkPprf, Junk, FreshInv, Key
<1>2. MemShape(NoMem) /\ DOMAIN NoMem.cache = {}
  BY <1>1, Places DEF MemShape, NoMem
<1>3. MemShape(Booted) /\ Booted.mk = tpm /\ SameBut(NoMem, Booted, {"mk"})
  BY <1>2, SetKey DEF Booted
<1> QED
  BY <1>1, <1>2, <1>3 DEF NoMem

LEMMA ReadPprfMemory ==
  ASSUME Shape, NEW m, MemShape(m)
  PROVE  LET n == ReadPprf(m)
         IN  /\ SameBut(m, n, {"pprf"}) /\ MemShape(n)
             /\ home[PprfAt].k = m.pk => n.pprf = PprfOf(home)
<1> DEFINE p == Dec(home[PprfAt], PprfAt, m.pk, JunkPprf)
<1>1. PprfShape(JunkPprf)
  BY DEF PprfShape, JunkPprf
<1>2. PprfShape(p)
  BY <1>1 DEF Dec, Shape
<1>3. home[PprfAt].k = m.pk => p = PprfOf(home)
  BY DEF Dec, Shape, PprfOf
<1> HIDE DEF p
<1> QED
  BY <1>2, <1>3, SetPprf DEF ReadPprf, p

LEMMA ReadFktMemory ==
  ASSUME OneTop, NEW m, MemShape(m)
  PROVE  LET n == ReadFkt(m)
         IN  /\ SameBut(m, n, {"top", "pk"}) /\ MemShape(n)
             /\ Chained(home, m.mk) => n.top[0] = TopOf(home) /\ n.pk = BotOf(home)
<1> DEFINE t == [w \in Top |-> Dec(home[TopAt(w)], TopAt(w), m.mk, JunkTop)]
           b == Dec(home[BotAt], BotAt, t[0].key, Junk)
           n == [m EXCEPT !.top = t, !.pk = b]
<1>1. DOMAIN t = {0} /\ t[0] = Dec(home[TopAt(0)], TopAt(0), m.mk, JunkTop)
  BY Places
<1>2. Chained(home, m.mk) => t[0] = TopOf(home) /\ b = BotOf(home)
  BY <1>1 DEF Chained, Dec, TopOf, BotOf
<1>3. ReadFkt(m) = n
  BY DEF ReadFkt
<1> HIDE DEF t, b
<1>4. SameBut(m, n, {"top", "pk"}) /\ n.top = t /\ n.pk = b /\ MemShape(n)
  <2> DEFINE r == [m EXCEPT !.top = t]
  <2>1. r.top = t /\ SameBut(m, r, {"top"}) /\ MemShape(r)
    BY <1>1 DEF MemShape, SameBut
  <2>2. n = [r EXCEPT !.pk = b]
    OBVIOUS
  <2> HIDE DEF r
  <2>3. n.pk = b /\ SameBut(r, n, {"pk"}) /\ MemShape(n)
    BY <2>1, <2>2, SetKey
  <2> QED
    BY <2>1, <2>3 DEF SameBut
<1> QED
  BY <1>2, <1>3, <1>4

LEMMA ReadMemory ==
  ASSUME OneTop, Shape, NEW m, MemShape(m)
  PROVE  LET n == ReadPprf(ReadFkt(m))
         IN  /\ SameBut(m, n, {"top", "pk", "pprf"}) /\ MemShape(n)
             /\ Chained(home, m.mk) =>
                  n.top[0] = TopOf(home) /\ n.pk = BotOf(home) /\ n.pprf = PprfOf(home)
<1> DEFINE r == ReadFkt(m)
           n == ReadPprf(r)
<1>1. /\ SameBut(m, r, {"top", "pk"}) /\ MemShape(r)
      /\ Chained(home, m.mk) => r.top[0] = TopOf(home) /\ r.pk = BotOf(home)
  BY ReadFktMemory
<1> HIDE DEF r
<1>2. SameBut(r, n, {"pprf"}) /\ MemShape(n) /\ (home[PprfAt].k = r.pk => n.pprf = PprfOf(home))
  BY <1>1, ReadPprfMemory
<1> HIDE DEF n
<1>3. SameBut(m, n, {"top", "pk", "pprf"}) /\ n.top = r.top /\ n.pk = r.pk
  BY <1>1, <1>2 DEF SameBut
<1> QED
  BY <1>1, <1>2, <1>3 DEF Chained, n, r

LEMMA SectorOpened ==
  ASSUME TableOk(home, file), mem.pprf = PprfOf(home), NEW s \in Sector
  PROVE  ReadKeys(s) = file[s]
BY DEF TableOk, TagsOk, RootOf, TagOf, ReadKeys, TableUnder

LEMMA CachedEntry ==
  ASSUME Shape, TableOk(home, file), mem.pprf = PprfOf(home), CacheIn(mem, home, file), NEW s \in Sector
  PROVE  LET x == CacheEntry(s)
         IN  EntryShape(x) /\ x.tag = TagOf(home, s) /\ (~x.dirty => x.keys = file[s])
BY SectorOpened DEF CacheIn, EntryOk, CacheEntry, DiskTag, TagOf, Shape, MemShape, EntryShape

-----------------------------------------------------------------------------
(* What depends on unchanged variables is unchanged.                       *)

LEMMA RestartKept ==
  ASSUME UNCHANGED <<disk, tpm>>
  PROVE  RestartHome' = RestartHome /\ RestartMaster' = RestartMaster
BY DEF disk, RestartHome, RestartMaster, MasterPending

LEMMA HalfKept ==
  ASSUME HalfRotated, UNCHANGED <<home, ctl, tpm, file>>
  PROVE  HalfRotated'
BY DEF HalfRotated, Rewritten, Unwritten

LEMMA DiskKept ==
  ASSUME DiskInv, UNCHANGED <<disk, tpm, file>>
  PROVE  DiskInv'
<1>1. UNCHANGED <<home, ctl, slot, tpm, file>>
  BY DEF disk
<1>2. ctl.type = "PPRF_ROT" => HalfRotated'
  BY <1>1, HalfKept DEF DiskInv
<1> QED
  BY <1>1, <1>2, RestartKept DEF DiskInv, InUse

LEMMA RestartPlainNext ==
  ASSUME ctl'.type # "PPRF_PUNCT", ctl'.type = "MASTER_ROT" => ctl'.k # tpm'
  PROVE  RestartHome' = home' /\ RestartMaster' = tpm'
BY DEF RestartHome, RestartMaster, MasterPending

LEMMA DiskPlainNext ==
  ASSUME ctl'.type \in {"NONE", "PPRF_INIT"}, ctl'.type = "PPRF_INIT" => ~InUse',
         ctl'.type = "NONE" => Image(home', tpm', file')
  PROVE  DiskInv'
BY RestartPlainNext DEF DiskInv

LEMMA FreshKept ==
  ASSUME FreshInv, UNCHANGED <<home, ctl, slot, tpm>>,
         fresh' \in Nat, fresh' >= fresh, {mem'.newmk, mem'.newroot} \subseteq 0 .. fresh' - 1
  PROVE  FreshInv'
BY DEF FreshInv, Key

LEMMA RestartTransactionNext ==
  ASSUME ctl'.type = "PPRF_PUNCT", NEW s \in Sector, ctl'.addr = Transaction(s)
  PROVE  RestartMaster' = tpm' /\ RestartHome' = Overlay(home', slot', s)
BY DEF Overlay, RestartHome, RestartMaster, MasterPending

-----------------------------------------------------------------------------
(* The cache, the crash, the destructor.                                   *)

\* The sectors of a device in use, at the start.
LEMMA FirstSectors ==
  ASSUME OneTop, InitInUse
  PROVE  /\ home[HeaderAt] = Enc(HeaderAt, Junk, TRUE)
         /\ home[TopAt(0)] = Enc(TopAt(0), 1, [key |-> 2, ctr |-> KeyTableLen, size |-> 1])
         /\ home[BotAt] = Enc(BotAt, 2, 3)
         /\ home[PprfAt] = Enc(PprfAt, 3, [root |-> 4, punct |-> {}])
         /\ \A s \in Sector : home[TableAt(s)] = Enc(TableAt(s), <<4, s>>, file[s])
<1>1. /\ HeaderAt[1] = "header" /\ BotAt[1] = "bottom" /\ PprfAt[1] = "pprf"
      /\ TopAt(0)[1] = "top" /\ TopAt(0)[2] = 0
      /\ \A s : TableAt(s)[1] = "table" /\ TableAt(s)[2] = s
  BY DEF HeaderAt, TopAt, BotAt, PprfAt, TableAt
<1>2. \A a \in Addr : a[1] = "header" => home[a] = Enc(a, Junk, TRUE)
  BY DEF InitInUse
<1>3. \A a \in Addr : a[1] = "top" =>
        home[a] = Enc(a, 1, [key |-> a[2] + 2, ctr |-> KeyTableLen, size |-> 1])
  BY DEF InitInUse
<1>4. \A a \in Addr : a[1] = "bottom" => home[a] = Enc(a, 2, TopWidth + 2)
  BY DEF InitInUse
<1>5. \A a \in Addr : a[1] = "pprf" =>
        home[a] = Enc(a, TopWidth + 2, [root |-> TopWidth + 3, punct |-> {}])
  BY DEF InitInUse
<1>6. \A a \in Addr : a[1] = "table" => home[a] = Enc(a, <<TopWidth + 3, a[2]>>, file[a[2]])
  BY DEF InitInUse
<1>7. home[TopAt(0)] = Enc(TopAt(0), 1, [key |-> 2, ctr |-> KeyTableLen, size |-> 1])
  BY <1>1, <1>3, Places
<1>8. TopWidth + 2 = 3 /\ TopWidth + 3 = 4
  BY DEF OneTop
<1>9. \A s \in Sector : home[TableAt(s)] = Enc(TableAt(s), <<4, s>>, file[s])
  BY <1>1, <1>6, <1>8, Places
<1> QED
  BY <1>1, <1>2, <1>4, <1>5, <1>7, <1>8, <1>9, Places

LEMMA InitInv == ASSUME OneTop, Init PROVE IInv
<1>1. \A s \in Sector : s * Entries \in Nat
  BY Constants
<1>2. fresh \in Nat \ {0} /\ (InitInUse => fresh > 4)
  <2>1. PICK n \in Nat : n = KeyTableLen * Entries
    BY Constants
  <2>2. (InitInUse => fresh = TopWidth + 4 + KeyTableLen * Entries) /\ (InitCreated => fresh = 2)
    BY DEF InitInUse, InitCreated
  <2>3. InitInUse => fresh = 5 + n
    BY <2>1, <2>2 DEF OneTop
  <2> QED
    BY <2>2, <2>3 DEF Init
<1>3. mem = NoMem /\ pc = "down" /\ slot = [i \in Slot |-> Enc(HeaderAt, Junk, FALSE)]
  BY DEF Init
<1>4. MemShape(NoMem) /\ NoMem.newmk = 0 /\ NoMem.newroot = 0
  BY Places DEF Junk, MemShape, NoMem, PprfShape, JunkPprf
<1>5. CASE InitInUse
  <2>1. /\ home[HeaderAt] = Enc(HeaderAt, Junk, TRUE)
        /\ home[TopAt(0)] = Enc(TopAt(0), 1, [key |-> 2, ctr |-> KeyTableLen, size |-> 1])
        /\ home[BotAt] = Enc(BotAt, 2, 3)
        /\ home[PprfAt] = Enc(PprfAt, 3, [root |-> 4, punct |-> {}])
        /\ \A s \in Sector : home[TableAt(s)] = Enc(TableAt(s), <<4, s>>, file[s])
    BY <1>5, FirstSectors
  <2>2. Image(home, tpm, file)
    <3>1. tpm = 1
      BY <1>5 DEF InitInUse
    <3>2. /\ TopOf(home).key = 2 /\ TopOf(home).ctr = KeyTableLen /\ BotOf(home) = 3
          /\ PprfOf(home).root = 4 /\ PprfOf(home).punct = {}
          /\ \A s \in Sector : RootOf(home, s) = 4 /\ TagOf(home, s) = s
      <4>1. TopOf(home).key = 2 /\ TopOf(home).ctr = KeyTableLen /\ BotOf(home) = 3
        BY <2>1 DEF Enc, TopOf, BotOf
      <4>2. PprfOf(home).root = 4 /\ PprfOf(home).punct = {}
        BY <2>1 DEF Enc, PprfOf
      <4>3. ASSUME NEW s \in Sector PROVE RootOf(home, s) = 4 /\ TagOf(home, s) = s
        <5>1. home[TableAt(s)] = Enc(TableAt(s), <<4, s>>, file[s])
          BY <2>1
        <5>2. home[TableAt(s)].k = <<4, s>>
          BY <5>1 DEF Enc
        <5> QED
          BY <5>2 DEF RootOf, TagOf
      <4> QED
        BY <4>1, <4>2, <4>3
    <3>3. Chained(home, tpm)
      BY <2>1, <3>1, <3>2 DEF Enc, Chained
    <3>4. TableOk(home, file)
      <4>1. TagsOk(home)
        BY <3>2, Constants DEF TagsOk
      <4>2. ASSUME NEW s \in Sector PROVE home[TableAt(s)].body = file[s]
        <5>1. home[TableAt(s)] = Enc(TableAt(s), <<4, s>>, file[s])
          BY <2>1
        <5> QED
          BY <5>1 DEF Enc
      <4> QED
        BY <3>2, <4>1, <4>2 DEF TableOk
    <3> QED
      BY <3>3, <3>4 DEF Image
  <2>3. ctl = NoControl /\ tpm = 1 /\ fresh > 4
    BY <1>2, <1>5 DEF InitInUse
  <2>4. DiskInv
    BY <2>2, <2>3, RestartPlain DEF DiskInv, NoControl
  <2>5. Shape
    <3>1. home = [a \in Addr |-> home[a]] /\ file = [s \in Sector |-> file[s]]
      <4> DEFINE b(a) == CASE a[1] = "header" -> Enc(a, Junk, TRUE)
             [] a[1] = "top"    -> Enc(a, 1, [key |-> a[2] + 2, ctr |-> KeyTableLen, size |-> 1])
             [] a[1] = "bottom" -> Enc(a, 2, TopWidth + 2)
             [] a[1] = "pprf"   -> Enc(a, TopWidth + 2, [root |-> TopWidth + 3, punct |-> {}])
             [] a[1] = "table"  -> Enc(a, <<TopWidth + 3, a[2]>>, FirstKeys[a[2]])
      <4>1. home = [a \in Addr |-> b(a)] /\ file = FirstKeys
        BY <1>5, Zenon DEF InitInUse
      <4> HIDE DEF b
      <4> QED
        BY <4>1 DEF FirstKeys
    <3>2. home[PprfAt].at = PprfAt /\ PprfShape(home[PprfAt].body)
      BY <2>1 DEF Enc, PprfShape
    <3>3. slot = [i \in Slot |-> slot[i]] /\ slot[3].at # PprfAt
      BY <1>3, Apart, Constants DEF Enc
    <3> QED
      BY <1>3, <1>4, <2>3, <3>1, <3>2, <3>3 DEF Shape, NoControl
  <2>6. FreshInv
    <3>1. slot[3].at # PprfAt
      BY <1>3, Apart, Constants DEF Enc
    <3>2. home[PprfAt].body.root = 4
      BY <2>1 DEF Enc
    <3>3. ctl.key = 0 /\ mem.newmk = 0 /\ mem.newroot = 0
      BY <1>3, <1>4, <2>3 DEF NoControl, Junk
    <3>4. 0 \in Key /\ 1 \in Key /\ 4 \in Key
      BY <1>2, <2>3 DEF Key
    <3> QED
      BY <1>2, <2>3, <3>1, <3>2, <3>3, <3>4 DEF FreshInv
  <2> QED
    <3>1. InUse
      BY <2>1 DEF Enc, InUse
    <3> QED
      BY <1>3, <2>4, <2>5, <2>6, <3>1 DEF IInv, MemInv, Steps, Down
<1>6. CASE InitCreated
  <2>1. /\ home[HeaderAt] = Enc(HeaderAt, Junk, FALSE)
        /\ home[PprfAt] = Enc(PprfAt, Junk, JunkPprf)
    BY <1>6, Places DEF InitCreated, HeaderAt, TopAt, BotAt, PprfAt, TableAt
  <2>2. ctl = [type |-> "PPRF_INIT", k |-> Junk, key |-> Junk, addr |-> <<>>] /\ tpm = 1 /\ fresh = 2
    BY <1>6 DEF InitCreated, NoControl
  <2>3. DiskInv
    BY <2>1, <2>2 DEF Enc, DiskInv, InUse
  <2>4. Shape
    <3>1. home = [a \in Addr |-> home[a]] /\ file = [s \in Sector |-> file[s]]
      <4> DEFINE b(a) == CASE a[1] = "header" -> Enc(a, Junk, FALSE)
             [] a[1] = "top"    -> Enc(a, Junk, JunkTop)
             [] a[1] = "bottom" -> Enc(a, Junk, Junk)
             [] a[1] = "pprf"   -> Enc(a, Junk, JunkPprf)
             [] a[1] = "table"  -> Enc(a, <<Junk, 0>>, JunkKeys)
      <4>1. home = [a \in Addr |-> b(a)] /\ file = [s \in Sector |-> JunkKeys]
        BY <1>6, Zenon DEF InitCreated
      <4> HIDE DEF b
      <4> QED
        BY <4>1
    <3>2. home[PprfAt].at = PprfAt /\ PprfShape(home[PprfAt].body)
      BY <2>1 DEF Enc, PprfShape, JunkPprf
    <3>3. slot = [i \in Slot |-> slot[i]] /\ slot[3].at # PprfAt
      BY <1>3, Apart, Constants DEF Enc
    <3> QED
      BY <1>3, <1>4, <2>2, <3>1, <3>2, <3>3 DEF Shape
  <2>5. FreshInv
    <3>1. slot[3].at # PprfAt
      BY <1>3, Apart, Constants DEF Enc
    <3>2. home[PprfAt].body.root = 0
      BY <2>1 DEF Enc, JunkPprf, Junk
    <3>3. ctl.key = 0 /\ mem.newmk = 0 /\ mem.newroot = 0
      BY <1>3, <1>4, <2>2 DEF Junk
    <3>4. 0 \in Key /\ 1 \in Key
      BY <2>2 DEF Key
    <3> QED
      BY <1>2, <2>2, <3>1, <3>2, <3>3, <3>4 DEF FreshInv
  <2> QED
    BY <1>3, <2>2, <2>3, <2>4, <2>5 DEF Enc, IInv, MemInv, Steps, Down
<1> QED
  BY <1>5, <1>6 DEF Init

\* The cache changes by entries that agree with the disk, or wait to be written.
LEMMA KeepsRest ==
  ASSUME IInv, pc = "idle", UNCHANGED <<home, ctl, slot, tpm, pc, file>>,
         fresh' \in Nat, fresh' >= fresh,
         MemShape(mem'), SameBut(mem, mem', {"cache"}), CacheIn(mem', home, file)
  PROVE  IInv'
<1>1. AtRest
  BY DEF IInv, MemInv
<1>2. KeysIn(mem', home, tpm)
  BY <1>1 DEF AtRest, Whole, WholeIn, KeysIn, SameBut
<1>3. AtRest'
  BY <1>1, <1>2 DEF AtRest, Whole, WholeIn, InUse
<1>4. MemInv'
  BY <1>3 DEF MemInv, Steps
<1>5. FreshInv'
  BY FreshKept DEF IInv, FreshInv, Key, SameBut
<1>6. Shape'
  BY DEF IInv, Shape
<1> QED
  BY <1>4, <1>5, <1>6, DiskKept DEF IInv, disk

LEMMA GetInodeKeyInv == ASSUME IInv, NEW s \in Sector, GetInodeKey(s) PROVE IInv'
<1>1. AtRest /\ Shape
  BY DEF IInv, MemInv, GetInodeKey
<1>2. EntryShape(CacheEntry(s)) /\ CacheEntry(s).tag = TagOf(home, s)
      /\ (~CacheEntry(s).dirty => CacheEntry(s).keys = file[s])
  BY <1>1, CachedEntry DEF AtRest, Whole, WholeIn, Image, KeysIn
<1>3. mem'.cache = With(mem.cache, s, CacheEntry(s)) /\ SameBut(mem, mem', {"cache"}) /\ MemShape(mem')
  BY <1>1, <1>2, CacheWith DEF GetInodeKey, Shape
<1>4. CacheIn(mem', home, file)
  BY <1>1, <1>2, <1>3 DEF With, GetInodeKey, AtRest, Whole, WholeIn, CacheIn, EntryOk
<1> QED
  BY <1>3, <1>4, KeepsRest DEF GetInodeKey, IInv, FreshInv

LEMMA UnlinkInv == ASSUME IInv, NEW s \in Sector, NEW e \in Entry, Unlink(s, e) PROVE IInv'
<1> DEFINE x == [CacheEntry(s) EXCEPT !.keys[e] = fresh, !.dirty = TRUE]
<1>1. AtRest /\ Shape
  BY DEF IInv, MemInv, Unlink
<1>2. EntryShape(CacheEntry(s)) /\ CacheEntry(s).tag = TagOf(home, s)
  BY <1>1, CachedEntry DEF AtRest, Whole, WholeIn, Image, KeysIn
<1>3. EntryShape(x) /\ x.tag = TagOf(home, s) /\ x.dirty
  <2> DEFINE k == [CacheEntry(s).keys EXCEPT ![e] = fresh]
             y == [CacheEntry(s) EXCEPT !.keys = k]
  <2>1. y = [tag |-> CacheEntry(s).tag, keys |-> k, dirty |-> CacheEntry(s).dirty]
    BY <1>2, SetEntry
  <2>2. x = [y EXCEPT !.dirty = TRUE]
    OBVIOUS
  <2> HIDE DEF k, y
  <2>3. EntryShape(y) /\ y.tag = CacheEntry(s).tag
    BY <1>2, <2>1 DEF EntryShape
  <2>4. x = [tag |-> y.tag, keys |-> y.keys, dirty |-> TRUE]
    BY <2>2, <2>3, SetEntry
  <2> HIDE DEF x
  <2> QED
    BY <1>2, <2>3, <2>4 DEF EntryShape
<1>4. mem' = [mem EXCEPT !.cache = With(@, s, x)]
  BY DEF Unlink
<1> HIDE DEF x
<1>5. mem'.cache = With(mem.cache, s, x) /\ SameBut(mem, mem', {"cache"}) /\ MemShape(mem')
  BY <1>1, <1>3, <1>4, CacheWith DEF Shape
<1>6. UNCHANGED <<home, file>>
  BY DEF Unlink
<1>7. CacheIn(mem', home, file)
  BY <1>1, <1>3, <1>5, <1>6 DEF With, AtRest, Whole, WholeIn, CacheIn, EntryOk
<1> QED
  BY <1>5, <1>7, KeepsRest DEF Unlink, IInv, FreshInv

LEMMA DropEntryInv == ASSUME IInv, NEW s \in Sector, DropEntry(s) PROVE IInv'
<1>1. AtRest /\ Shape
  BY DEF IInv, MemInv, DropEntry
<1>2. mem'.cache = Without(mem.cache, s) /\ SameBut(mem, mem', {"cache"}) /\ MemShape(mem')
  BY <1>1, CacheWithout DEF DropEntry, Shape
<1>3. CacheIn(mem', home, file)
  BY <1>1, <1>2 DEF Without, Restrict, DropEntry, AtRest, Whole, WholeIn, CacheIn, EntryOk
<1> QED
  BY <1>2, <1>3, KeepsRest DEF DropEntry, IInv, FreshInv

LEMMA CloseInv == ASSUME IInv, Close PROVE IInv'
<1>1. AtRest
  BY DEF IInv, MemInv, Close
<1>2. AtRest'
  BY <1>1 DEF Close, AtRest, Whole, InUse
<1>3. MemInv'
  BY <1>2 DEF Close, MemInv, Steps
<1>4. FreshInv'
  BY FreshKept DEF Close, IInv, FreshInv, Key
<1>5. Shape'
  BY DEF Close, IInv, Shape, InUse
<1> QED
  BY <1>3, <1>4, <1>5, DiskKept DEF Close, IInv, disk

LEMMA CrashInv == ASSUME OneTop, SafeCreation, IInv, Crash PROVE IInv'
<1>1. InUse
  BY DEF Crash, SafeCreation
<1>2. MemShape(NoMem) /\ {NoMem.newmk, NoMem.newroot} \subseteq Key
  BY Blank DEF IInv
<1>3. Shape'
  BY <1>2 DEF Crash, IInv, Shape, InUse
<1>4. FreshInv'
  BY <1>2, FreshKept DEF Crash, IInv, FreshInv, Key
<1>5. MemInv'
  BY <1>1 DEF Crash, MemInv, Steps, Down, InUse
<1> QED
  BY <1>3, <1>4, <1>5, DiskKept DEF Crash, IInv, disk

\* The sectors other than the header are what they were.
LEMMA ImageByBody ==
  ASSUME NEW g, NEW h, NEW k, NEW f, Image(g, k, f),
         h[TopAt(0)] = g[TopAt(0)], h[BotAt] = g[BotAt], h[PprfAt] = g[PprfAt],
         \A s \in Sector : h[TableAt(s)] = g[TableAt(s)]
  PROVE  Image(h, k, f)
BY DEF Image, Chained, TableOk, TagsOk, TopOf, BotOf, PprfOf, RootOf, TagOf

LEMMA HeaderWritten ==
  ASSUME OneTop, Shape, NEW b,
         home' = [home EXCEPT ![HeaderAt] = Enc(HeaderAt, Junk, b)]
  PROVE  /\ InUse' = b /\ home' = [a \in Addr |-> home'[a]]
         /\ home'[TopAt(0)] = home[TopAt(0)] /\ home'[BotAt] = home[BotAt]
         /\ home'[PprfAt] = home[PprfAt]
         /\ \A s \in Sector : home'[TableAt(s)] = home[TableAt(s)]
BY Places, Apart DEF Enc, Shape, InUse

LEMMA ClosedInv == ASSUME OneTop, IInv, Closed PROVE IInv'
<1>1. AtRest /\ InUse /\ ctl.type = "NONE" /\ Image(home, tpm, file)
  BY DEF IInv, MemInv, Closed, AtRest, Whole, WholeIn
<1>2. /\ InUse' /\ home' = [a \in Addr |-> home'[a]]
      /\ home'[TopAt(0)] = home[TopAt(0)] /\ home'[BotAt] = home[BotAt]
      /\ home'[PprfAt] = home[PprfAt]
      /\ \A s \in Sector : home'[TableAt(s)] = home[TableAt(s)]
  BY <1>1, HeaderWritten DEF Closed, IInv, InUse
<1>3. Image(home', tpm, file)
  BY <1>1, <1>2, ImageByBody
<1>4. DiskInv'
  BY <1>1, <1>2, <1>3, DiskPlainNext DEF Closed
<1>5. MemShape(NoMem) /\ {NoMem.newmk, NoMem.newroot} \subseteq Key
  BY Blank DEF IInv
<1>6. Shape'
  BY <1>2, <1>5 DEF Closed, IInv, Shape
<1>7. FreshInv'
  BY <1>2, <1>5 DEF Closed, IInv, FreshInv, Key
<1>8. MemInv'
  BY <1>2 DEF Closed, MemInv, Steps, Down
<1> QED
  BY <1>4, <1>6, <1>7, <1>8 DEF IInv

-----------------------------------------------------------------------------
(* rotate_master.                                                          *)

LEMMA EnterMasterInv ==
  ASSUME FreshInv, NEW m, NEW r, MemShape(m), EnterMaster(m, r), UNCHANGED tpm,
         WholeIn(m, home', tpm, file'),
         ctl'.type \in {"NONE", "PPRF_ROT", "PPRF_INIT"},
         r \in Caller \cup Creating \cup {"clear"}, r \in Caller \cup {"clear"} => InUse'
  PROVE  /\ MemInv' /\ MemShape(mem') /\ fresh' = fresh + 1
         /\ mem'.newmk = fresh /\ mem'.newroot = m.newroot
<1>1. /\ mem' = [m EXCEPT !.newmk = fresh] /\ fresh' = fresh + 1
      /\ pc' = "m_slot" /\ idx' = 0 /\ ret' = r
  BY DEF EnterMaster
<1>2. mem'.newmk = fresh /\ SameBut(m, mem', {"newmk"}) /\ MemShape(mem')
  BY <1>1, SetKey
<1>3. /\ mem'.mk = m.mk /\ mem'.top = m.top /\ mem'.pk = m.pk /\ mem'.pprf = m.pprf
      /\ mem'.cache = m.cache /\ mem'.newroot = m.newroot
  BY <1>2 DEF SameBut
<1>4. WholeIn(mem', home', tpm, file')
  BY <1>3 DEF WholeIn, KeysIn, CacheIn
<1>5. fresh # tpm
  BY DEF FreshInv, Key
<1>6. MasterDrawn'
  BY <1>1, <1>2, <1>4, <1>5 DEF MasterDrawn, Whole
<1>7. MemInv'
  BY <1>1, <1>6 DEF MemInv, Steps
<1> QED
  BY <1>1, <1>2, <1>3, <1>7

\* The journal's slots matter to a transaction and to a pending key only.
LEMMA DiskNoSlot ==
  ASSUME DiskInv, ctl.type \in {"NONE", "PPRF_ROT", "PPRF_INIT"}, UNCHANGED <<home, ctl, tpm, file>>
  PROVE  DiskInv'
<1>1. ctl.type = "PPRF_ROT" => HalfRotated'
  BY HalfKept DEF DiskInv
<1>2. RestartHome' = home /\ RestartMaster' = tpm /\ RestartHome = home /\ RestartMaster = tpm
  BY RestartPlain, RestartPlainNext
<1> QED
  BY <1>1, <1>2 DEF DiskInv, InUse

LEMMA MasterSlotInv == ASSUME OneTop, IInv, MasterSlot PROVE IInv'
<1>1. MasterDrawn /\ idx = 0
  BY DEF IInv, MemInv, MasterSlot, MasterDrawn
<1>2. /\ slot' = [slot EXCEPT ![1] = Enc(TopAt(0), mem.newmk, mem.top[0])]
      /\ pc' = "m_ctl" /\ UNCHANGED <<home, ctl, tpm, mem, ret, fresh, file>>
  BY <1>1 DEF MasterSlot, OneTop
<1>3. slot'[1] = Enc(TopAt(0), mem.newmk, mem.top[0]) /\ slot'[3] = slot[3]
      /\ slot' = [i \in Slot |-> slot'[i]]
  <2>1. slot = [i \in Slot |-> slot[i]] /\ 1 \in Slot /\ 3 \in Slot
    BY Constants DEF IInv, Shape
  <2> QED
    BY <1>2, <2>1
<1>4. MasterDrawn'
  BY <1>1, <1>2, <1>3 DEF MasterDrawn, Whole, InUse, Caller
<1>5. MemInv'
  BY <1>2, <1>4 DEF MemInv, Steps
<1>6. DiskInv'
  BY <1>1, <1>2, DiskNoSlot DEF IInv, MasterDrawn
<1>7. Shape'
  BY <1>2, <1>3 DEF IInv, Shape
<1>8. FreshInv'
  BY <1>2, <1>3 DEF IInv, FreshInv, Key
<1> QED
  BY <1>5, <1>6, <1>7, <1>8 DEF IInv

\* The top of the FKT under another master key.
LEMMA ImageRekeyed ==
  ASSUME NEW g, NEW h, NEW k, NEW l, NEW f, Image(g, k, f),
         h[TopAt(0)] = Enc(TopAt(0), l, TopOf(g)), h[BotAt] = g[BotAt], h[PprfAt] = g[PprfAt],
         \A s \in Sector : h[TableAt(s)] = g[TableAt(s)]
  PROVE  Image(h, l, f) /\ TopOf(h) = TopOf(g)
BY DEF Enc, Image, Chained, TableOk, TagsOk, TopOf, BotOf, PprfOf, RootOf, TagOf

LEMMA RestartPendingNext ==
  ASSUME OneTop, ctl'.type = "MASTER_ROT", ctl'.k = tpm'
  PROVE  /\ RestartMaster' = ctl'.key
         /\ RestartHome' = [a \in Addr |-> IF a = TopAt(0) THEN slot'[1] ELSE home'[a]]
<1>1. RestartHome' = [a \in Addr |-> IF a[1] = "top" THEN slot'[a[2] + 1] ELSE home'[a]]
  BY DEF RestartHome, MasterPending
<1>2. \A a \in Addr : (IF a[1] = "top" THEN slot'[a[2] + 1] ELSE home'[a])
                      = (IF a = TopAt(0) THEN slot'[1] ELSE home'[a])
  BY Places, Kinds
<1>3. RestartMaster' = ctl'.key
  BY DEF RestartMaster, MasterPending
<1> QED
  BY <1>1, <1>2, <1>3

LEMMA MasterCtlInv == ASSUME OneTop, IInv, MasterCtl PROVE IInv'
<1>1. MasterDrawn /\ pc = "m_ctl"
  BY DEF IInv, MemInv, MasterCtl
<1>2. /\ ctl'.type = "MASTER_ROT" /\ ctl'.k = mem.mk /\ ctl'.key = mem.newmk
      /\ ctl' = [type |-> ctl'.type, k |-> ctl'.k, key |-> ctl'.key, addr |-> ctl'.addr]
      /\ pc' = "m_top" /\ idx' = 0 /\ UNCHANGED <<home, slot, tpm, mem, ret, fresh, file>>
  BY DEF MasterCtl
<1>3. /\ mem.mk = tpm /\ mem.newmk # tpm /\ mem.top[0] = TopOf(home)
      /\ slot[1] = Enc(TopAt(0), mem.newmk, TopOf(home)) /\ Image(home, tpm, file)
      /\ KeysIn(mem, home, tpm) /\ CacheIn(mem, home, file)
  BY <1>1 DEF MasterDrawn, Whole, WholeIn, KeysIn
<1>4. RestartMaster' = mem.newmk
      /\ RestartHome' = [a \in Addr |-> IF a = TopAt(0) THEN slot[1] ELSE home[a]]
  BY <1>2, <1>3, RestartPendingNext
<1>5. /\ RestartHome'[TopAt(0)] = slot[1] /\ RestartHome'[BotAt] = home[BotAt]
      /\ RestartHome'[PprfAt] = home[PprfAt]
      /\ \A s \in Sector : RestartHome'[TableAt(s)] = home[TableAt(s)]
  BY <1>4, Places, Apart
<1>6. Image(RestartHome', mem.newmk, file)
  BY <1>3, <1>5, ImageRekeyed
<1>7. DiskInv'
  BY <1>2, <1>3, <1>4, <1>6 DEF DiskInv
<1>8. slot[1].body = mem.top[0]
  BY <1>3 DEF Enc
<1>9. MasterLogged'
  BY <1>1, <1>2, <1>3, <1>8 DEF MasterDrawn, MasterLogged, InUse, Caller, Creating
<1>10. MemInv'
  BY <1>2, <1>9 DEF MemInv, Steps
<1>11. Shape' /\ FreshInv'
  BY <1>2 DEF IInv, Shape, FreshInv, Key
<1> QED
  BY <1>7, <1>10, <1>11 DEF IInv

LEMMA MasterTopInv == ASSUME OneTop, IInv, MasterTop PROVE IInv'
<1>1. MasterLogged /\ idx = 0 /\ Shape
  BY DEF IInv, MemInv, MasterTop, MasterLogged
<1>2. /\ home' = [home EXCEPT ![TopAt(0)] = slot[1]] /\ idx' = 1
      /\ pc' = "m_tpm" /\ UNCHANGED <<ctl, slot, tpm, mem, ret, fresh, file>>
  BY <1>1 DEF MasterTop, OneTop
<1>3. /\ home'[TopAt(0)] = slot[1] /\ home'[BotAt] = home[BotAt]
      /\ home'[PprfAt] = home[PprfAt] /\ home'[HeaderAt] = home[HeaderAt]
      /\ \A s \in Sector : home'[TableAt(s)] = home[TableAt(s)]
      /\ home' = [a \in Addr |-> home'[a]]
  BY <1>1, <1>2, Places, Apart DEF Shape
<1>4. RestartHome' = RestartHome /\ RestartMaster' = RestartMaster
  <2>1. RestartMaster = ctl.key
        /\ RestartHome = [a \in Addr |-> IF a = TopAt(0) THEN slot[1] ELSE home[a]]
    BY <1>1, RestartPending DEF MasterLogged
  <2>2. RestartMaster' = ctl.key
        /\ RestartHome' = [a \in Addr |-> IF a = TopAt(0) THEN slot[1] ELSE home'[a]]
    BY <1>1, <1>2, RestartPendingNext DEF MasterLogged
  <2>3. \A a \in Addr : a # TopAt(0) => home'[a] = home[a]
    BY <1>1, <1>2 DEF Shape
  <2> QED
    BY <2>1, <2>2, <2>3
<1>5. DiskInv'
  BY <1>1, <1>2, <1>3, <1>4 DEF IInv, DiskInv, MasterLogged, InUse
<1>6. KeysIn(mem, home, tpm) /\ slot[1].body = mem.top[0] => KeysIn(mem, home', tpm)
  BY <1>3 DEF KeysIn, TopOf, BotOf, PprfOf
<1>7. CacheIn(mem, home', file)
  BY <1>1, <1>3 DEF MasterLogged, CacheIn, TagOf, Shape, MemShape
<1>8. MasterLogged'
  BY <1>1, <1>2, <1>3, <1>6, <1>7 DEF MasterLogged, InUse
<1>9. MemInv'
  BY <1>2, <1>8 DEF MemInv, Steps
<1>10. Shape' /\ FreshInv'
  BY <1>2, <1>3 DEF IInv, Shape, FreshInv, Key
<1> QED
  BY <1>5, <1>9, <1>10 DEF IInv

LEMMA MasterTpmInv == ASSUME OneTop, IInv, MasterTpm PROVE IInv'
<1>1. MasterLogged /\ Shape /\ home[TopAt(0)] = slot[1]
  BY DEF IInv, MemInv, MasterTpm, MasterLogged
<1>2. /\ ctl.type = "MASTER_ROT" /\ ctl.k = tpm /\ ctl.key = mem.newmk
      /\ tpm' = ctl.key /\ mem' = [mem EXCEPT !.mk = ctl.key]
      /\ pc' = (IF ret = "recover" THEN "clear" ELSE "m_none")
      /\ UNCHANGED <<home, ctl, slot, ret, idx, fresh, file>>
  BY <1>1 DEF MasterTpm, MasterLogged
<1>3. ctl.k # ctl.key /\ Image(RestartHome, RestartMaster, file)
  BY <1>2 DEF IInv, DiskInv
<1>4. RestartHome = home /\ RestartMaster = ctl.key
  BY <1>1, <1>2, RestartPending DEF Shape
<1>5. RestartHome' = home /\ RestartMaster' = ctl.key
  BY <1>2, <1>3, RestartPlainNext
<1>6. DiskInv'
  BY <1>2, <1>3, <1>4, <1>5 DEF DiskInv
<1>7. mem'.mk = ctl.key /\ SameBut(mem, mem', {"mk"}) /\ MemShape(mem')
  <2>1. MemShape(mem) /\ mem' = [mem EXCEPT !.mk = ctl.key]
    BY <1>1, <1>2 DEF Shape
  <2> QED
    BY <2>1, SetKey
<1>8. KeysIn(mem, home, tpm) => KeysIn(mem', home, ctl.key)
  BY <1>7 DEF KeysIn, SameBut
<1>9. CacheIn(mem', home, file)
  BY <1>1, <1>7 DEF MasterLogged, CacheIn, SameBut
<1>10. ASSUME ret = "recover" PROVE MemInv'
  <2>1. Cleared'
    BY <1>2, <1>3, <1>4, <1>5, <1>7, <1>9, <1>10 DEF Cleared
  <2>2. pc' = "clear"
    BY <1>2, <1>10
  <2> QED
    BY <2>1, <2>2 DEF MemInv, Steps
<1>11. ASSUME ret # "recover" PROVE MemInv'
  <2>1. MasterMoved'
    BY <1>1, <1>2, <1>3, <1>4, <1>8, <1>9, <1>11 DEF MasterLogged, MasterMoved, Whole, WholeIn, InUse
  <2>2. pc' = "m_none"
    BY <1>2, <1>11
  <2> QED
    BY <2>1, <2>2 DEF MemInv, Steps
<1>12. Shape' /\ FreshInv'
  BY <1>2, <1>7 DEF IInv, Shape, FreshInv, Key, SameBut
<1> QED
  BY <1>6, <1>10, <1>11, <1>12 DEF IInv

LEMMA MasterNoneInv == ASSUME OneTop, IInv, MasterNone PROVE IInv'
<1>1. MasterMoved /\ Shape /\ FreshInv /\ MemShape(mem)
  BY DEF IInv, MemInv, MasterNone, Shape
<1>2. /\ ctl' = [ctl EXCEPT !.type = "NONE"] /\ UNCHANGED <<home, slot, tpm, file>>
  BY DEF MasterNone
<1>3. ctl'.type = "NONE" /\ ctl'.key = ctl.key
      /\ ctl' = [type |-> ctl'.type, k |-> ctl'.k, key |-> ctl'.key, addr |-> ctl'.addr]
  BY <1>1, <1>2 DEF Shape
<1>4. WholeIn(mem, home', tpm, file') /\ Image(home', tpm', file')
  BY <1>1, <1>2 DEF MasterMoved, Whole, WholeIn
<1>5. DiskInv'
  BY <1>3, <1>4, DiskPlainNext
<1>6. CASE ret = "init"
  <2>1. EnterMaster(mem, "init again")
    BY <1>6 DEF MasterNone
  <2>2. "init again" \in Creating /\ "init again" \notin Caller \cup {"clear"}
    BY DEF Creating, Caller
  <2>3. /\ MemInv' /\ MemShape(mem') /\ fresh' = fresh + 1
        /\ mem'.newmk = fresh /\ mem'.newroot = mem.newroot
    BY <1>1, <1>2, <1>3, <1>4, <2>1, <2>2, EnterMasterInv
  <2>4. Shape'
    BY <1>1, <1>2, <1>3, <2>3 DEF Shape
  <2>5. FreshInv'
    BY <1>1, <1>2, <1>3, <2>3 DEF FreshInv, Key
  <2> QED
    BY <1>5, <2>3, <2>4, <2>5 DEF IInv
<1>7. CASE ret # "init"
  <2>1. /\ pc' = (IF ret = "init again" THEN "clear" ELSE ret)
        /\ UNCHANGED <<mem, fresh, idx, ret>>
    BY <1>7 DEF MasterNone
  <2>2. RestartMaster' = tpm'
    BY <1>3, RestartPlainNext
  <2>3. ASSUME pc' = "clear" PROVE MemInv'
    <3>1. Cleared'
      BY <1>1, <1>2, <1>3, <1>4, <2>1, <2>2, <2>3 DEF Cleared, WholeIn, KeysIn
    <3> QED
      BY <2>3, <3>1 DEF MemInv, Steps
  <2>4. ASSUME pc' # "clear" PROVE MemInv'
    <3>1. pc' \in Caller /\ InUse /\ pc' \in {"idle", "closing"}
      BY <1>1, <1>7, <2>1, <2>4 DEF MasterMoved, Caller, Creating
    <3>2. AtRest'
      BY <1>2, <1>3, <1>4, <2>1, <3>1 DEF AtRest, Whole, InUse
    <3> QED
      BY <3>1, <3>2 DEF MemInv, Steps
  <2>5. Shape' /\ FreshInv'
    BY <1>1, <1>2, <1>3, <2>1 DEF Shape, FreshInv, Key
  <2> QED
    BY <1>5, <2>3, <2>4, <2>5 DEF IInv
<1> QED
  BY <1>6, <1>7

LEMMA ControlNoneInv == ASSUME OneTop, IInv, ControlNone PROVE IInv'
<1>1. Replayed /\ Shape /\ FreshInv /\ MemShape(mem)
  BY DEF IInv, MemInv, ControlNone, Shape
<1>2. /\ ctl' = [ctl EXCEPT !.type = "NONE"] /\ UNCHANGED <<home, slot, tpm, file>>
      /\ EnterMaster(mem, ret)
  BY DEF ControlNone
<1>3. ctl'.type = "NONE" /\ ctl'.key = ctl.key
      /\ ctl' = [type |-> ctl'.type, k |-> ctl'.k, key |-> ctl'.key, addr |-> ctl'.addr]
  BY <1>1, <1>2 DEF Shape
<1>4. WholeIn(mem, home', tpm, file') /\ Image(home', tpm', file')
  BY <1>1, <1>2 DEF Replayed, Whole, WholeIn
<1>5. DiskInv'
  BY <1>3, <1>4, DiskPlainNext
<1>6. ret \in Caller /\ InUse'
  BY <1>1, <1>2 DEF Replayed, IInv, DiskInv, InUse
<1>7. /\ MemInv' /\ MemShape(mem') /\ fresh' = fresh + 1
      /\ mem'.newmk = fresh /\ mem'.newroot = mem.newroot
  BY <1>1, <1>2, <1>3, <1>4, <1>6, EnterMasterInv
<1>8. Shape'
  BY <1>1, <1>2, <1>3, <1>7 DEF Shape
<1>9. FreshInv'
  BY <1>1, <1>2, <1>3, <1>7 DEF FreshInv, Key
<1> QED
  BY <1>5, <1>7, <1>8, <1>9 DEF IInv

-----------------------------------------------------------------------------
(* The end of the constructor.                                             *)

LEMMA JournalClearInv == ASSUME OneTop, IInv, JournalClear PROVE IInv'
<1>1. Cleared /\ Shape /\ FreshInv /\ MemShape(mem)
  BY DEF IInv, MemInv, JournalClear, Shape
<1>2. /\ ctl' = [ctl EXCEPT !.type = "NONE"] /\ pc' = "finish"
      /\ UNCHANGED <<home, slot, tpm, ret, idx, fresh, file>>
  BY DEF JournalClear
<1>3. ctl'.type = "NONE" /\ ctl'.key = ctl.key
      /\ ctl' = [type |-> ctl'.type, k |-> ctl'.k, key |-> ctl'.key, addr |-> ctl'.addr]
  BY <1>1, <1>2 DEF Shape
<1>4. Image(home, tpm, file) /\ Chained(home, mem.mk) /\ mem.mk = tpm /\ CacheIn(mem, home, file)
  BY <1>1 DEF Cleared, Image
<1>5. DiskInv'
  BY <1>2, <1>3, <1>4, DiskPlainNext
<1>6. KeysIn(mem', home, tpm) /\ CacheIn(mem', home, file) /\ MemShape(mem')
      /\ mem'.newmk = mem.newmk /\ mem'.newroot = mem.newroot
  <2>1. CASE ret = "recover"
    <3>1. mem' = ReadPprf(ReadFkt(mem))
      BY <2>1 DEF JournalClear
    <3>2. /\ SameBut(mem, mem', {"top", "pk", "pprf"}) /\ MemShape(mem')
          /\ mem'.top[0] = TopOf(home) /\ mem'.pk = BotOf(home) /\ mem'.pprf = PprfOf(home)
      BY <1>1, <1>4, <3>1, ReadMemory
    <3> QED
      BY <1>4, <3>2 DEF KeysIn, CacheIn, SameBut
  <2>2. CASE ret = "init again"
    <3>1. mem' = ReadPprf(mem) /\ KeysIn(mem, home, tpm)
      BY <1>1, <2>2 DEF JournalClear, Cleared
    <3>2. home[PprfAt].k = mem.pk
      BY <1>4, <3>1 DEF Chained, KeysIn
    <3>3. SameBut(mem, mem', {"pprf"}) /\ MemShape(mem') /\ mem'.pprf = PprfOf(home)
      BY <1>1, <3>1, <3>2, ReadPprfMemory
    <3> QED
      BY <1>4, <3>1, <3>3 DEF KeysIn, CacheIn, SameBut
  <2>3. CASE ret \notin {"recover", "init again"}
    <3>1. mem' = mem /\ KeysIn(mem, home, tpm)
      BY <1>1, <2>3 DEF JournalClear, Cleared
    <3> QED
      BY <1>1, <1>4, <3>1
  <2> QED
    BY <2>1, <2>2, <2>3
<1>7. AtRest'
  BY <1>2, <1>3, <1>4, <1>6 DEF AtRest, Whole, WholeIn
<1>8. MemInv'
  BY <1>2, <1>7 DEF MemInv, Steps
<1>9. Shape' /\ FreshInv'
  BY <1>1, <1>2, <1>3, <1>6 DEF Shape, FreshInv, Key
<1> QED
  BY <1>5, <1>8, <1>9 DEF IInv

LEMMA FinishOpenInv == ASSUME OneTop, IInv, FinishOpen PROVE IInv'
<1>1. AtRest /\ Shape /\ FreshInv /\ MemShape(mem)
  BY DEF IInv, MemInv, FinishOpen, Shape
<1>2. UNCHANGED <<ctl, slot, tpm, file>> /\ ctl.type = "NONE" /\ WholeIn(mem, home, tpm, file)
  BY <1>1 DEF FinishOpen, AtRest, Whole
<1>3. CASE InUse
  <2>1. EnterMaster(mem, "idle") /\ UNCHANGED home
    BY <1>3 DEF FinishOpen
  <2>2. "idle" \in Caller /\ InUse'
    BY <1>3, <2>1 DEF Caller, InUse
  <2>3. /\ MemInv' /\ MemShape(mem') /\ fresh' = fresh + 1
        /\ mem'.newmk = fresh /\ mem'.newroot = mem.newroot
    BY <1>1, <1>2, <2>1, <2>2, EnterMasterInv
  <2>4. DiskInv'
    BY <1>2, <2>1, DiskKept DEF IInv, disk
  <2>5. Shape'
    BY <1>1, <1>2, <2>1, <2>3 DEF Shape
  <2>6. FreshInv'
    BY <1>1, <1>2, <2>1, <2>3 DEF FreshInv, Key
  <2> QED
    BY <2>3, <2>4, <2>5, <2>6 DEF IInv
<1>4. CASE ~InUse
  <2>1. /\ home' = [home EXCEPT ![HeaderAt] = Enc(HeaderAt, Junk, TRUE)]
        /\ pc' = "idle" /\ UNCHANGED <<mem, fresh, ret, idx>>
    BY <1>4 DEF FinishOpen
  <2>2. /\ InUse' /\ home' = [a \in Addr |-> home'[a]]
        /\ home'[TopAt(0)] = home[TopAt(0)] /\ home'[BotAt] = home[BotAt]
        /\ home'[PprfAt] = home[PprfAt]
        /\ \A s \in Sector : home'[TableAt(s)] = home[TableAt(s)]
    BY <1>1, <2>1, HeaderWritten DEF InUse
  <2>3. WholeIn(mem, home', tpm, file)
    BY <1>1, <1>2, <2>2, ImageByBody
       DEF WholeIn, KeysIn, CacheIn, TopOf, BotOf, PprfOf, TagOf, MemShape
  <2>4. DiskInv'
    BY <1>2, <2>3, DiskPlainNext DEF WholeIn
  <2>5. AtRest'
    BY <1>2, <2>1, <2>2, <2>3 DEF AtRest, Whole
  <2>6. MemInv'
    <3>1. pc' = "idle"
      BY <2>1
    <3> QED
      BY <2>5, <3>1 DEF MemInv, Steps
  <2>7. Shape'
    BY <1>1, <1>2, <2>1, <2>2 DEF Shape
  <2>8. FreshInv'
    BY <1>1, <1>2, <2>1, <2>2 DEF FreshInv, Key
  <2> QED
    BY <2>4, <2>6, <2>7, <2>8 DEF IInv
<1> QED
  BY <1>3, <1>4

-----------------------------------------------------------------------------
(* persist_unlink.                                                         *)

\* A counter that has not come round gives the tag as it is.
LEMMA TagTaken ==
  ASSUME NEW m, m.top[0].ctr \in Nat, m.top[0].ctr + 1 <= 2 ^ Depth
  PROVE  NextTag(m) = m.top[0].ctr
<1>1. 2 ^ Depth \in Nat
  BY Constants
<1>2. \A n, c \in Nat : c + 1 <= n => c % n = c
  OBVIOUS
<1> QED
  BY <1>1, <1>2 DEF NextTag

LEMMA PersistUnlinkInv ==
  ASSUME IInv, TagsAreLeaves', NEW s \in Sector, PersistUnlink(s) PROVE IInv'
<1>1. AtRest /\ InUse /\ Shape /\ FreshInv /\ MemShape(mem)
  BY DEF IInv, MemInv, PersistUnlink, AtRest, Shape
<1>2. /\ UNCHANGED <<home, ctl, slot, tpm, file>> /\ ret' = pc /\ pc \in Caller
      /\ s \in DOMAIN mem.cache
  BY DEF PersistUnlink, Caller
<1>3. /\ ctl.type = "NONE" /\ Image(home, tpm, file) /\ KeysIn(mem, home, tpm)
      /\ CacheIn(mem, home, file)
  BY <1>1 DEF AtRest, Whole, WholeIn
<1>4. DiskInv'
  BY <1>2, DiskKept DEF IInv, disk
<1>5. CASE mem.top[0].size + 2 * Depth > Capacity
  <2>1. mem' = [mem EXCEPT !.newroot = fresh] /\ fresh' = fresh + 1 /\ pc' = "rot_ctl"
    BY <1>5 DEF PersistUnlink
  <2>2. mem'.newroot = fresh /\ SameBut(mem, mem', {"newroot"}) /\ MemShape(mem')
    BY <1>1, <2>1, SetKey
  <2>3. /\ mem'.mk = mem.mk /\ mem'.top = mem.top /\ mem'.pk = mem.pk /\ mem'.pprf = mem.pprf
        /\ mem'.cache = mem.cache /\ mem'.newmk = mem.newmk
    BY <2>2 DEF SameBut
  <2>4. Whole'
    BY <1>2, <1>3, <2>3 DEF Whole, WholeIn, KeysIn, CacheIn
  <2>5. mem'.newroot # PprfOf(home).root
    BY <1>1, <2>2 DEF FreshInv, Key, PprfOf
  <2>6. RotationDrawn'
    BY <1>1, <1>2, <1>3, <2>4, <2>5 DEF RotationDrawn, InUse
  <2>7. MemInv'
    BY <2>1, <2>6 DEF MemInv, Steps
  <2>8. Shape'
    BY <1>1, <1>2, <2>2 DEF Shape
  <2>9. FreshInv'
    BY <1>1, <1>2, <2>1, <2>2, <2>3 DEF FreshInv, Key
  <2> QED
    BY <1>4, <2>7, <2>8, <2>9 DEF IInv
<1>6. CASE ~(mem.top[0].size + 2 * Depth > Capacity)
  <2>1. mem' = Punctured(mem, s) /\ fresh' = fresh + 2 /\ pc' = "jnl" /\ idx' = 1
    BY <1>6 DEF PersistUnlink
  <2>2. /\ mem'.cur = s
        /\ mem'.top[0].ctr = mem.top[0].ctr + 1
        /\ mem'.pprf = [root |-> mem.pprf.root, punct |-> mem.pprf.punct \cup {mem.cache[s].tag}]
        /\ DOMAIN mem'.cache = DOMAIN mem.cache
        /\ mem'.cache[s].tag = mem.top[0].ctr
        /\ \A t \in DOMAIN mem.cache : t # s => mem'.cache[t] = mem.cache[t]
        /\ SameBut(mem, mem', {"cache", "cur", "pprf", "top", "pk"})
        /\ MemShape(mem')
    <3>1. mem'.top[0].ctr = mem.top[0].ctr + 1
      BY <1>1, <1>2, <2>1, PuncturedMemory
    <3>2. mem.top[0].ctr \in Nat
      BY <1>3 DEF KeysIn, Image, TableOk, TagsOk
    <3>3. NextTag(mem) = mem.top[0].ctr
      BY <2>1, <3>1, <3>2, TagTaken DEF TagsAreLeaves
    <3> QED
      BY <1>1, <1>2, <2>1, <3>3, PuncturedMemory
  <2>3. mem.cache[s].tag = TagOf(home, s) /\ mem'.mk = mem.mk
        /\ mem'.newmk = mem.newmk /\ mem'.newroot = mem.newroot
    BY <1>2, <1>3, <2>2 DEF CacheIn, EntryOk, SameBut
  <2>4. Journaling'
    <3>1. 1 \in Slot /\ \A i \in Slot : ~(i < 1)
      BY Constants
    <3>2. \A t \in DOMAIN mem'.cache \ {s} : EntryOk(mem'.cache[t], TagOf(home, t), file[t])
      BY <1>3, <2>2 DEF CacheIn
    <3> QED
      BY <1>1, <1>2, <1>3, <2>1, <2>2, <2>3, <3>1, <3>2 DEF Journaling, KeysIn, InUse
  <2>5. MemInv'
    BY <2>1, <2>4 DEF MemInv, Steps
  <2>6. Shape'
    BY <1>1, <1>2, <2>2 DEF Shape
  <2>7. FreshInv'
    BY <1>1, <1>2, <2>1, <2>3 DEF FreshInv, Key
  <2> QED
    BY <1>4, <2>5, <2>6, <2>7 DEF IInv
<1> QED
  BY <1>5, <1>6

\* An entry marked clean is journaled as it was.
LEMMA JournalSlotInv == ASSUME IInv, JournalSlot PROVE IInv'
<1>1. Journaling /\ pc = "jnl" /\ Shape /\ FreshInv /\ MemShape(mem)
  BY DEF IInv, MemInv, JournalSlot, Shape
<1>2. /\ slot' = [slot EXCEPT ![idx] = JournalBlock(idx)]
      /\ mem' = IF idx = 4 THEN [mem EXCEPT !.cache[mem.cur].dirty = FALSE] ELSE mem
      /\ UNCHANGED <<home, ctl, tpm, ret, fresh, file>>
  BY DEF JournalSlot
<1>3. IF idx = 5 THEN pc' = "punct_ctl" /\ idx' = 1 ELSE pc' = "jnl" /\ idx' = idx + 1
  BY DEF JournalSlot
<1>4. idx \in Slot /\ mem.cur \in DOMAIN mem.cache
  BY <1>1 DEF Journaling
<1>5. /\ DOMAIN mem'.cache = DOMAIN mem.cache
      /\ mem'.cache[mem.cur].tag = mem.cache[mem.cur].tag
      /\ mem'.cache[mem.cur].keys = mem.cache[mem.cur].keys
      /\ \A t \in DOMAIN mem.cache : t # mem.cur => mem'.cache[t] = mem.cache[t]
      /\ SameBut(mem, mem', {"cache"}) /\ MemShape(mem')
  <2>1. CASE idx = 4
    <3>1. mem' = Cleaned(mem, mem.cur)
      BY <1>2, <2>1 DEF Cleaned
    <3> QED
      BY <1>1, <1>4, <3>1, EntryCleaned
  <2>2. CASE idx # 4
    <3>1. mem' = mem
      BY <1>2, <2>2
    <3> QED
      BY <1>1, <3>1 DEF SameBut
  <2> QED
    BY <2>1, <2>2
<1>6. /\ mem'.mk = mem.mk /\ mem'.top = mem.top /\ mem'.pk = mem.pk /\ mem'.pprf = mem.pprf
      /\ mem'.newmk = mem.newmk /\ mem'.newroot = mem.newroot /\ mem'.cur = mem.cur
  BY <1>5 DEF SameBut
<1>7. \A i : JournalBlock(i)' = JournalBlock(i)
  BY <1>2, <1>5, <1>6 DEF JournalBlock, InUse
<1>8. slot'[idx] = JournalBlock(idx) /\ \A i \in Slot : i # idx => slot'[i] = slot[i]
  BY <1>1, <1>2, <1>4 DEF Shape
<1>9. \A i \in Slot : i <= idx => slot'[i] = JournalBlock(i)'
  <2>1. \A i \in Slot : i < idx => slot[i] = JournalBlock(i)
    BY <1>1 DEF Journaling
  <2>2. \A i \in Slot : i <= idx => i < idx \/ i = idx
    BY <1>4 DEF Slot
  <2> QED
    BY <1>7, <1>8, <2>1, <2>2
<1>10. idx' \in Slot /\ (pc' = "punct_ctl" => idx' = 1)
       /\ \A i \in Slot : i < idx' \/ pc' = "punct_ctl" => i <= idx
  BY <1>3, <1>4 DEF Slot
<1>11. Journaling'
  BY <1>1, <1>2, <1>5, <1>6, <1>9, <1>10 DEF Journaling, InUse
<1>12. MemInv'
  BY <1>3, <1>11 DEF MemInv, Steps
<1>13. DiskInv'
  BY <1>1, <1>2, DiskNoSlot DEF IInv, Journaling
<1>14. slot'[3].at = PprfAt =>
         \/ slot'[3] = slot[3]
         \/ PprfShape(slot'[3].body) /\ slot'[3].body.root \in Key
  <2>1. CASE idx = 3
    <3>1. slot'[3] = Enc(PprfAt, mem.pk, mem.pprf)
      BY <1>8, <2>1, Transacted DEF JournalBlock
    <3>2. PprfShape(mem.pprf) /\ mem.pprf.root \in Key
      BY <1>1 DEF MemShape, Journaling, FreshInv, PprfOf
    <3>3. slot'[3].body = mem.pprf
      BY <3>1 DEF Enc
    <3> QED
      BY <3>2, <3>3
  <2>2. CASE idx # 3
    <3>1. 3 \in Slot
      BY Constants
    <3>2. slot'[3] = slot[3]
      BY <1>8, <2>2, <3>1
    <3> QED
      BY <3>2
  <2> QED
    BY <2>1, <2>2
<1>15. Shape'
  <2>1. slot' = [i \in Slot |-> slot'[i]]
    BY <1>1, <1>2 DEF Shape
  <2> QED
    BY <1>1, <1>2, <1>5, <1>14, <2>1 DEF Shape
<1>16. FreshInv'
  BY <1>1, <1>2, <1>6, <1>14 DEF FreshInv, Key
<1> QED
  BY <1>12, <1>13, <1>15, <1>16 DEF IInv

\* What journal_commit makes durable: the sector under a new tag and the PPRF key
\* without the old one.
LEMMA PunctureCtlInv == ASSUME OneTop, IInv, PunctureCtl PROVE IInv'
<1>1. Journaling /\ pc = "punct_ctl" /\ idx = 1 /\ Shape /\ FreshInv /\ MemShape(mem)
  BY DEF IInv, MemInv, PunctureCtl, Journaling, Shape
<1> DEFINE s == mem.cur
           h == RestartHome'
<1>2. /\ ctl'.type = "PPRF_PUNCT" /\ ctl'.key = Junk /\ ctl'.addr = Transaction(s)
      /\ ctl' = [type |-> ctl'.type, k |-> ctl'.k, key |-> ctl'.key, addr |-> ctl'.addr]
      /\ file' = [file EXCEPT ![s] = mem.cache[s].keys]
      /\ pc' = "replay" /\ UNCHANGED <<home, slot, tpm, mem, ret, idx, fresh>>
  BY DEF PunctureCtl
<1>3. /\ s \in Sector /\ s \in DOMAIN mem.cache /\ mem.mk = tpm /\ ret \in Caller /\ InUse
      /\ mem.cache[s].tag = TopOf(home).ctr /\ mem.top[0].ctr = TopOf(home).ctr + 1
      /\ mem.pprf = [root |-> PprfOf(home).root,
                     punct |-> PprfOf(home).punct \cup {TagOf(home, s)}]
      /\ \A t \in DOMAIN mem.cache \ {s} : EntryOk(mem.cache[t], TagOf(home, t), file[t])
      /\ \A i \in Slot : slot[i] = JournalBlock(i)
  BY <1>1 DEF Journaling, MemShape
<1>4. /\ slot[1] = Enc(TopAt(0), tpm, mem.top[0])
      /\ slot[2] = Enc(BotAt, mem.top[0].key, mem.pk)
      /\ slot[3] = Enc(PprfAt, mem.pk, mem.pprf)
      /\ slot[4] = Enc(TableAt(s), <<mem.pprf.root, mem.cache[s].tag>>, mem.cache[s].keys)
      /\ slot[5].body
  <2>1. \A i \in 1 .. 5 : slot[i] = JournalBlock(i)
    BY <1>3, Constants
  <2>2. slot[1] = Enc(TopAt(0), tpm, mem.top[0])
    BY <1>3, <2>1, Transacted DEF JournalBlock
  <2>3. slot[2] = Enc(BotAt, mem.top[0].key, mem.pk)
    BY <2>1, Transacted DEF JournalBlock
  <2>4. slot[3] = Enc(PprfAt, mem.pk, mem.pprf)
    BY <2>1, Transacted DEF JournalBlock
  <2>5. slot[4] = Enc(TableAt(s), <<mem.pprf.root, mem.cache[s].tag>>, mem.cache[s].keys)
    BY <2>1, Transacted DEF JournalBlock
  <2>6. slot[5] = Enc(HeaderAt, Junk, InUse)
    BY <2>1, Transacted DEF JournalBlock
  <2>7. slot[5].body
    BY <1>3, <2>6 DEF Enc
  <2> QED
    BY <2>2, <2>3, <2>4, <2>5, <2>7
<1> HIDE DEF s, h
<1>5. RestartMaster' = tpm /\ h = Overlay(home, slot, s)
  BY <1>2, <1>3, RestartTransactionNext DEF h
<1>6. /\ h[TopAt(0)] = slot[1] /\ h[BotAt] = slot[2] /\ h[PprfAt] = slot[3]
      /\ h[TableAt(s)] = slot[4]
      /\ \A t \in Sector : t # s => h[TableAt(t)] = home[TableAt(t)]
  <2>1. \A i \in Slot : h[Transaction(s)[i]] = slot[i]
    BY <1>3, <1>5, Overlaid
  <2>2. 1 \in Slot /\ 2 \in Slot /\ 3 \in Slot /\ 4 \in Slot
    BY Constants
  <2>3. \A t \in Sector : t # s => h[TableAt(t)] = home[TableAt(t)]
    BY <1>3, <1>5, Overlaid
  <2> QED
    BY <2>1, <2>2, <2>3, Transacted
<1>7. /\ TopOf(h) = mem.top[0] /\ BotOf(h) = mem.pk /\ PprfOf(h) = mem.pprf
      /\ RootOf(h, s) = mem.pprf.root /\ TagOf(h, s) = TopOf(home).ctr
      /\ h[TableAt(s)].body = file'[s]
      /\ \A t \in Sector : t # s => /\ RootOf(h, t) = RootOf(home, t)
                                    /\ TagOf(h, t) = TagOf(home, t)
                                    /\ h[TableAt(t)].body = home[TableAt(t)].body
                                    /\ file'[t] = file[t]
  <2>1. TopOf(h) = mem.top[0] /\ BotOf(h) = mem.pk /\ PprfOf(h) = mem.pprf
    BY <1>4, <1>6 DEF Enc, TopOf, BotOf, PprfOf
  <2>2. h[TableAt(s)].k = <<mem.pprf.root, mem.cache[s].tag>>
        /\ h[TableAt(s)].body = mem.cache[s].keys
    BY <1>4, <1>6 DEF Enc
  <2>3. RootOf(h, s) = mem.pprf.root /\ TagOf(h, s) = TopOf(home).ctr
    BY <1>3, <2>2 DEF RootOf, TagOf
  <2>4. file'[s] = mem.cache[s].keys /\ \A t \in Sector : t # s => file'[t] = file[t]
    BY <1>1, <1>2, <1>3 DEF Shape
  <2>5. \A t \in Sector : t # s => /\ RootOf(h, t) = RootOf(home, t)
                                   /\ TagOf(h, t) = TagOf(home, t)
                                   /\ h[TableAt(t)].body = home[TableAt(t)].body
    BY <1>6 DEF RootOf, TagOf
  <2> QED
    BY <2>1, <2>2, <2>3, <2>4, <2>5
<1>8. Chained(h, tpm)
  BY <1>4, <1>6, <1>7 DEF Enc, Chained
<1>9. TableOk(home, file) /\ TagsOk(home)
  BY <1>1 DEF Journaling, Image, TableOk
<1>10. PprfOf(h).root = PprfOf(home).root /\ TopOf(h).ctr = TopOf(home).ctr + 1
       /\ PprfOf(h).punct = PprfOf(home).punct \cup {TagOf(home, s)}
  BY <1>3, <1>7
<1>11. TagsOk(h)
  <2> DEFINE c == TopOf(home).ctr
  <2>1. /\ c \in Nat /\ PprfOf(home).punct \subseteq 0 .. c - 1
        /\ \A t \in Sector : TagOf(home, t) \in 0 .. c - 1 \ PprfOf(home).punct
        /\ \A t, u \in Sector : TagOf(home, t) = TagOf(home, u) => t = u
    BY <1>9 DEF TagsOk
  <2>2. TopOf(h).ctr = c + 1 /\ PprfOf(h).punct = PprfOf(home).punct \cup {TagOf(home, s)}
        /\ TagOf(h, s) = c /\ \A t \in Sector : t # s => TagOf(h, t) = TagOf(home, t)
    BY <1>7, <1>10
  <2> HIDE DEF c
  <2>3. PprfOf(h).punct \subseteq 0 .. c
    BY <1>3, <2>1, <2>2
  <2>4. \A t \in Sector : TagOf(h, t) \in 0 .. c \ PprfOf(h).punct
    BY <1>3, <2>1, <2>2
  <2>5. \A t, u \in Sector : TagOf(h, t) = TagOf(h, u) => t = u
    BY <1>3, <2>1, <2>2
  <2>6. TopOf(h).ctr \in Nat /\ TopOf(h).ctr - 1 = c
    BY <2>1, <2>2
  <2> QED
    BY <2>3, <2>4, <2>5, <2>6 DEF TagsOk
<1>12. TableOk(h, file')
  BY <1>3, <1>7, <1>9, <1>10, <1>11 DEF TableOk
<1>13. Image(h, tpm, file')
  BY <1>8, <1>12 DEF Image
<1>14. DiskInv'
  <2>1. InUse'
    BY <1>2, <1>3 DEF InUse
  <2> QED
    BY <1>2, <1>3, <1>4, <1>5, <1>13, <2>1 DEF DiskInv, h
<1>15. CacheIn(mem, h, file')
  <2>1. ASSUME NEW t \in DOMAIN mem.cache PROVE EntryOk(mem.cache[t], TagOf(h, t), file'[t])
    <3>1. CASE t = s
      <4>1. file'[s] = mem.cache[s].keys
        BY <1>1, <1>2, <1>3 DEF Shape
      <4> QED
        BY <1>3, <1>7, <3>1, <4>1 DEF EntryOk
    <3>2. CASE t # s
      <4>1. t \in Sector
        BY <1>1 DEF MemShape
      <4> QED
        BY <1>3, <1>7, <3>2, <4>1
    <3> QED
      BY <3>1, <3>2
  <2> QED
    BY <2>1 DEF CacheIn
<1>16. Replaying'
  <2>1. 1 \in Slot /\ \A i \in Slot : ~(i < 1)
    BY Constants
  <2>2. KeysIn(mem, h, tpm)
    BY <1>3, <1>7 DEF KeysIn
  <2> QED
    BY <1>1, <1>2, <1>3, <1>15, <2>1, <2>2 DEF Replaying, h
<1>17. MemInv'
  BY <1>2, <1>16 DEF MemInv, Steps
<1>18. Shape'
  <2>1. file' = [t \in Sector |-> file'[t]]
    BY <1>1, <1>2 DEF Shape
  <2> QED
    BY <1>1, <1>2, <2>1 DEF Shape
<1>19. FreshInv'
  <2>1. Junk \in Key
    BY <1>1 DEF FreshInv, Key, Junk
  <2> QED
    BY <1>1, <1>2, <2>1 DEF FreshInv, Key
<1> QED
  BY <1>14, <1>17, <1>18, <1>19 DEF IInv

LEMMA ReplayBlockInv == ASSUME OneTop, IInv, ReplayBlock PROVE IInv'
<1>1. Replaying /\ pc = "replay" /\ Shape /\ FreshInv /\ MemShape(mem)
  BY DEF IInv, MemInv, ReplayBlock, Shape
<1>2. PICK s \in Sector : ctl.addr = Transaction(s)
  BY <1>1 DEF IInv, DiskInv, Replaying
<1>3. /\ home' = [home EXCEPT ![Transaction(s)[idx]] = slot[idx]]
      /\ idx' = idx + 1
      /\ pc' = (IF idx < 5 THEN "replay" ELSE IF ret = "recover" THEN "clear" ELSE "none")
      /\ UNCHANGED <<ctl, slot, tpm, mem, ret, fresh, file>>
  BY <1>1, <1>2 DEF ReplayBlock
<1>4. /\ ctl.type = "PPRF_PUNCT" /\ idx \in Slot
      /\ \A i \in Slot : i < idx => home[Transaction(s)[i]] = slot[i]
      /\ Image(RestartHome, RestartMaster, file) /\ InUse /\ slot[5].body
  BY <1>1, <1>2 DEF IInv, DiskInv, Replaying
<1>5. /\ RestartMaster = tpm /\ RestartHome = Overlay(home, slot, s)
      /\ RestartMaster' = tpm /\ RestartHome' = Overlay(home', slot, s)
  BY <1>2, <1>3, <1>4, RestartTransaction, RestartTransactionNext
<1>6. \A i \in Slot : Transaction(s)[i] \in Addr
  BY Places, Transacted, Constants
<1>7. /\ home'[Transaction(s)[idx]] = slot[idx]
      /\ \A a \in Addr : a # Transaction(s)[idx] => home'[a] = home[a]
      /\ home' = [a \in Addr |-> home'[a]]
  BY <1>1, <1>3, <1>4, <1>6 DEF Shape
<1>8. RestartHome' = RestartHome
  <2>1. \A a \in Addr : (\A i \in Slot : Transaction(s)[i] # a) => home'[a] = home[a]
    BY <1>4, <1>7
  <2> QED
    BY <1>5, <2>1 DEF Overlay
<1> DEFINE h == RestartHome
<1>9. /\ h = [a \in Addr |-> h[a]]
      /\ \A i \in Slot : h[Transaction(s)[i]] = slot[i]
      /\ \A a \in Addr : (\A i \in Slot : Transaction(s)[i] # a) => h[a] = home[a]
  BY <1>5, Overlaid
<1> HIDE DEF h
<1>10. \A i \in Slot : i <= idx => home'[Transaction(s)[i]] = slot[i]
  <2>1. \A i, j \in Slot : Transaction(s)[i] = Transaction(s)[j] => i = j
    BY Transacted, Constants, Apart
  <2>2. \A i \in Slot : i <= idx => i < idx \/ i = idx
    BY <1>4 DEF Slot
  <2> QED
    BY <1>4, <1>6, <1>7, <2>1, <2>2
<1>11. slot[3] = h[PprfAt] /\ slot[3].at = PprfAt /\ home'[PprfAt] \in {home[PprfAt], slot[3]}
  <2>1. 3 \in Slot /\ Transaction(s)[3] = PprfAt /\ PprfAt \in Addr
    BY Constants, Transacted, Places
  <2>2. slot[3] = h[PprfAt] /\ h[PprfAt].at = PprfAt
    BY <1>4, <1>9, <2>1 DEF Image, Chained, h
  <2>3. home'[PprfAt] \in {home[PprfAt], slot[3]}
    <3>1. \A i, j \in Slot : Transaction(s)[i] = Transaction(s)[j] => i = j
      BY Transacted, Constants, Apart
    <3>2. CASE idx = 3
      BY <1>7, <2>1, <3>2
    <3>3. CASE idx # 3
      BY <1>4, <1>7, <2>1, <3>1, <3>3
    <3> QED
      BY <3>2, <3>3
  <2> QED
    BY <2>2, <2>3
<1>12. InUse'
  <2>1. 5 \in Slot /\ Transaction(s)[5] = HeaderAt /\ HeaderAt \in Addr
    BY Constants, Transacted, Places
  <2>2. \A i, j \in Slot : Transaction(s)[i] = Transaction(s)[j] => i = j
    BY Transacted, Constants, Apart
  <2>3. CASE idx = 5
    BY <1>4, <1>7, <2>1, <2>3 DEF InUse
  <2>4. CASE idx # 5
    BY <1>4, <1>7, <2>1, <2>2, <2>4 DEF InUse
  <2> QED
    BY <2>3, <2>4
<1>13. DiskInv'
  BY <1>2, <1>3, <1>4, <1>5, <1>8, <1>12 DEF DiskInv
<1>14. ASSUME idx < 5 PROVE MemInv'
  <2>1. idx' \in Slot /\ \A i \in Slot : i < idx' => i <= idx
    BY <1>3, <1>4, <1>14 DEF Slot
  <2>2. \A i \in Slot : i < idx' => home'[Transaction(s)[i]] = slot[i]
    BY <1>10, <2>1
  <2>3. Replaying'
    BY <1>1, <1>2, <1>3, <1>8, <2>1, <2>2 DEF Replaying
  <2>4. pc' = "replay"
    BY <1>3, <1>14
  <2> QED
    BY <2>3, <2>4 DEF MemInv, Steps
<1>15. ASSUME ~(idx < 5) PROVE MemInv'
  <2>1. \A i \in Slot : i <= idx
    BY <1>4, <1>15 DEF Slot
  <2>2. \A i \in Slot : home'[Transaction(s)[i]] = slot[i]
    BY <1>10, <2>1
  <2>3. ASSUME NEW a \in Addr PROVE home'[a] = h[a]
    <3>1. CASE \E i \in Slot : Transaction(s)[i] = a
      BY <1>9, <2>2, <3>1
    <3>2. CASE \A i \in Slot : Transaction(s)[i] # a
      BY <1>4, <1>7, <1>9, <3>2
    <3> QED
      BY <3>1, <3>2
  <2>4. home' = h
    BY <1>7, <1>9, <2>3
  <2>5. Image(home', tpm, file) /\ CacheIn(mem, home', file) /\ mem.mk = tpm
        /\ (ret = "recover" \/ KeysIn(mem, home', tpm)) /\ ret \in Caller \cup {"recover"}
    BY <1>1, <1>4, <1>5, <2>4 DEF Replaying, h
  <2>6. ASSUME ret = "recover" PROVE MemInv'
    <3>1. Cleared'
      BY <1>3, <1>4, <1>5, <2>5, <2>6 DEF Cleared
    <3>2. pc' = "clear"
      BY <1>3, <1>15, <2>6
    <3> QED
      BY <3>1, <3>2 DEF MemInv, Steps
  <2>7. ASSUME ret # "recover" PROVE MemInv'
    <3>1. Replayed'
      BY <1>3, <1>4, <2>5, <2>7 DEF Replayed, Whole, WholeIn
    <3>2. pc' = "none"
      BY <1>3, <1>15, <2>7
    <3> QED
      BY <3>1, <3>2 DEF MemInv, Steps
  <2> QED
    BY <2>6, <2>7
<1>16. Shape'
  BY <1>1, <1>3, <1>7, <1>11 DEF Shape
<1>17. FreshInv'
  BY <1>1, <1>3, <1>11 DEF FreshInv, Key
<1> QED
  BY <1>13, <1>14, <1>15, <1>16, <1>17 DEF IInv

-----------------------------------------------------------------------------
(* rotate_pprf.                                                            *)

\* The scan stops at the least of the sectors it may stop at.
LEMMA FirstIsLeast ==
  ASSUME NEW m, NEW ignore, Unrotated(m, ignore) # {}
  PROVE  /\ FirstUnrotated(m, ignore) \in Unrotated(m, ignore)
         /\ FirstUnrotated(m, ignore) \in Sector
         /\ \A t \in Unrotated(m, ignore) : FirstUnrotated(m, ignore) <= t
<1> DEFINE U == Unrotated(m, ignore)
<1>1. U \subseteq Sector /\ Sector \subseteq Nat
  BY Constants DEF Unrotated
<1> HIDE DEF U
<1>2. \E s \in U : \A t \in U : s <= t
  BY <1>1, Least DEF U
<1>3. FirstUnrotated(m, ignore) = CHOOSE s \in U : \A t \in U : s <= t
  BY DEF FirstUnrotated, U
<1> QED
  BY <1>1, <1>2, <1>3 DEF U

LEMMA RotateCtlInv == ASSUME IInv, RotateCtl PROVE IInv'
<1>1. RotationDrawn /\ Shape /\ FreshInv /\ MemShape(mem)
  BY DEF IInv, MemInv, RotateCtl, Shape
<1>2. /\ ctl'.type = "PPRF_ROT" /\ ctl'.k = mem.mk /\ ctl'.key = mem.newroot
      /\ ctl' = [type |-> ctl'.type, k |-> ctl'.k, key |-> ctl'.key, addr |-> ctl'.addr]
      /\ EnterRewrite(mem, FALSE) /\ UNCHANGED <<home, slot, tpm, ret, fresh, file>>
  BY DEF RotateCtl
<1>3. /\ Image(home, tpm, file) /\ mem.mk = tpm /\ mem.pprf = PprfOf(home) /\ InUse
      /\ mem.newroot # PprfOf(home).root /\ ret \in Caller
  BY <1>1 DEF RotationDrawn, Whole, WholeIn, KeysIn
<1>4. \A s \in Sector : RootOf(home, s) # mem.newroot /\ Unwritten(s)
                        /\ home[TableAt(s)].body = file[s]
  BY <1>3 DEF Image, TableOk, TagsOk, Unwritten
<1>5. 0 \in Sector /\ \A s \in Sector : s >= 0 /\ ~(s < 0)
  BY Constants
<1>6. Unrotated(mem, FALSE) = Sector
  BY <1>4 DEF Unrotated, RootOf
<1>7. mem' = mem /\ pc' = "rewrite" /\ idx' = 0
  <2>1. mem' = mem /\ pc' = "rewrite" /\ idx' = FirstUnrotated(mem, FALSE)
    BY <1>2, <1>5, <1>6 DEF EnterRewrite
  <2>2. FirstUnrotated(mem, FALSE) \in Sector /\ FirstUnrotated(mem, FALSE) <= 0
    BY <1>5, <1>6, FirstIsLeast
  <2>3. \A x \in Sector : x <= 0 => x = 0
    BY Constants
  <2> QED
    BY <2>1, <2>2, <2>3
<1>8. HalfRotated'
  <2>1. \A s \in Sector : ~Rewritten(s, mem.newroot)
    BY <1>4 DEF Rewritten
  <2>2. \A s \in Sector : Unwritten(s)' /\ ~Rewritten(s, mem.newroot)'
    BY <1>2, <1>4, <1>7, <2>1 DEF Unwritten, Rewritten
  <2>3. Chained(home', tpm')
    BY <1>2, <1>3 DEF Image
  <2>4. ctl'.k = tpm' /\ PprfOf(home').root # ctl'.key /\ ctl'.key = mem'.newroot
        /\ mem' = mem
    BY <1>2, <1>3, <1>7
  <2>5. \A s \in Sector : home'[TableAt(s)].body = file'[s]
    BY <1>2, <1>4
  <2>6. \A s \in Sector : ~Rewritten(s, ctl.key)'
    BY <1>2, <2>1 DEF Rewritten
  <2> QED
    BY <2>2, <2>3, <2>4, <2>5, <2>6 DEF HalfRotated
<1>9. DiskInv'
  <2>1. InUse'
    BY <1>2, <1>3 DEF InUse
  <2> QED
    BY <1>2, <1>8, <2>1 DEF DiskInv
<1>10. Rewriting'
  <2>1. Rotating'
    BY <1>2, <1>3, <1>7 DEF Rotating, Caller
  <2> QED
    BY <1>2, <1>3, <1>4, <1>5, <1>7, <2>1 DEF Rewriting
<1>11. MemInv'
  BY <1>7, <1>10 DEF MemInv, Steps
<1>12. Shape'
  BY <1>1, <1>2, <1>7 DEF Shape
<1>13. FreshInv'
  BY <1>1, <1>2, <1>7 DEF FreshInv, Key
<1> QED
  BY <1>9, <1>11, <1>12, <1>13 DEF IInv

\* A rotation's sector is under the key last in use, or under the new one.
LEMMA RewriteSectorInv == ASSUME OneTop, IInv, RewriteSector PROVE IInv'
<1>0. PICK i \in Sector : i = idx
  BY DEF IInv, MemInv, RewriteSector, Rewriting
<1> DEFINE cached == i \in DOMAIN mem.cache
           drawn == [e \in Entry |-> fresh + e - 1]
           keys == CASE ret = "init" -> drawn
                     [] cached       -> mem.cache[i].keys
                     [] OTHER        -> TableUnder(home[TableAt(i)], mem.pprf)
<1>1. Rewriting /\ pc = "rewrite" /\ Shape /\ FreshInv /\ MemShape(mem) /\ DiskInv
  BY DEF IInv, MemInv, RewriteSector, Shape
<1>2. /\ home' = [home EXCEPT ![TableAt(i)] = Enc(TableAt(i), <<mem.newroot, i>>, keys)]
      /\ file' = (IF ret = "init" \/ cached THEN [file EXCEPT ![i] = keys] ELSE file)
      /\ mem' = [mem EXCEPT !.cache = Without(@, i)]
      /\ fresh' = (IF ret = "init" THEN fresh + Entries ELSE fresh)
      /\ IF i + 1 = KeyTableLen THEN pc' = "fkt_top" /\ idx' = 0
                                  ELSE pc' = "rewrite" /\ idx' = i + 1
      /\ UNCHANGED <<ctl, slot, tpm, ret>>
  BY <1>0, <1>1 DEF RewriteSector
<1>3. /\ i \in Sector /\ Rotating /\ mem.mk = tpm
      /\ \A s \in Sector : s < i => Done(s) /\ s \notin DOMAIN mem.cache
      /\ ret # "init" => /\ mem.pprf = PprfOf(home)
                         /\ \A s \in Sector : s >= i => RootOf(home, s) # mem.newroot
  BY <1>0, <1>1 DEF Rewriting, Rotating
<1>4. ret # "init" => /\ ctl.type = "PPRF_ROT" /\ ctl.key = mem.newroot /\ HalfRotated /\ InUse
                      /\ Chained(home, tpm) /\ PprfOf(home).root # ctl.key
                      /\ \A s \in Sector : Rewritten(s, ctl.key) \/ Unwritten(s)
  <2>1. SUFFICES ASSUME ret # "init"
                 PROVE  /\ ctl.type = "PPRF_ROT" /\ ctl.key = mem.newroot /\ HalfRotated /\ InUse
                        /\ Chained(home, tpm) /\ PprfOf(home).root # ctl.key
                        /\ \A s \in Sector : Rewritten(s, ctl.key) \/ Unwritten(s)
    OBVIOUS
  <2>2. ctl.type = "PPRF_ROT" /\ ctl.key = mem.newroot /\ HalfRotated /\ InUse
    BY <1>1, <1>3, <2>1 DEF DiskInv, Rotating
  <2>3. ~Rewritten(i, ctl.key)
    BY <1>3, <2>1, <2>2, Constants DEF Rewritten
  <2> QED
    BY <1>3, <2>2, <2>3 DEF HalfRotated
<1>5. ret # "init" /\ ~cached => keys = file[i]
  <2>1. SUFFICES ASSUME ret # "init", ~cached PROVE keys = file[i]
    OBVIOUS
  <2>2. keys = TableUnder(home[TableAt(i)], mem.pprf)
    BY <2>1
  <2>3. ~Rewritten(i, ctl.key) /\ home[TableAt(i)].body = file[i] /\ mem.pprf = PprfOf(home)
    BY <1>3, <1>4, <2>1, Constants DEF Rewritten, HalfRotated
  <2>4. Unwritten(i)
    BY <1>3, <1>4, <2>1, <2>3
  <2> QED
    BY <2>2, <2>3, <2>4 DEF Unwritten, TableUnder, RootOf, TagOf
<1> HIDE DEF keys
<1>6. file'[i] = keys /\ \A t \in Sector : t # i => file'[t] = file[t]
  <2>1. CASE ret = "init" \/ cached
    BY <1>1, <1>2, <1>3, <2>1 DEF Shape
  <2>2. CASE ~(ret = "init" \/ cached)
    BY <1>2, <1>5, <2>2
  <2> QED
    BY <2>1, <2>2
<1> HIDE DEF cached
<1>7. file' = [s \in Sector |-> file'[s]]
  <2>1. file = [s \in Sector |-> file[s]]
    BY <1>1 DEF Shape
  <2>2. CASE ret = "init" \/ cached
    <3>1. file' = [file EXCEPT ![i] = keys]
      BY <1>2, <2>2
    <3> QED
      BY <2>1, <3>1
  <2>3. CASE ~(ret = "init" \/ cached)
    <3>1. file' = file
      BY <1>2, <2>3
    <3> QED
      BY <2>1, <3>1
  <2> QED
    BY <2>2, <2>3
<1>8. /\ home'[TableAt(i)] = Enc(TableAt(i), <<mem.newroot, i>>, keys)
      /\ home' = [a \in Addr |-> home'[a]]
      /\ home'[HeaderAt] = home[HeaderAt] /\ home'[TopAt(0)] = home[TopAt(0)]
      /\ home'[BotAt] = home[BotAt] /\ home'[PprfAt] = home[PprfAt]
      /\ \A t \in Sector : t # i => home'[TableAt(t)] = home[TableAt(t)]
  <2>1. TableAt(i) \in Addr /\ home = [a \in Addr |-> home[a]]
    BY <1>1, <1>3, Places DEF Shape
  <2>2. \A a \in Addr : a # TableAt(i) => home'[a] = home[a]
    BY <1>2, <2>1
  <2>3. home'[TableAt(i)] = Enc(TableAt(i), <<mem.newroot, i>>, keys)
        /\ home' = [a \in Addr |-> home'[a]]
    BY <1>2, <2>1
  <2> QED
    BY <2>2, <2>3, Places, Apart
<1>9. /\ mem'.cache = Without(mem.cache, i) /\ SameBut(mem, mem', {"cache"}) /\ MemShape(mem')
  BY <1>1, <1>2, CacheWithout
<1>10. /\ mem'.mk = mem.mk /\ mem'.newmk = mem.newmk /\ mem'.newroot = mem.newroot
       /\ mem'.pprf = mem.pprf
  BY <1>9 DEF SameBut
<1>11. /\ RootOf(home', i) = mem.newroot /\ TagOf(home', i) = i
       /\ home'[TableAt(i)].body = file'[i]
  <2>1. home'[TableAt(i)].k = <<mem.newroot, i>> /\ home'[TableAt(i)].body = keys
    BY <1>8 DEF Enc
  <2> QED
    BY <1>6, <2>1 DEF RootOf, TagOf
<1>12. \A t \in Sector : t # i => /\ RootOf(home', t) = RootOf(home, t)
                                    /\ TagOf(home', t) = TagOf(home, t)
                                    /\ home'[TableAt(t)].body = home[TableAt(t)].body
  BY <1>8 DEF RootOf, TagOf
<1>13. \A t \in Sector : t <= i => Done(t)' /\ t \notin DOMAIN mem'.cache
  <2>1. Done(i)' /\ i \notin DOMAIN mem'.cache
    BY <1>9, <1>10, <1>11 DEF Done, Rewritten, Without, Restrict
  <2>2. \A t \in Sector : t # i /\ Done(t) => Done(t)'
    BY <1>6, <1>10, <1>12 DEF Done, Rewritten
  <2>3. DOMAIN mem'.cache \subseteq DOMAIN mem.cache
    BY <1>9 DEF Without, Restrict
  <2>4. \A t \in Sector : t <= i => t < i \/ t = i
    BY <1>3, Constants
  <2> QED
    BY <1>3, <2>1, <2>2, <2>3, <2>4
<1>14. PprfOf(home') = PprfOf(home) /\ (Chained(home, tpm) => Chained(home', tpm))
  BY <1>8 DEF PprfOf, Chained, TopOf, BotOf
<1>15. ret # "init" => HalfRotated'
  <2>1. SUFFICES ASSUME ret # "init" PROVE HalfRotated'
    OBVIOUS
  <2>2. \A t \in Sector : t # i => /\ Rewritten(t, ctl.key)' = Rewritten(t, ctl.key)
                                     /\ Unwritten(t)' = Unwritten(t)
    BY <1>2, <1>12, <1>14 DEF Rewritten, Unwritten
  <2>3. Rewritten(i, ctl.key)'
    BY <1>2, <1>4, <1>11, <2>1 DEF Rewritten
  <2>4. \A t \in Sector : home'[TableAt(t)].body = file'[t]
    BY <1>4, <1>6, <1>11, <1>12, <2>1 DEF HalfRotated
  <2>5. \A t \in Sector : Rewritten(t, ctl.key)' \/ Unwritten(t)'
    BY <1>4, <2>1, <2>2, <2>3
  <2>6. \A t, u \in Sector : t < u /\ Rewritten(u, ctl.key)' => Rewritten(t, ctl.key)'
    <3>1. ASSUME NEW t \in Sector, t < i PROVE Rewritten(t, ctl.key)'
      <4>1. Done(t)' /\ ctl'.key = mem'.newroot
        BY <1>2, <1>3, <1>4, <1>10, <1>13, <2>1, <3>1, Constants
      <4> QED
        BY <4>1 DEF Done, Rewritten
    <3>2. ASSUME NEW u \in Sector, u > i PROVE ~Rewritten(u, ctl.key)'
      <4>1. ~Rewritten(u, ctl.key)
        BY <1>3, <1>4, <2>1, <3>2, Constants DEF Rewritten
      <4> QED
        BY <1>3, <2>2, <3>2, <4>1, Constants
    <3>3. \A t, u \in Sector : t < u => t < i \/ u > i
      BY <1>3, Constants
    <3> QED
      BY <3>1, <3>2, <3>3
  <2>7. ctl'.k = tpm' /\ PprfOf(home').root # ctl'.key /\ Chained(home', tpm')
    BY <1>2, <1>4, <1>14, <2>1 DEF HalfRotated
  <2> QED
    BY <2>4, <2>5, <2>6, <2>7 DEF HalfRotated
<1>16. InUse' = InUse
  BY <1>8 DEF InUse
<1>17. DiskInv'
  <2>1. CASE ret = "init"
    <3>1. ctl'.type = "PPRF_INIT" /\ ~InUse
      BY <1>1, <1>2, <1>3, <2>1 DEF Rotating, DiskInv
    <3> QED
      BY <1>16, <3>1, DiskPlainNext
  <2>2. CASE ret # "init"
    <3>1. ctl'.type = "PPRF_ROT" /\ InUse' /\ HalfRotated'
      BY <1>2, <1>4, <1>15, <1>16, <2>2
    <3> QED
      BY <3>1 DEF DiskInv
  <2> QED
    BY <2>1, <2>2
<1>18. Rotating'
  BY <1>2, <1>3, <1>10 DEF Rotating
<1>19. ASSUME i + 1 = KeyTableLen PROVE MemInv'
  <2>1. \A t \in Sector : t <= i
    BY <1>3, <1>19, Constants
  <2>2. DOMAIN mem'.cache = {} /\ \A t \in Sector : Done(t)'
    BY <1>9, <1>13, <2>1 DEF MemShape
  <2>3. pc' = "fkt_top" /\ idx' = 0
    BY <1>2, <1>19
  <2>4. Refilling'
    BY <1>18, <2>2, <2>3 DEF Refilling
  <2> QED
    BY <2>3, <2>4 DEF MemInv, Steps
<1>20. ASSUME i + 1 # KeyTableLen PROVE MemInv'
  <2>1. pc' = "rewrite" /\ idx' = i + 1
    BY <1>2, <1>20
  <2>2. idx' \in Sector /\ \A t \in Sector : (t < idx' => t <= i)
                                            /\ (t >= idx' => t >= i /\ t # i)
    BY <1>3, <1>20, <2>1, Constants
  <2>3. ret' # "init" => /\ mem'.pprf = PprfOf(home')
                         /\ \A t \in Sector : t >= idx' => RootOf(home', t) # mem'.newroot
    BY <1>2, <1>3, <1>10, <1>12, <1>14, <2>2
  <2>4. Rewriting'
    BY <1>13, <1>18, <2>2, <2>3 DEF Rewriting
  <2> QED
    BY <2>1, <2>4 DEF MemInv, Steps
<1>21. Shape'
  BY <1>1, <1>2, <1>7, <1>8, <1>9 DEF Shape
<1>22. FreshInv'
  <2>1. fresh' \in Nat /\ fresh' >= fresh
    BY <1>1, <1>2, Constants DEF FreshInv
  <2> QED
    BY <1>1, <1>2, <1>8, <1>10, <2>1 DEF FreshInv, Key
<1> QED
  BY <1>17, <1>19, <1>20, <1>21, <1>22 DEF IInv

\* While the keys above a rewritten key table are replaced, the control block
\* has the PPRF key that opens it.
LEMMA RefillingDisk ==
  ASSUME Refilling, DiskInv, UNCHANGED <<ctl, slot, tpm, file>>,
         home'[HeaderAt] = home[HeaderAt],
         \A s \in Sector : home'[TableAt(s)] = home[TableAt(s)],
         PprfOf(home').root = mem.newroot => PprfOf(home').punct = {}
  PROVE  DiskInv' /\ InUse' = InUse /\ (ret # "init" => InUse)
<1>1. InUse' = InUse
  BY DEF InUse
<1>2. CASE ret = "init"
  <2>1. ctl'.type = "PPRF_INIT" /\ ~InUse
    BY <1>2 DEF Refilling, Rotating, DiskInv
  <2> QED
    BY <1>1, <1>2, <2>1, DiskPlainNext
<1>3. CASE ret # "init"
  <2>1. ctl.type = "PPRF_ROT" /\ ctl.key = mem.newroot /\ InUse /\ ctl.k = tpm
    BY <1>3 DEF Refilling, Rotating, DiskInv, HalfRotated
  <2>2. \A s \in Sector : Rewritten(s, ctl.key)' /\ home'[TableAt(s)].body = file'[s]
    BY <2>1 DEF Refilling, Done, Rewritten, RootOf, TagOf
  <2>3. HalfRotated'
    BY <2>1, <2>2 DEF HalfRotated
  <2> QED
    BY <1>1, <2>1, <2>3 DEF DiskInv
<1> QED
  BY <1>2, <1>3

LEMMA DoneKept ==
  ASSUME \A s \in Sector : Done(s), UNCHANGED file, mem'.newroot = mem.newroot,
         \A s \in Sector : home'[TableAt(s)] = home[TableAt(s)]
  PROVE  \A s \in Sector : Done(s)'
BY DEF Done, Rewritten, RootOf, TagOf

LEMMA RewriteTopInv == ASSUME OneTop, IInv, RewriteTop PROVE IInv'
<1> DEFINE body == [key |-> fresh, ctr |-> KeyTableLen, size |-> 1]
<1>1. Refilling /\ idx = 0 /\ Shape /\ FreshInv /\ MemShape(mem) /\ DiskInv
  BY DEF IInv, MemInv, RewriteTop, Shape, Refilling
<1>2. /\ mem' = [mem EXCEPT !.top[0] = body]
      /\ home' = [home EXCEPT ![TopAt(0)] = Enc(TopAt(0), mem.mk, body)]
      /\ fresh' = fresh + 1 /\ pc' = "fkt_bot" /\ UNCHANGED <<ctl, slot, tpm, ret, file>>
  BY <1>1 DEF RewriteTop, OneTop
<1>3. body.ctr = KeyTableLen
  OBVIOUS
<1> HIDE DEF body
<1>4. mem'.top[0] = body /\ SameBut(mem, mem', {"top"}) /\ MemShape(mem')
  BY <1>1, <1>2, SetTop
<1>5. /\ mem'.mk = mem.mk /\ mem'.newmk = mem.newmk /\ mem'.newroot = mem.newroot
      /\ mem'.cache = mem.cache
  BY <1>4 DEF SameBut
<1>6. /\ home'[TopAt(0)] = Enc(TopAt(0), mem.mk, body)
      /\ home'[HeaderAt] = home[HeaderAt] /\ home'[PprfAt] = home[PprfAt]
      /\ \A s \in Sector : home'[TableAt(s)] = home[TableAt(s)]
      /\ home' = [a \in Addr |-> home'[a]]
  BY <1>1, <1>2, Places, Apart DEF Shape
<1>7. DiskInv'
  <2>1. CASE ctl.type = "PPRF_ROT"
    <3>1. PprfOf(home').root = mem.newroot => PprfOf(home').punct = {}
      BY <1>1, <1>6, <2>1 DEF Refilling, Rotating, DiskInv, HalfRotated, PprfOf
    <3> QED
      BY <1>1, <1>2, <1>6, <3>1, RefillingDisk
  <2>2. CASE ctl.type # "PPRF_ROT"
    <3>1. ctl'.type = "PPRF_INIT" /\ ~InUse'
      BY <1>1, <1>2, <1>6, <2>2 DEF Refilling, Rotating, DiskInv, InUse
    <3> QED
      BY <3>1, DiskPlainNext
  <2> QED
    BY <2>1, <2>2
<1>8. Refilling'
  <2>1. \A s \in Sector : Done(s)'
    BY <1>1, <1>2, <1>5, <1>6, DoneKept DEF Refilling
  <2>2. Rotating'
    BY <1>1, <1>2, <1>5 DEF Refilling, Rotating
  <2>3. mem.mk = tpm /\ DOMAIN mem'.cache = {}
    BY <1>1, <1>5 DEF Refilling, Rotating
  <2> QED
    BY <1>2, <1>3, <1>4, <1>6, <2>1, <2>2, <2>3 DEF Refilling
<1>9. MemInv'
  BY <1>2, <1>8 DEF MemInv, Steps
<1>10. Shape'
  BY <1>1, <1>2, <1>4, <1>6 DEF Shape
<1>11. FreshInv'
  BY <1>1, <1>2, <1>5, <1>6 DEF FreshInv, Key
<1> QED
  BY <1>7, <1>9, <1>10, <1>11 DEF IInv

LEMMA RewriteBottomInv == ASSUME OneTop, IInv, RewriteBottom PROVE IInv'
<1>1. Refilling /\ pc = "fkt_bot" /\ Shape /\ FreshInv /\ MemShape(mem) /\ DiskInv
  BY DEF IInv, MemInv, RewriteBottom, Shape
<1>2. /\ mem' = [mem EXCEPT !.pk = fresh]
      /\ home' = [home EXCEPT ![BotAt] = Enc(BotAt, mem.top[0].key, fresh)]
      /\ fresh' = fresh + 1 /\ pc' = "pprf_key" /\ UNCHANGED <<ctl, slot, tpm, ret, file>>
  BY DEF RewriteBottom
<1>3. mem'.pk = fresh /\ SameBut(mem, mem', {"pk"}) /\ MemShape(mem')
  BY <1>1, <1>2, SetKey
<1>4. /\ mem'.mk = mem.mk /\ mem'.newmk = mem.newmk /\ mem'.newroot = mem.newroot
      /\ mem'.cache = mem.cache /\ mem'.top = mem.top
  BY <1>3 DEF SameBut
<1>5. /\ home'[BotAt] = Enc(BotAt, mem.top[0].key, fresh) /\ home'[TopAt(0)] = home[TopAt(0)]
      /\ home'[HeaderAt] = home[HeaderAt] /\ home'[PprfAt] = home[PprfAt]
      /\ \A s \in Sector : home'[TableAt(s)] = home[TableAt(s)]
      /\ home' = [a \in Addr |-> home'[a]]
  BY <1>1, <1>2, Places, Apart DEF Shape
<1>6. DiskInv'
  <2>1. CASE ctl.type = "PPRF_ROT"
    <3>1. PprfOf(home').root = mem.newroot => PprfOf(home').punct = {}
      BY <1>1, <1>5, <2>1 DEF Refilling, Rotating, DiskInv, HalfRotated, PprfOf
    <3> QED
      BY <1>1, <1>2, <1>5, <3>1, RefillingDisk
  <2>2. CASE ctl.type # "PPRF_ROT"
    <3>1. ctl'.type = "PPRF_INIT" /\ ~InUse'
      BY <1>1, <1>2, <1>5, <2>2 DEF Refilling, Rotating, DiskInv, InUse
    <3> QED
      BY <3>1, DiskPlainNext
  <2> QED
    BY <2>1, <2>2
<1>7. Refilling'
  <2>1. \A s \in Sector : Done(s)'
    BY <1>1, <1>2, <1>4, <1>5, DoneKept DEF Refilling
  <2>2. Rotating'
    BY <1>1, <1>2, <1>4 DEF Refilling, Rotating
  <2>3. /\ home[TopAt(0)] = Enc(TopAt(0), tpm, mem.top[0]) /\ mem.top[0].ctr = KeyTableLen
        /\ DOMAIN mem'.cache = {}
    BY <1>1, <1>4 DEF Refilling
  <2> QED
    BY <1>2, <1>3, <1>4, <1>5, <2>1, <2>2, <2>3 DEF Refilling
<1>8. MemInv'
  BY <1>2, <1>7 DEF MemInv, Steps
<1>9. Shape'
  BY <1>1, <1>2, <1>3, <1>5 DEF Shape
<1>10. FreshInv'
  BY <1>1, <1>2, <1>4, <1>5 DEF FreshInv, Key
<1> QED
  BY <1>6, <1>8, <1>9, <1>10 DEF IInv

\* With the PPRF key, the last of them, the chain of keys is whole again.
LEMMA RewritePprfInv == ASSUME OneTop, IInv, RewritePprf PROVE IInv'
<1> DEFINE pprf == [root |-> mem.newroot, punct |-> {}]
           m == [mem EXCEPT !.pprf = pprf]
<1>1. Refilling /\ pc = "pprf_key" /\ Shape /\ FreshInv /\ MemShape(mem) /\ DiskInv
  BY DEF IInv, MemInv, RewritePprf, Shape
<1>2. /\ home' = [home EXCEPT ![PprfAt] = Enc(PprfAt, mem.pk, pprf)]
      /\ IF ret \in Caller
         THEN mem' = m /\ pc' = "none" /\ UNCHANGED <<idx, ret, fresh>>
         ELSE EnterMaster(m, ret)
      /\ UNCHANGED <<ctl, slot, tpm, file>>
  BY DEF RewritePprf, Caller
<1>3. PprfShape(pprf) /\ pprf.root = mem.newroot /\ pprf.punct = {}
  BY DEF PprfShape
<1> HIDE DEF pprf
<1>4. m.pprf = pprf /\ SameBut(mem, m, {"pprf"}) /\ MemShape(m)
  BY <1>1, <1>3, SetPprf
<1> HIDE DEF m
<1>5. /\ m.mk = mem.mk /\ m.newmk = mem.newmk /\ m.newroot = mem.newroot
      /\ m.cache = mem.cache /\ m.top = mem.top /\ m.pk = mem.pk
  BY <1>4 DEF SameBut
<1>6. /\ home'[PprfAt] = Enc(PprfAt, mem.pk, pprf) /\ home'[TopAt(0)] = home[TopAt(0)]
      /\ home'[HeaderAt] = home[HeaderAt] /\ home'[BotAt] = home[BotAt]
      /\ \A s \in Sector : home'[TableAt(s)] = home[TableAt(s)]
      /\ home' = [a \in Addr |-> home'[a]]
  BY <1>1, <1>2, Places, Apart DEF Shape
<1>7. PprfOf(home') = pprf /\ home'[PprfAt].at = PprfAt /\ home'[PprfAt].k = mem.pk
  BY <1>6 DEF Enc, PprfOf
<1>8. DiskInv' /\ InUse' = InUse /\ (ret # "init" => InUse)
  BY <1>1, <1>2, <1>3, <1>6, <1>7, RefillingDisk
<1>9. WholeIn(m, home', tpm, file)
  <2>1. /\ mem.mk = tpm /\ DOMAIN mem.cache = {}
        /\ home[TopAt(0)] = Enc(TopAt(0), tpm, mem.top[0]) /\ mem.top[0].ctr = KeyTableLen
        /\ home[BotAt] = Enc(BotAt, mem.top[0].key, mem.pk)
        /\ \A s \in Sector : Done(s)
    BY <1>1 DEF Refilling, Rotating
  <2>2. /\ home'[TopAt(0)].at = TopAt(0) /\ home'[TopAt(0)].k = tpm
        /\ home'[BotAt].at = BotAt /\ home'[BotAt].k = mem.top[0].key
        /\ TopOf(home') = mem.top[0] /\ BotOf(home') = mem.pk
    BY <1>6, <2>1 DEF Enc, TopOf, BotOf
  <2>3. Chained(home', tpm)
    BY <1>7, <2>2 DEF Chained
  <2>4. \A s \in Sector : /\ RootOf(home', s) = mem.newroot /\ TagOf(home', s) = s
                          /\ home'[TableAt(s)].body = file[s]
    BY <1>6, <2>1 DEF Done, Rewritten, RootOf, TagOf
  <2>5. TagsOk(home')
    BY <1>3, <1>7, <2>1, <2>2, <2>4, Constants DEF TagsOk
  <2>6. TableOk(home', file)
    BY <1>3, <1>7, <2>4, <2>5 DEF TableOk
  <2>7. KeysIn(m, home', tpm)
    BY <1>4, <1>5, <1>7, <2>1, <2>2 DEF KeysIn
  <2>8. CacheIn(m, home', file)
    BY <1>5, <2>1 DEF CacheIn
  <2> QED
    BY <2>3, <2>6, <2>7, <2>8 DEF WholeIn, Image
<1>10. /\ ctl.type \in {"PPRF_ROT", "PPRF_INIT"} /\ (ret # "init" => ctl.type = "PPRF_ROT")
       /\ ret \in Caller \cup {"clear", "init"}
  BY <1>1 DEF Refilling, Rotating
<1>11. /\ MemInv' /\ MemShape(mem') /\ fresh' \in Nat /\ fresh' >= fresh
       /\ mem'.newmk \in 0 .. fresh' - 1 /\ mem'.newroot = mem.newroot
  <2>1. CASE ret \in Caller
    <3>1. mem' = m /\ pc' = "none" /\ UNCHANGED <<idx, ret, fresh>>
      BY <1>2, <2>1
    <3>2. Replayed'
      BY <1>2, <1>9, <1>10, <2>1, <3>1 DEF Replayed, Whole, Caller
    <3>3. MemInv'
      BY <3>1, <3>2 DEF MemInv, Steps
    <3>4. fresh' \in Nat /\ fresh' >= fresh /\ mem'.newmk \in 0 .. fresh' - 1
      BY <1>1, <1>5, <3>1 DEF FreshInv, Key
    <3> QED
      BY <1>4, <1>5, <3>1, <3>3, <3>4
  <2>2. CASE ret \notin Caller
    <3>1. EnterMaster(m, ret)
      BY <1>2, <2>2
    <3>2. ret \in Creating \cup {"clear"} /\ (ret \in {"clear"} => InUse')
      BY <1>8, <1>10, <2>2 DEF Creating
    <3>3. WholeIn(m, home', tpm, file') /\ UNCHANGED tpm
          /\ ctl'.type \in {"NONE", "PPRF_ROT", "PPRF_INIT"}
      BY <1>2, <1>9, <1>10
    <3>4. /\ MemInv' /\ MemShape(mem') /\ fresh' = fresh + 1
          /\ mem'.newmk = fresh /\ mem'.newroot = m.newroot
      BY <1>1, <1>4, <2>2, <3>1, <3>2, <3>3, EnterMasterInv
    <3>5. fresh' \in Nat /\ fresh' >= fresh /\ mem'.newmk \in 0 .. fresh' - 1
      BY <1>1, <3>4 DEF FreshInv
    <3> QED
      BY <1>5, <3>4, <3>5
  <2> QED
    BY <2>1, <2>2
<1>12. Shape'
  <2>1. home'[PprfAt].body = pprf
    BY <1>7 DEF PprfOf
  <2> QED
    BY <1>1, <1>2, <1>3, <1>6, <1>7, <1>11, <2>1 DEF Shape
<1>13. FreshInv'
  <2>1. home'[PprfAt].body.root = mem.newroot
    BY <1>3, <1>7 DEF PprfOf
  <2> QED
    BY <1>1, <1>2, <1>11, <2>1 DEF FreshInv, Key
<1> QED
  BY <1>8, <1>11, <1>12, <1>13 DEF IInv

-----------------------------------------------------------------------------
(* The constructor, by the type of the control block.                      *)

\* What every branch of the constructor starts from.
LEMMA OpensDown ==
  ASSUME OneTop, IInv, pc = "down"
  PROVE  /\ Shape /\ FreshInv /\ DiskInv /\ MemShape(mem) /\ mem = NoMem
         /\ ~InUse => ctl.type = "PPRF_INIT"
         /\ MemShape(Booted) /\ Booted.mk = tpm /\ DOMAIN Booted.cache = {}
         /\ Booted.newmk \in Key /\ Booted.newroot \in Key
<1>1. /\ MemShape(Booted) /\ Booted.mk = tpm /\ SameBut(NoMem, Booted, {"mk"})
      /\ DOMAIN NoMem.cache = {} /\ NoMem.newmk = Junk /\ NoMem.newroot = Junk /\ Junk \in Key
  BY Blank DEF IInv
<1>2. Booted.cache = NoMem.cache /\ Booted.newmk = NoMem.newmk /\ Booted.newroot = NoMem.newroot
  BY <1>1 DEF SameBut
<1> QED
  BY <1>1, <1>2 DEF IInv, MemInv, Down, Shape

\* And the memory it ends with when it has read the keys above the files'.
LEMMA BootedReads ==
  ASSUME OneTop, IInv, pc = "down"
  PROVE  LET n == ReadPprf(ReadFkt(Booted))
         IN  /\ MemShape(n) /\ n.mk = tpm /\ DOMAIN n.cache = {}
             /\ n.newmk \in Key /\ n.newroot \in Key
             /\ Chained(home, tpm) => KeysIn(n, home, tpm)
<1> DEFINE n == ReadPprf(ReadFkt(Booted))
<1>1. /\ SameBut(Booted, n, {"top", "pk", "pprf"}) /\ MemShape(n)
      /\ Chained(home, Booted.mk) =>
           n.top[0] = TopOf(home) /\ n.pk = BotOf(home) /\ n.pprf = PprfOf(home)
  BY OpensDown, ReadMemory
<1> HIDE DEF n
<1>2. /\ n.mk = Booted.mk /\ n.cache = Booted.cache /\ n.newmk = Booted.newmk
      /\ n.newroot = Booted.newroot
  BY <1>1 DEF SameBut
<1> QED
  BY <1>1, <1>2, OpensDown DEF KeysIn, n

LEMMA OpenCleanInv == ASSUME OneTop, IInv, OpenClean PROVE IInv'
<1>1. /\ pc = "down" /\ ctl.type = "NONE" /\ pc' = "finish"
      /\ UNCHANGED <<home, ctl, slot, tpm, fresh, file>>
  BY DEF OpenClean
<1>2. Shape /\ FreshInv /\ DiskInv /\ InUse
  BY <1>1, OpensDown
<1>3. mem' = ReadPprf(ReadFkt(Booted))
  BY <1>2 DEF OpenClean
<1>4. Image(home, tpm, file)
  BY <1>1, <1>2, RestartPlain DEF DiskInv
<1>5. /\ MemShape(mem') /\ mem'.mk = tpm /\ DOMAIN mem'.cache = {}
      /\ mem'.newmk \in Key /\ mem'.newroot \in Key /\ KeysIn(mem', home, tpm)
  BY <1>1, <1>3, <1>4, BootedReads DEF Image
<1>6. AtRest'
  BY <1>1, <1>4, <1>5 DEF AtRest, Whole, WholeIn, CacheIn
<1>7. MemInv'
  BY <1>1, <1>6 DEF MemInv, Steps
<1>8. DiskInv'
  BY <1>1, <1>2, DiskKept DEF disk
<1>9. Shape' /\ FreshInv'
  BY <1>1, <1>2, <1>5 DEF Shape, FreshInv, Key
<1> QED
  BY <1>7, <1>8, <1>9 DEF IInv

LEMMA RecoverMasterInv == ASSUME OneTop, IInv, RecoverMaster PROVE IInv'
<1>1. /\ pc = "down" /\ ctl.type = "MASTER_ROT" /\ ret' = "recover" /\ idx' = 0
      /\ IF ctl.k = tpm THEN mem' = [Booted EXCEPT !.newmk = ctl.key] /\ pc' = "m_top"
                        ELSE mem' = Booted /\ pc' = "clear"
      /\ UNCHANGED <<home, ctl, slot, tpm, fresh, file>>
  BY DEF RecoverMaster
<1>2. /\ Shape /\ FreshInv /\ DiskInv /\ InUse
      /\ MemShape(Booted) /\ Booted.mk = tpm /\ DOMAIN Booted.cache = {}
      /\ Booted.newmk \in Key /\ Booted.newroot \in Key
  BY <1>1, OpensDown
<1>3. DiskInv'
  BY <1>1, <1>2, DiskKept DEF disk
<1>4. ASSUME ctl.k = tpm
      PROVE  MemInv' /\ MemShape(mem') /\ mem'.newmk \in Key /\ mem'.newroot \in Key
  <2>1. mem' = [Booted EXCEPT !.newmk = ctl.key] /\ pc' = "m_top"
    BY <1>1, <1>4
  <2>2. mem'.newmk = ctl.key /\ SameBut(Booted, mem', {"newmk"}) /\ MemShape(mem')
    BY <1>2, <2>1, SetKey
  <2>3. mem'.mk = tpm /\ DOMAIN mem'.cache = {} /\ mem'.newroot = Booted.newroot
    BY <1>2, <2>2 DEF SameBut
  <2>4. MasterLogged'
    BY <1>1, <1>2, <1>4, <2>1, <2>2, <2>3 DEF MasterLogged, CacheIn, InUse
  <2>5. MemInv'
    BY <2>1, <2>4 DEF MemInv, Steps
  <2>6. ctl.key \in Key
    BY <1>2 DEF FreshInv
  <2> QED
    BY <1>2, <2>2, <2>3, <2>5, <2>6
<1>5. ASSUME ctl.k # tpm
      PROVE  MemInv' /\ MemShape(mem') /\ mem'.newmk \in Key /\ mem'.newroot \in Key
  <2>1. mem' = Booted /\ pc' = "clear"
    BY <1>1, <1>5
  <2>2. RestartHome = home /\ RestartMaster = tpm /\ RestartMaster' = tpm'
    BY <1>1, <1>5, RestartPlain, RestartPlainNext
  <2>3. Image(home, tpm, file)
    BY <1>1, <1>2, <2>2 DEF DiskInv
  <2>4. Cleared'
    BY <1>1, <1>2, <2>1, <2>2, <2>3 DEF Cleared, CacheIn
  <2>5. MemInv'
    BY <2>1, <2>4 DEF MemInv, Steps
  <2> QED
    BY <1>2, <2>1, <2>5
<1>6. Shape'
  BY <1>1, <1>2, <1>4, <1>5 DEF Shape
<1>7. FreshInv'
  BY <1>1, <1>2, <1>4, <1>5 DEF FreshInv, Key
<1> QED
  BY <1>3, <1>4, <1>5, <1>6, <1>7 DEF IInv

LEMMA RecoverPunctureInv == ASSUME OneTop, IInv, RecoverPuncture PROVE IInv'
<1>1. /\ pc = "down" /\ ctl.type = "PPRF_PUNCT" /\ mem' = ReadPprf(ReadFkt(Booted))
      /\ pc' = "replay" /\ ret' = "recover" /\ idx' = 1
      /\ UNCHANGED <<home, ctl, slot, tpm, fresh, file>>
  BY DEF RecoverPuncture
<1>2. Shape /\ FreshInv /\ DiskInv
  BY <1>1, OpensDown
<1>3. /\ MemShape(mem') /\ mem'.mk = tpm /\ DOMAIN mem'.cache = {}
      /\ mem'.newmk \in Key /\ mem'.newroot \in Key
  BY <1>1, BootedReads
<1>4. 1 \in Slot /\ \A i \in Slot : ~(i < 1)
  BY Constants
<1>5. Replaying'
  BY <1>1, <1>3, <1>4 DEF Replaying, CacheIn
<1>6. MemInv'
  BY <1>1, <1>5 DEF MemInv, Steps
<1>7. DiskInv'
  BY <1>1, <1>2, DiskKept DEF disk
<1>8. Shape' /\ FreshInv'
  BY <1>1, <1>2, <1>3 DEF Shape, FreshInv, Key
<1> QED
  BY <1>6, <1>7, <1>8 DEF IInv

\* The sectors before the one the scan stops at are under the new PPRF key, and
\* those from there on are not: the rotation goes on where power failed.
LEMMA RecoverPprfRotationInv == ASSUME OneTop, IInv, RecoverPprfRotation PROVE IInv'
<1> DEFINE r == ReadPprf(ReadFkt(Booted))
           m == [r EXCEPT !.newroot = ctl.key]
<1>1. /\ pc = "down" /\ ctl.type = "PPRF_ROT" /\ ret' = "clear"
      /\ UNCHANGED <<home, ctl, slot, tpm, fresh, file>>
  BY DEF RecoverPprfRotation
<1>2. Shape /\ FreshInv /\ DiskInv /\ HalfRotated /\ InUse /\ ctl.k = tpm
  BY <1>1, OpensDown DEF DiskInv, HalfRotated
<1>3. EnterRewrite(m, FALSE)
  BY <1>2 DEF RecoverPprfRotation
<1>4. /\ MemShape(r) /\ r.mk = tpm /\ DOMAIN r.cache = {} /\ r.newmk \in Key
      /\ Chained(home, tpm) => KeysIn(r, home, tpm)
  BY <1>1, BootedReads
<1> HIDE DEF r
<1>5. m.newroot = ctl.key /\ SameBut(r, m, {"newroot"}) /\ MemShape(m)
  BY <1>4, SetKey
<1> HIDE DEF m
<1>6. /\ m.mk = tpm /\ DOMAIN m.cache = {} /\ m.newmk \in Key
      /\ Chained(home, tpm) => m.pprf = PprfOf(home)
  <2>1. m.mk = r.mk /\ m.cache = r.cache /\ m.newmk = r.newmk /\ m.pprf = r.pprf
    BY <1>5 DEF SameBut
  <2> QED
    BY <1>4, <2>1 DEF KeysIn
<1>7. Unrotated(m, FALSE) = {s \in Sector : RootOf(home, s) # ctl.key}
  BY <1>5, <1>6 DEF Unrotated, RootOf
<1>8. \A s \in Sector : RootOf(home, s) = ctl.key => Rewritten(s, ctl.key)
  BY <1>2 DEF HalfRotated, Unwritten
<1>9. mem' = m
  BY <1>3 DEF EnterRewrite
<1>10. Rotating'
  BY <1>1, <1>5, <1>6, <1>9 DEF Rotating
<1>11. \A s \in Sector : RootOf(home, s) = ctl.key => Done(s)'
  <2>1. \A s \in Sector : home[TableAt(s)].body = file[s]
    BY <1>2 DEF HalfRotated
  <2> QED
    BY <1>1, <1>5, <1>8, <1>9, <2>1 DEF Done, Rewritten
<1>12. ASSUME Unrotated(m, FALSE) = {} PROVE MemInv'
  <2>1. pc' = "fkt_top" /\ idx' = 0
    BY <1>3, <1>12 DEF EnterRewrite
  <2>2. \A s \in Sector : Done(s)'
    BY <1>7, <1>11, <1>12
  <2>3. Refilling'
    BY <1>6, <1>9, <1>10, <2>1, <2>2 DEF Refilling
  <2> QED
    BY <2>1, <2>3 DEF MemInv, Steps
<1>13. ASSUME Unrotated(m, FALSE) # {} PROVE MemInv'
  <2>1. pc' = "rewrite" /\ idx' = FirstUnrotated(m, FALSE)
    BY <1>3, <1>13 DEF EnterRewrite
  <2>2. /\ idx' \in Sector /\ idx' \in Unrotated(m, FALSE)
        /\ \A t \in Unrotated(m, FALSE) : idx' <= t
    BY <1>13, <2>1, FirstIsLeast
  <2>3. RootOf(home, idx') # ctl.key
    BY <1>7, <2>2
  <2>4. \A s \in Sector : s < idx' => RootOf(home, s) = ctl.key
    <3>1. \A s \in Sector : s < idx' => ~(idx' <= s)
      BY <2>2, Constants
    <3> QED
      BY <1>7, <2>2, <3>1
  <2>5. /\ Chained(home, tpm)
        /\ \A s, t \in Sector : s < t /\ Rewritten(t, ctl.key) => Rewritten(s, ctl.key)
    BY <1>2, <2>2, <2>3 DEF HalfRotated, Rewritten
  <2>6. \A s \in Sector : s >= idx' => RootOf(home, s) # ctl.key
    <3>1. SUFFICES ASSUME NEW s \in Sector, s >= idx', RootOf(home, s) = ctl.key PROVE FALSE
      OBVIOUS
    <3>2. Rewritten(s, ctl.key) /\ ~Rewritten(idx', ctl.key)
      BY <1>8, <2>3, <3>1 DEF Rewritten
    <3>3. s # idx'
      BY <2>3, <3>1
    <3>4. idx' < s
      BY <2>2, <3>1, <3>3, Constants
    <3> QED
      BY <2>2, <2>5, <3>2, <3>4
  <2>7. Rewriting'
    BY <1>1, <1>5, <1>6, <1>9, <1>10, <1>11, <2>2, <2>4, <2>5, <2>6 DEF Rewriting
  <2> QED
    BY <2>1, <2>7 DEF MemInv, Steps
<1>14. DiskInv'
  BY <1>1, <1>2, DiskKept DEF disk
<1>15. Shape'
  BY <1>1, <1>2, <1>5, <1>9 DEF Shape
<1>16. FreshInv'
  BY <1>1, <1>2, <1>5, <1>6, <1>9 DEF FreshInv, Key
<1> QED
  BY <1>12, <1>13, <1>14, <1>15, <1>16 DEF IInv

LEMMA RecoverPprfInitInv == ASSUME OneTop, IInv, RecoverPprfInit PROVE IInv'
<1> DEFINE r == ReadFkt(Booted)
           m == [r EXCEPT !.newroot = fresh]
<1>1. /\ pc = "down" /\ ctl.type = "PPRF_INIT" /\ ret' = "init" /\ fresh' = fresh + 1
      /\ EnterRewrite(m, TRUE) /\ UNCHANGED <<home, ctl, slot, tpm, file>>
  BY DEF RecoverPprfInit
<1>2. /\ Shape /\ FreshInv /\ DiskInv
      /\ MemShape(Booted) /\ Booted.mk = tpm /\ DOMAIN Booted.cache = {} /\ Booted.newmk \in Key
  BY <1>1, OpensDown
<1>3. SameBut(Booted, r, {"top", "pk"}) /\ MemShape(r)
  BY <1>2, ReadFktMemory
<1> HIDE DEF r
<1>4. m.newroot = fresh /\ SameBut(r, m, {"newroot"}) /\ MemShape(m)
  BY <1>3, SetKey
<1> HIDE DEF m
<1>5. m.mk = tpm /\ DOMAIN m.cache = {} /\ m.newmk \in Key
  <2>1. m.mk = r.mk /\ m.cache = r.cache /\ m.newmk = r.newmk
    BY <1>4 DEF SameBut
  <2>2. r.mk = Booted.mk /\ r.cache = Booted.cache /\ r.newmk = Booted.newmk
    BY <1>3 DEF SameBut
  <2> QED
    BY <1>2, <2>1, <2>2
<1>6. 0 \in Sector /\ (\A s \in Sector : ~(s < 0)) /\ \A x \in Sector : x <= 0 => x = 0
  BY Constants
<1>7. Unrotated(m, TRUE) = Sector
  BY DEF Unrotated
<1>8. mem' = m /\ pc' = "rewrite" /\ idx' = 0
  <2>1. mem' = m /\ pc' = "rewrite" /\ idx' = FirstUnrotated(m, TRUE)
    BY <1>1, <1>6, <1>7 DEF EnterRewrite
  <2>2. FirstUnrotated(m, TRUE) \in Sector /\ FirstUnrotated(m, TRUE) <= 0
    BY <1>6, <1>7, FirstIsLeast
  <2> QED
    BY <1>6, <2>1, <2>2
<1>9. Rewriting'
  <2>1. Rotating'
    BY <1>1, <1>5, <1>8 DEF Rotating
  <2> QED
    BY <1>1, <1>6, <1>8, <2>1 DEF Rewriting
<1>10. MemInv'
  BY <1>8, <1>9 DEF MemInv, Steps
<1>11. DiskInv'
  BY <1>1, <1>2, DiskKept DEF disk
<1>12. Shape'
  BY <1>1, <1>2, <1>4, <1>8 DEF Shape
<1>13. FreshInv'
  BY <1>1, <1>2, <1>4, <1>5, <1>8 DEF FreshInv, Key
<1> QED
  BY <1>10, <1>11, <1>12, <1>13 DEF IInv

-----------------------------------------------------------------------------
(* The specification.                                                      *)

LEMMA NextInv ==
  ASSUME OneTop, SafeCreation, IInv, TagsAreLeaves', [Next]_vars PROVE IInv'
<1>1. CASE UNCHANGED vars
  <2>1. UNCHANGED <<home, ctl, slot, tpm, mem, pc, ret, idx, fresh, file>>
    BY <1>1 DEF vars
  <2>2. DiskInv'
    BY <2>1, DiskKept DEF IInv, disk
  <2>3. Shape' /\ FreshInv'
    BY <2>1 DEF IInv, Shape, FreshInv, Key
  <2>4. \A i : JournalBlock(i)' = JournalBlock(i)
    BY <2>1 DEF JournalBlock, InUse
  <2>5. \A s : Done(s)' = Done(s)
    BY <2>1 DEF Done, Rewritten
  <2>6. RestartHome' = RestartHome /\ RestartMaster' = RestartMaster
    BY <2>1, RestartKept DEF disk
  <2>7. /\ InUse' = InUse /\ Whole' = Whole /\ Rotating' = Rotating
    BY <2>1 DEF InUse, Whole, Rotating
  <2>8. /\ Down => Down'
        /\ AtRest => AtRest'
        /\ MasterDrawn => MasterDrawn'
        /\ MasterLogged => MasterLogged'
        /\ MasterMoved => MasterMoved'
        /\ RotationDrawn => RotationDrawn'
        /\ Replayed => Replayed'
    BY <2>1, <2>7 DEF Down, AtRest, MasterDrawn, MasterLogged, MasterMoved, RotationDrawn, Replayed
  <2>9. /\ Cleared => Cleared'
        /\ Replaying => Replaying'
    BY <2>1, <2>6 DEF Cleared, Replaying
  <2>10. /\ Rewriting => Rewriting'
         /\ Refilling => Refilling'
    BY <2>1, <2>5, <2>7 DEF Rewriting, Refilling
  <2>11. Journaling => Journaling'
    BY <2>1, <2>4, <2>7 DEF Journaling
  <2>12. MemInv'
    BY <2>1, <2>8, <2>9, <2>10, <2>11 DEF IInv, MemInv
  <2> QED
    BY <2>2, <2>3, <2>12 DEF IInv
<1>2. CASE \E s \in Sector : GetInodeKey(s) \/ DropEntry(s) \/ PersistUnlink(s)
  BY <1>2, GetInodeKeyInv, DropEntryInv, PersistUnlinkInv
<1>3. CASE \E s \in Sector, e \in Entry : Unlink(s, e)
  BY <1>3, UnlinkInv
<1>4. CASE Open
  BY <1>4, OpenCleanInv, RecoverMasterInv, RecoverPprfRotationInv, RecoverPprfInitInv,
     RecoverPunctureInv DEF Open
<1>5. CASE Work
  <2>1. CASE MasterSlot \/ MasterCtl \/ MasterTop \/ MasterTpm \/ MasterNone
    BY <2>1, MasterSlotInv, MasterCtlInv, MasterTopInv, MasterTpmInv, MasterNoneInv
  <2>2. CASE RotateCtl \/ RewriteSector \/ RewriteTop \/ RewriteBottom \/ RewritePprf
    BY <2>2, RotateCtlInv, RewriteSectorInv, RewriteTopInv, RewriteBottomInv, RewritePprfInv
  <2>3. CASE JournalSlot \/ PunctureCtl \/ ReplayBlock \/ ControlNone
    BY <2>3, JournalSlotInv, PunctureCtlInv, ReplayBlockInv, ControlNoneInv
  <2>4. CASE JournalClear \/ FinishOpen \/ Closed
    BY <2>4, JournalClearInv, FinishOpenInv, ClosedInv
  <2> QED
    BY <1>5, <2>1, <2>2, <2>3, <2>4 DEF Work
<1>6. CASE Close
  BY <1>6, CloseInv
<1>7. CASE Crash
  BY <1>7, CrashInv
<1> QED
  BY <1>1, <1>2, <1>3, <1>4, <1>5, <1>6, <1>7 DEF Next

\* What the constructor, the unlinks, the rotations, their recoveries, and a
\* crash between any two writes of them all keep: DiskInv, by the control block
\* the journal holds, and MemInv, by the step the device is at; as long as the tags
\* taken are leaves.
THEOREM Inductive ==
  ASSUME OneTop, SafeCreation PROVE Spec /\ []TagsAreLeaves => []IInv
<1>1. Init => IInv
  BY InitInv
<1>2. IInv /\ TagsAreLeaves' /\ [Next]_vars => IInv'
  BY NextInv
<1> QED
  BY <1>1, <1>2, PTL DEF Spec

\* A key table under a PPRF key that punctures no tag in use reads as it was written.
LEMMA ImageReads ==
  ASSUME NEW h, NEW k, NEW f, Image(h, k, f), NEW s \in Sector
  PROVE  TableUnder(h[TableAt(s)], PprfOf(h)) = f[s]
BY DEF Image, TableOk, TagsOk, TableUnder, RootOf, TagOf

\* The PPRF key a restart reads.
LEMMA RestartReads ==
  ASSUME NEW k, k = RestartMaster, Chained(RestartHome, k)
  PROVE  RestartPprf = PprfOf(RestartHome)
BY DEF Chained, RestartPprf, Dec, TopOf, BotOf, PprfOf

LEMMA RecoverableByDisk == ASSUME DiskInv PROVE Recoverable
<1>1. SUFFICES ASSUME InUse, NEW s \in Sector PROVE RestartKeys(s) = file[s]
  BY DEF Recoverable
<1> DEFINE k == TableUnder(RestartHome[TableAt(s)], RestartPprf)
<1>2. CASE ctl.type # "PPRF_ROT"
  <2>1. Image(RestartHome, RestartMaster, file)
    BY <1>1, <1>2 DEF DiskInv
  <2>2. k = file[s]
    BY <2>1, RestartReads, ImageReads DEF Image
  <2> QED
    BY <1>2, <2>2 DEF RestartKeys
<1>3. CASE ctl.type = "PPRF_ROT"
  <2>1. HalfRotated /\ ctl.k = tpm /\ RestartHome = home /\ RestartMaster = tpm
    BY <1>3, RestartPlain DEF DiskInv, HalfRotated
  <2> DEFINE b == home[TableAt(s)]
             n == TableUnder(b, [root |-> ctl.key, punct |-> {}])
  <2>2. RestartKeys(s) = IF k = JunkKeys THEN n ELSE k
    BY <1>3, <2>1 DEF RestartKeys
  <2>3. b.body = file[s]
    BY <2>1 DEF HalfRotated
  <2>4. k = JunkKeys \/ k = b.body
    BY <2>1 DEF TableUnder
  <2>5. CASE Rewritten(s, ctl.key)
    BY <2>2, <2>3, <2>4, <2>5 DEF TableUnder, Rewritten, RootOf
  <2>6. CASE ~Rewritten(s, ctl.key)
    <3>1. Unwritten(s) /\ Chained(home, tpm)
      BY <2>1, <2>6 DEF HalfRotated
    <3>2. RestartPprf = PprfOf(home)
      BY <2>1, <3>1, RestartReads
    <3>3. k = b.body
      BY <2>1, <3>1, <3>2 DEF TableUnder, Unwritten, RootOf, TagOf
    <3>4. b.k[1] = ctl.key => n = b.body
      BY DEF TableUnder
    <3>5. n = b.body \/ n = JunkKeys
      BY DEF TableUnder
    <3> QED
      BY <2>2, <2>3, <3>3, <3>4, <3>5
  <2> QED
    BY <2>5, <2>6
<1> QED
  BY <1>2, <1>3

\* Power may fail after any sector write of an unlink, of a rotation of the PPRF
\* or of the master key, of the constructor or of a recovery: a restart then
\* finds the file keys made durable last (the HPJ_* branches of the constructor), as
\* long as the tags taken are leaves.
THEOREM DiskRecoverable ==
  ASSUME OneTop, SafeCreation PROVE Spec /\ []TagsAreLeaves => []Recoverable
<1>1. IInv => Recoverable
  BY RecoverableByDisk DEF IInv
<1> QED
  BY <1>1, Inductive, PTL

\* An open device at rest decrypts every key table sector with the keys it holds
\* in memory, and what its cache has marked clean is what was made durable
\* (read_cache_entry, get_inode_key, persist_unlink), as long as the tags taken are leaves.
THEOREM OpenReadable ==
  ASSUME OneTop, SafeCreation PROVE Spec /\ []TagsAreLeaves => []Readable
<1>1. ASSUME IInv, pc = "idle", NEW s \in Sector
      PROVE  /\ ReadKeys(s) = file[s]
             /\ s \in DOMAIN mem.cache /\ ~mem.cache[s].dirty => mem.cache[s].keys = file[s]
  <2>1. TableOk(home, file) /\ mem.pprf = PprfOf(home) /\ CacheIn(mem, home, file)
    BY <1>1 DEF IInv, MemInv, AtRest, Whole, WholeIn, Image, KeysIn
  <2>2. ReadKeys(s) = file[s]
    BY <2>1, SectorOpened
  <2> QED
    BY <2>1, <2>2 DEF CacheIn, EntryOk
<1>2. IInv => Readable
  BY <1>1 DEF Readable
<1> QED
  BY <1>2, Inductive, PTL

\* However many unlinks, rotations and restarts it has been through, no two key
\* table sectors have one PPRF tag, none has a punctured one, and all are below
\* the counter the next unlink takes its tag from (persist_unlink, rotate_pprf), as long
\* as this counter stays within the leaves of the tree.
THEOREM OpenTagsLive ==
  ASSUME OneTop, SafeCreation PROVE Spec /\ []TagsAreLeaves => []TagsLive
<1>1. ASSUME IInv, pc = "idle"
      PROVE  /\ \A s, t \in Sector : DiskTag(s) = DiskTag(t) => s = t
             /\ \A s \in Sector : /\ DiskTag(s) \notin mem.pprf.punct
                                  /\ DiskTag(s) < mem.top[0].ctr
  <2>1. TagsOk(home) /\ mem.pprf = PprfOf(home) /\ mem.top[0] = TopOf(home)
    BY <1>1 DEF IInv, MemInv, AtRest, Whole, WholeIn, Image, TableOk, KeysIn
  <2>2. \A s \in Sector : DiskTag(s) = TagOf(home, s)
    BY DEF DiskTag, TagOf
  <2>3. \A s \in Sector : TagOf(home, s) < mem.top[0].ctr
    BY <2>1 DEF TagsOk
  <2> QED
    BY <2>1, <2>2, <2>3 DEF TagsOk
<1>2. IInv => TagsLive
  BY <1>1 DEF TagsLive
<1> QED
  BY <1>2, Inductive, PTL

-----------------------------------------------------------------------------
(* The types of the variables, with keys below n.                          *)

KeyTo(n) == 0 .. n - 1
TopTo(n) == [key : KeyTo(n), ctr : Nat, size : 1 .. Capacity]
PprfTo(n) == [root : KeyTo(n), punct : SUBSET Nat]
KeysTo(n) == [Entry -> KeyTo(n)]
EntryTo(n) == [tag : Nat, keys : KeysTo(n), dirty : BOOLEAN]
BlockTo(n) == [at : {HeaderAt}, k : {Junk}, body : BOOLEAN]
         \cup [at : {TopAt(w) : w \in Top}, k : KeyTo(n), body : TopTo(n)]
         \cup [at : {BotAt}, k : KeyTo(n), body : KeyTo(n)]
         \cup [at : {PprfAt}, k : KeyTo(n), body : PprfTo(n)]
         \cup [at : {TableAt(s) : s \in Sector}, k : KeyTo(n) \X Nat, body : KeysTo(n)]

HomeTyped(h, n) ==
  DOMAIN h = Addr /\ \A a \in Addr : h[a] \in BlockTo(n) /\ (a[1] # "top" => h[a].at = a)
SlotTyped(b, n) == DOMAIN b = Slot /\ \A i \in Slot : b[i] \in BlockTo(n)
CtlTyped(c, n) ==
  /\ c.type \in {"NONE", "MASTER_ROT", "PPRF_ROT", "PPRF_INIT", "PPRF_PUNCT"}
  /\ {c.k, c.key} \subseteq KeyTo(n)
MemTyped(m, n) ==
  /\ {m.mk, m.newmk, m.pk, m.newroot} \subseteq KeyTo(n)
  /\ m.top \in [Top -> TopTo(n)] /\ m.pprf \in PprfTo(n) /\ m.cur \in Sector
  /\ DOMAIN m.cache \subseteq Sector
  /\ \A s \in DOMAIN m.cache : m.cache[s] \in EntryTo(n)
Index == 0 .. 6 \cup Sector
ControlTyped ==
  /\ pc \in Steps
  /\ ret \in {"idle", "closing", "clear", "recover", "init", "init again"}
  /\ idx \in Index

\* A committed transaction's blocks are in the places its addresses name.
Addressed == ctl.type = "PPRF_PUNCT" => slot[4].at = ctl.addr[4] /\ slot[5].at = HeaderAt

Typed ==
  /\ HomeTyped(home, fresh) /\ SlotTyped(slot, fresh) /\ CtlTyped(ctl, fresh)
  /\ MemTyped(mem, fresh) /\ tpm \in KeyTo(fresh) /\ file \in [Sector -> KeysTo(fresh)]
  /\ ControlTyped /\ Addressed

LEMMA Indices == \A i : i \in 0 .. 6 \/ i \in Sector => i \in Index
BY DEF Index

LEMMA FirstIndices == 0 \in Index /\ 1 \in Index /\ \A i \in Slot : i \in Index /\ i + 1 \in Index
<1>1. 0 \in 0 .. 6 /\ 1 \in 0 .. 6 /\ \A i \in Slot : i \in 0 .. 6 /\ i + 1 \in 0 .. 6
  BY DEF Slot
<1> QED
  BY <1>1, Indices

LEMMA TypedIsOK == Typed => TypeOK
BY DEF Typed, HomeTyped, SlotTyped, CtlTyped, MemTyped, ControlTyped, Index, TypeOK, KeyTo, TopTo,
       PprfTo, KeysTo, EntryTo, BlockTo, Key, TopBody, PprfBody, Keys, Block

\* What was below n is below m.
LEMMA Wider ==
  ASSUME NEW n \in Nat, NEW m \in Nat, n <= m
  PROVE  /\ KeyTo(n) \subseteq KeyTo(m) /\ TopTo(n) \subseteq TopTo(m)
         /\ PprfTo(n) \subseteq PprfTo(m) /\ KeysTo(n) \subseteq KeysTo(m)
         /\ EntryTo(n) \subseteq EntryTo(m) /\ BlockTo(n) \subseteq BlockTo(m)
<1>1. KeyTo(n) \subseteq KeyTo(m)
  BY DEF KeyTo
<1>2. TopTo(n) \subseteq TopTo(m) /\ PprfTo(n) \subseteq PprfTo(m)
  BY <1>1 DEF TopTo, PprfTo
<1>3. KeysTo(n) \subseteq KeysTo(m)
  BY <1>1 DEF KeysTo
<1>4. EntryTo(n) \subseteq EntryTo(m)
  BY <1>3 DEF EntryTo
<1>5. KeyTo(n) \X Nat \subseteq KeyTo(m) \X Nat
  BY <1>1
<1> HIDE DEF KeyTo, TopTo, PprfTo, KeysTo, EntryTo
<1>6. BlockTo(n) \subseteq BlockTo(m)
  BY <1>1, <1>2, <1>3, <1>5 DEF BlockTo
<1> QED
  BY <1>1, <1>2, <1>3, <1>4, <1>6

LEMMA DrawnBelow ==
  ASSUME NEW n \in Nat
  PROVE  n + 1 \in Nat /\ n <= n + 1 /\ n \in KeyTo(n + 1)
BY DEF KeyTo

LEMMA AllDrawn ==
  ASSUME NEW n \in Nat
  PROVE  [e \in Entry |-> n + e - 1] \in KeysTo(n + Entries)
<1>1. ASSUME NEW e \in Entry PROVE n + e - 1 \in 0 .. (n + Entries) - 1
  BY Constants DEF Entry
<1> QED
  BY <1>1 DEF KeysTo, KeyTo

LEMMA WiderTyped ==
  ASSUME NEW n \in Nat, NEW m \in Nat, n <= m
  PROVE  /\ \A h : HomeTyped(h, n) => HomeTyped(h, m)
         /\ \A b : SlotTyped(b, n) => SlotTyped(b, m)
         /\ \A c : CtlTyped(c, n) => CtlTyped(c, m)
         /\ \A x : MemTyped(x, n) => MemTyped(x, m)
         /\ \A f \in [Sector -> KeysTo(n)] : f \in [Sector -> KeysTo(m)]
<1>1. /\ KeyTo(n) \subseteq KeyTo(m) /\ TopTo(n) \subseteq TopTo(m)
      /\ PprfTo(n) \subseteq PprfTo(m) /\ KeysTo(n) \subseteq KeysTo(m)
      /\ EntryTo(n) \subseteq EntryTo(m) /\ BlockTo(n) \subseteq BlockTo(m)
  BY Wider
<1>2. \A h : HomeTyped(h, n) => HomeTyped(h, m)
  BY <1>1 DEF HomeTyped
<1>3. \A b : SlotTyped(b, n) => SlotTyped(b, m)
  BY <1>1 DEF SlotTyped
<1>4. \A c : CtlTyped(c, n) => CtlTyped(c, m)
  BY <1>1 DEF CtlTyped
<1>5. \A x : MemTyped(x, n) => MemTyped(x, m)
  BY <1>1 DEF MemTyped
<1>6. \A f \in [Sector -> KeysTo(n)] : f \in [Sector -> KeysTo(m)]
  BY <1>1
<1> QED
  BY <1>2, <1>3, <1>4, <1>5, <1>6

\* A block, by its address: what it holds ...
LEMMA Opened ==
  ASSUME OneTop, NEW n, NEW b \in BlockTo(n)
  PROVE  /\ b.at = HeaderAt => b.body \in BOOLEAN
         /\ b.at = TopAt(0) => b.body \in TopTo(n)
         /\ b.at = BotAt => b.body \in KeyTo(n)
         /\ b.at = PprfAt => b.body \in PprfTo(n)
         /\ \A s : b.at = TableAt(s) =>
              b.k[1] \in KeyTo(n) /\ b.k[2] \in Nat /\ b.body \in KeysTo(n)
<1>1. CASE b \in [at : {HeaderAt}, k : {Junk}, body : BOOLEAN]
  BY <1>1, Apart
<1>2. CASE b \in [at : {TopAt(w) : w \in Top}, k : KeyTo(n), body : TopTo(n)]
  <2>1. b.at = TopAt(0) /\ b.body \in TopTo(n)
    BY <1>2, Places
  <2> QED
    BY <2>1, Apart
<1>3. CASE b \in [at : {BotAt}, k : KeyTo(n), body : KeyTo(n)]
  BY <1>3, Apart
<1>4. CASE b \in [at : {PprfAt}, k : KeyTo(n), body : PprfTo(n)]
  BY <1>4, Apart
<1>5. CASE b \in [at : {TableAt(s) : s \in Sector}, k : KeyTo(n) \X Nat, body : KeysTo(n)]
  <2>1. PICK s \in Sector : b.at = TableAt(s)
    BY <1>5
  <2>2. b.k[1] \in KeyTo(n) /\ b.k[2] \in Nat /\ b.body \in KeysTo(n)
    BY <1>5
  <2> QED
    BY <2>1, <2>2, Apart
<1> QED
  BY <1>1, <1>2, <1>3, <1>4, <1>5 DEF BlockTo

\* ... and what is written.
LEMMA Encrypted ==
  ASSUME OneTop, NEW n
  PROVE  /\ \A x \in BOOLEAN : Enc(HeaderAt, Junk, x) \in BlockTo(n)
         /\ \A k \in KeyTo(n), x \in TopTo(n) : Enc(TopAt(0), k, x) \in BlockTo(n)
         /\ \A k \in KeyTo(n), x \in KeyTo(n) : Enc(BotAt, k, x) \in BlockTo(n)
         /\ \A k \in KeyTo(n), x \in PprfTo(n) : Enc(PprfAt, k, x) \in BlockTo(n)
         /\ \A s \in Sector, r \in KeyTo(n), t \in Nat, x \in KeysTo(n) :
              Enc(TableAt(s), <<r, t>>, x) \in BlockTo(n)
         /\ \A a, k, x : Enc(a, k, x).at = a
<1>1. 0 \in Top
  BY Places
<1> QED
  BY <1>1 DEF Enc, BlockTo

LEMMA HomeWritten ==
  ASSUME NEW n, NEW h, HomeTyped(h, n), NEW a \in Addr, NEW b \in BlockTo(n), a[1] # "top" => b.at = a
  PROVE  HomeTyped([h EXCEPT ![a] = b], n)
BY DEF HomeTyped

LEMMA SlotWritten ==
  ASSUME NEW n, NEW c, SlotTyped(c, n), NEW i \in Slot, NEW b \in BlockTo(n)
  PROVE  SlotTyped([c EXCEPT ![i] = b], n)
BY DEF SlotTyped

\* The sectors, opened.
LEMMA HomeOpened ==
  ASSUME OneTop, NEW n, NEW h, HomeTyped(h, n)
  PROVE  /\ h[HeaderAt].body \in BOOLEAN
         /\ h[TopAt(0)].at = TopAt(0) => h[TopAt(0)].body \in TopTo(n)
         /\ h[BotAt].body \in KeyTo(n) /\ h[PprfAt].body \in PprfTo(n)
         /\ \A s \in Sector : h[TableAt(s)].k[1] \in KeyTo(n) /\ h[TableAt(s)].k[2] \in Nat
                              /\ h[TableAt(s)].body \in KeysTo(n)
<1>1. /\ h[HeaderAt] \in BlockTo(n) /\ h[HeaderAt].at = HeaderAt
      /\ h[BotAt] \in BlockTo(n) /\ h[BotAt].at = BotAt
      /\ h[PprfAt] \in BlockTo(n) /\ h[PprfAt].at = PprfAt
      /\ h[TopAt(0)] \in BlockTo(n)
  BY Places, Kinds DEF HomeTyped
<1>2. \A s \in Sector : h[TableAt(s)] \in BlockTo(n) /\ h[TableAt(s)].at = TableAt(s)
  BY Places, Kinds DEF HomeTyped
<1> QED
  BY <1>1, <1>2, Opened

-----------------------------------------------------------------------------
(* The memory.                                                             *)

\* A memory that differs in some fields, each of them of its type.
LEMMA MemChanged ==
  ASSUME NEW n, NEW m, NEW x, NEW F, MemTyped(m, n), SameBut(m, x, F),
         \A f \in F \cap {"mk", "newmk", "pk", "newroot"} : x[f] \in KeyTo(n),
         "top" \in F => x.top \in [Top -> TopTo(n)],
         "pprf" \in F => x.pprf \in PprfTo(n), "cur" \in F => x.cur \in Sector,
         "cache" \in F => /\ DOMAIN x.cache \subseteq Sector
                          /\ \A s \in DOMAIN x.cache : x.cache[s] \in EntryTo(n)
  PROVE  MemTyped(x, n)
<1>1. x.mk \in KeyTo(n) /\ x.newmk \in KeyTo(n) /\ x.pk \in KeyTo(n) /\ x.newroot \in KeyTo(n)
  BY DEF MemTyped, SameBut
<1>2. x.top \in [Top -> TopTo(n)] /\ x.pprf \in PprfTo(n) /\ x.cur \in Sector
  BY DEF MemTyped, SameBut
<1>3. DOMAIN x.cache \subseteq Sector /\ \A s \in DOMAIN x.cache : x.cache[s] \in EntryTo(n)
  BY DEF MemTyped, SameBut
<1> QED
  BY <1>1, <1>2, <1>3 DEF MemTyped

LEMMA Junks ==
  ASSUME NEW n \in Nat, n > 0
  PROVE  /\ Junk \in KeyTo(n) /\ JunkTop \in TopTo(n) /\ JunkPprf \in PprfTo(n)
         /\ JunkKeys \in KeysTo(n)
<1>1. Junk \in KeyTo(n)
  BY DEF Junk, KeyTo
<1>2. 1 \in 1 .. Capacity
  BY SizeAssumption
<1> QED
  BY <1>1, <1>2 DEF JunkTop, JunkPprf, JunkKeys, TopTo, PprfTo, KeysTo

LEMMA BlankTyped ==
  ASSUME NEW n \in Nat, n > 0
  PROVE  MemTyped(NoMem, n) /\ \A k \in KeyTo(n) : MemTyped([NoMem EXCEPT !.mk = k], n)
<1>1. 0 \in Sector
  BY Constants
<1>2. NoMem.top \in [Top -> TopTo(n)]
  BY Junks DEF NoMem
<1>3. DOMAIN NoMem.cache = {}
  BY DEF NoMem
<1> QED
  BY <1>1, <1>2, <1>3, Junks DEF MemTyped, NoMem

LEMMA Decrypted ==
  ASSUME NEW b, NEW at, NEW k, NEW j, NEW T, j \in T, b.at = at => b.body \in T
  PROVE  Dec(b, at, k, j) \in T
BY DEF Dec

\* What is read of the FKT and the PPRF key, and what it is read into.
LEMMA ReadPprfTyped ==
  ASSUME OneTop, NEW n \in Nat, n > 0, HomeTyped(home, n), NEW m, MemShape(m), MemTyped(m, n)
  PROVE  MemTyped(ReadPprf(m), n) /\ MemShape(ReadPprf(m)) /\ SameBut(m, ReadPprf(m), {"pprf"})
<1> DEFINE p == Dec(home[PprfAt], PprfAt, m.pk, JunkPprf)
           x == [m EXCEPT !.pprf = p]
<1>1. p \in PprfTo(n)
  BY HomeOpened, Junks, Decrypted
<1>2. PprfShape(p)
  BY <1>1 DEF PprfTo, PprfShape
<1> HIDE DEF p
<1>3. x.pprf = p /\ SameBut(m, x, {"pprf"}) /\ MemShape(x)
  BY <1>2, SetPprf
<1>4. ReadPprf(m) = x
  BY DEF ReadPprf, p
<1> HIDE DEF x
<1>5. MemTyped(x, n)
  BY <1>1, <1>3, MemChanged
<1> QED
  BY <1>3, <1>4, <1>5

LEMMA ReadFktTyped ==
  ASSUME OneTop, NEW n \in Nat, n > 0, HomeTyped(home, n), NEW m, MemShape(m), MemTyped(m, n)
  PROVE  MemTyped(ReadFkt(m), n) /\ MemShape(ReadFkt(m)) /\ SameBut(m, ReadFkt(m), {"top", "pk"})
<1> DEFINE t == [w \in Top |-> Dec(home[TopAt(w)], TopAt(w), m.mk, JunkTop)]
           b == Dec(home[BotAt], BotAt, t[0].key, Junk)
           x == ReadFkt(m)
<1>1. MemShape(x) /\ SameBut(m, x, {"top", "pk"})
  BY ReadFktMemory
<1>2. x = [[m EXCEPT !.top = t] EXCEPT !.pk = b]
  BY DEF ReadFkt
<1>3. Dec(home[TopAt(0)], TopAt(0), m.mk, JunkTop) \in TopTo(n)
  BY HomeOpened, Junks, Decrypted
<1>4. t \in [Top -> TopTo(n)]
  BY <1>3, Places
<1>5. b \in KeyTo(n)
  BY HomeOpened, Junks, Decrypted
<1> HIDE DEF t, b
<1>6. x.top = t /\ x.pk = b
  BY <1>2 DEF MemShape
<1> HIDE DEF x
<1>7. MemTyped(x, n)
  BY <1>1, <1>4, <1>5, <1>6, MemChanged
<1> QED
  BY <1>1, <1>7 DEF x

LEMMA ReadTyped ==
  ASSUME OneTop, NEW n \in Nat, n > 0, HomeTyped(home, n), NEW m, MemShape(m), MemTyped(m, n)
  PROVE  MemTyped(ReadPprf(ReadFkt(m)), n) /\ MemShape(ReadPprf(ReadFkt(m)))
BY ReadFktTyped, ReadPprfTyped

LEMMA UnderTyped ==
  ASSUME OneTop, NEW n \in Nat, n > 0, HomeTyped(home, n), NEW p, NEW s \in Sector
  PROVE  TableUnder(home[TableAt(s)], p) \in KeysTo(n)
BY HomeOpened, Junks DEF TableUnder

LEMMA EntryTyped ==
  ASSUME OneTop, Typed, fresh \in Nat \ {0}, NEW s \in Sector
  PROVE  CacheEntry(s) \in EntryTo(fresh)
<1>1. CASE s \in DOMAIN mem.cache
  BY <1>1 DEF CacheEntry, Typed, MemTyped
<1>2. CASE s \notin DOMAIN mem.cache
  <2>1. HomeTyped(home, fresh)
    BY DEF Typed
  <2>2. ReadKeys(s) \in KeysTo(fresh)
    BY <2>1, UnderTyped DEF ReadKeys
  <2>3. DiskTag(s) \in Nat
    BY <2>1, HomeOpened DEF DiskTag
  <2>4. CacheEntry(s) = [tag |-> DiskTag(s), keys |-> ReadKeys(s), dirty |-> FALSE]
    BY <1>2 DEF CacheEntry
  <2> QED
    BY <2>2, <2>3, <2>4 DEF EntryTo
<1> QED
  BY <1>1, <1>2

LEMMA WithTyped ==
  ASSUME NEW n, NEW m, MemShape(m), MemTyped(m, n), NEW s \in Sector, NEW e \in EntryTo(n)
  PROVE  MemTyped([m EXCEPT !.cache = With(@, s, e)], n)
<1> DEFINE x == [m EXCEPT !.cache = With(@, s, e)]
<1>1. EntryShape(e)
  BY DEF EntryTo, EntryShape
<1>2. x.cache = With(m.cache, s, e) /\ SameBut(m, x, {"cache"})
  BY <1>1, CacheWith
<1>3. DOMAIN x.cache \subseteq Sector /\ \A t \in DOMAIN x.cache : x.cache[t] \in EntryTo(n)
  BY <1>2 DEF With, MemTyped
<1> HIDE DEF x
<1>4. MemTyped(x, n)
  BY <1>2, <1>3, MemChanged
<1> QED
  BY <1>4 DEF x

LEMMA WithoutTyped ==
  ASSUME NEW n, NEW m, MemShape(m), MemTyped(m, n), NEW s
  PROVE  MemTyped([m EXCEPT !.cache = Without(@, s)], n)
<1> DEFINE x == [m EXCEPT !.cache = Without(@, s)]
<1>2. x.cache = Without(m.cache, s) /\ SameBut(m, x, {"cache"})
  BY CacheWithout
<1>3. DOMAIN x.cache \subseteq Sector /\ \A t \in DOMAIN x.cache : x.cache[t] \in EntryTo(n)
  BY <1>2 DEF Without, Restrict, MemTyped
<1> HIDE DEF x
<1>4. MemTyped(x, n)
  BY <1>2, <1>3, MemChanged
<1> QED
  BY <1>4 DEF x

\* Fields set one at a time.
LEMMA SetTyped ==
  ASSUME NEW n, NEW m, MemShape(m), MemTyped(m, n)
  PROVE  \A x \in KeyTo(n) :
           /\ MemTyped([m EXCEPT !.mk = x], n) /\ MemTyped([m EXCEPT !.newmk = x], n)
           /\ MemTyped([m EXCEPT !.pk = x], n) /\ MemTyped([m EXCEPT !.newroot = x], n)
BY DEF MemTyped, MemShape

-----------------------------------------------------------------------------
(* The steps.                                                              *)

LEMMA Ground ==
  ASSUME OneTop, IInv, Typed
  PROVE  /\ fresh \in Nat /\ fresh > 0 /\ MemShape(mem) /\ Top = {0} /\ TopAt(0) \in Addr
         /\ HomeTyped(home, fresh) /\ SlotTyped(slot, fresh) /\ CtlTyped(ctl, fresh)
         /\ MemTyped(mem, fresh) /\ tpm \in KeyTo(fresh) /\ file \in [Sector -> KeysTo(fresh)]
         /\ ControlTyped /\ Addressed
BY Places DEF IInv, FreshInv, Shape, Typed

\* A step that draws no key, writes no sector and touches no more than the memory.
LEMMA MemoryTyped ==
  ASSUME OneTop, IInv, Typed, UNCHANGED <<home, ctl, slot, tpm, file>>,
         fresh' \in Nat, fresh' >= fresh, MemTyped(mem', fresh'), ControlTyped'
  PROVE  Typed'
<1>1. /\ HomeTyped(home, fresh') /\ SlotTyped(slot, fresh') /\ CtlTyped(ctl, fresh')
      /\ tpm \in KeyTo(fresh') /\ file \in [Sector -> KeysTo(fresh')]
  BY Ground, Wider, WiderTyped
<1> QED
  BY <1>1, Ground DEF Typed, Addressed

LEMMA GetInodeKeyTyped ==
  ASSUME OneTop, IInv, Typed, NEW s \in Sector, GetInodeKey(s) PROVE Typed'
<1>1. MemTyped(mem', fresh)
  BY Ground, EntryTyped, WithTyped DEF GetInodeKey
<1>2. UNCHANGED <<home, ctl, slot, tpm, pc, ret, idx, fresh, file>>
  BY DEF GetInodeKey
<1>3. ControlTyped'
  BY <1>2, Ground DEF ControlTyped
<1>4. fresh' \in Nat /\ fresh' >= fresh /\ MemTyped(mem', fresh')
  BY <1>1, <1>2, Ground
<1> QED
  BY <1>2, <1>3, <1>4, MemoryTyped

LEMMA DropEntryTyped ==
  ASSUME OneTop, IInv, Typed, NEW s \in Sector, DropEntry(s) PROVE Typed'
<1>1. MemTyped(mem', fresh)
  BY Ground, WithoutTyped DEF DropEntry
<1>2. UNCHANGED <<home, ctl, slot, tpm, pc, ret, idx, fresh, file>>
  BY DEF DropEntry
<1>3. ControlTyped'
  BY <1>2, Ground DEF ControlTyped
<1>4. fresh' \in Nat /\ fresh' >= fresh /\ MemTyped(mem', fresh')
  BY <1>1, <1>2, Ground
<1> QED
  BY <1>2, <1>3, <1>4, MemoryTyped

LEMMA UnlinkTyped ==
  ASSUME OneTop, IInv, Typed, NEW s \in Sector, NEW e \in Entry, Unlink(s, e) PROVE Typed'
<1> DEFINE c == CacheEntry(s)
           x == [c EXCEPT !.keys[e] = fresh, !.dirty = TRUE]
<1>1. c \in EntryTo(fresh)
  BY Ground, EntryTyped
<1>2. fresh + 1 \in Nat /\ fresh <= fresh + 1 /\ fresh \in KeyTo(fresh + 1)
  BY Ground DEF KeyTo
<1>3. c \in EntryTo(fresh + 1) /\ MemTyped(mem, fresh + 1)
  BY <1>1, <1>2, Ground, Wider, WiderTyped
<1> HIDE DEF c
<1>4. x \in EntryTo(fresh + 1)
  BY <1>2, <1>3 DEF EntryTo, KeysTo
<1>5. mem' = [mem EXCEPT !.cache = With(@, s, x)] /\ fresh' = fresh + 1
      /\ UNCHANGED <<home, ctl, slot, tpm, pc, ret, idx, file>>
  BY DEF Unlink, c
<1> HIDE DEF x
<1>6. MemTyped(mem', fresh + 1)
  BY <1>3, <1>4, <1>5, Ground, WithTyped
<1> QED
  BY <1>2, <1>5, <1>6, Ground, MemoryTyped DEF ControlTyped

LEMMA CloseTyped == ASSUME OneTop, IInv, Typed, Close PROVE Typed'
<1>1. UNCHANGED <<home, ctl, slot, tpm, mem, ret, idx, fresh, file>> /\ pc' = "closing"
  BY DEF Close
<1>2. ControlTyped'
  BY <1>1, Ground, FirstIndices DEF ControlTyped, Steps
<1>3. fresh' \in Nat /\ fresh' >= fresh /\ MemTyped(mem', fresh')
  BY <1>1, Ground
<1> QED
  BY <1>1, <1>2, <1>3, MemoryTyped

LEMMA CrashTyped == ASSUME OneTop, IInv, Typed, Crash PROVE Typed'
<1>1. /\ UNCHANGED <<home, ctl, slot, tpm, fresh, file>> /\ mem' = NoMem
      /\ pc' = "down" /\ ret' = "idle" /\ idx' = 0
  BY DEF Crash
<1>2. ControlTyped'
  BY <1>1, FirstIndices DEF ControlTyped, Steps
<1>3. fresh' \in Nat /\ fresh' >= fresh /\ MemTyped(mem', fresh')
  BY <1>1, Ground, BlankTyped
<1> QED
  BY <1>1, <1>2, <1>3, MemoryTyped

LEMMA ClosedTyped == ASSUME OneTop, IInv, Typed, Closed PROVE Typed'
<1>1. /\ UNCHANGED <<ctl, slot, tpm, fresh, file>> /\ mem' = NoMem
      /\ pc' = "down" /\ ret' = "idle" /\ idx' = 0
      /\ home' = [home EXCEPT ![HeaderAt] = Enc(HeaderAt, Junk, InUse)]
  BY DEF Closed
<1>2. Enc(HeaderAt, Junk, InUse) \in BlockTo(fresh) /\ HeaderAt \in Addr
      /\ Enc(HeaderAt, Junk, InUse).at = HeaderAt
  BY Ground, HomeOpened, Encrypted, Places DEF InUse
<1>3. HomeTyped(home', fresh)
  BY <1>1, <1>2, Ground, HomeWritten
<1>4. MemTyped(NoMem, fresh)
  BY Ground, BlankTyped
<1>5. ControlTyped'
  BY <1>1, FirstIndices DEF ControlTyped, Steps
<1> QED
  BY <1>1, <1>3, <1>4, <1>5, Ground DEF Typed, Addressed

LEMMA EnterMasterTyped ==
  ASSUME OneTop, fresh \in Nat, NEW m, MemShape(m), MemTyped(m, fresh), NEW r, EnterMaster(m, r),
         r \in {"idle", "closing", "clear", "recover", "init", "init again"}
  PROVE  fresh' = fresh + 1 /\ MemTyped(mem', fresh + 1) /\ ControlTyped'
<1>1. /\ mem' = [m EXCEPT !.newmk = fresh] /\ fresh' = fresh + 1
      /\ pc' = "m_slot" /\ idx' = 0 /\ ret' = r
  BY DEF EnterMaster
<1>2. fresh + 1 \in Nat /\ fresh <= fresh + 1 /\ fresh \in KeyTo(fresh + 1)
  BY DrawnBelow
<1>3. MemTyped(m, fresh + 1)
  BY <1>2, WiderTyped
<1>4. MemTyped(mem', fresh + 1)
  BY <1>1, <1>2, <1>3, SetTyped
<1>5. ControlTyped'
  BY <1>1, FirstIndices DEF ControlTyped, Steps
<1> QED
  BY <1>1, <1>4, <1>5

LEMMA MasterSlotTyped == ASSUME OneTop, IInv, Typed, MasterSlot PROVE Typed'
<1>1. MasterDrawn /\ idx = 0 /\ 1 \in Slot
  BY Constants DEF IInv, MemInv, MasterSlot, MasterDrawn
<1>2. /\ slot' = [slot EXCEPT ![1] = Enc(TopAt(0), mem.newmk, mem.top[0])]
      /\ idx' = 1 /\ pc' = "m_ctl" /\ UNCHANGED <<home, ctl, tpm, mem, ret, fresh, file>>
  BY <1>1 DEF MasterSlot, OneTop
<1>3. mem.newmk \in KeyTo(fresh) /\ mem.top[0] \in TopTo(fresh)
  BY Ground DEF MemTyped
<1>4. Enc(TopAt(0), mem.newmk, mem.top[0]) \in BlockTo(fresh)
  BY <1>3, Encrypted
<1>5. SlotTyped(slot', fresh)
  BY <1>1, <1>2, <1>4, Ground, SlotWritten
<1>6. ControlTyped'
  BY <1>2, Ground, FirstIndices DEF ControlTyped, Steps
<1>7. Addressed'
  BY <1>1, <1>2 DEF MasterDrawn, Addressed
<1> QED
  BY <1>2, <1>5, <1>6, <1>7, Ground DEF Typed

LEMMA MasterCtlTyped == ASSUME OneTop, IInv, Typed, MasterCtl PROVE Typed'
<1>1. /\ ctl' = [type |-> "MASTER_ROT", k |-> mem.mk, key |-> mem.newmk, addr |-> <<>>]
      /\ pc' = "m_top" /\ idx' = 0 /\ UNCHANGED <<home, slot, tpm, mem, ret, fresh, file>>
  BY DEF MasterCtl
<1>2. mem.newmk \in KeyTo(fresh) /\ mem.mk \in KeyTo(fresh)
  BY Ground DEF MemTyped
<1>3. CtlTyped(ctl', fresh) /\ Addressed'
  BY <1>1, <1>2 DEF CtlTyped, Addressed
<1>4. ControlTyped'
  BY <1>1, Ground, FirstIndices DEF ControlTyped, Steps
<1> QED
  BY <1>1, <1>3, <1>4, Ground DEF Typed

LEMMA MasterTopTyped == ASSUME OneTop, IInv, Typed, MasterTop PROVE Typed'
<1>1. idx = 0 /\ 1 \in Slot
  BY Constants DEF IInv, MemInv, MasterTop, MasterLogged
<1>2. /\ home' = [home EXCEPT ![TopAt(0)] = slot[1]]
      /\ idx' = 1 /\ pc' = "m_tpm" /\ UNCHANGED <<ctl, slot, tpm, mem, ret, fresh, file>>
  BY <1>1 DEF MasterTop, OneTop
<1>3. slot[1] \in BlockTo(fresh) /\ TopAt(0)[1] = "top"
  BY <1>1, Ground, Kinds DEF SlotTyped
<1>4. HomeTyped(home', fresh)
  BY <1>2, <1>3, Ground, HomeWritten
<1>5. ControlTyped' /\ Addressed'
  BY <1>2, Ground, FirstIndices DEF ControlTyped, Steps, Addressed
<1> QED
  BY <1>2, <1>4, <1>5, Ground DEF Typed

LEMMA MasterTpmTyped == ASSUME OneTop, IInv, Typed, MasterTpm PROVE Typed'
<1>1. /\ tpm' = mem.newmk /\ mem' = [mem EXCEPT !.mk = mem.newmk] /\ pc' \in {"clear", "m_none"}
      /\ UNCHANGED <<home, ctl, slot, ret, idx, fresh, file>>
  BY DEF MasterTpm
<1>2. mem.newmk \in KeyTo(fresh)
  BY Ground DEF MemTyped
<1>3. MemTyped(mem', fresh)
  BY <1>1, <1>2, Ground, SetTyped
<1>4. ControlTyped' /\ Addressed'
  BY <1>1, Ground, FirstIndices DEF ControlTyped, Steps, Addressed
<1> QED
  BY <1>1, <1>2, <1>3, <1>4, Ground DEF Typed

\* A step that clears the control block and changes the memory only.
LEMMA ClearedTyped ==
  ASSUME OneTop, IInv, Typed, UNCHANGED <<home, slot, tpm, file>>, ctl' = [ctl EXCEPT !.type = "NONE"],
         fresh' \in Nat, fresh' >= fresh, MemTyped(mem', fresh'), ControlTyped'
  PROVE  Typed'
<1>1. /\ HomeTyped(home, fresh') /\ SlotTyped(slot, fresh') /\ CtlTyped(ctl, fresh')
      /\ tpm \in KeyTo(fresh') /\ file \in [Sector -> KeysTo(fresh')]
  BY Ground, Wider, WiderTyped
<1>2. ctl'.type = "NONE" /\ ctl'.k = ctl.k /\ ctl'.key = ctl.key
  BY DEF IInv, Shape
<1>3. CtlTyped(ctl', fresh') /\ Addressed'
  BY <1>1, <1>2 DEF CtlTyped, Addressed
<1> QED
  BY <1>1, <1>3 DEF Typed

LEMMA MasterNoneTyped == ASSUME OneTop, IInv, Typed, MasterNone PROVE Typed'
<1>1. /\ UNCHANGED <<home, slot, tpm, file>> /\ ctl' = [ctl EXCEPT !.type = "NONE"]
      /\ ret \in {"idle", "closing", "init", "init again", "clear"}
  BY DEF MasterNone, IInv, MemInv, MasterMoved, Caller, Creating
<1>2. CASE ret = "init"
  <2>1. EnterMaster(mem, "init again")
    BY <1>2 DEF MasterNone
  <2>2. fresh' = fresh + 1 /\ MemTyped(mem', fresh + 1) /\ ControlTyped'
    BY <2>1, Ground, EnterMasterTyped
  <2>3. fresh' \in Nat /\ fresh' >= fresh /\ MemTyped(mem', fresh')
    BY <2>2, Ground
  <2> QED
    BY <1>1, <2>2, <2>3, ClearedTyped
<1>3. CASE ret # "init"
  <2>1. pc' \in {"clear", "idle", "closing"} /\ UNCHANGED <<mem, fresh, idx, ret>>
    BY <1>1, <1>3 DEF MasterNone
  <2>2. ControlTyped'
    BY <2>1, Ground DEF ControlTyped, Steps
  <2>3. fresh' \in Nat /\ fresh' >= fresh /\ MemTyped(mem', fresh')
    BY <2>1, Ground
  <2> QED
    BY <1>1, <2>2, <2>3, ClearedTyped
<1> QED
  BY <1>2, <1>3

LEMMA ControlNoneTyped == ASSUME OneTop, IInv, Typed, ControlNone PROVE Typed'
<1>1. /\ UNCHANGED <<home, slot, tpm, file>> /\ ctl' = [ctl EXCEPT !.type = "NONE"]
      /\ EnterMaster(mem, ret)
  BY DEF ControlNone
<1>2. ret \in {"idle", "closing", "clear", "recover", "init", "init again"}
  BY Ground DEF ControlTyped
<1>3. fresh' = fresh + 1 /\ MemTyped(mem', fresh + 1) /\ ControlTyped'
  BY <1>1, <1>2, Ground, EnterMasterTyped
<1>4. fresh' \in Nat /\ fresh' >= fresh /\ MemTyped(mem', fresh')
  BY <1>3, Ground
<1> QED
  BY <1>1, <1>3, <1>4, ClearedTyped

LEMMA JournalClearTyped == ASSUME OneTop, IInv, Typed, JournalClear PROVE Typed'
<1>1. /\ UNCHANGED <<home, slot, tpm, ret, idx, fresh, file>> /\ pc' = "finish"
      /\ ctl' = [ctl EXCEPT !.type = "NONE"]
      /\ mem' \in {ReadPprf(ReadFkt(mem)), ReadPprf(mem), mem}
  BY DEF JournalClear
<1>2. MemTyped(mem', fresh)
  BY <1>1, Ground, ReadTyped, ReadPprfTyped
<1>3. ControlTyped'
  BY <1>1, Ground DEF ControlTyped, Steps
<1>4. fresh' \in Nat /\ fresh' >= fresh /\ MemTyped(mem', fresh')
  BY <1>1, <1>2, Ground
<1> QED
  BY <1>1, <1>3, <1>4, ClearedTyped

LEMMA FinishOpenTyped == ASSUME OneTop, IInv, Typed, FinishOpen PROVE Typed'
<1>1. UNCHANGED <<ctl, slot, tpm, file>>
  BY DEF FinishOpen
<1>2. CASE InUse
  <2>1. EnterMaster(mem, "idle") /\ UNCHANGED home
    BY <1>2 DEF FinishOpen
  <2>2. fresh' = fresh + 1 /\ MemTyped(mem', fresh + 1) /\ ControlTyped'
    BY <2>1, Ground, EnterMasterTyped
  <2>3. fresh' \in Nat /\ fresh' >= fresh /\ MemTyped(mem', fresh')
    BY <2>2, Ground
  <2> QED
    BY <1>1, <2>1, <2>2, <2>3, MemoryTyped
<1>3. CASE ~InUse
  <2>1. /\ home' = [home EXCEPT ![HeaderAt] = Enc(HeaderAt, Junk, TRUE)]
        /\ pc' = "idle" /\ UNCHANGED <<mem, fresh, ret, idx>>
    BY <1>3 DEF FinishOpen
  <2>2. Enc(HeaderAt, Junk, TRUE) \in BlockTo(fresh) /\ HeaderAt \in Addr
        /\ Enc(HeaderAt, Junk, TRUE).at = HeaderAt
    BY Encrypted, Places
  <2>3. HomeTyped(home', fresh)
    BY <2>1, <2>2, Ground, HomeWritten
  <2>4. ControlTyped' /\ Addressed'
    BY <1>1, <2>1, Ground, FirstIndices DEF ControlTyped, Steps, Addressed
  <2> QED
    BY <1>1, <2>1, <2>3, <2>4, Ground DEF Typed
<1> QED
  BY <1>2, <1>3

LEMMA EnterRewriteTyped ==
  ASSUME NEW m, NEW ignore, EnterRewrite(m, ignore),
         ret' \in {"idle", "closing", "clear", "recover", "init", "init again"}
  PROVE  mem' = m /\ ControlTyped'
<1>1. mem' = m
  BY DEF EnterRewrite
<1>2. CASE Unrotated(m, ignore) = {}
  <2>1. pc' = "fkt_top" /\ idx' = 0
    BY <1>2 DEF EnterRewrite
  <2> QED
    BY <1>1, <2>1, FirstIndices DEF ControlTyped, Steps
<1>3. CASE Unrotated(m, ignore) # {}
  <2>1. pc' = "rewrite" /\ idx' = FirstUnrotated(m, ignore)
    BY <1>3 DEF EnterRewrite
  <2>2. FirstUnrotated(m, ignore) \in Index
    BY <1>3, FirstIsLeast, Indices
  <2> QED
    BY <1>1, <2>1, <2>2 DEF ControlTyped, Steps
<1> QED
  BY <1>2, <1>3

LEMMA RotateCtlTyped == ASSUME OneTop, IInv, Typed, RotateCtl PROVE Typed'
<1>1. /\ ctl' = [type |-> "PPRF_ROT", k |-> mem.mk, key |-> mem.newroot, addr |-> <<>>]
      /\ EnterRewrite(mem, FALSE) /\ UNCHANGED <<home, slot, tpm, ret, fresh, file>>
  BY DEF RotateCtl
<1>2. mem.newroot \in KeyTo(fresh) /\ mem.mk \in KeyTo(fresh)
  BY Ground DEF MemTyped
<1>3. CtlTyped(ctl', fresh) /\ Addressed'
  BY <1>1, <1>2 DEF CtlTyped, Addressed
<1>4. ret' \in {"idle", "closing", "clear", "recover", "init", "init again"}
  BY <1>1, Ground DEF ControlTyped
<1>5. mem' = mem /\ ControlTyped'
  BY <1>1, <1>4, EnterRewriteTyped
<1> QED
  BY <1>1, <1>3, <1>5, Ground DEF Typed

LEMMA RewriteSectorTyped == ASSUME OneTop, IInv, Typed, RewriteSector PROVE Typed'
<1>0. PICK i \in Sector : i = idx
  BY DEF IInv, MemInv, RewriteSector, Rewriting
<1> DEFINE cached == i \in DOMAIN mem.cache
           drawn == [e \in Entry |-> fresh + e - 1]
           keys == CASE ret = "init" -> drawn
                     [] cached       -> mem.cache[i].keys
                     [] OTHER        -> TableUnder(home[TableAt(i)], mem.pprf)
           b == Enc(TableAt(i), <<mem.newroot, i>>, keys)
<1>1. /\ home' = [home EXCEPT ![TableAt(i)] = b]
      /\ file' = (IF ret = "init" \/ cached THEN [file EXCEPT ![i] = keys] ELSE file)
      /\ mem' = [mem EXCEPT !.cache = Without(@, i)]
      /\ fresh' = (IF ret = "init" THEN fresh + Entries ELSE fresh)
      /\ IF i + 1 = KeyTableLen THEN pc' = "fkt_top" /\ idx' = 0
                                ELSE pc' = "rewrite" /\ idx' = i + 1
      /\ UNCHANGED <<ctl, slot, tpm, ret>>
  BY <1>0 DEF RewriteSector
<1>2. fresh' \in Nat /\ fresh <= fresh' /\ fresh' > 0
  BY <1>1, Ground, Constants
<1>3. /\ HomeTyped(home, fresh') /\ SlotTyped(slot, fresh') /\ CtlTyped(ctl, fresh')
      /\ MemTyped(mem, fresh') /\ tpm \in KeyTo(fresh') /\ file \in [Sector -> KeysTo(fresh')]
  BY <1>2, Ground, Wider, WiderTyped
<1>4. keys \in KeysTo(fresh')
  <2>1. ret = "init" => drawn \in KeysTo(fresh')
    <3>1. drawn \in KeysTo(fresh + Entries)
      BY Ground, AllDrawn
    <3> QED
      BY <1>1, <3>1
  <2>2. cached => mem.cache[i].keys \in KeysTo(fresh')
    BY <1>3 DEF MemTyped, EntryTo
  <2>3. TableUnder(home[TableAt(i)], mem.pprf) \in KeysTo(fresh')
    BY <1>2, <1>3, UnderTyped
  <2> HIDE DEF drawn
  <2> QED
    BY <2>1, <2>2, <2>3
<1> HIDE DEF keys
<1>5. mem.newroot \in KeyTo(fresh') /\ i \in Nat /\ TableAt(i) \in Addr
  BY <1>3, Places, Constants DEF MemTyped
<1>6. b \in BlockTo(fresh') /\ b.at = TableAt(i)
  BY <1>4, <1>5, Encrypted
<1> HIDE DEF b
<1>7. HomeTyped(home', fresh')
  BY <1>1, <1>3, <1>5, <1>6, HomeWritten
<1>8. MemTyped(mem', fresh')
  BY <1>1, <1>3, Ground, WithoutTyped
<1>9. file' \in [Sector -> KeysTo(fresh')]
  BY <1>1, <1>3, <1>4
<1>10. ControlTyped'
  <2>1. CASE i + 1 = KeyTableLen
    <3>1. pc' = "fkt_top" /\ idx' = 0
      BY <1>1, <2>1
    <3> QED
      BY <1>1, <3>1, Ground, FirstIndices DEF ControlTyped, Steps
  <2>2. CASE i + 1 # KeyTableLen
    <3>1. i + 1 \in Sector
      BY <2>2, Constants
    <3>2. pc' = "rewrite" /\ idx' = i + 1
      BY <1>1, <2>2
    <3>3. idx' \in Index
      BY <3>1, <3>2, Indices
    <3> QED
      BY <1>1, <3>2, <3>3, Ground DEF ControlTyped, Steps
  <2> QED
    BY <2>1, <2>2
<1>11. Addressed'
  BY <1>1, Ground DEF Addressed
<1> QED
  BY <1>1, <1>3, <1>7, <1>8, <1>9, <1>10, <1>11 DEF Typed

LEMMA RewriteTopTyped == ASSUME OneTop, IInv, Typed, RewriteTop PROVE Typed'
<1> DEFINE body == [key |-> fresh, ctr |-> KeyTableLen, size |-> 1]
           b == Enc(TopAt(0), mem.mk, body)
           n == fresh + 1
<1>1. idx = 0
  BY DEF IInv, MemInv, RewriteTop, Refilling
<1>2. /\ mem' = [mem EXCEPT !.top[0] = body] /\ home' = [home EXCEPT ![TopAt(0)] = b]
      /\ fresh' = n /\ idx' = 1 /\ pc' = "fkt_bot" /\ UNCHANGED <<ctl, slot, tpm, ret, file>>
  BY <1>1 DEF RewriteTop, OneTop
<1>3. n \in Nat /\ fresh <= n /\ fresh \in KeyTo(n)
  BY Ground, DrawnBelow
<1>4. body \in TopTo(n)
  <2>1. 1 \in 1 .. Capacity /\ KeyTableLen \in Nat
    BY SizeAssumption
  <2> QED
    BY <1>3, <2>1 DEF TopTo
<1>5. /\ HomeTyped(home, n) /\ SlotTyped(slot, n) /\ CtlTyped(ctl, n)
      /\ MemTyped(mem, n) /\ tpm \in KeyTo(n) /\ file \in [Sector -> KeysTo(n)]
  BY <1>3, Ground, Wider, WiderTyped
<1> HIDE DEF body
<1>6. b \in BlockTo(n) /\ TopAt(0)[1] = "top"
  BY <1>4, <1>5, Encrypted, Kinds DEF MemTyped
<1> HIDE DEF b, n
<1>7. HomeTyped(home', n)
  BY <1>2, <1>5, <1>6, Ground, HomeWritten
<1>8. MemTyped(mem', n)
  <2>1. mem'.top[0] = body /\ SameBut(mem, mem', {"top"}) /\ MemShape(mem')
    BY <1>2, Ground, SetTop
  <2>2. mem'.top \in [Top -> TopTo(n)]
    BY <1>2, <1>4, <1>5, Ground DEF MemTyped, MemShape
  <2> QED
    BY <1>5, <2>1, <2>2, MemChanged
<1>9. ControlTyped' /\ Addressed'
  BY <1>2, Ground, FirstIndices DEF ControlTyped, Steps, Addressed
<1> QED
  BY <1>2, <1>5, <1>7, <1>8, <1>9 DEF Typed

LEMMA RewriteBottomTyped == ASSUME OneTop, IInv, Typed, RewriteBottom PROVE Typed'
<1> DEFINE b == Enc(BotAt, mem.top[0].key, fresh)
           n == fresh + 1
<1>1. /\ mem' = [mem EXCEPT !.pk = fresh] /\ home' = [home EXCEPT ![BotAt] = b]
      /\ fresh' = n /\ pc' = "pprf_key" /\ UNCHANGED <<ctl, slot, tpm, ret, idx, file>>
  BY DEF RewriteBottom
<1>2. n \in Nat /\ fresh <= n /\ fresh \in KeyTo(n)
  BY Ground, DrawnBelow
<1>3. /\ HomeTyped(home, n) /\ SlotTyped(slot, n) /\ CtlTyped(ctl, n)
      /\ MemTyped(mem, n) /\ tpm \in KeyTo(n) /\ file \in [Sector -> KeysTo(n)]
  BY <1>2, Ground, Wider, WiderTyped
<1>4. mem.top[0].key \in KeyTo(n)
  BY <1>3, Ground DEF MemTyped, TopTo
<1>5. b \in BlockTo(n) /\ b.at = BotAt /\ BotAt \in Addr
  BY <1>2, <1>4, Encrypted, Places
<1> HIDE DEF b, n
<1>6. HomeTyped(home', n)
  BY <1>1, <1>3, <1>5, HomeWritten
<1>7. MemTyped(mem', n)
  BY <1>1, <1>2, <1>3, Ground, SetTyped
<1>8. ControlTyped' /\ Addressed'
  BY <1>1, Ground DEF ControlTyped, Steps, Addressed
<1> QED
  BY <1>1, <1>3, <1>6, <1>7, <1>8 DEF Typed

LEMMA RewritePprfTyped == ASSUME OneTop, IInv, Typed, RewritePprf PROVE Typed'
<1> DEFINE p == [root |-> mem.newroot, punct |-> {}]
           m == [mem EXCEPT !.pprf = p]
           b == Enc(PprfAt, mem.pk, p)
<1>1. /\ home' = [home EXCEPT ![PprfAt] = b] /\ UNCHANGED <<ctl, slot, tpm, file>>
      /\ IF ret \in {"idle", "closing"}
         THEN mem' = m /\ pc' = "none" /\ UNCHANGED <<idx, ret, fresh>>
         ELSE EnterMaster(m, ret)
  BY DEF RewritePprf
<1>2. mem.newroot \in KeyTo(fresh) /\ mem.pk \in KeyTo(fresh)
  BY Ground DEF MemTyped
<1>3. p \in PprfTo(fresh) /\ PprfShape(p)
  BY <1>2 DEF PprfTo, PprfShape
<1> HIDE DEF p
<1>4. b \in BlockTo(fresh) /\ b.at = PprfAt /\ PprfAt \in Addr
  BY <1>2, <1>3, Encrypted, Places
<1> HIDE DEF b
<1>5. HomeTyped(home', fresh)
  BY <1>1, <1>4, Ground, HomeWritten
<1>6. MemTyped(m, fresh) /\ MemShape(m)
  <2>1. m.pprf = p /\ SameBut(mem, m, {"pprf"}) /\ MemShape(m)
    BY <1>3, Ground, SetPprf
  <2> HIDE DEF m
  <2> QED
    BY <1>3, <2>1, Ground, MemChanged
<1> HIDE DEF m
<1>7. CASE ret \in {"idle", "closing"}
  <2>1. mem' = m /\ pc' = "none" /\ UNCHANGED <<idx, ret, fresh>>
    BY <1>1, <1>7
  <2>2. ControlTyped' /\ Addressed'
    BY <1>1, <2>1, Ground DEF ControlTyped, Steps, Addressed
  <2> QED
    BY <1>1, <1>5, <1>6, <2>1, <2>2, Ground DEF Typed
<1>8. CASE ret \notin {"idle", "closing"}
  <2>1. EnterMaster(m, ret)
    BY <1>1, <1>8
  <2>2. fresh' = fresh + 1 /\ MemTyped(mem', fresh + 1) /\ ControlTyped'
    BY <1>6, <2>1, Ground, EnterMasterTyped DEF ControlTyped
  <2>3. fresh' \in Nat /\ fresh <= fresh' /\ MemTyped(mem', fresh')
    BY <2>2, Ground
  <2>4. /\ HomeTyped(home', fresh') /\ SlotTyped(slot, fresh') /\ CtlTyped(ctl, fresh')
        /\ tpm \in KeyTo(fresh') /\ file \in [Sector -> KeysTo(fresh')]
    BY <1>5, <2>3, Ground, Wider, WiderTyped
  <2>5. Addressed'
    BY <1>1, Ground DEF Addressed
  <2> QED
    BY <1>1, <2>2, <2>3, <2>4, <2>5 DEF Typed
<1> QED
  BY <1>7, <1>8

\* find_key ends at full depth at last: the key grows by no more than persist_unlink
\* leaves room for.
LEMMA LeafIs ==
  ASSUME NEW P, NEW t
  PROVE  /\ LeafDepth(P, t) \in 0 .. Depth
         /\ LeafDepth(P, t) = Depth \/ Unsplit(P, t, LeafDepth(P, t))
         /\ \A c \in 0 .. LeafDepth(P, t) - 1 : ~Unsplit(P, t, c)
<1> DEFINE End(d) == d = Depth \/ Unsplit(P, t, d)
           D == {d \in 0 .. Depth : End(d)}
<1>1. Depth \in D /\ D \subseteq Nat
  BY Constants
<1>2. PICK d \in D : \A c \in D : d <= c
  BY <1>1, Least
<1>3. d \in 0 .. Depth /\ End(d)
  OBVIOUS
<1> HIDE DEF End
<1>4. \A c \in 0 .. d - 1 : ~End(c)
  BY <1>2, <1>3, Constants
<1>5. \A c \in 0 .. d - 1 : ~Unsplit(P, t, c)
  BY <1>4 DEF End
<1> QED
  BY <1>3, <1>5 DEF LeafDepth, End

LEMMA PersistUnlinkTyped ==
  ASSUME OneTop, IInv, Typed, NEW s \in Sector, PersistUnlink(s) PROVE Typed'
<1>1. /\ UNCHANGED <<home, ctl, slot, tpm, file>> /\ ret' = pc /\ pc \in {"idle", "closing"}
      /\ s \in DOMAIN mem.cache
  BY DEF PersistUnlink
<1>2. CASE mem.top[0].size + 2 * Depth > Capacity
  <2>1. mem' = [mem EXCEPT !.newroot = fresh] /\ fresh' = fresh + 1 /\ pc' = "rot_ctl" /\ idx' = 0
    BY <1>2 DEF PersistUnlink
  <2>2. fresh + 1 \in Nat /\ fresh <= fresh + 1 /\ fresh \in KeyTo(fresh + 1)
    BY Ground, DrawnBelow
  <2>3. MemTyped(mem, fresh + 1)
    BY <2>2, Ground, WiderTyped
  <2>4. MemTyped(mem', fresh + 1)
    BY <2>1, <2>2, <2>3, Ground, SetTyped
  <2>5. ControlTyped'
    BY <1>1, <2>1, FirstIndices DEF ControlTyped, Steps
  <2>6. fresh' \in Nat /\ fresh' >= fresh /\ MemTyped(mem', fresh')
    BY <2>1, <2>2, <2>4
  <2> QED
    BY <1>1, <2>5, <2>6, MemoryTyped
<1>3. CASE ~(mem.top[0].size + 2 * Depth > Capacity)
  <2> DEFINE n == fresh + 2
             c == mem.cache[s]
             grown == mem.top[0].size + 2 * (Depth - LeafDepth(mem.pprf.punct, c.tag))
             body == [key |-> fresh + 1, ctr |-> mem.top[0].ctr + 1, size |-> grown]
  <2>1. mem' = Punctured(mem, s) /\ fresh' = n /\ pc' = "jnl" /\ idx' = 1
    BY <1>3 DEF PersistUnlink
  <2>2. n \in Nat /\ fresh <= n /\ fresh \in KeyTo(n) /\ fresh + 1 \in KeyTo(n)
    BY Ground DEF KeyTo
  <2>3. MemTyped(mem, n) /\ c \in EntryTo(n) /\ mem.top[0] \in TopTo(n) /\ mem.pprf \in PprfTo(n)
    <3>1. MemTyped(mem, n)
      BY <2>2, Ground, WiderTyped
    <3> QED
      BY <1>1, <3>1, Ground DEF MemTyped
  <2>4. NextTag(mem) \in Nat
    <3>1. 2 ^ Depth \in Nat /\ 2 ^ Depth # 0 /\ mem.top[0].ctr \in Nat
      BY <2>3, Constants, SizeAssumption DEF TopTo
    <3>2. \A m, k \in Nat : k # 0 => m % k \in Nat
      OBVIOUS
    <3> QED
      BY <3>1, <3>2 DEF NextTag
  <2>5. grown \in 1 .. Capacity
    <3>1. LeafDepth(mem.pprf.punct, c.tag) \in 0 .. Depth
      BY LeafIs
    <3>2. mem.top[0].size \in 1 .. Capacity
      BY <2>3 DEF TopTo
    <3>3. \A l \in 0 .. Depth, z \in 1 .. Capacity :
            ~(z + 2 * Depth > Capacity) => z + 2 * (Depth - l) \in 1 .. Capacity
      BY SizeAssumption
    <3> QED
      BY <1>3, <3>1, <3>2, <3>3
  <2>6. body \in TopTo(n)
    BY <2>2, <2>3, <2>5 DEF TopTo
  <2>7. mem'.pk = fresh /\ mem'.top = [mem.top EXCEPT ![0] = body]
        /\ mem'.cache[s] = [c EXCEPT !.tag = NextTag(mem)]
    BY <1>1, <2>1, Ground DEF MemShape, Punctured
  <2> HIDE DEF body, n, c
  <2>8. /\ mem'.cur = s
        /\ mem'.pprf = [root |-> mem.pprf.root, punct |-> mem.pprf.punct \cup {c.tag}]
        /\ DOMAIN mem'.cache = DOMAIN mem.cache
        /\ \A t \in DOMAIN mem.cache : t # s => mem'.cache[t] = mem.cache[t]
        /\ SameBut(mem, mem', {"cache", "cur", "pprf", "top", "pk"})
    BY <1>1, <2>1, Ground, PuncturedMemory DEF c
  <2>9. mem'.top \in [Top -> TopTo(n)]
    BY <2>3, <2>6, <2>7 DEF MemTyped
  <2>10. mem'.pprf \in PprfTo(n)
    BY <2>3, <2>8 DEF PprfTo, EntryTo
  <2>11. \A t \in DOMAIN mem'.cache : mem'.cache[t] \in EntryTo(n)
    <3>1. mem'.cache[s] \in EntryTo(n)
      BY <2>3, <2>4, <2>7 DEF EntryTo, TopTo
    <3> QED
      BY <2>3, <2>8, <3>1 DEF MemTyped
  <2>12. DOMAIN mem'.cache \subseteq Sector
    BY <2>3, <2>8 DEF MemTyped
  <2>13. MemTyped(mem', n)
    BY <2>2, <2>3, <2>7, <2>8, <2>9, <2>10, <2>11, <2>12, MemChanged
  <2>14. ControlTyped'
    BY <1>1, <2>1, FirstIndices DEF ControlTyped, Steps
  <2>15. fresh' \in Nat /\ fresh' >= fresh /\ MemTyped(mem', fresh')
    BY <2>1, <2>2, <2>13
  <2> QED
    BY <1>1, <2>14, <2>15, MemoryTyped
<1> QED
  BY <1>2, <1>3

\* What is written to the journal.
LEMMA BlockTyped ==
  ASSUME OneTop, IInv, Typed, Journaling, NEW i \in Slot
  PROVE  JournalBlock(i) \in BlockTo(fresh) /\ JournalBlock(i).at = Transaction(mem.cur)[i]
<1> DEFINE c == mem.cache[mem.cur]
<1>1. /\ mem.mk \in KeyTo(fresh) /\ mem.pk \in KeyTo(fresh) /\ mem.top[0] \in TopTo(fresh)
      /\ mem.pprf \in PprfTo(fresh) /\ mem.cur \in Sector /\ c \in EntryTo(fresh)
  BY Ground DEF MemTyped, Journaling
<1>2. /\ mem.top[0].key \in KeyTo(fresh) /\ mem.pprf.root \in KeyTo(fresh)
      /\ c.tag \in Nat /\ c.keys \in KeysTo(fresh)
  BY <1>1 DEF TopTo, PprfTo, EntryTo
<1>3. InUse \in BOOLEAN
  BY Ground, HomeOpened DEF InUse
<1> HIDE DEF c
<1>4. CASE i = 1
  <2>1. JournalBlock(i) = Enc(TopAt(0), mem.mk, mem.top[0])
    BY <1>4, Transacted DEF JournalBlock
  <2> QED
    BY <1>1, <1>4, <2>1, Encrypted, Transacted
<1>5. CASE i = 2
  <2>1. JournalBlock(i) = Enc(BotAt, mem.top[0].key, mem.pk)
    BY <1>5, Transacted DEF JournalBlock
  <2> QED
    BY <1>1, <1>2, <1>5, <2>1, Encrypted, Transacted
<1>6. CASE i = 3
  <2>1. JournalBlock(i) = Enc(PprfAt, mem.pk, mem.pprf)
    BY <1>6, Transacted DEF JournalBlock
  <2> QED
    BY <1>1, <1>6, <2>1, Encrypted, Transacted
<1>7. CASE i = 4
  <2>1. JournalBlock(i) = Enc(TableAt(mem.cur), <<mem.pprf.root, c.tag>>, c.keys)
    BY <1>7, Transacted DEF JournalBlock, c
  <2> QED
    BY <1>1, <1>2, <1>7, <2>1, Encrypted, Transacted
<1>8. CASE i = 5
  <2>1. JournalBlock(i) = Enc(HeaderAt, Junk, InUse)
    BY <1>8, Transacted DEF JournalBlock
  <2> QED
    BY <1>3, <1>8, <2>1, Encrypted, Transacted
<1>9. i \in {1, 2, 3, 4, 5}
  BY DEF Slot
<1> QED
  BY <1>4, <1>5, <1>6, <1>7, <1>8, <1>9

LEMMA JournalSlotTyped == ASSUME OneTop, IInv, Typed, JournalSlot PROVE Typed'
<1>1. Journaling /\ idx \in Slot /\ mem.cur \in DOMAIN mem.cache
  BY DEF IInv, MemInv, JournalSlot, Journaling
<1>2. /\ slot' = [slot EXCEPT ![idx] = JournalBlock(idx)]
      /\ mem' = IF idx = 4 THEN [mem EXCEPT !.cache[mem.cur].dirty = FALSE] ELSE mem
      /\ IF idx = 5 THEN pc' = "punct_ctl" /\ idx' = 1 ELSE pc' = "jnl" /\ idx' = idx + 1
      /\ UNCHANGED <<home, ctl, tpm, ret, fresh, file>>
  BY DEF JournalSlot
<1>3. SlotTyped(slot', fresh)
  BY <1>1, <1>2, Ground, BlockTyped, SlotWritten
<1>4. MemTyped(mem', fresh)
  <2>1. CASE idx = 4
    <3>1. mem' = Cleaned(mem, mem.cur)
      BY <1>2, <2>1 DEF Cleaned
    <3>2. /\ DOMAIN mem'.cache = DOMAIN mem.cache /\ SameBut(mem, mem', {"cache"})
          /\ \A t \in DOMAIN mem.cache : t # mem.cur => mem'.cache[t] = mem.cache[t]
      BY <1>1, <3>1, Ground, EntryCleaned
    <3>3. mem'.cache[mem.cur] = [mem.cache[mem.cur] EXCEPT !.dirty = FALSE]
      BY <1>1, <3>1, Ground DEF Cleaned, MemShape
    <3>4. mem.cache[mem.cur] \in EntryTo(fresh)
      BY <1>1, Ground DEF MemTyped
    <3>5. mem'.cache[mem.cur] \in EntryTo(fresh)
      BY <3>3, <3>4 DEF EntryTo
    <3>6. DOMAIN mem'.cache \subseteq Sector /\ \A t \in DOMAIN mem'.cache : mem'.cache[t] \in EntryTo(fresh)
      BY <3>2, <3>5, Ground DEF MemTyped
    <3> QED
      BY <3>2, <3>6, Ground, MemChanged
  <2>2. CASE idx # 4
    BY <1>2, <2>2, Ground
  <2> QED
    BY <2>1, <2>2
<1>5. ControlTyped'
  BY <1>1, <1>2, Ground, FirstIndices DEF ControlTyped, Steps
<1>6. Addressed'
  BY <1>1, <1>2 DEF Journaling, Addressed
<1> QED
  BY <1>2, <1>3, <1>4, <1>5, <1>6, Ground DEF Typed

LEMMA PunctureCtlTyped == ASSUME OneTop, IInv, Typed, PunctureCtl PROVE Typed'
<1>1. /\ Journaling /\ mem.cur \in DOMAIN mem.cache
      /\ \A i \in Slot : slot[i] = JournalBlock(i)
  BY DEF IInv, MemInv, PunctureCtl, Journaling
<1>2. /\ ctl' = [type |-> "PPRF_PUNCT", k |-> Junk, key |-> Junk, addr |-> Transaction(mem.cur)]
      /\ file' = [file EXCEPT ![mem.cur] = mem.cache[mem.cur].keys]
      /\ pc' = "replay" /\ UNCHANGED <<home, slot, tpm, mem, ret, idx, fresh>>
  BY DEF PunctureCtl
<1>3. mem.cache[mem.cur] \in EntryTo(fresh)
  BY <1>1, Ground DEF MemTyped
<1>4. file' \in [Sector -> KeysTo(fresh)]
  BY <1>2, <1>3, Ground DEF EntryTo
<1>5. CtlTyped(ctl', fresh)
  BY <1>2, Ground, Junks DEF CtlTyped
<1>6. Addressed'
  <2>1. 4 \in Slot /\ 5 \in Slot
    BY Constants
  <2>2. slot[4].at = Transaction(mem.cur)[4] /\ slot[5].at = HeaderAt
    BY <1>1, <2>1, BlockTyped, Transacted
  <2> QED
    BY <1>2, <2>2 DEF Addressed
<1>7. ControlTyped'
  BY <1>2, Ground DEF ControlTyped, Steps
<1> QED
  BY <1>2, <1>4, <1>5, <1>6, <1>7, Ground DEF Typed

LEMMA ReplayBlockTyped == ASSUME OneTop, IInv, Typed, ReplayBlock PROVE Typed'
<1>1. Replaying /\ ctl.type = "PPRF_PUNCT" /\ idx \in Slot
  BY DEF IInv, MemInv, ReplayBlock, Replaying
<1>2. PICK s \in Sector : ctl.addr = Transaction(s)
  BY <1>1 DEF IInv, DiskInv
<1>3. /\ home' = [home EXCEPT ![Transaction(s)[idx]] = slot[idx]]
      /\ idx' = idx + 1 /\ pc' \in {"replay", "clear", "none"}
      /\ UNCHANGED <<ctl, slot, tpm, mem, ret, fresh, file>>
  BY <1>2 DEF ReplayBlock
<1>4. Transaction(s)[idx] \in Addr /\ slot[idx] \in BlockTo(fresh)
  BY <1>1, Places, Transacted, Constants, Ground DEF SlotTyped
<1>5. Transaction(s)[idx][1] # "top" => slot[idx].at = Transaction(s)[idx]
  <2>1. slot[4].at = TableAt(s) /\ slot[5].at = HeaderAt
    BY <1>1, <1>2, Ground, Transacted DEF Addressed
  <2>2. Chained(RestartHome, RestartMaster)
    BY <1>1 DEF IInv, DiskInv, Image
  <2>3. RestartHome = Overlay(home, slot, s)
    BY <1>1, <1>2, RestartTransaction
  <2>4. \A i \in Slot : RestartHome[Transaction(s)[i]] = slot[i]
    BY <2>3, Overlaid
  <2>5. 2 \in Slot /\ 3 \in Slot
    BY Constants
  <2>6. slot[2].at = BotAt /\ slot[3].at = PprfAt
    BY <2>2, <2>4, <2>5, Transacted DEF Chained
  <2>7. idx \in {1, 2, 3, 4, 5}
    BY <1>1 DEF Slot
  <2> QED
    BY <2>1, <2>6, <2>7, Transacted, Kinds
<1>6. HomeTyped(home', fresh)
  BY <1>3, <1>4, <1>5, Ground, HomeWritten
<1>7. ControlTyped' /\ Addressed'
  BY <1>1, <1>3, Ground, FirstIndices DEF ControlTyped, Steps, Addressed
<1> QED
  BY <1>3, <1>6, <1>7, Ground DEF Typed

LEMMA BootedTyped ==
  ASSUME OneTop, IInv, Typed
  PROVE  MemTyped(Booted, fresh) /\ MemShape(Booted)
BY Ground, BlankTyped, Blank DEF Booted, IInv

LEMMA OpenCleanTyped == ASSUME OneTop, IInv, Typed, OpenClean PROVE Typed'
<1>1. /\ mem' \in {ReadPprf(ReadFkt(Booted)), ReadFkt(Booted)}
      /\ pc' = "finish" /\ ret' = "idle" /\ idx' = 0
      /\ UNCHANGED <<home, ctl, slot, tpm, fresh, file>>
  BY DEF OpenClean
<1>2. MemTyped(mem', fresh)
  BY <1>1, Ground, BootedTyped, ReadTyped, ReadFktTyped
<1>3. ControlTyped'
  BY <1>1, FirstIndices DEF ControlTyped, Steps
<1>4. fresh' \in Nat /\ fresh' >= fresh /\ MemTyped(mem', fresh')
  BY <1>1, <1>2, Ground
<1> QED
  BY <1>1, <1>3, <1>4, MemoryTyped

LEMMA RecoverMasterTyped == ASSUME OneTop, IInv, Typed, RecoverMaster PROVE Typed'
<1>1. /\ \/ mem' = [Booted EXCEPT !.newmk = ctl.key] /\ pc' = "m_top"
         \/ mem' = Booted /\ pc' = "clear"
      /\ ret' = "recover" /\ idx' = 0
      /\ UNCHANGED <<home, ctl, slot, tpm, fresh, file>>
  BY DEF RecoverMaster
<1>2. ctl.key \in KeyTo(fresh)
  BY Ground DEF CtlTyped
<1>3. MemTyped(mem', fresh)
  BY <1>1, <1>2, BootedTyped, SetTyped
<1>4. ControlTyped'
  BY <1>1, FirstIndices DEF ControlTyped, Steps
<1>5. fresh' \in Nat /\ fresh' >= fresh /\ MemTyped(mem', fresh')
  BY <1>1, <1>3, Ground
<1> QED
  BY <1>1, <1>4, <1>5, MemoryTyped

LEMMA RecoverPunctureTyped == ASSUME OneTop, IInv, Typed, RecoverPuncture PROVE Typed'
<1>1. /\ mem' = ReadPprf(ReadFkt(Booted)) /\ pc' = "replay" /\ ret' = "recover" /\ idx' = 1
      /\ UNCHANGED <<home, ctl, slot, tpm, fresh, file>>
  BY DEF RecoverPuncture
<1>2. MemTyped(mem', fresh)
  BY <1>1, Ground, BootedTyped, ReadTyped
<1>3. ControlTyped'
  BY <1>1, FirstIndices DEF ControlTyped, Steps
<1>4. fresh' \in Nat /\ fresh' >= fresh /\ MemTyped(mem', fresh')
  BY <1>1, <1>2, Ground
<1> QED
  BY <1>1, <1>3, <1>4, MemoryTyped

LEMMA RecoverPprfRotationTyped == ASSUME OneTop, IInv, Typed, RecoverPprfRotation PROVE Typed'
<1> DEFINE r == ReadPprf(ReadFkt(Booted))
           x == IF ctl.k = tpm THEN ctl.key ELSE Junk
           m == [r EXCEPT !.newroot = x]
<1>1. EnterRewrite(m, FALSE) /\ ret' = "clear" /\ UNCHANGED <<home, ctl, slot, tpm, fresh, file>>
  BY DEF RecoverPprfRotation
<1>2. MemTyped(r, fresh) /\ MemShape(r)
  BY Ground, BootedTyped, ReadTyped
<1>3. x \in KeyTo(fresh)
  BY Ground, Junks DEF CtlTyped
<1> HIDE DEF r, x
<1>4. MemTyped(m, fresh)
  BY <1>2, <1>3, SetTyped
<1> HIDE DEF m
<1>5. mem' = m /\ ControlTyped'
  BY <1>1, EnterRewriteTyped
<1>6. fresh' \in Nat /\ fresh' >= fresh /\ MemTyped(mem', fresh')
  BY <1>1, <1>4, <1>5, Ground
<1> QED
  BY <1>1, <1>5, <1>6, MemoryTyped

LEMMA RecoverPprfInitTyped == ASSUME OneTop, IInv, Typed, RecoverPprfInit PROVE Typed'
<1> DEFINE r == ReadFkt(Booted)
           m == [r EXCEPT !.newroot = fresh]
<1>1. /\ EnterRewrite(m, TRUE) /\ ret' = "init" /\ fresh' = fresh + 1
      /\ UNCHANGED <<home, ctl, slot, tpm, file>>
  BY DEF RecoverPprfInit
<1>2. MemTyped(r, fresh) /\ MemShape(r)
  BY Ground, BootedTyped, ReadFktTyped
<1>3. fresh + 1 \in Nat /\ fresh <= fresh + 1 /\ fresh \in KeyTo(fresh + 1)
  BY Ground, DrawnBelow
<1> HIDE DEF r
<1>4. MemTyped(r, fresh + 1)
  BY <1>2, <1>3, Ground, WiderTyped
<1>5. MemTyped(m, fresh + 1)
  BY <1>2, <1>3, <1>4, SetTyped
<1> HIDE DEF m
<1>6. mem' = m /\ ControlTyped'
  BY <1>1, EnterRewriteTyped
<1>7. fresh' \in Nat /\ fresh' >= fresh /\ MemTyped(mem', fresh')
  BY <1>1, <1>3, <1>5, <1>6
<1> QED
  BY <1>1, <1>6, <1>7, MemoryTyped

LEMMA EncAt == \A a, k, x : Enc(a, k, x).at = a
BY DEF Enc

LEMMA EachPlace ==
  ASSUME OneTop, NEW n, NEW h, DOMAIN h = Addr,
         h[HeaderAt] \in BlockTo(n), h[HeaderAt].at = HeaderAt, h[TopAt(0)] \in BlockTo(n),
         h[BotAt] \in BlockTo(n), h[BotAt].at = BotAt,
         h[PprfAt] \in BlockTo(n), h[PprfAt].at = PprfAt,
         \A s \in Sector : h[TableAt(s)] \in BlockTo(n) /\ h[TableAt(s)].at = TableAt(s)
  PROVE  HomeTyped(h, n)
<1>1. ASSUME NEW a \in Addr PROVE h[a] \in BlockTo(n) /\ (a[1] # "top" => h[a].at = a)
  <2>1. CASE a \in {HeaderAt, TopAt(0), BotAt, PprfAt}
    BY <2>1, Kinds
  <2>2. CASE \E s \in Sector : a = TableAt(s)
    BY <2>2
  <2> QED
    BY <2>1, <2>2, Places
<1> QED
  BY <1>1 DEF HomeTyped

LEMMA InitTyped == ASSUME OneTop, Init PROVE Typed
<1> DEFINE n == fresh
<1>1. /\ mem = NoMem /\ pc = "down" /\ ret = "idle" /\ idx = 0
      /\ slot = [i \in Slot |-> Enc(HeaderAt, Junk, FALSE)]
  BY DEF Init
<1>2. n \in Nat /\ n > 0
  BY InitInv DEF IInv, FreshInv
<1>3. MemTyped(mem, n)
  BY <1>1, <1>2, BlankTyped
<1>4. SlotTyped(slot, n)
  BY <1>1, Encrypted DEF SlotTyped
<1>5. ControlTyped
  BY <1>1, FirstIndices DEF ControlTyped, Steps
<1>6. CASE InitCreated
  <2>1. /\ tpm = 1 /\ ctl = [NoControl EXCEPT !.type = "PPRF_INIT"] /\ n = 2
        /\ file = [s \in Sector |-> JunkKeys]
    BY <1>6 DEF InitCreated
  <2>2. home = [a \in Addr |->
         CASE a[1] = "header" -> Enc(a, Junk, FALSE)
           [] a[1] = "top"    -> Enc(a, Junk, JunkTop)
           [] a[1] = "bottom" -> Enc(a, Junk, Junk)
           [] a[1] = "pprf"   -> Enc(a, Junk, JunkPprf)
           [] a[1] = "table"  -> Enc(a, <<Junk, 0>>, JunkKeys)]
    BY <1>6 DEF InitCreated
  <2>3. HomeTyped(home, n)
    <3>1. /\ Enc(HeaderAt, Junk, FALSE) \in BlockTo(n) /\ Enc(TopAt(0), Junk, JunkTop) \in BlockTo(n)
          /\ Enc(BotAt, Junk, Junk) \in BlockTo(n) /\ Enc(PprfAt, Junk, JunkPprf) \in BlockTo(n)
          /\ \A s \in Sector : Enc(TableAt(s), <<Junk, 0>>, JunkKeys) \in BlockTo(n)
      BY <1>2, Junks, Encrypted
    <3>2. /\ HeaderAt[1] = "header" /\ TopAt(0)[1] = "top" /\ BotAt[1] = "bottom" /\ PprfAt[1] = "pprf"
          /\ \A s : TableAt(s)[1] = "table"
      BY DEF HeaderAt, TopAt, BotAt, PprfAt, TableAt
    <3>3. /\ home[HeaderAt] = Enc(HeaderAt, Junk, FALSE)
          /\ home[TopAt(0)] = Enc(TopAt(0), Junk, JunkTop)
          /\ home[BotAt] = Enc(BotAt, Junk, Junk)
          /\ home[PprfAt] = Enc(PprfAt, Junk, JunkPprf)
      BY <2>2, <3>2, Places
    <3>4. \A s \in Sector : home[TableAt(s)] = Enc(TableAt(s), <<Junk, 0>>, JunkKeys)
      BY <2>2, <3>2, Places
    <3>5. \A s \in Sector : home[TableAt(s)] \in BlockTo(n) /\ home[TableAt(s)].at = TableAt(s)
      BY <3>1, <3>4, EncAt
    <3>6. home[HeaderAt] \in BlockTo(n) /\ home[HeaderAt].at = HeaderAt
      <4>1. home[HeaderAt].at = HeaderAt
        BY <3>3 DEF Enc
      <4> QED
        BY <3>1, <3>3, <4>1
    <3>8. home[TopAt(0)] \in BlockTo(n)
      BY <3>1, <3>3
    <3>9. home[BotAt] \in BlockTo(n) /\ home[BotAt].at = BotAt
      BY <3>1, <3>3, EncAt
    <3>10. home[PprfAt] \in BlockTo(n) /\ home[PprfAt].at = PprfAt
      BY <3>1, <3>3, EncAt
    <3>7. DOMAIN home = Addr
      BY <2>2
    <3> QED
      BY <3>5, <3>6, <3>7, <3>8, <3>9, <3>10, EachPlace
  <2>4. CtlTyped(ctl, n) /\ Addressed
    <3>1. ctl.type = "PPRF_INIT" /\ ctl.k = Junk /\ ctl.key = Junk
      BY <2>1 DEF NoControl
    <3> QED
      BY <1>2, <3>1, Junks DEF CtlTyped, Addressed
  <2>5. tpm \in KeyTo(n) /\ file \in [Sector -> KeysTo(n)]
    BY <1>2, <2>1, Junks DEF KeyTo
  <2> QED
    BY <1>3, <1>4, <1>5, <2>3, <2>4, <2>5 DEF Typed
<1>7. CASE InitInUse
  <2>1. tpm = 1 /\ ctl = NoControl /\ file = FirstKeys /\ n = TopWidth + 4 + KeyTableLen * Entries
        /\ DOMAIN home = Addr
    BY <1>7 DEF InitInUse
  <2>2. file \in [Sector -> KeysTo(n)] /\ n > 4
    <3>1. KeyTableLen * Entries \in Nat /\ n = 5 + KeyTableLen * Entries
      BY <2>1, Constants DEF OneTop
    <3>2. ASSUME NEW s \in Sector, NEW e \in Entry PROVE TopWidth + 3 + s * Entries + e \in KeyTo(n)
      <4>1. PICK d \in Nat : d = KeyTableLen - (s + 1)
        BY Constants
      <4>2. KeyTableLen = d + (s + 1) /\ s \in Nat /\ Entries \in Nat
        BY <4>1, Constants
      <4>3. \A x, y, z \in Nat : (x + (y + 1)) * z = x * z + y * z + z
        OBVIOUS
      <4>4. KeyTableLen * Entries = d * Entries + s * Entries + Entries
        BY <4>2, <4>3
      <4>5. s * Entries \in Nat /\ d * Entries \in Nat
        BY <4>2
      <4>6. \A u, v \in Nat : 1 + 3 + u + e \in 0 .. 5 + (v + u + Entries) - 1
        BY <4>2, Constants DEF Entry
      <4>7. 1 + 3 + s * Entries + e \in 0 .. 5 + (d * Entries + s * Entries + Entries) - 1
        BY <4>5, <4>6
      <4> QED
        BY <3>1, <4>4, <4>7 DEF KeyTo, OneTop
    <3>3. \A s \in Sector : file[s] \in KeysTo(n)
      BY <2>1, <3>2 DEF FirstKeys, KeysTo
    <3>4. file = [s \in Sector |-> file[s]]
      BY <2>1 DEF FirstKeys
    <3> QED
      BY <3>1, <3>3, <3>4
  <2>3. HomeTyped(home, n)
    <3>1. /\ home[HeaderAt] = Enc(HeaderAt, Junk, TRUE)
          /\ home[TopAt(0)] = Enc(TopAt(0), 1, [key |-> 2, ctr |-> KeyTableLen, size |-> 1])
          /\ home[BotAt] = Enc(BotAt, 2, 3)
          /\ home[PprfAt] = Enc(PprfAt, 3, [root |-> 4, punct |-> {}])
          /\ \A s \in Sector : home[TableAt(s)] = Enc(TableAt(s), <<4, s>>, file[s])
      BY <1>7, FirstSectors
    <3>2. {1, 2, 3, 4} \subseteq KeyTo(n)
      BY <1>2, <2>2 DEF KeyTo
    <3>3. [key |-> 2, ctr |-> KeyTableLen, size |-> 1] \in TopTo(n)
      <4>1. 1 \in 1 .. Capacity /\ KeyTableLen \in Nat
        BY SizeAssumption
      <4> QED
        BY <3>2, <4>1 DEF TopTo
    <3>4. [root |-> 4, punct |-> {}] \in PprfTo(n)
      BY <3>2 DEF PprfTo
    <3>5. /\ home[HeaderAt] \in BlockTo(n) /\ home[TopAt(0)] \in BlockTo(n)
          /\ home[BotAt] \in BlockTo(n) /\ home[PprfAt] \in BlockTo(n)
      BY <3>1, <3>2, <3>3, <3>4, Encrypted
    <3>6. ASSUME NEW s \in Sector
          PROVE  home[TableAt(s)] \in BlockTo(n) /\ home[TableAt(s)].at = TableAt(s)
      <4>1. s \in Nat /\ file[s] \in KeysTo(n) /\ 4 \in KeyTo(n)
        BY <2>2, <3>2, Constants
      <4>2. home[TableAt(s)] = Enc(TableAt(s), <<4, s>>, file[s])
        BY <3>1
      <4> QED
        BY <4>1, <4>2, Encrypted
    <3>7. /\ home[HeaderAt].at = HeaderAt /\ home[BotAt].at = BotAt /\ home[PprfAt].at = PprfAt
      BY <3>1 DEF Enc
    <3> QED
      BY <2>1, <3>5, <3>6, <3>7, EachPlace
  <2>4. CtlTyped(ctl, n) /\ Addressed
    <3>1. ctl.type = "NONE" /\ ctl.k = Junk /\ ctl.key = Junk
      BY <2>1 DEF NoControl
    <3> QED
      BY <1>2, <3>1, Junks DEF CtlTyped, Addressed
  <2>5. tpm \in KeyTo(n)
    BY <1>2, <2>1, <2>2 DEF KeyTo
  <2> QED
    BY <1>3, <1>4, <1>5, <2>2, <2>3, <2>4, <2>5 DEF Typed
<1> QED
  BY <1>6, <1>7 DEF Init

LEMMA NextTyped == ASSUME OneTop, SafeCreation, IInv, Typed, [Next]_vars PROVE Typed'
<1>1. CASE UNCHANGED vars
  <2>1. UNCHANGED <<home, ctl, slot, tpm, mem, pc, ret, idx, fresh, file>>
    BY <1>1 DEF vars
  <2> QED
    BY <2>1 DEF Typed, ControlTyped, Addressed
<1>2. CASE \E s \in Sector : GetInodeKey(s) \/ DropEntry(s) \/ PersistUnlink(s)
  BY <1>2, GetInodeKeyTyped, DropEntryTyped, PersistUnlinkTyped
<1>3. CASE \E s \in Sector, e \in Entry : Unlink(s, e)
  BY <1>3, UnlinkTyped
<1>4. CASE Open
  BY <1>4, OpenCleanTyped, RecoverMasterTyped, RecoverPprfRotationTyped, RecoverPprfInitTyped,
     RecoverPunctureTyped DEF Open
<1>5. CASE Work
  <2>1. CASE MasterSlot \/ MasterCtl \/ MasterTop \/ MasterTpm \/ MasterNone
    BY <2>1, MasterSlotTyped, MasterCtlTyped, MasterTopTyped, MasterTpmTyped, MasterNoneTyped
  <2>2. CASE RotateCtl \/ RewriteSector \/ RewriteTop \/ RewriteBottom \/ RewritePprf
    BY <2>2, RotateCtlTyped, RewriteSectorTyped, RewriteTopTyped, RewriteBottomTyped, RewritePprfTyped
  <2>3. CASE JournalSlot \/ PunctureCtl \/ ReplayBlock \/ ControlNone
    BY <2>3, JournalSlotTyped, PunctureCtlTyped, ReplayBlockTyped, ControlNoneTyped
  <2>4. CASE JournalClear \/ FinishOpen \/ Closed
    BY <2>4, JournalClearTyped, FinishOpenTyped, ClosedTyped
  <2> QED
    BY <1>5, <2>1, <2>2, <2>3, <2>4 DEF Work
<1>6. CASE Close
  BY <1>6, CloseTyped
<1>7. CASE Crash
  BY <1>7, CrashTyped
<1> QED
  BY <1>1, <1>2, <1>3, <1>4, <1>5, <1>6, <1>7 DEF Next

\* Every variable keeps its type: no step reads a block for what it is not, the
\* replay puts each block of a transaction where it belongs, no key is in use
\* that has not been drawn, and a puncture never takes the key past its capacity, as
\* long as the tags taken are leaves.
THEOREM TypeCorrect ==
  ASSUME OneTop, SafeCreation PROVE Spec /\ []TagsAreLeaves => []TypeOK
<1>1. Init => IInv /\ Typed
  BY InitInv, InitTyped
<1>2. (IInv /\ Typed) /\ TagsAreLeaves' /\ [Next]_vars => (IInv /\ Typed)'
  BY NextInv, NextTyped
<1>3. IInv /\ Typed => TypeOK
  BY TypedIsOK
<1> QED
  BY <1>1, <1>2, <1>3, PTL DEF Spec
=============================================================================
