------------------------------ MODULE Remanence ------------------------------
(***************************************************************************)
(* What the disk has ever held, and what of it the TPM still opens.  The   *)
(* README promises that deleted files cannot be recovered by whoever later *)
(* obtains the storage medium: a file key replaced by an unlink must not   *)
(* follow from the TPM's master key and all that was ever written.         *)
(***************************************************************************)
EXTENDS SecureStore

CONSTANT
  KeepsTorn   \* whether journal slots that were never committed leave traces

ASSUME KeepsTornAssumption == KeepsTorn \in BOOLEAN

VARIABLES
  wraps,  \* <<k, key>>: key was written under k
  pprfs,  \* <<k, root, punct>>: a PPRF key was written under k
  files,  \* <<root, tag, key>>: a file key was written under a tag's value
  dead    \* the file keys that were durable and are not any more

rvars == <<vars, wraps, pprfs, files, dead>>

\* What a set of sectors and a control block hold.
Held(B, kind) == {b \in B : b.at[1] = kind}
WrapsIn(B, c) ==
  {<<b.k, b.body.key>> : b \in Held(B, "top")} \cup {<<b.k, b.body>> : b \in Held(B, "bottom")}
    \cup IF c.type = "MASTER_ROT" THEN {<<c.k, c.key>>} ELSE {}
PprfsIn(B, c) ==
  {<<b.k, b.body.root, b.body.punct>> : b \in Held(B, "pprf")}
    \cup IF c.type = "PPRF_ROT" THEN {<<c.k, c.key, {}>>} ELSE {}
FilesIn(B) ==
  {<<b.k[1], b.k[2], b.body[e]>> : b \in Held(B, "table"), e \in Entry}

\* The journal slots a control block commits.
CommittedSlots(c) ==
  CASE c.type = "PPRF_PUNCT" -> Slot
    [] c.type = "MASTER_ROT" -> {w + 1 : w \in Top}
    [] OTHER -> {}

Sectors(h, s, I) == {h[a] : a \in Addr} \cup {s[i] : i \in I}
FileKeys(f) == {f[s][e] : s \in Sector, e \in Entry}

RInit ==
  /\ Init
  /\ LET B == Sectors(home, slot, {})
     IN  wraps = WrapsIn(B, ctl) /\ pprfs = PprfsIn(B, ctl) /\ files = FilesIn(B)
  /\ dead = {}

RNext ==
  /\ Next
  /\ LET B == Sectors(home', slot', IF KeepsTorn THEN Slot ELSE CommittedSlots(ctl'))
     IN  /\ wraps' = wraps \cup WrapsIn(B, ctl')
         /\ pprfs' = pprfs \cup PprfsIn(B, ctl')
         /\ files' = files \cup FilesIn(B)
  /\ dead' = dead \cup (FileKeys(file) \ FileKeys(file'))

RSpec == RInit /\ [][RNext]_rvars
RFairSpec == RSpec /\ Fairness

-----------------------------------------------------------------------------
(* What follows from the TPM's key.  A torn transaction counts as long as  *)
(* it is still in the journal.                                             *)

Torn == {slot[i] : i \in Slot}

\* One layer of keys down: from a master key to the one it is rotated to and to
\* the FKT's top, from there to its bottom.
Unwrapped(K, links) == K \cup {e[2] : e \in {x \in links : x[1] \in K}}

OpenedKeys ==
  LET links == wraps \cup WrapsIn(Torn, ctl)
  IN  Unwrapped(Unwrapped(Unwrapped({tpm}, links), links), links)

OpenedFileKeys ==
  LET K == OpenedKeys
      P == {p \in pprfs \cup PprfsIn(Torn, ctl) : p[1] \in K}
  IN  {f[3] : f \in {x \in files \cup FilesIn(Torn) :
                       \E p \in P : p[2] = x[1] /\ x[2] \notin p[3]}}

\* Whenever the device is at rest, no file key an unlink replaced can be had any
\* more: through no sequence of crashes and recoveries does the old master key,
\* a PPRF key before its puncture or a copy in the journal survive.  (At rest
\* there is no layer beyond those OpenedKeys goes down.)
ErasedUnreachable ==
  pc = "idle" => /\ OpenedFileKeys \cap dead = {}
                 /\ Unwrapped(OpenedKeys, wraps) = OpenedKeys

\* Under steady power every replaced file key is gone at last, a crash right
\* after the commit of its unlink notwithstanding.
ErasureCompletes ==
  (<>[](pc # "down")) =>
    [](OpenedFileKeys \cap dead # {} => <>(OpenedFileKeys \cap dead = {}))
=============================================================================
