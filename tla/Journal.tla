------------------------------- MODULE Journal -------------------------------
(***************************************************************************)
(* The write-ahead journal of the kernel module, in the build with         *)
(* HOLEPUNCH_JOURNAL: journal_write, journal_commit, journal_replay and    *)
(* the recovery of a journalled puncture in holepunch_ctr                  *)
(* (dm-holepunch-main.c).  Every write of one sector is a step of its own, *)
(* is atomic, and is on the disk when it returns; a crash may fall between *)
(* any two.                                                                *)
(***************************************************************************)
EXTENDS Integers

CONSTANTS
  Addr,        \* the sectors transactions write, all outside the journal
  Val,         \* sector contents
  JournalLen,  \* HP_JOURNAL_LEN: one control block and JournalLen - 1 slots
  JournalStart,\* the address of the control block: ends a list of addresses
  NoPage,      \* rd->journal = NULL
  NoArg

ASSUME JournalLenAssumption == JournalLen \in Nat /\ JournalLen >= 2
ASSUME SentinelAssumption ==
  /\ JournalStart \notin Addr
  /\ NoPage \notin [1 .. JournalLen - 1 -> Addr \cup {JournalStart}]
  /\ NoArg \notin Addr \X Val

VARIABLES
  disk,   \* the sectors outside the journal
  slots,  \* the data blocks of the journal, on disk
  ctl,    \* the control block, on disk: type and addresses
  page,   \* rd->journal: the addresses of the open transaction, or NoPage
  entry,  \* rd->journal_entry
  arg,    \* the write journal_write interrupts to commit a full journal
  pc,     \* "open", "replay" (inside a commit or a recovery) or "down"
  pos     \* the loop index of journal_replay

vars == <<disk, slots, ctl, page, entry, arg, pc, pos>>

Slot == 1 .. JournalLen - 1
Page == [Slot -> Addr \cup {JournalStart}]
Types == {"NONE", "PPRF_PUNCT"}

\* The control block of a fresh or cleared journal: its addresses are whatever
\* was there before.
Init ==
  /\ disk \in [Addr -> Val]
  /\ slots \in [Slot -> Val]
  /\ ctl = [type |-> "NONE", addr |-> [i \in Slot |-> JournalStart]]
  /\ page = NoPage /\ entry = 0 /\ arg = NoArg
  /\ pc = "open" /\ pos = 1

-----------------------------------------------------------------------------
\* Where journal_write finds the address, or the first free slot.
SlotOf(pg, e, a) ==
  IF \E i \in Slot : i < e /\ pg[i] = a
  THEN CHOOSE i \in Slot : i < e /\ pg[i] = a /\ \A j \in Slot : j < i => pg[j] # a
  ELSE e

\* The body of journal_write once there is room; a new page holds garbage.
PutBlock(pg, e, a, v) ==
  LET i == SlotOf(pg, e, a)
  IN  /\ page' = [pg EXCEPT ![i] = a]
      /\ slots' = [slots EXCEPT ![i] = v]
      /\ entry' = e + 1

\* Seeded faults, for checking that the properties notice them.
Unterminated(pg, e) == pg
FullOneLate == page # NoPage /\ entry > JournalLen
WriteControlFromSecond(pg) ==
  ctl' = [type |-> "PPRF_PUNCT", addr |-> pg] /\ page' = pg /\ pc' = "replay" /\ pos' = 2

\* journal_commit up to the write of the control block.
Terminated(pg, e) == IF e < JournalLen THEN [pg EXCEPT ![e] = JournalStart] ELSE pg

WriteControl(pg) ==
  /\ ctl' = [type |-> "PPRF_PUNCT", addr |-> pg]
  /\ page' = pg
  /\ pc' = "replay"
  /\ pos' = 1

\* "if (rd->journal_entry == HP_JOURNAL_LEN) holepunch_journal_commit(rd)"
Full == page # NoPage /\ entry = JournalLen

\* journal_write, which first commits when the journal is full.  An address the
\* transaction has already gets its slot again, and the entry is counted all the
\* same: the slot passed over keeps the garbage address and the block it had.
JournalWrite(a, v) ==
  /\ pc = "open" /\ (arg = NoArg \/ arg = <<a, v>>)
  /\ IF Full
     THEN /\ WriteControl(page)
          /\ arg' = <<a, v>>
          /\ UNCHANGED <<disk, slots, entry>>
     ELSE /\ IF page = NoPage THEN \E garbage \in Page : PutBlock(garbage, 1, a, v)
                              ELSE PutBlock(page, entry, a, v)
          /\ arg' = NoArg
          /\ UNCHANGED <<disk, ctl, pc, pos>>

\* journal_commit of an open transaction.
JournalCommit ==
  /\ pc = "open" /\ arg = NoArg
  /\ page # NoPage
  /\ WriteControl(Terminated(page, entry))
  /\ UNCHANGED <<disk, slots, entry, arg>>

Replayed == pos < JournalLen => page[pos] = JournalStart

\* One iteration of journal_replay.
ReplayBlock ==
  /\ pc = "replay" /\ ~Replayed
  /\ disk' = [disk EXCEPT ![page[pos]] = slots[pos]]
  /\ pos' = pos + 1
  /\ UNCHANGED <<slots, ctl, page, entry, arg, pc>>

\* The control block is rewritten with type HPJ_NONE, and the page freed: the
\* end of journal_commit, and "journal_clear" in a recovery.
JournalClear ==
  /\ pc = "replay" /\ Replayed
  /\ ctl' = [ctl EXCEPT !.type = "NONE"]
  /\ page' = NoPage
  /\ pc' = "open"
  /\ UNCHANGED <<disk, slots, entry, arg, pos>>

\* Power is lost: only what is on disk remains.
Crash ==
  /\ pc # "down"
  /\ page' = NoPage /\ entry' = 0 /\ arg' = NoArg /\ pos' = 1
  /\ pc' = "down"
  /\ UNCHANGED <<disk, slots, ctl>>

\* A seeded fault: recovery that takes the journal for empty.
RecoverWithoutReplay ==
  /\ pc = "down" /\ pc' = "open"
  /\ UNCHANGED <<disk, slots, ctl, page, entry, arg, pos>>

\* holepunch_ctr reads the control block and, for HPJ_PPRF_PUNCT, replays.
Recover ==
  /\ pc = "down"
  /\ IF ctl.type = "PPRF_PUNCT" THEN page' = ctl.addr /\ pc' = "replay"
                                ELSE page' = page /\ pc' = "open"
  /\ UNCHANGED <<disk, slots, ctl, entry, arg, pos>>

Others == JournalCommit \/ ReplayBlock \/ JournalClear \/ Crash \/ Recover

\* Callers that write what they like,
Next == (\E a \in Addr, v \in Val : JournalWrite(a, v)) \/ Others

\* and the one there is: persist_unlink journals each of its sectors once and then
\* commits, so that no address is in the open transaction already.
Fresh(a) == page # NoPage /\ ~Full => \A i \in Slot : i < entry => page[i] # a
OnceNext == (\E a \in Addr, v \in Val : Fresh(a) /\ JournalWrite(a, v)) \/ Others

\* The thread that commits or recovers keeps running while there is power.
Fairness == WF_vars(ReplayBlock) /\ WF_vars(JournalClear) /\ WF_vars(Recover)

Spec == Init /\ [][Next]_vars
FairSpec == Spec /\ Fairness
OnceSpec == Init /\ [][OnceNext]_vars
FairOnceSpec == OnceSpec /\ Fairness
-----------------------------------------------------------------------------
TypeOK ==
  /\ disk \in [Addr -> Val]
  /\ slots \in [Slot -> Val]
  /\ ctl \in [type : Types, addr : Page]
  /\ page \in Page \cup {NoPage}
  /\ entry \in 0 .. JournalLen
  /\ arg \in (Addr \X Val) \cup {NoArg}
  /\ pc \in {"open", "replay", "down"}
  /\ pos \in 1 .. JournalLen

\* The slots a list of addresses makes valid: those before the terminator.
Valid(addr) == {i \in Slot : \A j \in 1 .. i : addr[j] # JournalStart}

\* What a set of slots, with their addresses, writes home.
Writes(addr, I) ==
  [a \in {addr[i] : i \in I} |-> slots[CHOOSE i \in I : addr[i] = a]]

Overlaid(b) == [a \in Addr |-> IF a \in DOMAIN b THEN b[a] ELSE disk[a]]

\* The contents the system would have after a crash now.
Committed ==
  IF ctl.type = "PPRF_PUNCT" THEN Overlaid(Writes(ctl.addr, Valid(ctl.addr))) ELSE disk

\* The slots of the open transaction, and the writes queued in them.
Queue == IF page = NoPage \/ pc # "open" THEN {} ELSE {i \in Slot : i < entry}
OpenBatch == IF Queue = {} THEN [a \in {} |-> a] ELSE Writes(page, Queue)

\* Of callers that write each sector once (OnceSpec): the transaction being
\* replayed is the one the control block names, no sector occurs in it twice, and the slots before pos, and only those so far, are home.
\* While transactions are taken, the control block names none.
ReplayPrefix ==
  /\ pc = "open" => ctl.type = "NONE"
  /\ pc = "replay" =>
       /\ ctl.type = "PPRF_PUNCT" /\ page = ctl.addr
       /\ \A i \in Slot : i < pos => page[i] # JournalStart /\ disk[page[i]] = slots[i]
  /\ ctl.type = "PPRF_PUNCT" =>
       \A i, j \in Valid(ctl.addr) : ctl.addr[i] = ctl.addr[j] => i = j

\* All of a transaction or none of it, whatever the crashes, and nothing but what
\* was written: journal_write, journal_commit, journal_replay and the recovery
\* implement an atomic store.  So it is for callers that write each sector once
\* (OnceSpec).  It is not for all (Spec): a second write of a sector "overwrites
\* previous writes to the same location" (dm-holepunch-main.c:702) indeed, but adds to
\* the transaction the block and the address of the slot it passes over.
Abstract == INSTANCE AtomicStore WITH store <- Committed, batch <- OpenBatch
ImplementsAtomicStore == Abstract!Spec

\* Once the power stays on, a committed transaction is completely replayed and
\* its control block cleared.
JournalDrains ==
  (<>[](pc # "down")) => [](ctl.type = "PPRF_PUNCT" => <>(ctl.type = "NONE"))
=============================================================================
