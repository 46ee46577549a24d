------------------------------- MODULE KeySync -------------------------------
(***************************************************************************)
(* How the kernel module and the TPM agree on the master key: a helper     *)
(* process, forked when a device is opened, answers netlink messages of    *)
(* the module with reads and writes of the TPM's NVRAM.  Both generations  *)
(* of the target speak this protocol.                                      *)
(*                                                                         *)
(* A message to the helper is queued on its socket; one to the kernel is   *)
(* handled within sendmsg, by netlink_recv, so that sending a reply and    *)
(* receiving it are one step.  The key travels under the sector key, which *)
(* the model leaves out.                                                   *)
(***************************************************************************)
EXTENDS Integers, Sequences

CONSTANT NoKey        \* the content of a wiped key buffer

VARIABLES
  status,   \* master_key_status
  mk,       \* master_key
  newmk,    \* new_master_key
  inbox,    \* what is queued on the helper's socket
  helper,   \* the helper: "starting", "loop", "written", "failed" or "gone"
  vault     \* the NVRAM area

syncVars == <<status, mk, newmk, inbox, helper, vault>>

Flags == {"GOT_KEY", "GET_REQUESTED", "SET_REQUESTED", "READY_TO_REFRESH"}

\* nlmsg_unicast finds the helper only while its socket is bound.
Reachable == helper \in {"loop", "written"}

-----------------------------------------------------------------------------
(* The kernel's side.  The senders retry until the message is delivered;   *)
(* after that they wait for the answer, and resend nothing.                *)

\* Seeded fault: the request is sent once, bound socket or not.
SendGetOnce ==
  /\ inbox' = IF Reachable THEN Append(inbox, [type |-> "GET"]) ELSE inbox
  /\ UNCHANGED <<status, mk, newmk, helper, vault>>

\* get_master_key, in the constructor.
SendGet ==
  /\ Reachable
  /\ inbox' = Append(inbox, [type |-> "GET"])
  /\ UNCHANGED <<status, mk, newmk, helper, vault>>

\* "__set_bit(SET_REQUESTED)", before the key is sent.
RequestSet(k) ==
  /\ newmk' = k
  /\ status' = status \cup {"SET_REQUESTED"}
  /\ UNCHANGED <<mk, inbox, helper, vault>>

\* set_master_key: the payload is new_master_key as it is now.
SendSet ==
  /\ Reachable
  /\ inbox' = Append(inbox, [type |-> "SET", key |-> newmk])
  /\ UNCHANGED <<status, mk, newmk, helper, vault>>

\* kill_helper does not care whether its message arrives.
InboxWithDie == IF Reachable THEN Append(inbox, [type |-> "DIE"]) ELSE inbox

KillHelper ==
  /\ inbox' = InboxWithDie
  /\ UNCHANGED <<status, mk, newmk, helper, vault>>

\* Seeded fault: the acknowledgement is not waited for.
InstallUnacknowledged ==
  /\ status' = status \ {"READY_TO_REFRESH"}
  /\ mk' = newmk
  /\ inbox' = InboxWithDie
  /\ UNCHANGED <<newmk, helper, vault>>

\* The destructor on the acknowledgement: the new key is taken, the helper stopped.
Install ==
  /\ "READY_TO_REFRESH" \in status
  /\ status' = status \ {"READY_TO_REFRESH"}
  /\ mk' = newmk
  /\ inbox' = InboxWithDie
  /\ UNCHANGED <<newmk, helper, vault>>

\* netlink_recv: unsolicited keys and acknowledgements are dropped.
ReceiveKey ==
  IF "GET_REQUESTED" \in status
  THEN /\ status' = (status \ {"GET_REQUESTED"}) \cup {"GOT_KEY"}
       /\ mk' = vault
       /\ UNCHANGED newmk
  ELSE UNCHANGED <<status, mk, newmk>>

ReceiveAck ==
  /\ status' = IF "SET_REQUESTED" \in status
               THEN (status \ {"SET_REQUESTED"}) \cup {"READY_TO_REFRESH"} ELSE status
  /\ UNCHANGED <<mk, newmk>>

-----------------------------------------------------------------------------
(* The helper: enter_netlink_loop.                                         *)

Got(type) == helper = "loop" /\ inbox # <<>> /\ Head(inbox).type = type

\* The socket is made and bound some seconds after the fork.
HelperBind ==
  /\ helper = "starting"
  /\ helper' = "loop"
  /\ UNCHANGED <<status, mk, newmk, inbox, vault>>

HelperGet ==
  /\ Got("GET")
  /\ inbox' = Tail(inbox)
  /\ ReceiveKey
  /\ UNCHANGED <<helper, vault>>

HelperWrite ==
  /\ Got("SET")
  /\ vault' = Head(inbox).key
  /\ helper' = "written"
  /\ UNCHANGED <<status, mk, newmk, inbox>>

HelperAck ==
  /\ helper = "written"
  /\ inbox' = Tail(inbox)
  /\ helper' = "loop"
  /\ ReceiveAck
  /\ UNCHANGED vault

HelperDie ==
  /\ Got("DIE")
  /\ helper' = "gone" /\ inbox' = <<>>
  /\ UNCHANGED <<status, mk, newmk, vault>>

\* "Cannot read master key!", "Cannot write master key!": the loop is left.
HelperFail ==
  /\ Got("GET") \/ Got("SET")
  /\ helper' = "failed" /\ inbox' = <<>>
  /\ UNCHANGED <<status, mk, newmk, vault>>

HelperStep == HelperBind \/ HelperGet \/ HelperWrite \/ HelperAck \/ HelperDie
=============================================================================
