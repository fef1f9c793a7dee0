------------------------- MODULE AttendanceTransfer -------------------------
(***************************************************************************)
(* What the bridge promises about attendance records, without locks,       *)
(* batches, retries or processes: "never clear device attendance unless    *)
(* HRMS upload succeeded" (the safety rule at the head of sync_state.rs).  *)
(*                                                                         *)
(* A client is whatever runs one sync of the device.  It takes a copy of   *)
(* the device's records, delivers records out of that copy, and may clear  *)
(* the device only once every deliverable record of its copy is at HRMS.   *)
(* DeviceSync is shown to implement this module.                           *)
(***************************************************************************)
CONSTANTS
  Clients,     \* the threads of any process that sync this device
  Punches,     \* the attendance records employees can make
  Mappable     \* the records that map to an HRMS event

VARIABLES
  made,        \* records employees have made so far
  device,      \* records the device holds
  delivered,   \* records HRMS holds
  held         \* held[c]: the copy client c works from, {} when it has none

vars == <<made, device, delivered, held>>

Deliverable(c) == held[c] \cap Mappable

Init ==
  /\ made = {}
  /\ device = {}
  /\ delivered = {}
  /\ held = [c \in Clients |-> {}]

Punch(p) ==
  /\ p \notin made
  /\ made' = made \cup {p}
  /\ device' = device \cup {p}
  /\ UNCHANGED <<delivered, held>>

Take(c) ==
  /\ held' = [held EXCEPT ![c] = device]
  /\ UNCHANGED <<made, device, delivered>>

\* HRMS stores some of the copy; the client may give up in the same step.
Deliver(c) ==
  /\ \E S \in SUBSET Deliverable(c) : delivered' = delivered \cup S
  /\ \E rest \in {held[c], {}} : held' = [held EXCEPT ![c] = rest]
  /\ UNCHANGED <<made, device>>

Clear(c) ==
  /\ Deliverable(c) # {}
  /\ Deliverable(c) \subseteq delivered
  /\ device' = {}
  /\ held' = [held EXCEPT ![c] = {}]
  /\ UNCHANGED <<made, delivered>>

\* Clients give up or die; their copies are gone.
Forget(C) ==
  /\ held' = [c \in Clients |-> IF c \in C THEN {} ELSE held[c]]
  /\ UNCHANGED <<made, device, delivered>>

Next ==
  \/ \E p \in Punches : Punch(p)
  \/ \E c \in Clients : Take(c) \/ Deliver(c) \/ Clear(c)
  \/ \E C \in SUBSET Clients : Forget(C)

Spec == Init /\ [][Next]_vars

=============================================================================
