-------------------------- MODULE MachineIdentity --------------------------
(***************************************************************************)
(* What the state file promises about the machine's identity, whatever    *)
(* login, up and join do to it: the machine ID starts unset, is assigned  *)
(* once and never replaced, and a join announces the current ID (possibly *)
(* still unset) to the control plane.                                     *)
(***************************************************************************)
CONSTANTS
  Ids,     \* machine IDs the control plane can assign
  Unset    \* the value of an unset ID

ASSUME Unset \notin Ids

VARIABLES
  identity,   \* the stored machine ID
  announced   \* the IDs the control plane received join requests for

Init == identity = Unset /\ announced = {}

\* The control plane assigns an ID, which is stored.
Assign ==
  /\ identity = Unset
  /\ identity' \in Ids
  /\ UNCHANGED announced

\* A join announces the stored ID.
Join ==
  /\ announced' = announced \cup {identity}
  /\ UNCHANGED identity

Spec == Init /\ [][Assign \/ Join]_<<identity, announced>>
=============================================================================
