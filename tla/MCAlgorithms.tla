---------------------------- MODULE MCAlgorithms ---------------------------
(***************************************************************************)
(* The pure algorithms of the code compared with reference definitions.   *)
(* The states are of two kinds, built from the same empty state: event    *)
(* histories and sequences of plugin specs.                                *)
(*                                                                         *)
(* The port-drop and port-flap scans of IbHistory compared with their      *)
(* reference definitions over every history of up to MaxEvents events, as *)
(* readAllIbstatEvents returns them (ascending time), read by a check at   *)
(* time Now.  The windows have the values of component.go.                 *)
(*                                                                         *)
(* The plugin order of gpud custom-plugins compared with "init first, then *)
(* the rest, each in file order" over every sequence of up to MaxSpecs    *)
(* specs, MaxSpecs at most 12 (the insertion-sort path of sort.Slice).    *)
(***************************************************************************)
EXTENDS IbHistory, PluginOrder, TLC

CONSTANTS d1, d2, Now, Times, MaxEvents, SpecTypes, MaxSpecs

ASSUME MaxSpecs <= 12

MCDevices == {d1, d2}

\* Payloads of a check: both ports, one of them (partial ibstat output), or
\* none (no output).
MCPayloads == {pl \in Payloads : Cardinality(DevicesOf(pl)) = Cardinality(pl)}

VARIABLES evs, specs

\* Histories are built by appending events in ascending time order, as
\* readAllIbstatEvents returns them; every prefix is itself a history.
Init == evs = <<>> /\ specs = <<>>

AppendEvent ==
  /\ specs = <<>> /\ Len(evs) < MaxEvents
  /\ \E t \in Times, pl \in MCPayloads :
       /\ IF evs = <<>> THEN TRUE ELSE t > evs[Len(evs)].time
       /\ evs' = Append(evs, [time |-> t, name |-> "ibstat", ports |-> pl])
  /\ UNCHANGED specs

\* A plugin spec file is built one spec at a time, of any type.
AppendSpec ==
  /\ evs = <<>> /\ Len(specs) < MaxSpecs
  /\ \E ty \in SpecTypes : specs' = Append(specs, [pos |-> Len(specs) + 1, type |-> ty])
  /\ UNCHANGED evs

\* A history that is full, or whose last event has the latest time, stays,
\* and so does a full spec file.
Complete ==
  /\ \/ Len(evs) = MaxEvents
     \/ evs # <<>> /\ \A t \in Times : t <= evs[Len(evs)].time
     \/ Len(specs) = MaxSpecs
  /\ UNCHANGED <<evs, specs>>

Next == AppendEvent \/ AppendSpec \/ Complete

(* The port-drop report of evaluateIbPortDrop names exactly the devices   *)
(* that were read "Down" in every reading since a first one at least     *)
(* DropAfter old, with the time of that first reading.                    *)
DropScanMatchesReference == PortDrop(evs, Now) = DropReference(evs, Now)

(* The port-flap report of evaluateIbPortFlap names exactly the devices   *)
(* whose recent readings change state, with the last FlapKeep states of   *)
(* the readings with repeats removed.                                     *)
FlapScanMatchesReference == PortFlap(evs, Now) = FlapReference(evs, Now)

(* gpud custom-plugins executes the "init" specs first and keeps the file *)
(* order within each group: sort.Slice with the less function of          *)
(* command.go:68-74 is not a stable sort, and the less function compares  *)
(* positions that move while the slice is sorted.                         *)
PluginsInitFirst == SortSpecs(specs) = InitFirst(specs)
=============================================================================
