----------------------------- MODULE IbHistory -----------------------------
(***************************************************************************)
(* The history side of the infiniband component                            *)
(* (src/components/accelerator/nvidia/infiniband/component.go): the event  *)
(* record written once per check (convertToIbstatEvent), the read of all   *)
(* "ibstat" events since a time (readAllIbstatEvents over the event        *)
(* bucket's Get), and the two scans over that history: the port-drop scan  *)
(* of evaluateIbPortDrop and the port-flap scan of evaluateIbPortFlap.     *)
(*                                                                         *)
(* Time is an integer number of minutes.  An event's payload keeps only    *)
(* the device and state of each port (physical state and rate are          *)
(* dropped, component.go:339-350), so it is a set of [device, state]       *)
(* records; devices are unique within one payload.                         *)
(***************************************************************************)
EXTENDS Integers, Sequences, FiniteSets

CONSTANTS
  Devices,     \* port device names (model values)
  States,      \* port state strings reported by ibstat/ibstatus
  Lookback,    \* history read window of both scans (10 minutes in the code)
  DropAfter,   \* minimum continuous down time reported as a drop (4 minutes)
  FlapWindow,  \* only events at most this old build flap transitions (4 minutes)
  FlapKeep     \* transitions kept per device (last 4 entries)

ASSUME /\ "Active" \in States /\ "Down" \in States
       /\ DropAfter \in Nat \ {0} /\ FlapWindow \in Nat /\ FlapKeep \in Nat \ {0}
       /\ Lookback \in Nat /\ DropAfter <= Lookback /\ FlapWindow <= Lookback

Payloads == SUBSET [device : Devices, state : States]

\* The devices named in a payload.
DevicesOf(ports) == {p.device : p \in ports}

(***************************************************************************)
(* Event store (pkg/eventstore, not part of this repository): Get(since)   *)
(* returns the stored events with time >= since in ascending time order.   *)
(* The store is kept in insertion order; events with equal times keep      *)
(* their insertion order (the order of an indexed timestamp scan).         *)
(***************************************************************************)
RECURSIVE InsertByTime(_, _)
InsertByTime(e, s) ==
  IF s = <<>> \/ e.time < Head(s).time
  THEN <<e>> \o s
  ELSE <<Head(s)>> \o InsertByTime(e, Tail(s))

RECURSIVE SortByTime(_)
SortByTime(s) ==
  IF s = <<>> THEN <<>>
  ELSE InsertByTime(s[Len(s)], SortByTime(SubSeq(s, 1, Len(s) - 1)))

Get(store, since) == SortByTime(SelectSeq(store, LAMBDA e : e.time >= since))

\* readAllIbstatEvents: the "ibstat" events since a time, ascending.
ReadAllIbstatEvents(store, since) ==
  SelectSeq(Get(store, since), LAMBDA e : e.name = "ibstat")

(***************************************************************************)
(* Port-drop scan (evaluateIbPortDrop): a map from device to the time the  *)
(* device was first seen down; a reading in any state other than "Down"    *)
(* deletes the device's entry, a "Down" reading adds one if absent.        *)
(***************************************************************************)
\* Mutation: a reading in another state does not clear the device.
DropStepNoDelete(m, ev) ==
  LET down == {p.device : p \in {q \in ev.ports : q.state = "Down"}}
  IN [d \in DOMAIN m \cup down |-> IF d \in DOMAIN m THEN m[d] ELSE ev.time]

DropStep(m, ev) ==
  LET up   == {p.device : p \in {q \in ev.ports : q.state # "Down"}}
      down == {p.device : p \in {q \in ev.ports : q.state = "Down"}}
      kept == DOMAIN m \ up
  IN [d \in kept \cup down |-> IF d \in kept THEN m[d] ELSE ev.time]

RECURSIVE DroppedSince(_)
DroppedSince(evs) ==
  IF evs = <<>> THEN [d \in {} |-> 0]
  ELSE DropStep(DroppedSince(SubSeq(evs, 1, Len(evs) - 1)), evs[Len(evs)])

\* The drop report: the devices still tracked for at least DropAfter, with
\* the time they were first seen down (the "dropped ... ago" message).
\* Entries with a negative or too short elapsed time are skipped.
\* Mutation: a drop must last strictly longer than DropAfter.
DropReportStrict(evs, ts) ==
  LET m == DroppedSince(evs)
  IN {[device |-> d, since |-> m[d]] : d \in {x \in DOMAIN m : ts - m[x] > DropAfter}}

DropReport(evs, ts) ==
  LET m == DroppedSince(evs)
  IN {[device |-> d, since |-> m[d]] : d \in {x \in DOMAIN m : ts - m[x] >= DropAfter}}

\* The whole of evaluateIbPortDrop once the verdict is unhealthy and the
\* history has been read: too little history gives no report.
PortDrop(evs, ts) ==
  IF evs = <<>> \/ (Len(evs) = 1 /\ evs[1].time = ts) THEN {}
  ELSE DropReport(evs, ts)

(***************************************************************************)
(* Port-flap scan (evaluateIbPortFlap): per device, the states of the      *)
(* events at most FlapWindow old, with repeats of the last state dropped.  *)
(***************************************************************************)
\* Mutation: a reading is appended even when it repeats the last state.
FlapStepNoDedup(m, ev) ==
  [d \in DOMAIN m \cup DevicesOf(ev.ports) |->
     LET s == (CHOOSE p \in ev.ports : p.device = d).state
     IN IF d \notin DevicesOf(ev.ports) THEN m[d]
        ELSE IF d \notin DOMAIN m THEN <<s>> ELSE Append(m[d], s)]

FlapStep(m, ev) ==
  [d \in DOMAIN m \cup DevicesOf(ev.ports) |->
     LET s == (CHOOSE p \in ev.ports : p.device = d).state
     IN IF d \notin DevicesOf(ev.ports) THEN m[d]
        ELSE IF d \notin DOMAIN m \/ m[d] = <<>> THEN <<s>>
        ELSE IF m[d][Len(m[d])] # s THEN Append(m[d], s)
        ELSE m[d]]

RECURSIVE StateTransitions(_, _)
StateTransitions(evs, ts) ==
  IF evs = <<>> THEN [d \in {} |-> <<>>]
  ELSE LET m  == StateTransitions(SubSeq(evs, 1, Len(evs) - 1), ts)
           ev == evs[Len(evs)]
       IN IF ts - ev.time > FlapWindow THEN m ELSE FlapStep(m, ev)

\* The last FlapKeep entries of a transition list.
\* Mutation: one entry too many is kept.
KeepLastOneMore(t) == IF Len(t) > FlapKeep + 1 THEN SubSeq(t, Len(t) - FlapKeep, Len(t)) ELSE t

KeepLast(t) == IF Len(t) > FlapKeep THEN SubSeq(t, Len(t) - FlapKeep + 1, Len(t)) ELSE t

\* The whole of evaluateIbPortFlap once the history has been read.
PortFlap(evs, ts) ==
  IF Len(evs) <= 1 \/ ts - evs[1].time < 0 THEN {}
  ELSE LET m == StateTransitions(evs, ts)
       IN {[device |-> d, transitions |-> KeepLast(m[d])] :
             d \in {x \in DOMAIN m : Len(m[x]) >= 2}}

-----------------------------------------------------------------------------
(***************************************************************************)
(* Reference definitions of the two reports, stated from what the reports  *)
(* mean rather than how the scans compute them.                           *)
(***************************************************************************)

\* The indices of the events that read device d, and whether it read "Down".
ReadsOf(evs, d) == {i \in DOMAIN evs : d \in DevicesOf(evs[i].ports)}
ReadDown(evs, i, d) == [device |-> d, state |-> "Down"] \in evs[i].ports

\* A drop since the first of the readings of d after which d was read in no
\* other state than "Down", when that is at least DropAfter old.
DropReference(evs, ts) ==
  IF evs = <<>> \/ (Len(evs) = 1 /\ evs[1].time = ts) THEN {}
  ELSE {[device |-> d, since |-> evs[i].time] :
          <<d, i>> \in {<<x, j>> \in Devices \X DOMAIN evs :
                          /\ j \in ReadsOf(evs, x)
                          /\ \A k \in ReadsOf(evs, x) : k >= j => ReadDown(evs, k, x)
                          /\ \A k \in ReadsOf(evs, x) :
                               k < j => ~\A l \in ReadsOf(evs, x) : l >= k => ReadDown(evs, l, x)
                          /\ ts - evs[j].time >= DropAfter}}

\* The states of d in the events at most FlapWindow old, in order.
RecentStates(evs, ts, d) ==
  LET sel == SelectSeq(evs, LAMBDA e : ts - e.time <= FlapWindow /\ d \in DevicesOf(e.ports))
  IN [k \in 1..Len(sel) |-> (CHOOSE q \in sel[k].ports : q.device = d).state]

\* A sequence without the entries equal to the one before them.
Collapsed(r) ==
  LET P == {k \in DOMAIN r : k = 1 \/ r[k] # r[k - 1]}
      nth(m) == CHOOSE k \in P : Cardinality({j \in P : j <= k}) = m
  IN [m \in 1..Cardinality(P) |-> r[nth(m)]]

\* The suffix of r of length at most FlapKeep.
Newest(r) ==
  LET n == IF Len(r) < FlapKeep THEN Len(r) ELSE FlapKeep
  IN [k \in 1..n |-> r[Len(r) - n + k]]

\* A flap for every device that changed state among its recent readings.
FlapReference(evs, ts) ==
  IF Len(evs) <= 1 \/ evs[1].time > ts THEN {}
  ELSE {[device |-> d, transitions |-> Newest(Collapsed(RecentStates(evs, ts, d)))] :
          d \in {x \in Devices : Len(Collapsed(RecentStates(evs, ts, x))) >= 2}}

=============================================================================
