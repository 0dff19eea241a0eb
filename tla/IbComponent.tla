---------------------------- MODULE IbComponent ----------------------------
(***************************************************************************)
(* The infiniband health check of gpud                                     *)
(* (src/components/accelerator/nvidia/infiniband/component.go).            *)
(*                                                                         *)
(* Check() runs once per minute from the goroutine of Start() and may also *)
(* be called on demand (the server's component-check trigger, reached by   *)
(* "gpud run-plugin-group").  Each call builds a fresh checkResult (cr) in *)
(* three steps that other callers can interleave with:                     *)
(*   Acquire  - thresholds, NVML and checker guards, the ibstatus and      *)
(*              ibstat calls and evaluateThresholds (lines 165-249);       *)
(*   Record   - recordIbEvent: Find, then Insert, two steps (389-424);     *)
(*   Analyze  - the switch-fault, port-drop and port-flap evaluations      *)
(*              (lines 258-262).                                           *)
(* Every return of Check publishes cr as lastCheckResult (the deferred     *)
(* function of lines 171-175).                                             *)
(*                                                                         *)
(* The environment: the wall clock (which NTP may step back), the port     *)
(* states the tools read, their outcomes, event-store failures and         *)
(* restarts of the gpud process (the event store persists,                 *)
(* lastCheckResult does not).  Ports may change at any time, so each       *)
(* check reads any port values; only what a check reads is kept.           *)
(***************************************************************************)
EXTENDS IbHistory

CONSTANTS
  Checkers,          \* callers of Check: the Start loop and on-demand triggers
  Loop,              \* the caller that is the Start() goroutine
  Rates,             \* port rates reported by the tools
  ThresholdChoices,  \* values getThresholdsFunc may return
  NvmlChoices,       \* states of the NVML instance at process start
  NoOutput,          \* a nil *IbstatOutput / *IbstatusOutput
  NoData,            \* a nil lastCheckResult
  MaxTime,           \* bound on the wall clock (minutes), see TimeBound
  MaxClockJumps,     \* bound on backward steps of the wall clock
  MaxRestarts,       \* bound on gpud process restarts
  MaxTriggers,       \* bound on on-demand Check calls
  MaxStoreFaults,    \* bound on failed event-store calls
  MaxCloses          \* bound on calls of Close()

ASSUME /\ Loop \in Checkers
       /\ ThresholdChoices \subseteq [ports : Nat, rate : Nat]
       /\ NvmlChoices \subseteq {"nil", "notLoaded", "noProduct", "ok"}

VARIABLES
  config,     \* per process lifetime: thresholds, NVML state, tool funcs, bucket
  now,        \* wall clock, minutes
  due,        \* a tick of the Start() ticker is pending
  store,      \* the event bucket, in insertion order
  pc,         \* per caller: "idle", "record", "insert" or "analyze"
  cr,         \* per caller: the checkResult being built
  last,       \* lastCheckResult, guarded by lastMu
  started,    \* number of Check calls started (orders them)
  unrecorded, \* events built by checks whose Find or Insert failed
  closed,     \* Close() has cancelled c.ctx and closed the bucket
  exited,     \* the goroutine of Start() has returned
  jumps, restarts, triggers, faults, closes

life == <<closed, exited, closes>>
vars == <<config, now, due, store, pc, cr, last, started, unrecorded, life,
          jumps, restarts, triggers, faults>>

PortValues == [state : States, rate : Rates]
Reasons == {"thresholdNotSet", "nil", "notLoaded", "noProduct", "checkerNotFound",
            "ibstatNotFound", "ibstatFailed", "missingBucket", "missingOutput",
            "violation", "noIssue", "findError", "insertError"}
Errors == {"none", "ibstatNotFound", "ibstatFailed", "find", "insert"}

(***************************************************************************)
(* checkResult.  ibstatErr (the error of the ibstat call) and recorded     *)
(* (this check's event is in the bucket) are history fields that the      *)
(* properties read; seq orders the calls of Check.                         *)
(***************************************************************************)
Fresh(ts) ==
  [seq |-> started + 1, ts |-> ts, ibstatOut |-> NoOutput, ibstatusOut |-> NoOutput,
   allPorts |-> {}, err |-> "none", ibstatErr |-> "none", health |-> "Healthy",
   reason |-> "noIssue", suggested |-> FALSE, unhealthy |-> {},
   switchFault |-> FALSE, drop |-> {}, flap |-> {}, recorded |-> FALSE]

\* ExpectedPortStates.IsZero
IsZero(th) == th.ports = 0 /\ th.rate = 0

\* What a tool prints for the devices in S when the ports are in state pv.
PortsOf(pv, S) == {[device |-> d, state |-> pv[d].state, rate |-> pv[d].rate] : d \in S}

(***************************************************************************)
(* infiniband.EvaluatePortsAndRate (pkg/nvidia-query/infiniband, not in    *)
(* this repository): a port is good when active at least at the rate; the  *)
(* others are unhealthy, reported only when too few ports are good.        *)
(***************************************************************************)
GoodPorts(all, th) == {p \in all : p.state = "Active" /\ p.rate >= th.rate}
PolicyViolated(all, th) == Cardinality(GoodPorts(all, th)) < th.ports
UnhealthyPorts(all, th) == {p.device : p \in all \ GoodPorts(all, th)}

\* evaluateThresholds
EvaluateThresholds(c, th) ==
  IF IsZero(th)
  THEN [c EXCEPT !.health = "Healthy", !.suggested = FALSE, !.unhealthy = {},
                 !.reason = "thresholdNotSet", !.err = "none"]
  ELSE IF c.allPorts = {}
  THEN [c EXCEPT !.reason = "missingOutput", !.health = "Healthy"]
  ELSE IF PolicyViolated(c.allPorts, th)
  THEN [c EXCEPT !.health = "Unhealthy", !.suggested = TRUE,
                 !.unhealthy = UnhealthyPorts(c.allPorts, th), !.reason = "violation"]
  ELSE [c EXCEPT !.health = "Healthy", !.suggested = FALSE, !.unhealthy = {},
                 !.reason = "noIssue", !.err = "none"]

\* Outcomes of GetIbstatOutput: no error means every port was listed;
\* "command not found" comes with no output; a failed run may have no
\* output, or a parsed output with some, all or none of the ports.
IbstatOutcomes(pv) ==
  {[out |-> PortsOf(pv, Devices), err |-> "none"],
   [out |-> NoOutput, err |-> "ibstatNotFound"],
   [out |-> NoOutput, err |-> "ibstatFailed"]} \cup
  {[out |-> PortsOf(pv, S), err |-> "ibstatFailed"] : S \in SUBSET Devices}

\* Outcomes of GetIbstatusOutput: every port, or an error and no output.
IbstatusOutcomes(pv) == {PortsOf(pv, Devices), NoOutput}

\* Once Close has cancelled c.ctx, the contexts of the two calls are done
\* when they start: neither command runs, and ibstat can only report that
\* it is not installed or fail with no output.
StatusOutcomes(pv) == IF closed THEN {NoOutput} ELSE IbstatusOutcomes(pv)
StatOutcomes(pv) ==
  IF closed THEN {o \in IbstatOutcomes(pv) : o.out = NoOutput} ELSE IbstatOutcomes(pv)

\* The ibstatus and ibstat calls and the handling of the ibstat error.
Acquired(c, status, stat) ==
  [c EXCEPT !.ibstatusOut = status, !.ibstatOut = stat.out,
            !.err = stat.err, !.ibstatErr = stat.err,
            !.health = IF stat.err = "ibstatFailed" THEN "Unhealthy" ELSE "Healthy",
            !.reason = IF stat.err = "none" THEN c.reason ELSE stat.err]

\* The ports to evaluate: ibstat's if it printed any output, else ibstatus'.
WithPorts(c) ==
  [c EXCEPT !.allPorts = IF c.ibstatOut # NoOutput THEN c.ibstatOut
                         ELSE IF c.ibstatusOut # NoOutput THEN c.ibstatusOut
                         ELSE {}]

\* Mutation: the caller's checkResult is not dropped when published.
PublishKeepCr(p, v) ==
  /\ last' = v
  /\ pc' = [pc EXCEPT ![p] = "idle"]
  /\ UNCHANGED cr

\* The deferred publication of cr when Check returns.
Publish(p, v) ==
  /\ last' = v
  /\ pc' = [pc EXCEPT ![p] = "idle"]
  /\ cr' = [cr EXCEPT ![p] = NoData]

\* gpud run-plugin-group: TriggerComponentCheckByTag makes the server call
\* Check of the component outside the loop; a missing tag, a logger error
\* or a failed request triggers nothing.
Trigger(p) ==
  /\ p # Loop /\ triggers < MaxTriggers
  /\ triggers' = triggers + 1 /\ UNCHANGED due

\* Check is entered by the loop on a tick, or by a trigger.  After Close
\* the loop's select may still take a pending tick: Go picks at random
\* between ready cases (component.go:111-115).
Enter(p) ==
  \/ /\ p = Loop /\ due /\ ~exited
     /\ due' = FALSE /\ UNCHANGED triggers
  \/ Trigger(p)

\* Check, up to and including evaluateThresholds.
Acquire(p) ==
  /\ pc[p] = "idle"
  /\ Enter(p)
  /\ started' = started + 1
  /\ LET c == Fresh(now)
         th == config.thresholds
     IN \/ /\ IsZero(th)
           /\ Publish(p, [c EXCEPT !.reason = "thresholdNotSet"])
        \/ /\ ~IsZero(th) /\ config.nvml # "ok"
           /\ Publish(p, [c EXCEPT !.reason = config.nvml])
        \/ /\ ~IsZero(th) /\ config.nvml = "ok" /\ ~config.toolFuncs
           /\ Publish(p, [c EXCEPT !.reason = "checkerNotFound"])
        \/ /\ ~IsZero(th) /\ config.nvml = "ok" /\ config.toolFuncs
           /\ \E pv \in [Devices -> PortValues] :
              \E status \in StatusOutcomes(pv), stat \in StatOutcomes(pv) :
                LET a == Acquired(c, status, stat)
                IN IF ~config.bucket
                   THEN Publish(p, [a EXCEPT !.reason = "missingBucket",
                                             !.health = "Healthy"])
                   ELSE /\ pc' = [pc EXCEPT ![p] = "record"]
                        /\ cr' = [cr EXCEPT ![p] = EvaluateThresholds(WithPorts(a), th)]
                        /\ UNCHANGED last
  /\ UNCHANGED <<config, now, store, unrecorded, life, jumps, restarts, faults>>

\* convertToIbstatEvent
IbstatEvent(c) ==
  [time |-> c.ts, name |-> "ibstat",
   type |-> IF c.unhealthy # {} THEN "warning" ELSE "info",
   message |-> c.reason,
   ports |-> {[device |-> q.device, state |-> q.state] : q \in c.allPorts}]

\* Bucket.Find (pkg/eventstore, not in this repository): an equal event.
Found(ev) == \E i \in DOMAIN store : store[i] = ev

\* A failed Find or Insert ends Check with an unhealthy cr.  After Close
\* every store call fails (its context is done); that is not a fault.
StoreFail(p, e, r) ==
  LET c == cr[p] IN
  /\ closed \/ faults < MaxStoreFaults
  /\ faults' = IF closed THEN faults ELSE faults + 1
  /\ unrecorded' = unrecorded \cup {IbstatEvent(c)}
  /\ Publish(p, [c EXCEPT !.err = e, !.health = "Unhealthy", !.reason = r])
  /\ UNCHANGED store

\* The event is in the bucket: go on to the evaluations.
Recorded(p, c) ==
  /\ pc' = [pc EXCEPT ![p] = "analyze"]
  /\ cr' = [cr EXCEPT ![p] = [c EXCEPT !.recorded = TRUE]]
  /\ UNCHANGED <<last, faults, unrecorded>>

\* Mutation: the result of Find is not consulted.
RecordFindIgnored(p) ==
  /\ pc[p] = "record"
  /\ \/ StoreFail(p, "find", "findError")
     \/ /\ ~closed
        /\ pc' = [pc EXCEPT ![p] = "insert"]
        /\ UNCHANGED <<store, cr, last, faults, unrecorded>>
  /\ UNCHANGED <<config, now, due, started, life, jumps, restarts, triggers>>

\* recordIbEvent, the Find lookup: an equal event ends the recording.
RecordFind(p) ==
  /\ pc[p] = "record"
  /\ \/ StoreFail(p, "find", "findError")
     \/ /\ ~closed /\ Found(IbstatEvent(cr[p]))
        /\ Recorded(p, cr[p]) /\ UNCHANGED store
     \/ /\ ~closed /\ ~Found(IbstatEvent(cr[p]))
        /\ pc' = [pc EXCEPT ![p] = "insert"]
        /\ UNCHANGED <<store, cr, last, faults, unrecorded>>
  /\ UNCHANGED <<config, now, due, started, life, jumps, restarts, triggers>>

\* recordIbEvent, the Insert after a missed Find; its result is assigned
\* to cr.err, also when it succeeds.
RecordInsert(p) ==
  /\ pc[p] = "insert"
  /\ \/ StoreFail(p, "insert", "insertError")
     \/ /\ ~closed /\ store' = Append(store, IbstatEvent(cr[p]))
        /\ Recorded(p, [cr[p] EXCEPT !.err = "none"])
  /\ UNCHANGED <<config, now, due, started, life, jumps, restarts, triggers>>

\* Mutation: the total port count prefers the ibstatus output.
SwitchFaultStatusFirst(c) ==
  LET total == IF c.ibstatusOut # NoOutput THEN Cardinality(c.ibstatusOut)
               ELSE IF c.ibstatOut # NoOutput THEN Cardinality(c.ibstatOut)
               ELSE 0
  IN /\ c.health = "Unhealthy"
     /\ c.unhealthy # {}
     /\ total # 0 /\ Cardinality(c.unhealthy) = total

\* evaluateIbSwitchFault
SwitchFault(c) ==
  LET total == IF c.ibstatOut # NoOutput THEN Cardinality(c.ibstatOut)
               ELSE IF c.ibstatusOut # NoOutput THEN Cardinality(c.ibstatusOut)
               ELSE 0
  IN /\ c.health = "Unhealthy"
     /\ c.unhealthy # {}
     /\ total # 0 /\ Cardinality(c.unhealthy) = total

\* evaluateIbSwitchFault, evaluateIbPortDrop and evaluateIbPortFlap, then
\* the return of Check.  Each of the two history reads may fail, which
\* leaves its reason unset; after Close both reads that happen fail.
Analyze(p) ==
  /\ pc[p] = "analyze"
  /\ LET c == cr[p]
         evs == ReadAllIbstatEvents(store, c.ts - Lookback)
     IN \E dropOk, flapOk \in BOOLEAN :
          /\ c.health = "Healthy" => dropOk
          /\ closed => ~flapOk /\ (c.health = "Unhealthy" => ~dropOk)
          /\ faults' = IF closed THEN faults
                       ELSE faults + (IF dropOk THEN 0 ELSE 1) + (IF flapOk THEN 0 ELSE 1)
          /\ faults' <= MaxStoreFaults
          /\ Publish(p, [c EXCEPT
                 !.switchFault = SwitchFault(c),
                 !.drop = IF c.health = "Unhealthy" /\ dropOk
                          THEN PortDrop(evs, c.ts) ELSE {},
                 !.flap = IF flapOk THEN PortFlap(evs, c.ts) ELSE {}])
  /\ UNCHANGED <<config, now, due, store, started, unrecorded, life,
                 jumps, restarts, triggers>>

(***************************************************************************)
(* Environment.                                                            *)
(***************************************************************************)

\* A minute passes; the ticker of Start() fires (one pending tick at most).
Tick ==
  /\ now' = now + 1 /\ due' = TRUE
  /\ UNCHANGED <<config, store, pc, cr, last, started, unrecorded, life,
                 jumps, restarts, triggers, faults>>

\* The wall clock is stepped back; time.Now() goes back, the ticker does not.
ClockStepBack ==
  /\ jumps < MaxClockJumps /\ now > 0
  /\ jumps' = jumps + 1 /\ now' = now - 1
  /\ UNCHANGED <<config, due, store, pc, cr, last, started, unrecorded, life,
                 restarts, triggers, faults>>

\* gpud stops and starts again: in-flight checks are lost, the event store
\* persists, lastCheckResult starts nil, a new component is not closed and
\* Start() checks at once.
Restart ==
  /\ restarts < MaxRestarts
  /\ restarts' = restarts + 1
  /\ pc' = [p \in Checkers |-> "idle"] /\ cr' = [p \in Checkers |-> NoData]
  /\ last' = NoData /\ due' = TRUE
  /\ closed' = FALSE /\ exited' = FALSE
  /\ UNCHANGED <<config, now, store, started, unrecorded, jumps,
                 triggers, faults, closes>>

\* Close: c.cancel() and the bucket's Close.  Checks in flight go on, and
\* each of their later tool and store calls fails.
Close ==
  /\ ~closed /\ closes < MaxCloses
  /\ closed' = TRUE /\ closes' = closes + 1
  /\ UNCHANGED <<config, now, due, store, pc, cr, last, started, unrecorded,
                 exited, jumps, restarts, triggers, faults>>

\* Mutation: the loop waits on a context that Close does not cancel.
LoopExitMissing ==
  /\ pc[Loop] = "idle" /\ closed /\ ~exited /\ FALSE
  /\ exited' = TRUE
  /\ UNCHANGED <<config, now, due, store, pc, cr, last, started, unrecorded,
                 closed, closes, jumps, restarts, triggers, faults>>

\* The loop, between two checks, takes the ctx.Done case of its select
\* and returns.
LoopExit ==
  /\ pc[Loop] = "idle" /\ closed /\ ~exited
  /\ exited' = TRUE
  /\ UNCHANGED <<config, now, due, store, pc, cr, last, started, unrecorded,
                 closed, closes, jumps, restarts, triggers, faults>>

Init ==
  /\ config \in [thresholds : ThresholdChoices, nvml : NvmlChoices,
                 toolFuncs : BOOLEAN, bucket : BOOLEAN]
  /\ now = 0 /\ due = TRUE
  /\ store = <<>>
  /\ pc = [p \in Checkers |-> "idle"] /\ cr = [p \in Checkers |-> NoData]
  /\ last = NoData /\ started = 0 /\ unrecorded = {}
  /\ closed = FALSE /\ exited = FALSE /\ closes = 0
  /\ jumps = 0 /\ restarts = 0 /\ triggers = 0 /\ faults = 0

Next ==
  \/ \E p \in Checkers : Acquire(p) \/ RecordFind(p) \/ RecordInsert(p) \/ Analyze(p)
  \/ Tick \/ ClockStepBack \/ Restart \/ Close \/ LoopExit

Spec == Init /\ [][Next]_vars

(***************************************************************************)
(* The goroutine of Start() runs Check synchronously and every tool and    *)
(* store call in it is bounded by a 15-second timeout, so a check the loop *)
(* can take a step of is never delayed forever.  Its select, once c.ctx is *)
(* done, returns at once; when a tick is pending too, Go picks either case *)
(* at random, so the ctx.Done case is not passed over forever: strong    *)
(* fairness.                                                               *)
(***************************************************************************)
LoopFairness ==
  /\ WF_vars(Acquire(Loop))
  /\ WF_vars(RecordFind(Loop))
  /\ WF_vars(RecordInsert(Loop))
  /\ WF_vars(Analyze(Loop))
  /\ SF_vars(LoopExit)

FairSpec == Spec /\ LoopFairness

(***************************************************************************)
(* What a reader of the component sees: LastHealthStates reads            *)
(* lastCheckResult under lastMu and renders it with HealthStates.  The     *)
(* Summary is the base reason followed by the switch-fault, drop and flap  *)
(* reasons that are set; getError is the ibstat/store error only.          *)
(***************************************************************************)
Summary(v) ==
  <<v.reason>> \o (IF v.switchFault THEN <<"switchFault">> ELSE <<>>)
               \o (IF v.drop # {} THEN <<"portDrop">> ELSE <<>>)
               \o (IF v.flap # {} THEN <<"portFlap">> ELSE <<>>)

HealthStates(v) ==
  IF v = NoData
  THEN [health |-> "Healthy", reason |-> <<"noData">>, error |-> "none", suggested |-> FALSE]
  ELSE [health |-> v.health, reason |-> Summary(v), error |-> v.err, suggested |-> v.suggested]

LastHealthStates == HealthStates(last)

\* State constraint of the model-checking runs: the clock never passes MaxTime.
TimeBound == now <= MaxTime

\* Events older than this can never be read again: every later check reads
\* from at least its own time minus Lookback, and its time is at most
\* MaxClockJumps behind the clock.
Readable(e) == e.time >= now - Lookback - MaxClockJumps

(***************************************************************************)
(* View of the runs that check DropReportSound.  It drops what no action  *)
(* reads again and those properties do not read:                           *)
(* events no later check can read, the fields of the published verdict    *)
(* other than those the properties read, the order of calls (started,   *)
(* seq), the lost readings, the fields of an unfinished checkResult that   *)
(* only reach the verdict (err, ibstatErr, suggested, recorded), and the   *)
(* ibstatus output when ibstat printed some (it is then never read).       *)
(***************************************************************************)
CrView(c) ==
  IF c = NoData THEN NoData
  ELSE [c EXCEPT !.seq = 0, !.err = "none", !.ibstatErr = "none",
                 !.suggested = FALSE, !.recorded = FALSE,
                 !.ibstatusOut = IF c.ibstatOut # NoOutput THEN NoOutput ELSE @]

LastView(v) ==
  IF v = NoData THEN NoData
  ELSE [ts |-> v.ts, allPorts |-> v.allPorts, drop |-> v.drop, flap |-> v.flap,
        health |-> v.health, unhealthy |-> v.unhealthy, switchFault |-> v.switchFault,
        recorded |-> v.recorded]

View == <<config, now, due, SelectSeq(store, Readable), pc,
          [p \in Checkers |-> CrView(cr[p])], LastView(last),
          life, jumps, restarts, triggers, faults>>

\* The view of the run that checks the switch-fault count: it keeps the
\* ibstatus output, which evaluateIbSwitchFault may read.
SwitchView == <<config, now, due, SelectSeq(store, Readable), pc,
                [p \in Checkers |-> IF cr[p] = NoData THEN NoData
                                    ELSE [CrView(cr[p]) EXCEPT !.ibstatusOut = cr[p].ibstatusOut]],
                LastView(last), life, jumps, restarts, triggers, faults>>

\* The events a check can build before the clock passes MaxTime.
RecordableEvents ==
  [time : 0..MaxTime, name : {"ibstat"}, type : {"info", "warning"},
   message : Reasons, ports : Payloads]

\* The bucket as EventLog describes it.
Log == INSTANCE EventLog WITH Events <- RecordableEvents, log <- store

-----------------------------------------------------------------------------
(***************************************************************************)
(* Properties.                                                             *)
(***************************************************************************)

Events == [time : Int, name : {"ibstat"}, type : {"info", "warning"},
           message : Reasons, ports : Payloads]

Verdicts == [seq : Nat, ts : Int, ibstatOut : {NoOutput} \cup SUBSET [device : Devices, state : States, rate : Rates],
             ibstatusOut : {NoOutput} \cup SUBSET [device : Devices, state : States, rate : Rates],
             allPorts : SUBSET [device : Devices, state : States, rate : Rates],
             err : Errors, ibstatErr : Errors, health : {"Healthy", "Unhealthy"},
             reason : Reasons, suggested : BOOLEAN, unhealthy : SUBSET Devices,
             switchFault : BOOLEAN, drop : SUBSET [device : Devices, since : Int],
             flap : SUBSET [device : Devices, transitions : Seq(States)],
             recorded : BOOLEAN]

TypeOK ==
  /\ now \in Nat /\ due \in BOOLEAN
  /\ store \in Seq(Events)
  /\ pc \in [Checkers -> {"idle", "record", "insert", "analyze"}]
  /\ cr \in [Checkers -> Verdicts \cup {NoData}]
  /\ \A p \in Checkers : (pc[p] = "idle") = (cr[p] = NoData)
  /\ last \in Verdicts \cup {NoData}
  /\ unrecorded \subseteq Events
  /\ closed \in BOOLEAN /\ exited \in BOOLEAN /\ exited => closed

(***************************************************************************)
(* A published port-drop report is sound: every device it names was read   *)
(* "Down" by a stored check at the reported time, at least DropAfter       *)
(* before this check, and this check itself did not read the device in    *)
(* any other state.  The last clause needs the check's own reading to be   *)
(* stored before the history is read and to sort after every older        *)
(* reading, across concurrent checks, restarts, store failures and a wall *)
(* clock that steps back (evaluateIbPortDrop, recordIbEvent).              *)
(***************************************************************************)
DropReportSound ==
  last # NoData =>
    \A r \in last.drop :
      /\ last.ts - r.since >= DropAfter
      /\ \E i \in DOMAIN store :
           store[i].time = r.since /\ [device |-> r.device, state |-> "Down"] \in store[i].ports
      /\ \A q \in last.allPorts : q.device = r.device => q.state = "Down"

\* The states a sequence takes.
StatesIn(t) == {t[k] : k \in DOMAIN t}

(***************************************************************************)
(* A published port-flap report is built from the trailing window only:    *)
(* every state in its transitions was read for the device by a stored      *)
(* check at most FlapWindow before this check and not after it (spec.md    *)
(* section 4.6, "observed strictly within the last 4 minutes").            *)
(* evaluateIbPortFlap rejects a history whose oldest event is later than   *)
(* the check (component.go:644-649) but skips only events older than the   *)
(* window (656-658), so an event stamped after the check's time, by a      *)
(* concurrent check or before a clock step, is counted.                    *)
(***************************************************************************)
FlapFromTrailingWindow ==
  last # NoData =>
    \A r \in last.flap :
      \A s \in StatesIn(r.transitions) :
        \E i \in DOMAIN store :
          /\ last.ts - FlapWindow <= store[i].time /\ store[i].time <= last.ts
          /\ [device |-> r.device, state |-> s] \in store[i].ports

(***************************************************************************)
(* After Close the goroutine of Start() returns, unless the process is     *)
(* restarted first: the check in flight ends, its calls failing on the    *)
(* cancelled context, and the loop's select takes the ctx.Done case,      *)
(* although a pending tick competes with it (spec.md section 5: "the loop *)
(* exits on the next cancellation check").                                *)
(***************************************************************************)
LoopExitsAfterClose == closed ~> (exited \/ ~closed)

\* Every reading of the ports taken by a check that got past evaluateThresholds.
Readings == {store[i] : i \in DOMAIN store} \cup unrecorded

(***************************************************************************)
(* The ibstat error is reported with an unhealthy verdict.  The comments   *)
(* of evaluateThresholds (component.go:297-306) discard the error of a     *)
(* failed ibstat only when the ports still meet the thresholds; an         *)
(* unhealthy verdict of a failed ibstat call keeps it.                     *)
(***************************************************************************)
IbstatErrorReported ==
  last # NoData /\ last.ibstatErr = "ibstatFailed" /\ LastHealthStates.health = "Unhealthy"
    => LastHealthStates.error # "none"

(***************************************************************************)
(* The published verdict is only ever replaced by the verdict of a check   *)
(* started later (spec.md section 5: one writer, no overlapping cycles),   *)
(* although the loop and on-demand triggers both run Check and publish    *)
(* through the deferred function of component.go:171-175.                 *)
(***************************************************************************)
NoStalePublish ==
  [][last # NoData /\ last' # NoData => last'.seq > last.seq]_last

(***************************************************************************)
(* A reported drop means the device was down continuously: no check took  *)
(* a reading of the device in another state between the reported time and *)
(* this check (spec.md section 4.5), also when a store failure kept that  *)
(* reading out of the history (recordIbEvent, evaluateIbPortDrop).         *)
(***************************************************************************)
DropMeansContinuouslyDown ==
  last # NoData =>
    \A r \in last.drop, e \in Readings :
      r.since <= e.time /\ e.time <= last.ts =>
        \A q \in e.ports : q.device = r.device => q.state = "Down"

(***************************************************************************)
(* A switch fault is reported exactly when every port observed by the      *)
(* check is unhealthy (spec.md section 4.4).  evaluateIbSwitchFault counts *)
(* the ports of the ibstat output if there is one, else of ibstatus       *)
(* (component.go:481-486), while the evaluated ports were picked the same *)
(* way much earlier (244-248); after a partial ibstat output the two must *)
(* still agree.  Only checks that got to the evaluations are considered.  *)
(***************************************************************************)
SwitchFaultMeansAllObservedDown ==
  last # NoData /\ last.recorded =>
    (last.switchFault <=>
       /\ last.allPorts # {}
       /\ {q.device : q \in last.allPorts} \subseteq last.unhealthy)

(***************************************************************************)
(* The Start loop implements EventLog: every event reaches the bucket by  *)
(* an append, none is changed or removed, and the Find of recordIbEvent   *)
(* (component.go:396-405) keeps an equal event from being inserted twice, *)
(* across restarts, store failures, Close and clock steps.                *)
(***************************************************************************)
EventLogRefined == Log!Spec

=============================================================================
