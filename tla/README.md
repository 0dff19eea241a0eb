# TLA+ models of gpud's InfiniBand health check and node commands

This directory holds TLA+ specifications of parts of gpud, with the TLC
configurations that check them. The main subject is the InfiniBand health
check in `src/components/accelerator/nvidia/infiniband/component.go`. The second
is how the node commands (`login`, `up`, `join`, `down`, `compact`) share the
state file and the systemd unit with a running gpud daemon.
`PROJECT.json` lists every component, run, mutant, mapped definition, finding
and hazard in machine-readable form.

## 1. The system and its parts

The repository (`src/`) holds three kinds of code:

1. **The InfiniBand component** (`component.go:1-861`). It has three parts:
   - **`Start()`** runs a goroutine that calls `Check()` once, and then again on every tick of a one-minute ticker.
   - **`Check()`** builds a fresh `checkResult` (`cr`) and publishes it as `lastCheckResult` under `lastMu`, from a deferred function (`171-175`).
   - **Readers**: `LastHealthStates()` and `Events()`.
   - **`Close()`** cancels the component's context and closes its bucket. A check in flight goes on, and each of its later calls fails. The loop returns at the `select` that follows its current check.

   `Check()` runs these steps in order:
   - **Guards.** Zero thresholds, NVML absent or without a product, or missing tool functions each return at once with a healthy skip (`177-204`).
   - **Tools.** It calls `ibstatus` and then `ibstat`, each with a 15-second timeout (`206-234`). An `ibstat` error makes `cr` unhealthy, except "command not found".
   - **No event bucket.** This is a healthy skip (`238-242`), used by `gpud scan`.
   - **Ports.** `allIBPorts` is `ibstat`'s parsed output if it is non-nil, and otherwise `ibstatus`'s (`244-248`). `evaluateThresholds` then evaluates these ports (`274-329`).
   - **Recording.** `recordIbEvent` converts `cr` to an `ibstat` event (`331-368`). It calls `Find`, and if no equal event exists it calls `Insert` (`389-424`). A failure of either returns early with an unhealthy `cr`. The two calls are separate, so two concurrent checks can both miss and both insert.
   - **Analysis.** `evaluateIbSwitchFault`, `evaluateIbPortDrop` and `evaluateIbPortFlap` run (`463-696`). The last two read the last 10 minutes of `ibstat` events through `readAllIbstatEvents` (`429-458`).

   `Check()` is public and is also called on demand. `gpud run-plugin-group` (`run-plugin-group/command.go:36-66`) asks the server to trigger the checks of a tag (`src/cmd/gpud/run-plugin-group/command.go:60`). Such a call runs concurrently with the loop, and nothing serializes the two.

2. **The event store** (`pkg/eventstore`) and the tool wrappers (`pkg/nvidia-query/infiniband`). They are not in this repository. The model uses what `component.go` and spec.md say of them:
   - `Get(since)` returns the events with time at least `since`, in ascending time.
   - `Find` looks for an equal event.
   - `Insert` appends an event.
   - `GetIbstatOutput` can fail while still returning partial output.

3. **The gpud commands** (`src/cmd/gpud/*`, `src/unnamed/part_*`). Each is a one-shot CLI: `login`, `up`, `join`, `run`, `compact`, `scan`/`update`, `custom-plugins`/`down`, `release`, `notify`, `private-ip` and `run-plugin-group`. They talk to the local state database, systemd or an HTTP endpoint. Only `run-plugin-group` interacts with the component, as an on-demand caller of `Check`.

   The commands share the metadata table of the state file. `login` and `up --token` run the same block (`part_001:52-161`, `up/command.go:78-178`):
   - read the stored machine ID, and return with success if there is one;
   - otherwise send a login request;
   - write the endpoint, machine ID, session token, public IP and private IP, one `SetMetadata` call each;
   - write the token to the fifo.

   `up` then installs, enables and restarts the systemd unit (`180-209`). `join` (`join/command.go:65-268`) reads the machine ID, the endpoint (it must be set) and the IPs, and posts a join request. If the post succeeds, it writes the public IP, provider, node group, region and extra info. `notify shutdown` (`part_004:24-72`) reads the machine ID and the endpoint in the same way; with no endpoint it exits 0, otherwise it posts a shutdown notification with the ID (`notify/notification.go:24-48`).

   `custom-plugins` (`custom-plugins/command.go:48-160`) sorts the plugin specs so that `init` specs run first (`67-74`), then validates and runs them through packages outside this repository. The less function compares positions (`i < j`) for two `init` specs, and `sort.Slice` is not stable.

   The other commands act on the daemon (`gpud run`, `part_000`) through systemd and the state file:
   - the daemon boots, opens the state file and the port (`gpudserver.New`, `61-160`), then sends `NotifyReady` (`162-170`); a handled signal sends `NotifyStopping` and exits (`138-149`, `171-173`);
   - `down` (`custom-plugins/command.go:162-240`) checks that the unit is active and otherwise exits 0 as a no-op (`223`), then stops and disables the unit;
   - `compact` (`compact/compact.go:16-59`) refuses when the unit is active (asked only where systemctl exists), the port is listening, or a gpud process exists, and then compacts the state file.

## 2. Modules

| module | models |
|---|---|
| `IbHistory` | The history side: the event payload, `readAllIbstatEvents` over the store's `Get`, the drop scan (`DropStep`, `DroppedSince`, `DropReport`, `PortDrop`) and the flap scan (`FlapStep`, `StateTransitions`, `KeepLast`, `PortFlap`). All are pure operators, RECURSIVE over the event sequence. It also holds the declarative reference definitions `DropReference` and `FlapReference`, which restate spec.md §4.5 and §4.6. |
| `IbComponent` | The component as a state machine, with the callers of `Check` as processes and its environment. |
| `MCIbComponent` | Model values, two port devices, a loop and a trigger caller, device symmetry. |
| `PluginOrder` | The execution order of `custom-plugins`: the less function of `sort.Slice` and the insertion sort that `sort.Slice` runs for at most 12 elements, as RECURSIVE operators, with the reference order "init first, then the rest, each in file order". |
| `MCAlgorithms` | Builds every sorted history of up to 5 events and every spec file of up to 12 specs, and compares the scans and the plugin order with their reference definitions. |
| `GpudNode` | `login`, `up` (with and without `--token`), `join`, `down` and `compact` runs against the metadata table, the systemd unit and the daemon's lifecycle. |
| `EventLog` | The abstract promise of the Event Recorder (spec.md §4.3, §6): the bucket is an append-only log, and an event equal to a stored one is not appended again. |
| `MachineIdentity` | The abstract promise about the machine ID: unset, then assigned once and never replaced; joins announce the current ID. |
| `MCGpudNode` | Two login runs, one up, one join, one down, one compact and one notify run (the login runs symmetric), or a subset. |

### How GpudNode corresponds to the code

- **State.** `meta` is the metadata table. Each key holds the number of the login response whose run wrote it, or 0 when it is unset. `issued` counts the responses of the control plane; `resp[r]` is run r's response. `enabled` is the unit's enablement; `daemon` is the gpud process's phase: `none`, `booting`, `serving` (state file and port open), `ready` (`NotifyReady` sent, the unit active) or `stopping`.
- **Steps.** `pc[r]` is the run's position, and each action is one step of `cmdRootFunc`:
  - `Open`: lines 52-88;
  - `ReadMachineID`: lines 90-97, including the skip;
  - `Request`: lines 99-129;
  - `Persist`: one `SetMetadata` call, taken for each key of `Keys` in the code's order (lines 131-146);
  - `Finish`: lines 148-161;
  - `FirstSteps`: where each kind of run starts; up without `--token` goes straight to the systemd steps (`up/command.go:69-78`);
  - `EnableService`: up's lines 180-201 (checks, `systemdInit`, enable);
  - `StartService`: up's lines 203-208 (the restart). `RestartWaitsReady` says whether the restart returns only when gpud is ready; the unit file is not in the repository, so both are allowed;
  - `NotifyRead`, `NotifyPost`: notify shutdown's reads and skip (`part_004:24-65`) and its POST (`notification.go:24-48`); `notified` holds the IDs the control plane received;
  - `DownCheck`, `DownStop`, `DownDisable`: down's lines 196-226, 228-231, 233-239;
  - `CompactActiveCheck`, `CompactPortCheck`, `CompactProcessCheck`, `Compact`: `compact.go` lines 17-26, 28-31, 32-43, 45-58;
  - `JoinRead`: join's lines 91-117, including the empty-endpoint error;
  - `JoinPost`: join's lines 119-246, including the abort on a non-empty answer;
  - `Persist`, with join's keys `JoinKeys`: join's lines 248-267.
- **Daemon.** `Serve`, `NotifyReady`, `NotifyStopping` and `Exit` are the daemon's own steps; `Crash` is a kill of the process, counted as a fault. "The unit is active" is `daemon = "ready"`, as for a notify-type unit.
- **Join.** `joined` is the set of machine IDs that the control plane received join requests for.
- **Failures.** `Fail` is any error return or a kill of the process, bounded by `MaxFaults`. The writes already made stay.
- **Concurrency.** `Concurrent` says whether a run may start while another is active. Nothing in the code prevents it: there is no lock file or transaction.

### How IbComponent corresponds to the code

The variables of IbComponent:

| variable | the code it models |
|---|---|
| `config` | What `New` fixes for a process lifetime: thresholds, NVML state, tool functions, event bucket. |
| `store` | The event bucket, in insertion order. |
| `cr[p]` and `pc[p]` | The `checkResult` of caller `p` and how far its `Check` has got. |
| `last` | `lastCheckResult`. |
| `now` | The wall clock, in minutes. |
| `due` | A pending tick of the ticker. |

Ghost state supports the properties:

- `started` and `cr.seq` give the order in which calls of `Check` started.
- `unrecorded` holds the readings whose event a store failure kept out.
- `cr.ibstatErr` and `cr.recorded` record what happened earlier in the check.

`Check` is split into the three steps between which another caller can act. Each step takes the whole code it stands for:

- **`Acquire(p)`** covers `165-249`. It has the guards and early returns, the two tool calls and the error handling. The missing-bucket return comes before the ports are picked (`WithPorts`). Then `EvaluateThresholds` runs.
  - Each tool reads arbitrary port values.
  - `ibstat`'s outcomes come from `IbstatOutcomes`:
    - full output;
    - "command not found" with no output;
    - failure with no output;
    - failure with a parsed output of some, all or none of the ports.
- **`RecordFind(p)`** and **`RecordInsert(p)`** cover `389-424`, as two steps, so other callers can act between the lookup and the insert:
  - a `Find` that fails (`StoreFail`);
  - a `Find` that finds an equal event (`Recorded`);
  - an `Insert` that fails;
  - an `Insert` that succeeds, after which `cr.err` is set to nil, as `cr.err = Insert(...)` does.
- **`Analyze(p)`** covers `258-262`:
  - It runs the switch-fault evaluation.
  - It runs the drop scan only on unhealthy results, and the flap scan on all results.
  - Each history read may fail, which leaves its reason unset.
  - It returns, which publishes the result.

Every early return publishes through `Publish`, the deferred function. The readers are modelled as follows:

- `LastHealthStates`, `HealthStates` and `Summary` give what a reader sees.
- `Summary` is the sequence of reasons that are set; the string formatting is left out.

The environment actions:

- **`Tick`** advances the clock and makes a tick pending.
- **`ClockStepBack`** steps the wall clock back (NTP). `time.Now()` goes back; the ticker does not.
- **`Restart`** models gpud stopping and starting. In-flight checks are lost; the store persists; `lastCheckResult` starts nil.
- **`Close`** is `Close()` (`150-163`): it cancels `c.ctx` and closes the bucket, bounded by `MaxCloses`. `closed` records it. From then on every call a check makes with `c.ctx` fails:
  - the two tools return no output (`StatusOutcomes`, `StatOutcomes`);
  - `Find`, `Insert` and the history reads fail (these are not counted as store faults).
- **`LoopExit`** is the `ctx.Done` case of the loop's `select` (`111-113`); `exited` records that the goroutine has returned. While the loop is idle, a pending tick and a done context are both ready, and Go picks either one, so `Acquire` of the loop stays enabled after `Close`.

On-demand callers enter through `Trigger` (gpud run-plugin-group) and are bounded by `MaxTriggers`.

## 3. Runs

Every property is stated in its module, with a comment.

| run | cfg | result | what it shows |
|---|---|---|---|
| ib_faults | `MCIbComponentFaults.cfg` | pass | `DropReportSound` and `EventLogRefined` hold with one failed store call (Find, Insert or a history read) and one restart. |
| ib_trigger | `MCIbComponentTrigger.cfg` | pass | `DropReportSound` holds with an on-demand `Check` interleaving with the loop, including two checks that both miss in `Find` and insert equal events. `SwitchFaultMeansAllObservedDown` also holds: a switch fault is reported exactly when every port observed by the check is unhealthy (spec.md §4.4). The port source picked at `244` and the count read at `481` agree, also after a partial ibstat output. This run uses `SwitchView`, which keeps the ibstatus output. |
| ib_clock | `MCIbComponentClock.cfg` | pass | With one backward step of the wall clock, a 2-minute history window and one `Close`, `TypeOK`, `DropReportSound` and `EventLogRefined` hold. The window is short enough that within clock values 0-3 it drops old events from the scans. |
| ib_live | `MCIbComponentLive.cfg` | pass | `LoopExitsAfterClose`: after one `Close` the loop returns. The check in flight must first end, with its calls failing, and the loop may run another check on a pending tick before it takes `ctx.Done`. |
| algorithms_reference | `MCAlgorithms.cfg` | pass | With the code's values (10-minute lookback, 4-minute drop threshold, 4-minute flap window, 4 kept transitions), `PortDrop` and `PortFlap` equal the reference definitions on all 1.5 million histories built: up to 5 events at distinct minutes, 2 devices, each device Active, Down or absent. `PluginsInitFirst`: on every spec file of up to 12 specs, the custom-plugins sort puts the `init` specs first and keeps the file order within each group. |
| ib_error_lost | `MCIbErrorLost.cfg` | violation | F1 (below). |
| ib_stale_publish | `MCIbStalePublish.cfg` | violation | F4 (below). |
| ib_drop_gap | `MCIbDropGap.cfg` | violation | F5 (below). |
| ib_flap_future | `MCIbFlapFuture.cfg` | violation | F8 (below). |
| node_commands | `MCGpudNode.cfg` | pass | With sequential runs of every command (notify included), the daemon booting, stopping and crashing on its own, and up to two failed calls or kills anywhere: `SessionMatchesMachine` (a stored token belongs to the stored machine ID), `MachineHasEndpoint` and `IdentityRefined` (the node implements `MachineIdentity`) hold. |
| login_rerun_no_session | `MCGpudLoginRerun.cfg` | violation | F6 (below). |
| login_concurrent | `MCGpudLoginRace.cfg` | violation | F7 (below). |

The passing properties:

- **`DropReportSound`.** For every device the published drop report names:
  - the reported time is at least `DropAfter` before the check;
  - a stored event read the device Down at that time;
  - the check itself read the device only as Down.

  This needs three things: the check's own event is stored before the history is read, `Get` orders by time, and the scan reads the last reading as current. Concurrent checks, restarts and clock steps are what could break it.
- **`EventLogRefined`** (ib_faults, ib_clock). The bucket implements `EventLog`: every event reaches it by one append, and none is changed or removed, across restarts, store faults (ib_faults), a `Close` and a clock step (ib_clock). The model's time is in minutes, so a check in a minute already recorded can build an event equal to a stored one, and the `Find` must keep it out. The code's timestamps are finer, so in the code equal events are rare and this part of the property matters little.
- **`LoopExitsAfterClose`** (ib_live). See the runs table.

Each passing property has a mutant in `PROJECT.json` that TLC must find violated. The mutants are:

- a drop scan that never clears a recovered device;
- a publication that keeps the `checkResult`;
- a drop threshold made strict;
- a transition cap one too large;
- a login that does not check the stored machine ID (for `SessionMatchesMachine` and `IdentityRefined`);
- a switch-fault count that prefers the ibstatus output;
- a plugin less function that compares two `init` specs' positions the other way round.
- the machine ID written before the endpoint;
- a `recordIbEvent` that ignores the result of `Find` (for `EventLogRefined`);
- a loop that waits on a context that `Close` does not cancel (for `LoopExitsAfterClose`).

### Findings

- **F1: a code bug.** `component.go:414` sets `cr.err = Insert(...)`. A successful insert therefore erases the `ibstat` error of an unhealthy verdict, and `HealthStates` reports no error. The comment at `297-306` and spec.md §4.1 keep the error unless the ports meet the thresholds. Trace: `ibstat` fails with a partial output that violates the thresholds, then the insert succeeds.
- **F2: a spec divergence, not checked by a run.** When `ibstat` fails with no output, the `ibstatus` ports are evaluated. If they meet the thresholds, the verdict is healthy and the error is cleared (`318-328`). spec.md §7 (ToolExecutionError) allows this only for `ibstat`'s own partial output.
- **F3: a spec divergence, not checked by a run.** "ibstat command not found" (`226-228`) does not end the check. The check evaluates the `ibstatus` ports, records an event and can be unhealthy. spec.md §7 (ToolNotInstalled) says skip, healthy, nothing written. The model reaches the states of F2 and F3. They are listed as hazards in `PROJECT.json`, and the run budget goes to the code bugs.
- **F4: a spec divergence.** `Check` publishes from a deferred function (`171-175`), so verdicts land in the order the calls return, not the order they started. In the trace, the loop's `Check` starts first (seq 1) and is slow. A triggered `Check` starts later and returns first. The loop's older verdict then replaces the trigger's newer one. The reverse order is possible in the same way. spec.md §5 assumes one writer with no overlapping cycles.
- **F5: a spec gap.** A check whose `Find` or `Insert` fails leaves no event. A later check's drop scan (`541-556`) then reports a port as continuously down across that check's reading of the port as Active. spec.md §4.5 promises "continuously down" and is silent on store failures.

- **F8: a spec divergence.** `evaluateIbPortFlap` skips only events older than the window (`656-658`). It checks for a future timestamp only on the oldest event (`644-649`). An event stamped after the check's own time is therefore counted. Trace (9 states): the loop's `Check` at minute 0 records d2 Active. A triggered `Check` at minute 1 records d2 Down before the loop's `Check` reads the history. The loop's `Check` then publishes a flap "d2 Active -> Down" whose Down reading is later than the verdict's own timestamp. spec.md §4.6 takes states "observed strictly within the last 4 minutes". A wall clock stepped back gives the same. The property is `FlapFromTrailingWindow`.

- **F6: a code bug.** Login writes the machine ID (`part_001:135`) before the token (`138`), and skips with success when a machine ID is stored (`94`). A run that is killed or fails between the two writes leaves no token. Every later `login` or `up --token` then reports that the machine ID is assigned and returns nil. The run has two `login` runs only: `up` without `--token` succeeds without a token by design, so `SuccessMeansSession` is stated for `login` runs.
- **F7: a code bug.** Two overlapping logins both read no machine ID (`90`). Their writes interleave, and the table ends up with one response's machine ID and the other's token.
- **Not checked by a run.** A check that is unhealthy only because `ibstat` listed too few ports (a partial output) has no unhealthy port. Its event is therefore typed "info" (`component.go:355`), and `Events()` hides it (`141-145`). TLC reaches this in 4 states. spec.md §4.3 types the event this way too, while §6 says the filter removes only "everything is fine" snapshots.
- **Not checked by a run.** `up --token` on a machine with a stored ID returns nil from `up/command.go:113`, inside its login block, so the systemd steps (`180-209`) never run, although login's comment (`part_001:153-155`) expects "login first, then up". The model reaches it; it is a hazard in `PROJECT.json`.
- **Not checked by a run.** `down` exits 0 with "not running (no-op)" when the unit is not active (`custom-plugins/command.go:223-225`), before it disables the unit, so a unit whose gpud crashed stays enabled. This is down's documented behaviour; it is listed as a hazard in `PROJECT.json`.

### Refinement

`EventLog` is what spec.md promises of the Event Recorder. `IbComponent` instantiates it as `Log`, with `log <- store`, and `EventLogRefined == Log!Spec` holds in ib_faults and ib_clock. These runs have the loop as the only caller. `EventLog`'s step names the event it appends, `Last(log')`, instead of trying every event: TLC would otherwise enumerate all recordable events on every transition.

With a trigger the refinement fails. Two checks that build equal events can both miss in `Find` and both insert; TLC finds this under `MCIbComponentTrigger.cfg` in 7 states. No run keeps this counterexample: spec.md §8 states the dedup only for inserts made one after the other. The hazard at `component.go:397` records it. Equality includes the timestamp, so two polls in different minutes are never deduplicated. This is the spec's open question on "equivalence".

`MachineIdentity` is what the commands promise about identity: the ID is assigned once and never replaced, and a join announces the current one. `GpudNode` instantiates it with `identity <- meta["machineID"]` and `announced <- joined`, and node_commands checks `IdentityRefined == Identity!Spec`. With concurrent logins the refinement fails (a second login replaces the ID), so it is not vacuous.

## 4. Bounds and why they suffice

- **Windows.** The component model scales the windows to lookback 3 (2 in ib_clock), drop threshold 2, flap window 2 and 2 kept transitions, with clock values up to 2 or 3 (`MaxTime`). The scans are the same operators at every scale. The algorithms_reference run checks them separately at the code's real values, so the scaling only shortens the histories that the concurrency runs must build.
- **Time.** Time is bounded by `CONSTRAINT TimeBound`, not by a guard, so reaching the bound is not a deadlock.
- **Symmetry.** The two port devices are symmetric: nothing in the model names a device.
- **Port values.** States are Active and Down at one rate. The thresholds are `{2 ports, 400}` and the zero value. With these, "too few good ports" and "all ports down" are both reachable.
- **Environment bounds.** One trigger, one store fault, one restart and one clock step suffice to reach every interleaving point once. Each appears in its own run to keep each run within minutes. One `Close` is in ib_clock and ib_live; with ib_faults' restart and fault it took 3.5 minutes, too near the limit.
- **The VIEW.** `View` drops what no action reads and `DropReportSound` does not read:
  - events older than any later check can read;
  - the published verdict's other fields;
  - `started`/`seq` and `unrecorded`;
  - the unfinished `cr` fields that only flow into the verdict;
  - `ibstatus` output shadowed by `ibstat` output.

  Merging states that differ only there is sound for that property and the refinement. The violation runs do not use the VIEW.
- **Plugins.** Every spec file of up to 12 specs is checked: 12 is the largest slice on which Go's `sort.Slice` (pdqsort) uses insertion sort. From 13 specs on, pdqsort partitions, and the order is not modelled (Go library code, not in this repository). This also assumes a Go version with pdqsort (1.19 or later); the repository does not include `go.mod`.
- **Node.** Three login runs (one of them `up --token`) with two faults reach every pair (failed step, later run) and a rerun after a completed login. One down and one compact run interleave with the daemon's own steps in every order, because the daemon's steps are always enabled. Response numbers are bounded by the number of runs.

## 5. Fairness

Only ib_live checks liveness. `LoopFairness` assumes weak fairness of the loop's steps, and strong fairness of `LoopExit`. The goroutine calls `Check` synchronously, and every tool and store call in it has a 15-second timeout, so a step the loop can take is eventually taken. After `Close`, the `select` may keep choosing a pending tick, which disables `LoopExit` while that check runs. Go chooses among ready cases uniformly at random, so the `ctx.Done` case cannot lose forever; that is strong fairness. No fairness is assumed for triggers, ticks, restarts or clock steps.

The ib_live run checks one minute, without triggers and restarts. Under liveness checking, TLC's state graph with these grows beyond what a few minutes can explore. Triggers share no state the loop waits on.

## 6. What is not modelled

- `Events()` and `String()`: read-only formatting.
- `parseIBPortsFromEvent` decode errors: the model's payloads are always well-formed, as `json.Marshal` writes them.
- The internals of the event store and the tools, beyond their stated behaviour.
- The first `Check` of `Start()` runs before the `select`. After a `Close` that comes before it, the model also lets the loop return without that check; this only adds behaviours.
- `notify startup` (its source is not in this repository), and custom-plugins beyond its execution order.
- The other CLI commands (listed with reasons in `PROJECT.json`). `compact` racing a gpud started during the compaction is reachable only with concurrent runs and is not checked.
- join's prompts and detection of region and provider: they only choose values, abstracted to the abort choice. join posting an empty machine ID after a partly failed login is reachable but not checked (a hazard in `PROJECT.json`).
- The contents of the systemd unit and env files, and the daemon's configuration. The values written for the IPs and the endpoint are abstracted to the response number.

## 7. Plan

Done:

1. IbHistory with its reference check.
2. IbComponent with the loop, triggers, faults, restarts and clock steps; the report properties; liveness; findings F1, F4 and F5; divergences F2 and F3.
3. GpudLogin: `login`, `up --token` and `join` with failures and concurrency; findings F6 and F7.
4. GpudNode: the daemon lifecycle, `up` without a token, `down` and `compact`; the `MachineIdentity` refinement.
6. Review: the flap window property (F8) replaces a flap property that held by construction; liveness of every tick, the compact check property and the node's type invariant were dropped as restating guards.
5. Find and Insert as separate steps; the switch-fault property; run-plugin-group as `Trigger`; notify shutdown; the custom-plugins order (PluginOrder).
6. `Close()` and the loop's exit (`LoopExitsAfterClose`); the `EventLog` refinement.

Next:

7. The spec divergences at `component.go:226`, `244` and `318`. The model reaches all three, but each needs a violation run of its own.
8. `compact` racing a gpud started during the compaction.

The project already has 12 runs. A new violation run has to replace an existing run, or be merged with one. Merging the IB runs was measured and does not fit in the time limit: ib_faults with the clock step passed 45 million states in 15 minutes.
