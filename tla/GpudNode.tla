----------------------------- MODULE GpudNode -----------------------------
(***************************************************************************)
(* "gpud login" (src/unnamed/part_001, cmdRootFunc) and "gpud up --token"  *)
(* (src/cmd/gpud/up/command.go, cmdRootFunc), which runs the same login    *)
(* block against the metadata table of gpud's state file and then installs *)
(* and restarts the gpud systemd unit; and "gpud join"                     *)
(* (src/cmd/gpud/join/command.go, cmdRootFunc), which reads what login     *)
(* stored, posts a join request and stores the join parameters.            *)
(*                                                                         *)
(* A run reads the persisted machine ID and skips when one is set; else   *)
(* it sends a login request, and on success writes the endpoint, machine  *)
(* ID, session token, public IP and private IP with one SetMetadata call   *)
(* each, then writes the token to the server's fifo.  Any call may fail,   *)
(* and the process may be killed between any two (the two-minute context  *)
(* of the run); the run then ends with an error and what it wrote stays.  *)
(*                                                                         *)
(* A login response is identified by the number the control plane gave    *)
(* it: the machine ID and the token of response n are both tagged n, as    *)
(* are the endpoint and IPs that the run of response n writes.  0 is an    *)
(* unset key (ReadMetadata returns "").                                    *)
(*                                                                         *)
(* The same machine runs the gpud daemon (src/unnamed/part_000, "gpud run" *)
(* as the systemd unit), which "gpud down" (custom-plugins/command.go:     *)
(* 162-240) stops and disables, and "gpud compact" (compact/compact.go)    *)
(* must not overlap: it compacts the state file the daemon keeps open.     *)
(* "gpud notify shutdown" (src/unnamed/part_004) reads what login stored  *)
(* and posts a shutdown notification with the machine ID.                  *)
(* The operator runs the commands; the daemon steps on its own.            *)
(***************************************************************************)
EXTENDS Naturals, Sequences, FiniteSets

CONSTANTS
  Runs,        \* invocations of gpud login / gpud up --token
  UpRuns,      \* the invocations among Runs that are gpud up --token
  JoinRuns,    \* the invocations among Runs that are gpud join
  DownRuns,    \* the invocations among Runs that are gpud down
  CompactRuns, \* the invocations among Runs that are gpud compact
  NotifyRuns,  \* the invocations among Runs that are gpud notify shutdown
  Concurrent,  \* whether a run may start while another is running
  RestartWaitsReady, \* whether systemctl restart returns only once gpud is
                     \* ready (the unit file is not in this repository)
  MaxFaults    \* bound on failed calls and killed processes

ASSUME /\ UpRuns \cup JoinRuns \cup DownRuns \cup CompactRuns \cup NotifyRuns \subseteq Runs
       /\ \A A, B \in {UpRuns, JoinRuns, DownRuns, CompactRuns, NotifyRuns} :
            A # B => A \cap B = {}
       /\ Concurrent \in BOOLEAN /\ RestartWaitsReady \in BOOLEAN /\ MaxFaults \in Nat

\* Mutation: the machine ID is written before the endpoint.
KeysSwapped == <<"machineID", "endpoint", "token", "publicIP", "privateIP">>

\* The keys in the order the run writes them (part_001:132-146).
Keys == <<"endpoint", "machineID", "token", "publicIP", "privateIP">>

\* The keys join writes after a successful post (join/command.go:250-264).
JoinKeys == <<"publicIP", "provider", "nodeGroup", "region", "extraInfo">>

\* The keys run r writes, in order.
KeysOf(r) == IF r \in JoinRuns THEN JoinKeys ELSE Keys

KeySet == {Keys[i] : i \in DOMAIN Keys} \cup {JoinKeys[i] : i \in DOMAIN JoinKeys}

VARIABLES
  meta,    \* the metadata table: key -> tag of the response that wrote it
  issued,  \* login responses the control plane has sent
  pc,      \* per run: "idle", "read", "request", the key it writes next, "fifo",
           \* or an exit: "ok", "skipped", "err"
  resp,    \* per run: the tag of its login response (0 before it has one)
  enabled, \* the gpud systemd unit is enabled
  daemon,  \* the gpud process: "none", "booting" (part_000:61-155),
           \* "serving" (gpudserver.New done: state file open, port
           \* listening), "ready" (NotifyReady sent: the unit is active),
           \* "stopping" (NotifyStopping sent, shutting down)
  joined,  \* machine IDs the control plane received join requests for
  notified, \* machine IDs the control plane received shutdown notifications for
  faults

svc == <<enabled, daemon>>
ann == <<joined, notified>>
vars == <<meta, issued, pc, resp, svc, ann, faults>>

Exits == {"ok", "skipped", "aborted", "err"}

\* A run is in progress.
Active(r) == pc[r] \notin {"idle"} \cup Exits

\* A call of run r fails, or the process is killed: the run exits with an
\* error and leaves the state file as it is.
Fail(r) ==
  /\ faults < MaxFaults
  /\ faults' = faults + 1
  /\ pc' = [pc EXCEPT ![r] = "err"]
  /\ UNCHANGED <<meta, issued, resp, svc, ann>>

\* The possible first steps of each command after its common setup; up
\* without --token skips the login block (up/command.go:78).
FirstSteps(r) ==
  IF r \in DownRuns THEN {"downCheck"}
  ELSE IF r \in CompactRuns THEN {"activeCheck"}
  ELSE IF r \in UpRuns THEN {"read", "systemd"}
  ELSE {"read"}

\* The operator starts a run.  Logger, token check, state file path, the
\* two opens and CreateTableMetadata (part_001:53-88; join/command.go:66-89
\* for join) either succeed or end the run with an error.
Open(r) ==
  /\ pc[r] = "idle"
  /\ Concurrent \/ \A o \in Runs : ~Active(o)
  /\ \/ /\ \E first \in FirstSteps(r) : pc' = [pc EXCEPT ![r] = first]
        /\ UNCHANGED <<meta, issued, resp, svc, ann, faults>>
     \/ Fail(r)

\* Mutation: the persisted machine ID is not checked.
ReadMachineIDNoSkip(r) ==
  /\ pc[r] = "read" /\ r \notin JoinRuns \cup NotifyRuns
  /\ \/ /\ pc' = [pc EXCEPT ![r] = "request"]
        /\ UNCHANGED <<meta, issued, resp, svc, ann, faults>>
     \/ Fail(r)

\* ReadMachineIDWithFallback; a persisted machine ID ends the run with
\* success ("already assigned (skipping login)"): login returns nil, and so
\* does up, before its systemd steps (up/command.go:107-113).
ReadMachineID(r) ==
  /\ pc[r] = "read" /\ r \notin JoinRuns \cup NotifyRuns
  /\ \/ /\ meta["machineID"] # 0
        /\ pc' = [pc EXCEPT ![r] = "skipped"]
        /\ UNCHANGED <<meta, issued, resp, svc, ann, faults>>
     \/ /\ meta["machineID"] = 0
        /\ pc' = [pc EXCEPT ![r] = "request"]
        /\ UNCHANGED <<meta, issued, resp, svc, ann, faults>>
     \/ Fail(r)

\* NVML, CreateLoginRequest and login.SendRequest: the control plane
\* answers with a new machine ID and its session token.
Request(r) ==
  /\ pc[r] = "request"
  /\ \/ /\ issued' = issued + 1
        /\ resp' = [resp EXCEPT ![r] = issued + 1]
        /\ pc' = [pc EXCEPT ![r] = Keys[1]]
        /\ UNCHANGED <<meta, svc, ann, faults>>
     \/ Fail(r)

\* The step of run r after writing key k: its next key; after the last,
\* the fifo for login and up, and a successful return for join.
AfterKey(r, k) ==
  LET ks == KeysOf(r)
      i  == CHOOSE j \in DOMAIN ks : ks[j] = k
  IN IF i < Len(ks) THEN ks[i + 1] ELSE IF r \in JoinRuns THEN "ok" ELSE "fifo"

\* One SetMetadata call: key pc[r].
Persist(r) ==
  /\ pc[r] \in KeySet
  /\ \/ /\ meta' = [meta EXCEPT ![pc[r]] = resp[r]]
        /\ pc' = [pc EXCEPT ![r] = AfterKey(r, pc[r])]
        /\ UNCHANGED <<issued, resp, svc, ann, faults>>
     \/ Fail(r)

\* DefaultFifoFile may fail after everything is persisted; a failed
\* WriteToken is only logged.  Login is done; up goes on to systemd.
Finish(r) ==
  /\ pc[r] = "fifo"
  /\ \/ /\ pc' = [pc EXCEPT ![r] = IF r \in UpRuns THEN "systemd" ELSE "ok"]
        /\ UNCHANGED <<meta, issued, resp, svc, ann, faults>>
     \/ Fail(r)

\* The rest of up up to the enable: executable path, root check, systemctl
\* and binary checks, systemdInit and EnableGPUdSystemdUnit.
EnableService(r) ==
  /\ pc[r] = "systemd"
  /\ \/ /\ pc' = [pc EXCEPT ![r] = "restart"]
        /\ enabled' = TRUE
        /\ UNCHANGED <<meta, issued, resp, daemon, ann, faults>>
     \/ Fail(r)

\* RestartGPUdSystemdUnit: any running gpud is replaced by a new process;
\* up returns once systemd has started it, or once it is ready.
StartService(r) ==
  /\ pc[r] = "restart"
  /\ \/ /\ pc' = [pc EXCEPT ![r] = "ok"]
        /\ daemon' = IF RestartWaitsReady THEN "ready" ELSE "booting"
        /\ UNCHANGED <<meta, issued, resp, enabled, ann, faults>>
     \/ Fail(r)

(***************************************************************************)
(* gpud down.                                                              *)
(***************************************************************************)
\* Executable, root, systemctl and IsActive checks (any error exits 1);
\* a unit that is not active is a no-op with exit 0.
DownCheck(r) ==
  /\ pc[r] = "downCheck"
  /\ \/ /\ pc' = [pc EXCEPT ![r] = IF daemon = "ready" THEN "stop" ELSE "ok"]
        /\ UNCHANGED <<meta, issued, resp, svc, ann, faults>>
     \/ Fail(r)

\* StopSystemdUnit: systemctl stop returns once the process has exited.
DownStop(r) ==
  /\ pc[r] = "stop"
  /\ \/ /\ pc' = [pc EXCEPT ![r] = "disable"]
        /\ daemon' = "none"
        /\ UNCHANGED <<meta, issued, resp, enabled, ann, faults>>
     \/ Fail(r)

\* DisableGPUdSystemdUnit, then "successfully stopped gpud".
DownDisable(r) ==
  /\ pc[r] = "disable"
  /\ \/ /\ pc' = [pc EXCEPT ![r] = "ok"]
        /\ enabled' = FALSE
        /\ UNCHANGED <<meta, issued, resp, daemon, ann, faults>>
     \/ Fail(r)

(***************************************************************************)
(* gpud compact (runCompact): three checks that gpud is not running, each  *)
(* against the daemon as it is at that moment, then the compaction.        *)
(***************************************************************************)
\* systemd.IsActive("gpud.service"), asked only where systemctl exists;
\* an error returns it.
CompactActiveCheck(r) ==
  /\ pc[r] = "activeCheck"
  /\ \/ /\ pc' = [pc EXCEPT ![r] = "portCheck"]
        /\ UNCHANGED <<meta, issued, resp, svc, ann, faults>>
     \/ /\ pc' = [pc EXCEPT ![r] = IF daemon = "ready" THEN "err" ELSE "portCheck"]
        /\ UNCHANGED <<meta, issued, resp, svc, ann, faults>>
     \/ Fail(r)

\* netutil.IsPortOpen(DefaultGPUdPort).
CompactPortCheck(r) ==
  /\ pc[r] = "portCheck"
  /\ pc' = [pc EXCEPT ![r] = IF daemon \in {"serving", "ready"} THEN "err" ELSE "processCheck"]
  /\ UNCHANGED <<meta, issued, resp, svc, ann, faults>>

\* process.FindProcessByName("gpud"), which may fail.
CompactProcessCheck(r) ==
  /\ pc[r] = "processCheck"
  /\ \/ /\ pc' = [pc EXCEPT ![r] = IF daemon # "none" THEN "err" ELSE "compacting"]
        /\ UNCHANGED <<meta, issued, resp, svc, ann, faults>>
     \/ Fail(r)

\* DefaultStateFile and sqlite.RunCompact.
Compact(r) ==
  /\ pc[r] = "compacting"
  /\ \/ /\ pc' = [pc EXCEPT ![r] = "ok"]
        /\ UNCHANGED <<meta, issued, resp, svc, ann, faults>>
     \/ Fail(r)

(***************************************************************************)
(* The gpud daemon (gpud run under the unit).                              *)
(***************************************************************************)
\* gpud_manager.New and Start, then gpudserver.New, which opens the state
\* file and listens on the port; an error exits the process.
Serve ==
  /\ daemon = "booting"
  /\ daemon' \in {"serving", "none"}
  /\ UNCHANGED <<meta, issued, pc, resp, enabled, ann, faults>>

\* NotifyReady: systemd reports the unit active.
NotifyReady ==
  /\ daemon = "serving"
  /\ daemon' = "ready"
  /\ UNCHANGED <<meta, issued, pc, resp, enabled, ann, faults>>

\* A handled signal (or an auto-update exit): NotifyStopping, then the
\* server shuts down and the process exits.
NotifyStopping ==
  /\ daemon \in {"serving", "ready"}
  /\ daemon' = "stopping"
  /\ UNCHANGED <<meta, issued, pc, resp, enabled, ann, faults>>

Exit ==
  /\ daemon = "stopping"
  /\ daemon' = "none"
  /\ UNCHANGED <<meta, issued, pc, resp, enabled, ann, faults>>

\* The process is killed or crashes.
Crash ==
  /\ daemon # "none"
  /\ faults < MaxFaults
  /\ faults' = faults + 1
  /\ daemon' = "none"
  /\ UNCHANGED <<meta, issued, pc, resp, enabled, ann>>

\* join reads the machine ID (ReadMachineIDWithFallback, not checked for
\* being empty), the endpoint, which must be set, and the two IPs.
JoinRead(r) ==
  /\ pc[r] = "read" /\ r \in JoinRuns
  /\ \/ /\ meta["endpoint"] = 0
        /\ pc' = [pc EXCEPT ![r] = "err"]
        /\ UNCHANGED <<meta, issued, resp, svc, ann, faults>>
     \/ /\ meta["endpoint"] # 0
        /\ resp' = [resp EXCEPT ![r] = meta["machineID"]]
        /\ pc' = [pc EXCEPT ![r] = "post"]
        /\ UNCHANGED <<meta, issued, svc, ann, faults>>
     \/ Fail(r)

\* Machine info, region and provider detection, the interactive prompts,
\* where a non-empty answer to the last aborts with success, and the POST
\* of the join request with the machine ID read; a transport error or a
\* status other than 200 ends the run with an error.
JoinPost(r) ==
  /\ pc[r] = "post"
  /\ \/ /\ pc' = [pc EXCEPT ![r] = "aborted"]
        /\ UNCHANGED <<meta, issued, resp, svc, ann, faults>>
     \/ /\ joined' = joined \cup {resp[r]}
        /\ pc' = [pc EXCEPT ![r] = JoinKeys[1]]
        /\ UNCHANGED <<meta, issued, resp, svc, notified, faults>>
     \/ Fail(r)

(***************************************************************************)
(* gpud notify shutdown (cmdShutdownFunc).                                 *)
(***************************************************************************)
\* ReadMachineIDWithFallback (not checked for being empty) and the
\* endpoint; an unset endpoint skips the notification with exit 0.
NotifyRead(r) ==
  /\ pc[r] = "read" /\ r \in NotifyRuns
  /\ \/ /\ meta["endpoint"] = 0
        /\ pc' = [pc EXCEPT ![r] = "skipped"]
        /\ UNCHANGED <<meta, issued, resp, svc, ann, faults>>
     \/ /\ meta["endpoint"] # 0
        /\ resp' = [resp EXCEPT ![r] = meta["machineID"]]
        /\ pc' = [pc EXCEPT ![r] = "notify"]
        /\ UNCHANGED <<meta, issued, svc, ann, faults>>
     \/ Fail(r)

\* notification: one POST of {id, "shutdown"}; a transport error or a
\* status other than 200 is returned.
NotifyPost(r) ==
  /\ pc[r] = "notify"
  /\ \/ /\ notified' = notified \cup {resp[r]}
        /\ pc' = [pc EXCEPT ![r] = "ok"]
        /\ UNCHANGED <<meta, issued, resp, svc, joined, faults>>
     \/ Fail(r)

Init ==
  /\ meta = [k \in KeySet |-> 0]
  /\ issued = 0
  /\ pc = [r \in Runs |-> "idle"]
  /\ resp = [r \in Runs |-> 0]
  /\ enabled = FALSE
  /\ daemon = "none"
  /\ joined = {}
  /\ notified = {}
  /\ faults = 0

\* Every run has exited: nothing more happens.
Done == \A r \in Runs : pc[r] \in Exits /\ UNCHANGED vars

Next ==
  \/ \E r \in Runs : Open(r) \/ ReadMachineID(r) \/ Request(r) \/ Persist(r) \/ Finish(r)
                     \/ EnableService(r) \/ StartService(r) \/ JoinRead(r) \/ JoinPost(r)
                     \/ DownCheck(r) \/ DownStop(r) \/ DownDisable(r)
                     \/ CompactActiveCheck(r) \/ CompactPortCheck(r)
                     \/ CompactProcessCheck(r) \/ Compact(r)
                     \/ NotifyRead(r) \/ NotifyPost(r)
  \/ Serve \/ NotifyReady \/ NotifyStopping \/ Exit \/ Crash
  \/ Done

Spec == Init /\ [][Next]_vars

-----------------------------------------------------------------------------

(***************************************************************************)
(* The persisted session token is the token of the persisted machine ID:  *)
(* login checks the machine ID before it requests one and writes the      *)
(* token after it, so a rerun never pairs a new token with an old machine *)
(* ID, whatever call of an earlier run failed.                             *)
(***************************************************************************)
SessionMatchesMachine ==
  meta["token"] # 0 => meta["token"] = meta["machineID"]

(***************************************************************************)
(* A machine with a persisted ID has the endpoint that join and notify     *)
(* read: login writes the endpoint before the machine ID, and a rerun      *)
(* skips once the machine ID is set.                                       *)
(***************************************************************************)
MachineHasEndpoint ==
  meta["machineID"] # 0 => meta["endpoint"] # 0

(***************************************************************************)
(* A gpud login that exits with success leaves a session token in the     *)
(* state file, as its success message and the server's use of the        *)
(* persisted session assume (the skip path of part_001:94-97).            *)
(***************************************************************************)
LoginRuns == Runs \ (UpRuns \cup JoinRuns \cup DownRuns \cup CompactRuns \cup NotifyRuns)

SuccessMeansSession ==
  \A r \in LoginRuns : pc[r] \in {"ok", "skipped"} => meta["token"] # 0

\* The identity the state file holds, as MachineIdentity describes it: the
\* stored machine ID, and the IDs announced by joins and notifications.  Response numbers are at most the
\* number of runs.
Identity == INSTANCE MachineIdentity
              WITH Ids <- 1..Cardinality(Runs), Unset <- 0,
                   identity <- meta["machineID"], announced <- joined \cup notified

(***************************************************************************)
(* login, up and join implement MachineIdentity: the stored machine ID is  *)
(* assigned once and never replaced, whichever call of any run fails, and  *)
(* every join or shutdown notification announces the ID stored at that    *)
(* moment (login's skip at part_001:94, join's read at join/command.go:93, *)
(* notify's at part_004:52).                                               *)
(***************************************************************************)
IdentityRefined == Identity!Spec

=============================================================================
