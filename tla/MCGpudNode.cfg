CONSTANTS
  r1 = r1
  r2 = r2
  r3 = r3
  r4 = r4
  r5 = r5
  r6 = r6
  r7 = r7
  Runs <- MCAllRuns
  UpRuns <- MCUpRuns
  JoinRuns <- MCJoinRuns
  DownRuns <- MCDownRuns
  CompactRuns <- MCCompactRuns
  NotifyRuns <- MCNotifyRuns
  Concurrent = FALSE
  RestartWaitsReady = FALSE
  MaxFaults = 2

SPECIFICATION Spec
SYMMETRY Symmetry
INVARIANT SessionMatchesMachine
INVARIANT MachineHasEndpoint
PROPERTY IdentityRefined
