CONSTANTS
  r1 = r1
  r2 = r2
  r3 = r3
  r4 = r4
  r5 = r5
  r6 = r6
  r7 = r7
  Runs <- MCLoginUp
  UpRuns <- MCUpRuns
  JoinRuns <- MCNoRuns
  DownRuns <- MCNoRuns
  CompactRuns <- MCNoRuns
  NotifyRuns <- MCNoRuns
  Concurrent = TRUE
  RestartWaitsReady = FALSE
  MaxFaults = 0

SPECIFICATION Spec
SYMMETRY Symmetry
INVARIANT SessionMatchesMachine
