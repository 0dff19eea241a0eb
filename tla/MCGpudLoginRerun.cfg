CONSTANTS
  r1 = r1
  r2 = r2
  r3 = r3
  r4 = r4
  r5 = r5
  r6 = r6
  r7 = r7
  Runs <- MCLogins
  UpRuns <- MCNoRuns
  JoinRuns <- MCNoRuns
  DownRuns <- MCNoRuns
  CompactRuns <- MCNoRuns
  NotifyRuns <- MCNoRuns
  Concurrent = FALSE
  RestartWaitsReady = FALSE
  MaxFaults = 1

SPECIFICATION Spec
SYMMETRY Symmetry
INVARIANT SuccessMeansSession
