CONSTANTS
  d1 = d1
  d2 = d2
  loop = loop
  trigger = trigger
  Devices <- MCDevices
  Checkers <- MCCheckers
  Loop = loop
  States = {"Active", "Down"}
  Rates = {400}
  ThresholdChoices <- MCThresholds
  NvmlChoices = {"nil", "notLoaded", "noProduct", "ok"}
  NoOutput = NoOutput
  NoData = NoData
  Lookback = 2
  DropAfter = 2
  FlapWindow = 2
  FlapKeep = 2
  MaxTime = 3
  MaxClockJumps = 1
  MaxRestarts = 0
  MaxTriggers = 0
  MaxStoreFaults = 0
  MaxCloses = 1


SPECIFICATION Spec
SYMMETRY Symmetry
INVARIANT TypeOK
INVARIANT DropReportSound

PROPERTY EventLogRefined
CONSTRAINT TimeBound
VIEW View
