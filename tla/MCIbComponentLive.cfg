CONSTANTS
  d1 = d1
  d2 = d2
  loop = loop
  trigger = trigger
  Devices <- MCDevices
  Checkers <- MCCheckers
  Loop = loop
  States = {"Active", "Down"}
  Rates = {400}
  ThresholdChoices <- MCThresholds
  NvmlChoices = {"nil", "notLoaded", "noProduct", "ok"}
  NoOutput = NoOutput
  NoData = NoData
  Lookback = 3
  DropAfter = 2
  FlapWindow = 2
  FlapKeep = 2
  MaxTime = 1
  MaxClockJumps = 0
  MaxRestarts = 0
  MaxTriggers = 0
  MaxStoreFaults = 1
  MaxCloses = 1


SPECIFICATION FairSpec
PROPERTY LoopExitsAfterClose
CONSTRAINT TimeBound
VIEW View
