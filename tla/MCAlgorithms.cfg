CONSTANTS
  d1 = d1
  d2 = d2
  Devices <- MCDevices
  States = {"Active", "Down"}
  Lookback = 10
  DropAfter = 4
  FlapWindow = 4
  FlapKeep = 4
  Now = 10
  Times = {5, 6, 7, 8, 9, 10, 11}
  MaxEvents = 5
  SpecTypes = {"init", "component"}
  MaxSpecs = 12

INIT Init
NEXT Next
INVARIANT DropScanMatchesReference
INVARIANT FlapScanMatchesReference
INVARIANT PluginsInitFirst
