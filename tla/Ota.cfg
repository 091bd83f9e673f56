SPECIFICATION FairSpec
CONSTANTS
  old = old
  new = new
  broken = broken
  ble = ble
  http = http
  Images = {old, new, broken}
  Crashing = {broken}
  Factory = old
  Chunks = 2
  Tasks = {ble, http}
  MaxResets = 2
INVARIANTS NeverBricked RunningImageIntact
PROPERTIES TrustIsEarned ImplementsTrialUpdate UpgradeEnds DeviceReturns
