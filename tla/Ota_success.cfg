SPECIFICATION Spec
CONSTANTS
  old = old
  new = new
  broken = broken
  ble = ble
  http = http
  Images = {old, new}
  Crashing = {}
  Factory = old
  Chunks = 2
  Tasks = {ble}
  MaxResets = 0
INVARIANT SuccessIsInstalled
