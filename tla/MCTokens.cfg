SPECIFICATION Spec
CONSTANTS
  Clients = {a, b}
  Devices = {"phone"}
  Digits = {1}
  Limits = {0, 1, 2}
  KeyLife = 1
  MaxClock = 2
  MaxRequests = 4
  MaxRestarts = 1
INVARIANTS  KnownDevicesKeepToken TakenNameIsNewer UsesCountedAlone
SYMMETRY ClientSymmetry
CHECK_DEADLOCK FALSE
