CONSTANTS
  Kinds = {"callbackBle", "callbackUsb", "bluetooth", "usb"}
  Stored = {"none", "valid"}
  FaultKinds = {"refused"}
  MaxFaults = 1
  MaxOps = 3
SPECIFICATION Spec
INVARIANTS NonceNeverReused
CHECK_DEADLOCK FALSE
