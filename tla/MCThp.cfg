CONSTANTS
  Kinds = {"callbackBle", "callbackUsb", "bluetooth", "usb"}
  Stored = {"none", "valid", "revoked", "foreign", "malformed"}
  FaultKinds = {"refused", "slow", "lost", "garbled", "busy", "failure", "open", "close"}
  MaxFaults = 1
  MaxOps = 3
SPECIFICATION Spec
INVARIANTS TypeOK NonceFresh CompleteMeansConfirmed SessionHasChannel
PROPERTIES ValidCredentialKept AcquireEnds
CHECK_DEADLOCK FALSE
