CONSTANTS
  Kinds = {"callbackBle", "bluetooth"}
  Stored = {"none", "valid"}
  FaultKinds = {"late"}
  MaxFaults = 1
  MaxOps = 3
SPECIFICATION Spec
INVARIANTS AnswerMatchesCall
CHECK_DEADLOCK FALSE
