CONSTANTS
  TxInputs <- MCTxInputs
  TxOutputs <- MCTxOutputs
  Repushed <- MCRepushed
  Platforms = {"android", "ios"}
  Threads = {"t1", "t2"}
  Devices = {"d1", "d2"}
  Stored = {{"d1"}}
  Psbts <- MCPayments
  Firmware = {"index", "otherKey", "passphrase"}
  MaxOps = 3
  MaxTurns = 2
  MaxPrompts = 2
SPECIFICATION Spec
INVARIANTS SessionInUse ActiveHasSession PrevTxAuthentic
PROPERTIES CredentialsKept EveryCallReturns
CHECK_DEADLOCK FALSE
