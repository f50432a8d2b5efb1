CONSTANTS
  TxInputs <- MCTxInputs
  TxOutputs <- MCTxOutputs
  Repushed <- MCRepushed
  Platforms = {"ios"}
  Threads = {"t1"}
  Devices = {"d1"}
  Stored = {{}}
  Psbts <- MCPsbts
  Firmware = {"otherKey", "otherTx", "passphrase"}
  MaxOps = 2
  MaxTurns = 2
  MaxPrompts = 2
SPECIFICATION Spec
PROPERTIES SignedIsSigned
CHECK_DEADLOCK FALSE
