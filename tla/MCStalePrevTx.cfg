CONSTANTS
  TxInputs <- MCTxInputs
  TxOutputs <- MCTxOutputs
  Repushed <- MCRepushed
  Platforms = {"ios"}
  Threads = {"t1"}
  Devices = {"d1"}
  Stored = {{}}
  Psbts <- MCPsbts
  Firmware = {}
  MaxOps = 3
  MaxTurns = 2
  MaxPrompts = 2
SPECIFICATION Spec
PROPERTIES PreparedIsAccepted
CHECK_DEADLOCK FALSE
