CONSTANTS
  Requests <- CoinbaseRequests
  MaxTries = 9
SPECIFICATION Spec
INVARIANT CoinbaseIsMature
CHECK_DEADLOCK FALSE
