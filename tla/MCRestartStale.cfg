CONSTANTS
    Wallets = {w1}
    NoWallet = NoWallet
    NoBalance = NoBalance
    Balances = {0, 1}
    Scripts = {1}
    MaxTasks = 3
    MaxVersion = 2
    MaxFaults = 0
    MaxInbox = 0
    MaxRestarts = 1
    Commands = {"subscribeWallet"}
SPECIFICATION Spec
INVARIANTS SyncedIsFresh
CHECK_DEADLOCK FALSE
