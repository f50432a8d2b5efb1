CONSTANTS
    Wallets = {w1, w2}
    NoWallet = NoWallet
    NoBalance = NoBalance
    Balances = {0, 1}
    Scripts = {1}
    MaxTasks = 3
    MaxVersion = 1
    MaxFaults = 1
    MaxInbox = 0
    MaxRestarts = 0
    Commands = {"subscribeWallets", "resync", "connectionLost", "commandTimeout"}
SPECIFICATION Spec
INVARIANTS TypeOK CompletedIsIdle QueueFlagFaithful ShownIsStored SyncedIsFresh
PROPERTIES SnapshotNeverLost CompletedOnlyWithAll SyncSettles ResyncAnswered
CHECK_DEADLOCK FALSE
