CONSTANTS
    Wallets = {w1}
    NoWallet = NoWallet
    NoBalance = NoBalance
    Balances = {0, 1, 2}
    Scripts = {1, 2}
    MaxTasks = 3
    MaxVersion = 2
    MaxFaults = 1
    MaxInbox = 0
    MaxRestarts = 1
    Commands = {"subscribeWallet", "dormant"}
SPECIFICATION Spec
INVARIANTS FailureStaysVisible SubscriptionRetriesFailures
CHECK_DEADLOCK FALSE
