CONSTANTS
    Wallets = {w1, w2}
    NoWallet = NoWallet
    MaxTasks = 5
SPECIFICATION QueueSpec
INVARIANTS ArrivalOrder MapTracksLiveTasks
PROPERTIES EveryTaskCompletes ImplementsFifo
CHECK_DEADLOCK FALSE
