-------------------------- MODULE NodeStateManager --------------------------
(***************************************************************************)
(* NodeStateManager: what the main isolate knows about the synchronisation *)
(* of the wallets (WalletUpdateInfo) and of the node as a whole            *)
(* (NodeSyncState).  Its methods are called through state messages of the  *)
(* sync isolate, and by NodeProvider on the main isolate itself.           *)
(*                                                                         *)
(* A wallet that is not in registeredWallets has the fresh WalletUpdateInfo *)
(* every method creates when it finds none.  Listeners, streams and the    *)
(* progress counters of the screens are left out.                          *)
(***************************************************************************)
EXTENDS WalletIds

CONSTANTS
    NoBalance,  \* the balanceSnapshot null
    Balances    \* wallet balances in satoshi

ASSUME NoBalanceAssumption == NoBalance \notin Balances

VARIABLES
    nodeSyncState,  \* NodeProviderState.nodeSyncState
    registered,     \* keys of NodeProviderState.registeredWallets
    walletInfo      \* wallet -> WalletUpdateInfo

nodeVars == <<nodeSyncState, registered, walletInfo>>

UpdateElements == {"subscription", "balance", "transaction", "utxo"}
WalletSyncStates == {"waiting", "syncing", "completed"}
NodeSyncStates == {"init", "syncing", "completed", "failed"}

WalletUpdateInfos == [elements : [UpdateElements -> WalletSyncStates],
                      isSyncQueued : BOOLEAN,
                      balanceSnapshot : Balances \cup {NoBalance}]

AllElements(s) == [e \in UpdateElements |-> s]

\* WalletUpdateInfo(walletId)
FreshInfo == [elements |-> AllElements("waiting"),
              isSyncQueued |-> FALSE,
              balanceSnapshot |-> NoBalance]

NodeTypeOK ==
    /\ nodeSyncState \in NodeSyncStates
    /\ registered \in SUBSET Wallets
    /\ walletInfo \in [Wallets -> WalletUpdateInfos]

NodeInit ==
    /\ nodeSyncState = "init"
    /\ registered = {}
    /\ walletInfo = [w \in Wallets |-> FreshInfo]
-----------------------------------------------------------------------------
\* The queue flags are not looked at.
IsAllWalletsCompletedForgetsQueue(reg, info) ==
    \A w \in reg : \A e \in UpdateElements : info[w].elements[e] = "completed"

\* isAllWalletsCompleted
IsAllWalletsCompleted(reg, info) ==
    \A w \in reg :
        /\ ~info[w].isSyncQueued
        /\ \A e \in UpdateElements : info[w].elements[e] = "completed"

Register(w, info) ==
    /\ registered' = registered \cup {w}
    /\ walletInfo' = [walletInfo EXCEPT ![w] = info]

InitWalletUpdateStatus(w) ==
    /\ Register(w, [walletInfo[w] EXCEPT !.elements = AllElements("waiting")])
    /\ UNCHANGED nodeSyncState

\* The drain of a failed queue overwrites the snapshot with null.
QueueStateInfoOverwrites(previous, queued, snapshot) ==
    [elements |-> IF ~queued /\ snapshot # NoBalance THEN AllElements("completed")
                  ELSE previous.elements,
     isSyncQueued |-> queued,
     balanceSnapshot |-> snapshot]

\* The snapshot of a drain is kept out like the one of an enqueue.
QueueStateInfoKeepsFirst(previous, queued, snapshot) ==
    [elements |-> IF ~queued /\ snapshot # NoBalance THEN AllElements("completed")
                  ELSE IF queued THEN previous.elements
                  ELSE [previous.elements EXCEPT !["balance"] = "waiting"],
     isSyncQueued |-> queued,
     balanceSnapshot |->
        IF previous.balanceSnapshot # NoBalance THEN previous.balanceSnapshot ELSE snapshot]

\* WalletUpdateInfo.fromExisting(previous, ...) of setWalletSyncQueueState:
\* a null argument keeps the previous value.
QueueStateInfo(previous, queued, snapshot) ==
    LET completed == ~queued /\ snapshot # NoBalance IN
    [elements |->
        IF completed THEN AllElements("completed")
        ELSE IF queued THEN previous.elements
        ELSE [previous.elements EXCEPT !["balance"] = "waiting"],
     isSyncQueued |-> queued,
     balanceSnapshot |->
        IF snapshot = NoBalance \/ (queued /\ previous.balanceSnapshot # NoBalance)
        THEN previous.balanceSnapshot ELSE snapshot]

\* A queue drain that says "completed" whenever nobody is queued.
SetWalletSyncQueueStateIgnoresFailure(w, queued, snapshot) ==
    /\ Register(w, QueueStateInfo(walletInfo[w], queued, snapshot))
    /\ nodeSyncState' =
        IF \E v \in registered' : walletInfo'[v].isSyncQueued THEN "syncing" ELSE "completed"

SetWalletSyncQueueState(w, queued, snapshot) ==
    /\ Register(w, QueueStateInfo(walletInfo[w], queued, snapshot))
    /\ nodeSyncState' =
        IF \E v \in registered' : walletInfo'[v].isSyncQueued THEN "syncing"
        ELSE IF IsAllWalletsCompleted(registered', walletInfo') THEN "completed"
        ELSE "failed"

AddWalletSyncState(w, e) ==
    /\ Register(w, [walletInfo[w] EXCEPT !.elements[e] = "syncing"])
    /\ nodeSyncState' = "syncing"

\* The node becomes completed when the update completes the last wallet.
CompleteIfLast ==
    nodeSyncState' = IF IsAllWalletsCompleted(registered', walletInfo')
                     THEN "completed" ELSE nodeSyncState

AddWalletCompletedState(w, e) ==
    IF w \in registered
    THEN /\ Register(w, [walletInfo[w] EXCEPT !.elements[e] = "completed"])
         /\ CompleteIfLast
    ELSE UNCHANGED nodeVars

AddWalletCompletedAllStates(w) ==
    /\ Register(w, [walletInfo[w] EXCEPT !.elements = AllElements("completed")])
    /\ CompleteIfLast

SetNodeSyncStateToSyncing ==
    /\ nodeSyncState' = "syncing"
    /\ UNCHANGED <<registered, walletInfo>>

SetNodeSyncStateToCompleted ==
    /\ nodeSyncState' = IF IsAllWalletsCompleted(registered, walletInfo)
                        THEN "completed" ELSE nodeSyncState
    /\ UNCHANGED <<registered, walletInfo>>

SetNodeSyncStateToFailed ==
    /\ nodeSyncState' = "failed"
    /\ UNCHANGED <<registered, walletInfo>>

\* unregisterWalletUpdateState: the wallet was deleted.
UnregisterWalletUpdateState(w) ==
    /\ registered' = registered \ {w}
    /\ walletInfo' = [walletInfo EXCEPT ![w] = FreshInfo]
    /\ UNCHANGED nodeSyncState
-----------------------------------------------------------------------------
\* The state messages of IsolateStateMethod: method name and parameters.
InitMsg(w) == [method |-> "initWalletUpdateStatus", wallet |-> w]
SyncMsg(w, e) == [method |-> "addWalletSyncState", wallet |-> w, element |-> e]
CompletedMsg(w, e) == [method |-> "addWalletCompletedState", wallet |-> w, element |-> e]
CompletedAllMsg(w) == [method |-> "addWalletCompletedAllStates", wallet |-> w]
QueueMsg(w, queued, snapshot) ==
    [method |-> "setWalletSyncQueueState", wallet |-> w, queued |-> queued, snapshot |-> snapshot]
NodeSyncingMsg == [method |-> "setNodeSyncStateToSyncing"]
NodeCompletedMsg == [method |-> "setNodeSyncStateToCompleted"]
NodeFailedMsg == [method |-> "setNodeSyncStateToFailed"]

HandleIsolateStateMessage(m) ==
    \/ m.method = "initWalletUpdateStatus" /\ InitWalletUpdateStatus(m.wallet)
    \/ m.method = "addWalletSyncState" /\ AddWalletSyncState(m.wallet, m.element)
    \/ m.method = "addWalletCompletedState" /\ AddWalletCompletedState(m.wallet, m.element)
    \/ m.method = "addWalletCompletedAllStates" /\ AddWalletCompletedAllStates(m.wallet)
    \/ m.method = "setNodeSyncStateToSyncing" /\ SetNodeSyncStateToSyncing
    \/ m.method = "setNodeSyncStateToCompleted" /\ SetNodeSyncStateToCompleted
    \/ m.method = "setNodeSyncStateToFailed" /\ SetNodeSyncStateToFailed
    \/ m.method = "setWalletSyncQueueState"
        /\ SetWalletSyncQueueState(m.wallet, m.queued, m.snapshot)

\* Any caller, in any order: what the manager guarantees by itself.
NodeNext ==
    \/ \E w \in Wallets :
        \/ InitWalletUpdateStatus(w)
        \/ AddWalletCompletedAllStates(w)
        \/ UnregisterWalletUpdateState(w)
        \/ \E e \in UpdateElements : AddWalletSyncState(w, e) \/ AddWalletCompletedState(w, e)
        \/ \E q \in BOOLEAN, b \in Balances \cup {NoBalance} : SetWalletSyncQueueState(w, q, b)
    \/ SetNodeSyncStateToSyncing
    \/ SetNodeSyncStateToCompleted
    \/ SetNodeSyncStateToFailed

NodeSpec == NodeInit /\ [][NodeNext]_nodeVars
-----------------------------------------------------------------------------
\* The node is never shown as synchronised while a wallet still has queued
\* work, whatever order the isolate's messages and NodeProvider's own calls
\* come in (the isSyncQueued test of isAllWalletsCompleted).
CompletedIsIdle ==
    nodeSyncState = "completed" => \A w \in registered : ~walletInfo[w].isSyncQueued

\* A balance once published for a wallet is never taken back: until the
\* wallet is deleted its snapshot is only ever replaced by another balance
\* (a failed or unfinished queue keeps the previous balance on the screen).
SnapshotNeverLost ==
    [][\A w \in Wallets :
        (walletInfo[w].balanceSnapshot # NoBalance /\ w \in registered')
            => walletInfo'[w].balanceSnapshot # NoBalance]_nodeVars

\* The node becomes completed only in a step that leaves every registered
\* wallet completed: another wallet's progress cannot hide an unfinished one
\* (wallet_balance_snapshot_test.dart:65).
CompletedOnlyWithAll ==
    [][(nodeSyncState # "completed" /\ nodeSyncState' = "completed")
        => \A w \in registered' : \A e \in UpdateElements :
               walletInfo'[w].elements[e] = "completed"]_nodeVars
=============================================================================
