----------------------------- MODULE SyncTasks -----------------------------
(***************************************************************************)
(* The state of the sync isolate and the subscription task: runQueued,     *)
(* SubscriptionService and the batch synchronisation of ScriptSyncService  *)
(* and BalanceSyncService, on the promise chain of SyncQueue, reporting    *)
(* through IsolateStateManager to NodeStateManager.  WalletSync adds the   *)
(* other tasks, the commands and the environment.                          *)
(*                                                                         *)
(* An action is the code between two awaits.  A script is an address index *)
(* of the wallet; its history on the chain is a version number (0: never   *)
(* used, status null), and every version toggles the address between       *)
(* funded (odd) and empty (even), by confirmed transactions.  The gap      *)
(* limit is larger than Scripts, and there is one branch (receive).        *)
(*                                                                         *)
(* A command's walletItem is copied into the isolate, so each command has  *)
(* a subscribedScriptMap and a receiveUsedIndex of its own.  A copy is     *)
(* named by the first task of the command.  The ScriptStatus object that   *)
(* the closure onUpdate writes to is the one the running batch holds.      *)
(***************************************************************************)
EXTENDS SyncQueue, IsolateStateManager, FiniteSets, FiniteSetsExt, Functions

CONSTANTS
    Scripts,      \* address indices of a wallet, 1 .. n
    MaxVersion,   \* bound: history changes of an address
    MaxFaults,    \* bound: calls that fail while the connection is up
    MaxInbox,     \* bound: the isolate's steps wait for the main isolate
                  \* while more messages than this are unread
    MaxRestarts,  \* bound: reconnections
    Commands      \* the commands and incidents of the environment considered

ASSUME WalletsAssumption == IsFiniteSet(Wallets)
ASSUME ScriptsAssumption == IsFiniteSet(Scripts) /\ Scripts = 1 .. Cardinality(Scripts)
ASSUME BalancesAssumption == 0 .. Cardinality(Scripts) \subseteq Balances
ASSUME MaxVersionAssumption == MaxVersion \in Nat \ {0}
ASSUME CommandsAssumption ==
    Commands \subseteq {"subscribeWallets", "subscribeWallet", "dormant", "resync",
                         "connectionLost", "commandTimeout"}

VARIABLES
    job,             \* task -> what it runs and where it stands
    iso,             \* IsolateStateManager and its port to the main isolate
    failedWallets,   \* _failedWalletSyncs
    failedScripts,   \* _failedScriptSyncs: wallet -> scripts
    failedBalances,  \* _failedBalanceFetches: wallet -> scripts
    server,          \* history of each address on the chain
    srvSub,          \* scripts the server notifies this connection about
    notif,           \* notifications on the wire
    stored,          \* RealmWalletAddress: version the stored balance is of
    used,            \* RealmWalletAddress.isUsed
    saved,           \* RealmScriptStatus: status persisted as synchronised
    cb,              \* SocketManager callbacks: copy the closure belongs to
    status,          \* copy -> status in the ScriptStatus object of a script
    inMap,           \* copy -> keys of its walletItem.subscribedScriptMap
    idx,             \* copy -> walletItem.receiveUsedIndex; 0 stands for -1
    mainIdx,         \* wallet -> receiveUsedIndex of the main isolate's item
    dormantAt,       \* wallets with an entry in _lastDormantSyncAt
    unscanned,       \* history: wallets whose last subscription task failed
    loop,            \* the subscribeWallets command in progress
    resync,          \* resyncWallet: the isolate's stage and the caller's outcome
    lost,            \* the socket is gone
    faults, restarts

taskVars == <<job, iso>>
markVars == <<failedWallets, failedScripts, failedBalances>>
dbVars == <<stored, used, saved, idx>>
subVars == <<srvSub, notif, cb, status, inMap>>
cmdVars == <<loop, resync, mainIdx, dormantAt, unscanned>>
envVars == <<server, lost, faults, restarts>>
vars == <<queueVars, nodeVars, taskVars, markVars, dbVars, subVars, cmdVars, envVars>>

Versions == 0 .. MaxVersion
NoCopy == 0
Alias == -1      \* a batch entry that is the ScriptStatus object of the closure

NoJob == [kind |-> "none", script |-> 0, copy |-> NoCopy, retry |-> FALSE, pc |-> "none",
          batch |-> <<>>,   \* script -> status of its ScriptStatus, or Alias
          again |-> <<>>,   \* the scripts that are in the batch a second time
          todo |-> {}, co |-> {}, peer |-> 0, ok |-> TRUE]
NewJob(kind, copy) == [NoJob EXCEPT !.kind = kind, !.copy = copy, !.pc = "new"]
IdleLoop == [todo |-> {}, task |-> NoTask, awaited |-> FALSE]
NoResync == [task |-> NoTask, stage |-> "idle", outcome |-> "none"]

Init ==
    /\ QueueInit /\ NodeInit
    /\ job = [t \in Tasks |-> NoJob]
    /\ iso = IsoInit
    /\ failedWallets = {}
    /\ failedScripts = [w \in Wallets |-> {}]
    /\ failedBalances = [w \in Wallets |-> {}]
    /\ server \in [Wallets -> [Scripts -> {0, 1}]]
    /\ srvSub = [w \in Wallets |-> {}]
    /\ notif = [w \in Wallets |-> [s \in Scripts |-> <<>>]]
    /\ stored = [w \in Wallets |-> [s \in Scripts |-> 0]]
    /\ used = [w \in Wallets |-> {}]
    /\ saved = [w \in Wallets |-> [s \in Scripts |-> 0]]
    /\ cb = [w \in Wallets |-> [s \in Scripts |-> NoCopy]]
    /\ status = [c \in Tasks |-> [s \in Scripts |-> 0]]
    /\ inMap = [c \in Tasks |-> {}]
    /\ idx = [c \in Tasks |-> 0]
    /\ mainIdx = [w \in Wallets |-> 0]
    /\ dormantAt = {} /\ unscanned = {}
    /\ loop = IdleLoop
    /\ resync = NoResync
    /\ lost = FALSE /\ faults = 0 /\ restarts = 0
-----------------------------------------------------------------------------
(* Repositories.                                                           *)

Funded(v) == v % 2 = 1

\* getWalletBalance: the diffs of updateAddressBalance(Batch) are written with
\* the address, so the wallet's total is the sum over its addresses.
WalletBalance(w) == Cardinality({s \in Scripts : Funded(stored[w][s])})

\* isAddressDormant: used, and nothing left on it.
Dormant(w, s) == s \in used[w] /\ ~Funded(stored[w][s])

\* The next index instead of the last used one.
UsedIndexIsNext(w) == IF used[w] = {} THEN 0 ELSE Max(used[w]) + 1

\* RealmWalletBase.usedReceiveIndex, advanced together with isUsed.
UsedIndex(w) == IF used[w] = {} THEN 0 ELSE Max(used[w])

\* Scripts S are marked as used, and the indices of the database and of copy c
\* advance.
SetUsed(w, c, S) ==
    /\ used' = [used EXCEPT ![w] = @ \cup S]
    /\ idx' = [idx EXCEPT ![c] = Max({@} \cup used'[w])]

\* The stored balances of scripts S become what the server answers.
StoreBalances(w, S) ==
    stored' = [stored EXCEPT ![w] = [s \in Scripts |-> IF s \in S THEN server[w][s] ELSE @[s]]]
-----------------------------------------------------------------------------
(* Network calls.                                                          *)

\* A call can be answered.
Answered == ~lost /\ UNCHANGED envVars

\* A call throws: a server error or timeout, or the socket is gone.
Throws ==
    /\ lost \/ faults < MaxFaults
    /\ faults' = IF lost THEN faults ELSE faults + 1
    /\ UNCHANGED <<server, lost, restarts>>

\* subscribeScriptForWallet for scripts S of copy c: the status of the answer
\* goes to a new ScriptStatus, the closure replaces the wallet's callback.
Subscribe(w, c, S) ==
    /\ srvSub' = [srvSub EXCEPT ![w] = @ \cup S]
    /\ cb' = [cb EXCEPT ![w] = [s \in Scripts |-> IF s \in S THEN c ELSE @[s]]]
    /\ status' = [status EXCEPT ![c] = [s \in Scripts |-> IF s \in S THEN server[w][s] ELSE @[s]]]
    /\ inMap' = [inMap EXCEPT ![c] = @ \cup S]
    /\ UNCHANGED notif

\* unsubscribeAddress once answered.  Notifications sent before the answer
\* are read from the socket before it.
Unsubscribe(w, c, S) ==
    /\ \A s \in S : notif[w][s] = <<>>
    /\ srvSub' = [srvSub EXCEPT ![w] = @ \ S]
    /\ cb' = [cb EXCEPT ![w] = [s \in Scripts |-> IF s \in S THEN NoCopy ELSE @[s]]]
    /\ inMap' = [inMap EXCEPT ![c] = @ \ S]
    /\ UNCHANGED <<notif, status>>
-----------------------------------------------------------------------------
(* runQueued.                                                              *)

\* runQueued called with the isolate's state manager at m.
Enqueue(w, j, m) ==
    /\ RunQueued(w)
    /\ job' = [job EXCEPT ![nTasks + 1] = j]
    /\ iso' = IF StartsQueue(w) THEN Send(m, QueueMsg(w, TRUE, WalletBalance(w))) ELSE m

At(t, pc) == phase[t] = "running" /\ job[t].pc = pc

\* The task continues at pc; m is the state manager after the step.
Goto(t, pc, m) ==
    /\ job' = [job EXCEPT ![t].pc = pc]
    /\ iso' = m
    /\ UNCHANGED <<queueVars, nodeVars, cmdVars>>

\* The task body ends, with success or with a failure Result or an exception.
Return(t, ok, m) ==
    /\ job' = [job EXCEPT ![t] = [NoJob EXCEPT !.kind = job[t].kind, !.copy = job[t].copy,
                                                 !.pc = "end", !.ok = ok]]
    /\ iso' = m
    /\ UNCHANGED <<queueVars, nodeVars, cmdVars>>

\* result.isFailure and the catch branch of runQueued.
Finish(t) ==
    /\ At(t, "end")
    /\ Settle(t)
    /\ failedWallets' = IF job[t].ok THEN failedWallets ELSE failedWallets \cup {walletOf[t]}
    /\ unscanned' = IF job[t].kind # "subscribe" THEN unscanned
                    ELSE IF job[t].ok THEN unscanned \ {walletOf[t]}
                    ELSE unscanned \cup {walletOf[t]}
    /\ UNCHANGED <<nodeVars, taskVars, failedScripts, failedBalances, dbVars, subVars,
                   loop, resync, mainIdx, dormantAt, envVars>>

Marked(w) == w \in failedWallets \/ failedScripts[w] # {} \/ failedBalances[w] # {}

\* A drain that says nothing.
DrainedSilently(w) == iso

\* Only the failures of the tasks of this queue count.
DrainedForgetsScripts(w) ==
    Send(iso, QueueMsg(w, FALSE, IF w \in failedWallets THEN NoBalance ELSE WalletBalance(w)))

\* What the cleanup callback of the last task of a queue publishes.
Drained(w) == Send(iso, QueueMsg(w, FALSE, IF Marked(w) THEN NoBalance ELSE WalletBalance(w)))

\* Every task of the queue announces its end.
QueueCleanupAlways(t) ==
    LET w == walletOf[t] IN
    /\ Cleanup(t)
    /\ iso' = Drained(w)
    /\ failedWallets' = failedWallets \ {w}
    /\ UNCHANGED <<nodeVars, job, failedScripts, failedBalances, dbVars, subVars, cmdVars, envVars>>

\* queuedSync.whenComplete
QueueCleanup(t) ==
    LET w == walletOf[t] IN
    /\ Cleanup(t)
    /\ iso' = IF IsTail(t) THEN Drained(w) ELSE iso
    /\ failedWallets' = IF IsTail(t) THEN failedWallets \ {w} ELSE failedWallets
    /\ UNCHANGED <<nodeVars, job, failedScripts, failedBalances, dbVars, subVars, cmdVars, envVars>>
-----------------------------------------------------------------------------
(* SubscriptionService: _performSubscribeWallet.                           *)

\* Where a guarded subscription returns to: the queue, or the gap extension of
\* _processScriptStatus.
SubscribeReturns(t, ok, m) ==
    IF job[t].kind = "subscribe" THEN Return(t, ok, m)
    ELSE /\ job' = [job EXCEPT ![t].pc = IF ok THEN "extended" ELSE "failed",
                               ![t].batch = <<>>, ![t].again = <<>>]
         /\ iso' = m
         /\ UNCHANGED <<queueVars, nodeVars, cmdVars>>

BeginSubscribe(t) ==
    /\ job[t].kind = "subscribe" /\ job[t].pc = "new"
    /\ Start(t)
    /\ job' = [job EXCEPT ![t].pc = "scan"]
    /\ iso' = IsoAddWalletSyncState(iso, walletOf[t], "subscription")
    /\ UNCHANGED <<nodeVars, markVars, dbVars, subVars, cmdVars, envVars>>

\* _subscribeWallet: the window above the copy's last used index, which is
\* every address at 0, and below it the used addresses that are active and the
\* ones whose last synchronisation failed.
ScanRange(w, c) ==
    {s \in Scripts : \/ s > idx[c]
                     \/ s \in used[w] /\ ~Dormant(w, s)
                     \/ s \in failedScripts[w]}

\* An active or failed address above the copy's last used index is subscribed
\* as such and again with the window, unless there is no used index at all.
SubscribedTwice(w, c) ==
    {s \in Scripts : /\ 0 < idx[c] /\ idx[c] < s
                     /\ (s \in used[w] /\ ~Dormant(w, s)) \/ s \in failedScripts[w]}

\* getUpdatedScriptStatuses
Changed(w, fetched) == {s \in DOMAIN fetched : fetched[s] # saved[w][s]}

\* A failed script whose status was saved is not synchronised again.
UpdatedForgetsFailed(w, fetched, again) == Changed(w, fetched)

\* Also the scripts whose last sync failed, once.
UpdatedScripts(w, fetched, again) ==
    Changed(w, fetched) \cup ((DOMAIN fetched \cap failedScripts[w]) \ Changed(w, again))

\* The status the batch's ScriptStatus object of s holds by now.
StatusOf(t, s) ==
    IF job[t].batch[s] = Alias THEN status[job[t].copy][s] ELSE job[t].batch[s]

\* _subscribeWallet: a script already in the copy's map gets a new ScriptStatus
\* with the status of the map, the others are requested from the server.
Scan(t) ==
    LET w == walletOf[t]  c == job[t].copy
        range == ScanRange(w, c)
        new == range \ inMap[c]
        seen(s) == IF s \in new THEN server[w][s] ELSE status[c][s]
    IN
    /\ At(t, "scan")
    /\ new # {} => ~lost
    /\ Subscribe(w, c, new)
    /\ idx' = [idx EXCEPT ![c] = Max({@} \cup {s \in range : seen(s) # 0})]
    /\ job' = [job EXCEPT
                ![t].batch = [s \in range |-> IF s \in new THEN Alias ELSE status[c][s]],
                ![t].again = [s \in SubscribedTwice(w, c) |-> seen(s)],
                ![t].pc = "compare"]
    /\ UNCHANGED <<queueVars, nodeVars, iso, markVars, stored, used, saved, cmdVars, envVars>>

\* syncWalletWithSubscriptionData, then the comparison with the saved statuses.
Compare(t) ==
    LET w == walletOf[t]  c == job[t].copy
        fetched == [s \in DOMAIN job[t].batch |-> StatusOf(t, s)]
        updated == UpdatedScripts(w, fetched, job[t].again)
        second == Changed(w, job[t].again)
    IN
    /\ At(t, "compare")
    /\ SetUsed(w, c, {s \in DOMAIN fetched : fetched[s] # 0})
    /\ IF updated \cup second = {}
       THEN SubscribeReturns(t, TRUE, Send(iso, CompletedAllMsg(w)))
       ELSE /\ job' = [job EXCEPT ![t].batch = Restrict(@, updated),
                                 ![t].again = Restrict(@, second), ![t].pc = "b.balance"]
            /\ iso' = IsoAddWalletSyncState(
                        IsoAddWalletCompletedState(iso, w, "subscription"), w, "balance")
            /\ UNCHANGED <<queueVars, nodeVars, cmdVars>>
    /\ UNCHANGED <<markVars, stored, saved, subVars, envVars>>

\* Future.wait fails after the requests R of the scan were answered.
ScanFails(t) ==
    LET w == walletOf[t]  c == job[t].copy
        new == ScanRange(w, c) \ inMap[c]
    IN
    /\ At(t, "scan")
    /\ Throws
    /\ \E R \in SUBSET new \ {new} : (lost => R = {}) /\ Subscribe(w, c, R)
    /\ SubscribeReturns(t, FALSE, iso)
    /\ UNCHANGED <<markVars, dbVars>>
-----------------------------------------------------------------------------
(* ScriptSyncService: syncBatchScriptStatusList.                           *)

Batch(t) == DOMAIN job[t].batch \cup DOMAIN job[t].again

\* The catch branch, with the state manager at m: every script of the batch is
\* marked, the exception makes the guarded subscription fail.
BatchFails(t, m) ==
    LET w == walletOf[t] IN
    /\ failedScripts' = [failedScripts EXCEPT ![w] = @ \cup Batch(t)]
    /\ SubscribeReturns(t, FALSE, Send(IsoInitWalletUpdateStatus(m, w), NodeCompletedMsg))

\* fetchScriptBalanceBatch: the fetches F fail, the others are stored in one
\* transaction.  A failed fetch of the wallet, now or earlier, ends the batch.
BatchBalance(t, F) ==
    LET w == walletOf[t]
        m == IsoAddWalletCompletedState(iso, w, "balance")
    IN
    /\ At(t, "b.balance")
    /\ F \subseteq Batch(t)
    /\ IF F = {} THEN Answered ELSE Throws /\ (lost => F = Batch(t))
    /\ StoreBalances(w, Batch(t) \ F)
    /\ failedBalances' = [failedBalances EXCEPT ![w] = (@ \cup F) \ (Batch(t) \ F)]
    /\ IF failedBalances'[w] # {}
       THEN BatchFails(t, m)
       ELSE /\ Goto(t, "b.tx", IsoAddWalletSyncState(m, w, "transaction"))
            /\ UNCHANGED failedScripts
    /\ UNCHANGED <<failedWallets, used, saved, idx, subVars>>

\* The scripts of the batch that became dormant and are in the copy's map.
DormantOfBatch(t) ==
    {s \in Batch(t) : Dormant(walletOf[t], s) /\ s \in inMap[job[t].copy]}

BatchTransactions(t) ==
    LET w == walletOf[t]
        m == IsoAddWalletCompletedState(iso, w, "transaction")
    IN
    /\ At(t, "b.tx")
    /\ \/ /\ Answered
          /\ IF DormantOfBatch(t) = {}
             THEN Goto(t, "b.utxo", IsoAddWalletSyncState(m, w, "utxo"))
             ELSE Goto(t, "b.unsub", m)
          /\ UNCHANGED failedScripts
       \/ Throws /\ BatchFails(t, iso)
    /\ UNCHANGED <<failedWallets, failedBalances, dbVars, subVars>>

\* Future.wait of _unsubscribeIfDormant; the ones in R are answered.
BatchUnsubscribe(t, R) ==
    LET w == walletOf[t] IN
    /\ At(t, "b.unsub")
    /\ R \subseteq DormantOfBatch(t)
    /\ Unsubscribe(w, job[t].copy, R)
    /\ \/ /\ Answered /\ R = DormantOfBatch(t)
          /\ Goto(t, "b.utxo", IsoAddWalletSyncState(iso, w, "utxo"))
          /\ UNCHANGED failedScripts
       \/ /\ Throws /\ R # DormantOfBatch(t) /\ (lost => R = {})
          /\ BatchFails(t, iso)
    /\ UNCHANGED <<failedWallets, failedBalances, dbVars>>

\* fetchScriptUtxo swallows its errors; the failure marks of the batch and of
\* the wallet are dropped.
BatchUtxos(t) ==
    LET w == walletOf[t] IN
    /\ At(t, "b.utxo")
    /\ failedScripts' = [failedScripts EXCEPT ![w] = @ \ Batch(t)]
    /\ failedWallets' = failedWallets \ {w}
    /\ Goto(t, "save", IsoAddWalletCompletedState(iso, w, "utxo"))
    /\ UNCHANGED <<failedBalances, dbVars, subVars, envVars>>

\* A script that is in the list twice and has no RealmScriptStatus: addAll gets
\* two objects with one primary key, and the write is rolled back.
SavedTwice(t) ==
    \E s \in DOMAIN job[t].batch \cap DOMAIN job[t].again :
        saved[walletOf[t]][s] = 0 /\ job[t].again[s] # 0

\* updateScriptStatusList with the statuses the batch's objects hold by now; a
\* null status is not stored, a second object of a script is stored last.
SaveStatuses(t) ==
    LET w == walletOf[t]
        first == DOMAIN job[t].batch
        second == {s \in DOMAIN job[t].again : job[t].again[s] \notin {0, saved[w][s]}}
    IN
    /\ At(t, "save")
    /\ \/ /\ ~SavedTwice(t)
          /\ saved' = [saved EXCEPT ![w] =
                [s \in Scripts |-> IF s \in second THEN job[t].again[s]
                                  ELSE IF s \in first /\ StatusOf(t, s) # 0 THEN StatusOf(t, s)
                                  ELSE @[s]]]
          /\ SubscribeReturns(t, TRUE, iso)
          /\ UNCHANGED envVars
       \/ /\ IF SavedTwice(t) THEN UNCHANGED envVars ELSE Throws
          /\ SubscribeReturns(t, FALSE, iso)
          /\ UNCHANGED saved
    /\ UNCHANGED <<markVars, stored, used, idx, subVars>>
=============================================================================
