---------------------------- MODULE WalletSync ----------------------------
(***************************************************************************)
(* The synchronisation of wallets with an Electrum server: the tasks of    *)
(* script events, of dormant addresses and of a resync, the commands of    *)
(* the main isolate (IsolateController, NodeProvider), the server, the     *)
(* connection and the message port.  See SyncTasks for the state.          *)
(***************************************************************************)
EXTENDS SyncTasks

(* ScriptSyncService: _processScriptStatus.                                *)

\* Where the processing of one script returns to: the queue, or the loop of
\* syncDormantAddresses.  Errors have been caught.
EventEnds(t, m) == IF job[t].kind = "event" THEN Return(t, TRUE, m) ELSE Goto(t, "d.next", m)

BeginEvent(t) ==
    /\ job[t].kind = "event" /\ job[t].pc = "new"
    /\ Start(t)
    /\ job' = [job EXCEPT ![t].pc = "delay"]
    /\ UNCHANGED <<nodeVars, iso, markVars, dbVars, subVars, cmdVars, envVars>>

\* subscription completed, fetchScriptBalance begun.
SubscriptionDone(m, w) ==
    IsoAddWalletSyncState(IsoAddWalletCompletedState(m, w, "subscription"), w, "balance")

\* retrySubscription && index == oldUsedIndex || _needSubscriptionUpdate
Extends(t, old, new) == new > old \/ (job[t].retry /\ job[t].script = old)

\* After the indexing delay: the index and isUsed are updated, and the window
\* is extended before the script's own balance is fetched.
ProcessBegin(t) ==
    LET w == walletOf[t]  c == job[t].copy
        old == idx[c]
        new == Max({old, UsedIndex(w), job[t].script})
        m == IsoInitWalletUpdateStatus(iso, w)
    IN
    /\ At(t, "delay")
    /\ idx' = [idx EXCEPT ![c] = new]
    /\ used' = [used EXCEPT ![w] = @ \cup {job[t].script}]
    /\ IF Extends(t, old, new)
       THEN Goto(t, "scan", IsoAddWalletSyncState(m, w, "subscription"))
       ELSE Goto(t, "e.balance", SubscriptionDone(m, w))
    /\ UNCHANGED <<markVars, stored, saved, subVars, envVars>>

Extended(t) ==
    /\ At(t, "extended")
    /\ Goto(t, "e.balance", SubscriptionDone(iso, walletOf[t]))
    /\ UNCHANGED <<markVars, dbVars, subVars, envVars>>

\* The catch branch of _processScriptStatus.
EventFailed(t) ==
    /\ At(t, "failed")
    /\ failedScripts' = [failedScripts EXCEPT ![walletOf[t]] = @ \cup {job[t].script}]
    /\ EventEnds(t, Send(iso, NodeCompletedMsg))
    /\ UNCHANGED <<failedWallets, failedBalances, dbVars, subVars, envVars>>

\* syncAddressBalance of script s: stored, or marked as a failed fetch.
AddressBalance(w, s, ok) ==
    IF ok
    THEN /\ Answered
         /\ StoreBalances(w, {s})
         /\ failedBalances' = [failedBalances EXCEPT ![w] = @ \ {s}]
    ELSE /\ Throws
         /\ failedBalances' = [failedBalances EXCEPT ![w] = @ \cup {s}]
         /\ UNCHANGED stored

EventBalance(t, ok) ==
    LET w == walletOf[t]
        m == IsoAddWalletCompletedState(iso, w, "balance")
    IN
    /\ At(t, "e.balance")
    /\ AddressBalance(w, job[t].script, ok)
    /\ IF ok THEN Goto(t, "e.tx", IsoAddWalletSyncState(m, w, "transaction"))
       ELSE Goto(t, "failed", iso)
    /\ UNCHANGED <<failedWallets, failedScripts, used, saved, idx, subVars>>

\* fetchScriptTransaction, and the fetchUtxos callback it was waiting for.  An
\* empty history also completes utxo; otherwise co are the other addresses the
\* new transactions spend from.
EventTransactions(t) ==
    LET w == walletOf[t]
        m == IsoAddWalletCompletedState(iso, w, "transaction")
    IN
    /\ At(t, "e.tx")
    /\ \/ /\ Answered
          /\ \E empty \in BOOLEAN, co \in SUBSET (used[w] \ {job[t].script}) :
              /\ empty => co = {}
              /\ job' = [job EXCEPT ![t].pc = "e.utxo", ![t].co = co]
              /\ iso' = IsoAddWalletSyncState(
                          IF empty THEN IsoAddWalletCompletedState(m, w, "utxo") ELSE m, w, "utxo")
          /\ UNCHANGED <<queueVars, nodeVars, cmdVars>>
       \/ Throws /\ Goto(t, "failed", iso)
    /\ UNCHANGED <<markVars, dbVars, subVars>>

\* isAddressDormant and in the copy's map: _unsubscribeIfDormant sends a request.
Unwatch(t, s) == Dormant(walletOf[t], s) /\ s \in inMap[job[t].copy]

EventUtxos(t) ==
    /\ At(t, "e.utxo")
    /\ Goto(t, IF Unwatch(t, job[t].script) THEN "e.unsub" ELSE "e.cospent",
            IsoAddWalletCompletedState(iso, walletOf[t], "utxo"))
    /\ UNCHANGED <<markVars, dbVars, subVars, envVars>>

EventUnsubscribe(t) ==
    /\ At(t, "e.unsub")
    /\ \/ /\ Answered
          /\ Unsubscribe(walletOf[t], job[t].copy, {job[t].script})
          /\ Goto(t, "e.cospent", iso)
       \/ /\ Throws
          /\ Goto(t, "failed", iso)
          /\ UNCHANGED subVars
    /\ UNCHANGED <<markVars, dbVars>>

\* _syncCoSpentAddressBalances, one address: a failure marks the wallet and the
\* loop goes on.
CoSpent(t, s, ok) ==
    LET w == walletOf[t] IN
    /\ At(t, "e.cospent")
    /\ s \in job[t].co
    /\ AddressBalance(w, s, ok)
    /\ failedWallets' = IF ok THEN failedWallets ELSE failedWallets \cup {w}
    /\ job' = [job EXCEPT ![t].co = @ \ {s},
                          ![t].peer = s,
                          ![t].pc = IF ok THEN "e.counsub" ELSE "e.cospent"]
    /\ UNCHANGED <<queueVars, nodeVars, iso, failedScripts, used, saved, idx, subVars, cmdVars>>

CoSpentUnsubscribe(t) ==
    LET w == walletOf[t]  s == job[t].peer IN
    /\ At(t, "e.counsub")
    /\ Goto(t, "e.cospent", iso)
    /\ \/ ~Unwatch(t, s) /\ UNCHANGED <<subVars, failedWallets, envVars>>
       \/ Unwatch(t, s) /\ Answered /\ Unsubscribe(w, job[t].copy, {s}) /\ UNCHANGED failedWallets
       \/ Unwatch(t, s) /\ Throws /\ failedWallets' = failedWallets \cup {w} /\ UNCHANGED subVars
    /\ UNCHANGED <<failedScripts, failedBalances, dbVars>>

EventDone(t) ==
    /\ At(t, "e.cospent")
    /\ job[t].co = {}
    /\ failedScripts' = [failedScripts EXCEPT ![walletOf[t]] = @ \ {job[t].script}]
    /\ EventEnds(t, iso)
    /\ UNCHANGED <<failedWallets, failedBalances, dbVars, subVars, envVars>>
-----------------------------------------------------------------------------
(* ScriptSyncService: syncDormantAddresses.                                *)

DormantScripts(w) == {s \in Scripts : Dormant(w, s)}

\* Throttled or nothing to do: the task ends.  Before initWalletUpdateStatus the
\* wallet has no counter, and incrementCounter throws.
BeginDormant(t) ==
    LET w == walletOf[t]
        end(ok) == job' = [job EXCEPT ![t].pc = "end", ![t].ok = ok] /\ UNCHANGED iso
    IN
    /\ job[t].kind = "dormant" /\ job[t].pc = "new"
    /\ Start(t)
    /\ \/ /\ w \in dormantAt
          /\ end(TRUE)
          /\ UNCHANGED dormantAt
       \/ /\ dormantAt' = dormantAt \cup {w}
          /\ IF DormantScripts(w) = {} THEN end(TRUE)
             ELSE IF w \notin iso.known THEN end(FALSE)
             ELSE /\ job' = [job EXCEPT ![t].pc = "d.balance", ![t].todo = DormantScripts(w)]
                  /\ iso' = IsoAddWalletSyncState(iso, w, "balance")
    /\ UNCHANGED <<nodeVars, markVars, dbVars, subVars, loop, resync, mainIdx, unscanned, envVars>>

\* fetchScriptBalanceBatch marks the failed fetches F and does not throw.
DormantBalance(t, F) ==
    LET w == walletOf[t]  all == job[t].todo IN
    /\ At(t, "d.balance")
    /\ F \subseteq all
    /\ IF F = {} THEN Answered ELSE Throws /\ (lost => F = all)
    /\ StoreBalances(w, all \ F)
    /\ failedBalances' = [failedBalances EXCEPT ![w] = (@ \cup F) \ (all \ F)]
    /\ Goto(t, "d.next", IsoAddWalletCompletedState(iso, w, "balance"))
    /\ UNCHANGED <<failedWallets, failedScripts, used, saved, idx, subVars>>

\* The loop over the addresses: the first that is active again is subscribed.
DormantNext(t) ==
    LET active == {s \in job[t].todo : ~Dormant(walletOf[t], s)} IN
    /\ At(t, "d.next")
    /\ IF active = {} THEN Return(t, TRUE, iso)
       ELSE /\ job' = [job EXCEPT ![t].pc = "d.sub", ![t].script = Min(active),
                                  ![t].todo = {s \in @ : s > Min(active)}]
            /\ UNCHANGED <<queueVars, nodeVars, iso, cmdVars>>
    /\ UNCHANGED <<markVars, dbVars, subVars, envVars>>

DormantSubscribe(t) ==
    LET c == job[t].copy  s == job[t].script IN
    /\ At(t, "d.sub")
    /\ \/ s \in inMap[c] /\ Goto(t, "delay", iso) /\ UNCHANGED <<subVars, envVars>>
       \/ s \notin inMap[c] /\ Answered /\ Subscribe(walletOf[t], c, {s}) /\ Goto(t, "delay", iso)
       \/ s \notin inMap[c] /\ Throws /\ Return(t, FALSE, iso) /\ UNCHANGED subVars
    /\ UNCHANGED <<markVars, dbVars>>
-----------------------------------------------------------------------------
(* WalletResyncService: the exclusive task that wipes the wallet's data.   *)

BeginReset(t) ==
    /\ job[t].kind = "reset" /\ job[t].pc = "new"
    /\ Start(t)
    /\ job' = [job EXCEPT ![t].pc = "reset"]
    /\ UNCHANGED <<nodeVars, iso, markVars, dbVars, subVars, cmdVars, envVars>>

\* resetWalletForResync, and the in-memory walletItem; a failing database write
\* changes nothing.  The failure marks and the other copies stay as they are.
Reset(t) ==
    LET w == walletOf[t]  c == job[t].copy IN
    /\ At(t, "reset")
    /\ \/ /\ stored' = [stored EXCEPT ![w] = [s \in Scripts |-> 0]]
          /\ saved' = [saved EXCEPT ![w] = [s \in Scripts |-> 0]]
          /\ used' = [used EXCEPT ![w] = {}]
          /\ idx' = [idx EXCEPT ![c] = 0]
          /\ inMap' = [inMap EXCEPT ![c] = {}]
          /\ Return(t, TRUE, iso)
          /\ UNCHANGED <<srvSub, notif, cb, status, envVars>>
       \/ Throws /\ Return(t, FALSE, iso) /\ UNCHANGED <<dbVars, subVars>>
    /\ UNCHANGED markVars
-----------------------------------------------------------------------------
(* IsolateController and NodeProvider: the commands of the main isolate.   *)

\* The bound on tasks leaves room for the notifications on the wire and for the
\* commands in progress, so that it never holds up work already begun.
Pending == {n \in Wallets \X Scripts \X (1 .. MaxVersion) : n[3] <= Len(notif[n[1]][n[2]])}
Reserved == Cardinality(Pending) + Cardinality(loop.todo) + (IF resync.stage = "wiping" THEN 1 ELSE 0)
Room(k) == nTasks + Reserved + k <= MaxTasks

\* runQueued for a command: its walletItem is a new copy.
EnqueueCommand(w, kind, m) ==
    /\ Enqueue(w, NewJob(kind, nTasks + 1), m)
    /\ idx' = [idx EXCEPT ![nTasks + 1] = mainIdx[w]]
    /\ UNCHANGED <<nodeVars, markVars, stored, used, saved, subVars, mainIdx, dormantAt, unscanned,
                   envVars>>

\* initWalletUpdateStatus of each wallet of a list: the ones that are not syncing
\* are reset, and announced in the order of the list.
InitWallets(m, order) ==
    [m EXCEPT !.known = @ \cup Range(order),
              !.info = [w \in Wallets |-> IF w \in Range(order) THEN AllElements("waiting") ELSE @[w]],
              !.counter = [w \in Wallets |->
                             IF w \in Range(order) THEN [e \in UpdateElements |-> 0] ELSE @[w]],
              !.out = @ \o [i \in DOMAIN order |-> InitMsg(order[i])]]

SubscribeWallets ==
    LET resting == {w \in Wallets : ~IsWalletAnySyncing(iso, w)} IN
    /\ "subscribeWallets" \in Commands
    /\ loop = IdleLoop
    /\ Room(Cardinality(Wallets))
    /\ \E w \in Wallets, order \in Bijection(1 .. Cardinality(resting), resting) :
        /\ EnqueueCommand(w, "subscribe", Send(InitWallets(iso, order), NodeSyncingMsg))
        /\ loop' = [todo |-> Wallets \ {w}, task |-> nTasks + 1, awaited |-> TRUE]
    /\ UNCHANGED resync

SubscribeWallet(w) ==
    /\ "subscribeWallet" \in Commands
    /\ loop = IdleLoop
    /\ Room(1)
    /\ EnqueueCommand(w, "subscribe", IsoInitWalletUpdateStatus(iso, w))
    /\ loop' = [todo |-> {}, task |-> nTasks + 1, awaited |-> TRUE]
    /\ UNCHANGED resync

LoopTaskDone == loop.task # NoTask /\ phase[loop.task] = "done"

\* await subscribeWallet(walletItem) returned: the next wallet, or the result is
\* sent; NodeProvider sets the node to failed on a failure it still waits for.
LoopNext ==
    /\ LoopTaskDone
    /\ job[loop.task].ok
    /\ loop.todo # {}
    /\ \E w \in loop.todo :
        /\ EnqueueCommand(w, "subscribe", iso)
        /\ loop' = [loop EXCEPT !.todo = @ \ {w}, !.task = nTasks + 1]
    /\ UNCHANGED resync

LoopEnds ==
    /\ LoopTaskDone
    /\ ~job[loop.task].ok \/ loop.todo = {}
    /\ loop' = IdleLoop
    /\ iso' = IF ~job[loop.task].ok /\ loop.awaited THEN Send(iso, NodeFailedMsg) ELSE iso
    /\ UNCHANGED <<queueVars, nodeVars, job, markVars, dbVars, subVars, resync, mainIdx, dormantAt,
                   unscanned, envVars>>

SyncDormant(w) ==
    /\ "dormant" \in Commands
    /\ Room(1)
    /\ EnqueueCommand(w, "dormant", iso)
    /\ UNCHANGED <<loop, resync>>

\* raceResyncAgainstConnectionLoss: the first of the result and a failed node.
RaceResync ==
    IF resync.outcome = "waiting" /\ nodeSyncState # "failed" /\ nodeSyncState' = "failed"
    THEN [resync EXCEPT !.outcome = "connectionError"] ELSE resync

\* kIsolateResponseTimeout: the main isolate takes the command for failed while
\* the sync isolate goes on with it.
CommandTimeout ==
    /\ "commandTimeout" \in Commands
    /\ loop.awaited
    /\ loop' = [loop EXCEPT !.awaited = FALSE]
    /\ SetNodeSyncStateToFailed
    /\ resync' = RaceResync
    /\ UNCHANGED <<queueVars, taskVars, markVars, dbVars, subVars, mainIdx, dormantAt, unscanned,
                   envVars>>

\* resyncWallet: raceResyncAgainstConnectionLoss listens to syncStateStream,
\* which replays the current state first.
ResyncWallet(w) ==
    /\ "resync" \in Commands
    /\ resync.stage = "idle"
    /\ Room(2)
    /\ EnqueueCommand(w, "reset", IsoInitWalletUpdateStatus(iso, w))
    /\ resync' = [task |-> nTasks + 1, stage |-> "wiping",
                  outcome |-> IF nodeSyncState = "failed" THEN "connectionError" ELSE "waiting"]
    /\ UNCHANGED loop

ResultMsg(ok) == [method |-> "resyncResult", ok |-> ok]

\* _resyncWalletInternal after the reset: the cold scan, with the same copy.
ResyncScans ==
    LET r == resync.task IN
    /\ resync.stage = "wiping" /\ phase[r] = "done"
    /\ job[r].ok
    /\ Enqueue(walletOf[r], NewJob("subscribe", job[r].copy), iso)
    /\ resync' = [resync EXCEPT !.stage = "scanning", !.task = nTasks + 1]
    /\ UNCHANGED <<nodeVars, markVars, dbVars, subVars, loop, mainIdx, dormantAt, unscanned, envVars>>

\* A failed resync sends no result.
ResyncEndsSilently ==
    LET r == resync.task IN
    /\ resync.stage \in {"wiping", "scanning"} /\ phase[r] = "done"
    /\ resync.stage = "wiping" => ~job[r].ok
    /\ iso' = IF job[r].ok THEN Send(iso, ResultMsg(TRUE)) ELSE iso
    /\ resync' = [resync EXCEPT !.stage = "ended", !.task = NoTask]
    /\ UNCHANGED <<queueVars, nodeVars, job, markVars, dbVars, subVars, loop, mainIdx, dormantAt,
                   unscanned, envVars>>

\* The result of the resync is sent to the main isolate.
ResyncEnds ==
    LET r == resync.task IN
    /\ resync.stage \in {"wiping", "scanning"} /\ phase[r] = "done"
    /\ resync.stage = "wiping" => ~job[r].ok
    /\ iso' = Send(iso, ResultMsg(job[r].ok))
    /\ resync' = [resync EXCEPT !.stage = "ended", !.task = NoTask]
    /\ UNCHANGED <<queueVars, nodeVars, job, markVars, dbVars, subVars, loop, mainIdx, dormantAt,
                   unscanned, envVars>>
-----------------------------------------------------------------------------
(* The server, the connection and the message port.                        *)

\* The history of an address changes; the server notifies its subscribers.
ChainChange(w, s) ==
    /\ server[w][s] < MaxVersion
    /\ s \in srvSub[w] => Room(1)
    /\ server' = [server EXCEPT ![w][s] = @ + 1]
    /\ notif' = IF s \in srvSub[w] THEN [notif EXCEPT ![w][s] = Append(@, server'[w][s])] ELSE notif
    /\ UNCHANGED <<queueVars, nodeVars, taskVars, markVars, dbVars, srvSub, cb, status, inMap,
                   cmdVars, lost, faults, restarts>>

\* The closure leaves the update to the task that is under way.
NotifyWhenIdle(w, s) ==
    LET c == cb[w][s] IN
    /\ notif[w][s] # <<>>
    /\ notif' = [notif EXCEPT ![w][s] = Tail(@)]
    /\ IF c = NoCopy \/ tail[w] # NoTask
       THEN UNCHANGED <<queueVars, taskVars, status, inMap>>
       ELSE /\ status' = [status EXCEPT ![c][s] = Head(notif[w][s])]
            /\ inMap' = [inMap EXCEPT ![c] = @ \cup {s}]
            /\ Enqueue(w, [NewJob("event", c) EXCEPT !.script = s], iso)
    /\ UNCHANGED <<nodeVars, markVars, dbVars, srvSub, cb, cmdVars, envVars>>

\* The wallet's onUpdate closure and _handleScriptUpdate; without a closure the
\* notification is dropped.
Notify(w, s) ==
    LET c == cb[w][s]
        v == Head(notif[w][s])
        changed == s \notin inMap[c] \/ status[c][s] # v
    IN
    /\ notif[w][s] # <<>>
    /\ notif' = [notif EXCEPT ![w][s] = Tail(@)]
    /\ IF c = NoCopy
       THEN UNCHANGED <<queueVars, taskVars, status, inMap>>
       ELSE /\ status' = [status EXCEPT ![c][s] = v]
            /\ inMap' = [inMap EXCEPT ![c] = @ \cup {s}]
            /\ Enqueue(w, [NewJob("event", c) EXCEPT !.script = s,
                                                     !.retry = changed /\ s >= idx[c]], iso)
    /\ UNCHANGED <<nodeVars, markVars, dbVars, srvSub, cb, cmdVars, envVars>>

\* The socket closes: setOnConnectionLostCallback reports the node as failed.
ConnectionLost ==
    /\ "connectionLost" \in Commands
    /\ ~lost
    /\ lost' = TRUE
    /\ iso' = Send(iso, NodeFailedMsg)
    /\ srvSub' = [w \in Wallets |-> {}]
    /\ notif' = [w \in Wallets |-> [s \in Scripts |-> <<>>]]
    /\ UNCHANGED <<queueVars, nodeVars, job, markVars, dbVars, cb, status, inMap, cmdVars,
                   server, faults, restarts>>

\* The isolate is gone with its tasks, marks and subscriptions.
IsolateCloses ==
    /\ phase' = [t \in Tasks |-> IF phase[t] = "absent" THEN "absent" ELSE "done"]
    /\ tail' = [w \in Wallets |-> NoTask]
    /\ job' = [t \in Tasks |-> NoJob]
    /\ iso' = IsoInit
    /\ failedWallets' = {}
    /\ failedScripts' = [w \in Wallets |-> {}]
    /\ failedBalances' = [w \in Wallets |-> {}]
    /\ srvSub' = [w \in Wallets |-> {}]
    /\ notif' = [w \in Wallets |-> [s \in Scripts |-> <<>>]]
    /\ cb' = [w \in Wallets |-> [s \in Scripts |-> NoCopy]]
    /\ status' = [c \in Tasks |-> [s \in Scripts |-> 0]]
    /\ inMap' = [c \in Tasks |-> {}]
    /\ idx' = [c \in Tasks |-> 0]
    /\ dormantAt' = {}

\* The main isolate starts over with a new state manager: at a reconnection with
\* the wallet items it has, at a launch with what the database holds.
MainReconnects ==
    /\ nodeSyncState' = "init" /\ registered' = {}
    /\ walletInfo' = [w \in Wallets |-> FreshInfo]
    /\ mainIdx' \in {mainIdx, [w \in Wallets |-> UsedIndex(w)]}
    /\ loop' = IdleLoop /\ resync' = NoResync
    /\ lost' = FALSE

\* A reconnection or the app's next launch, at any point.  The database stays.
Restart ==
    /\ restarts < MaxRestarts
    /\ nTasks < MaxTasks
    /\ IsolateCloses /\ MainReconnects
    /\ restarts' = restarts + 1
    /\ unscanned' = Wallets
    /\ UNCHANGED <<nTasks, walletOf, prev, stored, used, saved, server, faults>>

\* The main isolate reads a message: handleIsolateStateMessage, or the result of
\* the resync command.
Deliver ==
    LET msg == Head(iso.out) IN
    /\ iso.out # <<>>
    /\ iso' = [iso EXCEPT !.out = Tail(@)]
    /\ IF msg.method = "resyncResult"
       THEN /\ resync' = [resync EXCEPT !.stage = "idle",
                            !.outcome = IF @ # "waiting" THEN @
                                        ELSE IF msg.ok THEN "success" ELSE "failure"]
            /\ UNCHANGED nodeVars
       ELSE /\ HandleIsolateStateMessage(msg)
            /\ resync' = RaceResync
    /\ UNCHANGED <<queueVars, job, markVars, dbVars, subVars, loop, mainIdx, dormantAt, unscanned, envVars>>
-----------------------------------------------------------------------------
\* The steps of task t.
TaskStep(t) ==
    \/ Finish(t) \/ QueueCleanup(t)
    \/ BeginSubscribe(t) \/ Scan(t) \/ ScanFails(t) \/ Compare(t)
    \/ \E F \in SUBSET Scripts :
        \/ BatchBalance(t, F) \/ DormantBalance(t, F)
        \/ BatchUnsubscribe(t, F)
    \/ BatchTransactions(t) \/ BatchUtxos(t) \/ SaveStatuses(t)
    \/ BeginEvent(t) \/ ProcessBegin(t) \/ Extended(t) \/ EventFailed(t)
    \/ EventTransactions(t) \/ EventUtxos(t) \/ EventUnsubscribe(t)
    \/ \E ok \in BOOLEAN : EventBalance(t, ok) \/ \E s \in Scripts : CoSpent(t, s, ok)
    \/ CoSpentUnsubscribe(t) \/ EventDone(t)
    \/ BeginDormant(t) \/ DormantNext(t) \/ DormantSubscribe(t)
    \/ BeginReset(t) \/ Reset(t)

\* The main isolate keeps up with the port.
PortOpen == Len(iso.out) <= MaxInbox

Task(t) == PortOpen /\ TaskStep(t)
Continue == PortOpen /\ (LoopNext \/ LoopEnds \/ ResyncScans \/ ResyncEnds)

Command ==
    \/ SubscribeWallets
    \/ \E w \in Wallets : SubscribeWallet(w) \/ SyncDormant(w) \/ ResyncWallet(w)

Environment ==
    \/ CommandTimeout \/ ConnectionLost \/ Restart
    \/ \E w \in Wallets, s \in Scripts : ChainChange(w, s)

Next ==
    \/ \E t \in Tasks : Task(t)
    \/ Continue
    \/ PortOpen /\ Command
    \/ PortOpen /\ \E w \in Wallets, s \in Scripts : Notify(w, s)
    \/ PortOpen /\ Environment
    \/ Deliver

\* Every request has a timeout and every completed future runs its callbacks; a
\* port delivers what was sent, a socket what was received.  Nothing is assumed
\* of users, server or network.
Fairness ==
    /\ \A t \in Tasks : WF_vars(Task(t))
    /\ WF_vars(Continue)
    /\ WF_vars(Deliver)
    /\ \A w \in Wallets, s \in Scripts : WF_vars(PortOpen /\ Notify(w, s))

Spec == Init /\ [][Next]_vars /\ Fairness
-----------------------------------------------------------------------------
TypeOK ==
    /\ QueueTypeOK /\ NodeTypeOK
    /\ \A t \in Tasks : job[t].script \in Scripts \cup {0} /\ job[t].copy \in Tasks \cup {NoCopy}
    /\ failedWallets \subseteq Wallets
    /\ \A w \in Wallets : failedScripts[w] \cup failedBalances[w] \cup used[w] \cup srvSub[w] \subseteq Scripts
    /\ {server, stored, saved} \subseteq [Wallets -> [Scripts -> Versions]]
    /\ cb \in [Wallets -> [Scripts -> Tasks \cup {NoCopy}]]
    /\ status \in [Tasks -> [Scripts -> Versions]]
    /\ idx \in [Tasks -> Scripts \cup {0}]

\* Nothing of the wallet is on its way: no task, no message, no notification.
Quiet(w) == tail[w] = NoTask /\ iso.out = <<>> /\ \A s \in Scripts : notif[w][s] = <<>>

\* The wallet is shown as synchronised.
Shown(w) ==
    /\ w \in registered /\ ~walletInfo[w].isSyncQueued
    /\ \A e \in UpdateElements : walletInfo[w].elements[e] = "completed"

\* Once the main isolate has read its messages, it shows a wallet as queued
\* exactly while the sync isolate has work for it, although the two ends of
\* runQueued announce only the first task of a queue and the last.
QueueFlagFaithful ==
    iso.out = <<>> => \A w \in registered : walletInfo[w].isSyncQueued <=> tail[w] # NoTask

\* A wallet with a script or a balance that could not be synchronised is not
\* shown as synchronised when its queue has drained, and neither is the node,
\* until a later synchronisation of that script succeeds
\* (wallet_balance_publication_test.dart:129).
FailureStaysVisible ==
    \A w \in Wallets :
        (Quiet(w) /\ failedScripts[w] \cup failedBalances[w] # {})
            => ~Shown(w) /\ nodeSyncState # "completed"

\* A wallet shown as synchronised shows the balance of its database, although the
\* tasks write the database at any time and the balance travels with the drain
\* of the queue only, and with no drain of a queue that failed.
ShownIsStored ==
    \A w \in Wallets :
        (Quiet(w) /\ Shown(w)) => walletInfo[w].balanceSnapshot = WalletBalance(w)

\* A wallet shown as synchronised, of which the last subscription succeeded,
\* has the server's balance of every address the server watches for it: an
\* update between a scan and its batch, during a resync or beside a failing call
\* is not passed over.  This is said of wallets with one address and of an isolate
\* that is not started again: a restart in the middle of a batch loses an update
\* (MCRestartStale.cfg), and with five addresses, two failing calls and two copies
\* of the wallet item one is lost without a restart.
SyncedIsFresh ==
    \A w \in Wallets :
        (Quiet(w) /\ Shown(w) /\ w \notin unscanned /\ resync.stage = "idle")
            => \A s \in srvSub[w] : stored[w][s] = server[w][s]

\* A subscription that reports success has synchronised every script whose last
\* synchronisation failed, also one whose status was saved or whose balance
\* became zero before the failure (subscription_service.dart:261, 367).
SubscriptionRetriesFailures ==
    \A t \in Tasks :
        (At(t, "end") /\ job[t].kind = "subscribe" /\ job[t].ok) => failedScripts[walletOf[t]] = {}

\* A synchronisation that is shown as running comes to an end: completed,
\* failed, or the isolate is started again.
SyncSettles == nodeSyncState = "syncing" ~> nodeSyncState # "syncing"

\* The caller of resyncWallet gets an answer.
ResyncAnswered == resync.outcome = "waiting" ~> resync.outcome # "waiting"
=============================================================================
