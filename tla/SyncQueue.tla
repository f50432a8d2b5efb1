----------------------------- MODULE SyncQueue -----------------------------
(***************************************************************************)
(* ScriptSyncService.runQueued: the per-wallet promise chain.              *)
(*                                                                         *)
(* runQueued appends a task to its wallet's chain: the new task waits for  *)
(* the future stored in _walletSyncQueues[walletId] (queuedSyncWithCleanup *)
(* of its predecessor), runs, settles, and its whenComplete callback       *)
(* removes the map entry only when the entry is still its own future.      *)
(* Nothing in the code is a lock or a list: that the tasks of a wallet run *)
(* one at a time and in arrival order follows from the chain alone.        *)
(***************************************************************************)
EXTENDS Integers, WalletIds

CONSTANTS
    NoWallet,   \* the wallet of a task that does not exist yet
    MaxTasks    \* bound: tasks created in a behaviour

ASSUME MaxTasksAssumption == MaxTasks \in Nat \ {0}
ASSUME NoWalletAssumption == NoWallet \notin Wallets

Tasks == 1 .. MaxTasks

\* The value of _walletSyncQueues[walletId] when the map has no entry.
NoTask == 0

Phases == {"absent", "chained", "running", "settled", "done"}

VARIABLES
    nTasks,     \* tasks created so far; a task is named by its creation order
    walletOf,   \* task -> the wallet whose chain it is on
    prev,       \* task -> previousSync, NoTask for Future.value()
    phase,      \* task -> where its future stands
    tail        \* _walletSyncQueues: wallet -> last future of the chain

queueVars == <<nTasks, walletOf, prev, phase, tail>>

QueueTypeOK ==
    /\ nTasks \in 0 .. MaxTasks
    /\ walletOf \in [Tasks -> Wallets \cup {NoWallet}]
    /\ prev \in [Tasks -> Tasks \cup {NoTask}]
    /\ phase \in [Tasks -> Phases]
    /\ tail \in [Wallets -> Tasks \cup {NoTask}]

QueueInit ==
    /\ nTasks = 0
    /\ walletOf = [t \in Tasks |-> NoWallet]
    /\ prev = [t \in Tasks |-> NoTask]
    /\ phase = [t \in Tasks |-> "absent"]
    /\ tail = [w \in Wallets |-> NoTask]
-----------------------------------------------------------------------------
Live(t) == phase[t] \in {"chained", "running", "settled"}

\* startsQueue = !_walletSyncQueues.containsKey(walletId)
StartsQueue(w) == tail[w] = NoTask

\* The chain is read after the new future has been stored in the map.
RunQueuedReadsLate(w) ==
    /\ nTasks < MaxTasks
    /\ LET t == nTasks + 1 IN
       /\ nTasks' = t
       /\ walletOf' = [walletOf EXCEPT ![t] = w]
       /\ prev' = [prev EXCEPT ![t] = t]
       /\ phase' = [phase EXCEPT ![t] = "chained"]
       /\ tail' = [tail EXCEPT ![w] = t]

\* The task does not wait for the wallet's chain.
RunQueuedUnchained(w) ==
    /\ nTasks < MaxTasks
    /\ LET t == nTasks + 1 IN
       /\ nTasks' = t
       /\ walletOf' = [walletOf EXCEPT ![t] = w]
       /\ phase' = [phase EXCEPT ![t] = "chained"]
       /\ tail' = [tail EXCEPT ![w] = t]
       /\ UNCHANGED prev

\* runQueued up to the return of its future.
RunQueued(w) ==
    /\ nTasks < MaxTasks
    /\ LET t == nTasks + 1 IN
       /\ nTasks' = t
       /\ walletOf' = [walletOf EXCEPT ![t] = w]
       /\ prev' = [prev EXCEPT ![t] = tail[w]]
       /\ phase' = [phase EXCEPT ![t] = "chained"]
       /\ tail' = [tail EXCEPT ![w] = t]

\* previousSync.then((_) async { ... task() ...
Start(t) ==
    /\ phase[t] = "chained"
    /\ prev[t] # NoTask => phase[prev[t]] = "done"
    /\ phase' = [phase EXCEPT ![t] = "running"]
    /\ UNCHANGED <<nTasks, walletOf, prev, tail>>

\* The task's result or error has been handed to the completer.
Settle(t) ==
    /\ phase[t] = "running"
    /\ phase' = [phase EXCEPT ![t] = "settled"]
    /\ UNCHANGED <<nTasks, walletOf, prev, tail>>

\* identical(_walletSyncQueues[walletId], queuedSyncWithCleanup)
IsTail(t) == tail[walletOf[t]] = t

\* The map entry outlives the last task.
CleanupKeepsEntry(t) ==
    /\ phase[t] = "settled"
    /\ phase' = [phase EXCEPT ![t] = "done"]
    /\ UNCHANGED <<nTasks, walletOf, prev, tail>>

\* Any completed task removes the map entry.
CleanupForgetsIdentity(t) ==
    /\ phase[t] = "settled"
    /\ phase' = [phase EXCEPT ![t] = "done"]
    /\ tail' = [tail EXCEPT ![walletOf[t]] = NoTask]
    /\ UNCHANGED <<nTasks, walletOf, prev>>

\* queuedSync.whenComplete(...): the future of t completes.
Cleanup(t) ==
    /\ phase[t] = "settled"
    /\ phase' = [phase EXCEPT ![t] = "done"]
    /\ tail' = IF IsTail(t) THEN [tail EXCEPT ![walletOf[t]] = NoTask] ELSE tail
    /\ UNCHANGED <<nTasks, walletOf, prev>>

QueueNext ==
    \/ \E w \in Wallets : RunQueued(w)
    \/ \E t \in Tasks : Start(t) \/ Settle(t) \/ Cleanup(t)

\* Every call a task awaits is bounded by an Electrum timeout, so a running
\* task settles; the event loop runs every completed future's callbacks.
QueueFairness == \A t \in Tasks : WF_queueVars(Start(t) \/ Settle(t) \/ Cleanup(t))

QueueSpec == QueueInit /\ [][QueueNext]_queueVars /\ QueueFairness
-----------------------------------------------------------------------------
\* The tasks of a wallet run one at a time and in arrival order: once a task
\* has started, every task queued before it on the same wallet has completed,
\* its cleanup included (runQueued's promise, run_queued_test.dart:20).
ArrivalOrder ==
    \A t, u \in Tasks :
        (u < t /\ walletOf[u] = walletOf[t] /\ phase[t] \in {"running", "settled", "done"})
            => phase[u] = "done"

\* The map has an entry for a wallet exactly while one of its tasks is live, so
\* startsQueue and the drain callback announce the true start and end of work.
MapTracksLiveTasks ==
    \A w \in Wallets :
        (tail[w] = NoTask) <=> (\A t \in Tasks : walletOf[t] = w => ~Live(t))

\* No task waits for ever: the chain has no cycle and no link to a future that
\* never completes (the deadlock runQueued's comment warns about).
EveryTaskCompletes == \A t \in Tasks : phase[t] = "chained" ~> phase[t] = "done"
=============================================================================
