# Verification of coconut_wallet

coconut_wallet is a Flutter Bitcoin wallet with a Rust library for Trezor
devices. This project models two halves of it in TLA+:

* **Synchronisation** (Dart): a Realm database of addresses, balances,
  transactions and UTXOs is brought up to date from an Electrum server, in an
  isolate of its own. Modelled are the per-wallet task queue, the tasks, the
  failure marks, the state that the screens show, and what happens when calls
  fail, the connection drops, a command times out or the app is stopped.
* **Hardware wallet** (Rust): the Trezor Host Protocol (THP) over three
  transports with handshake, pairing and retries; the coin selection; and the
  bridge through which native threads connect, ask and sign.

Paths of the first half are relative to `src/lib/`, with `np/` for
`providers/node_provider/`; those of the second to `src/rust/`, with `tc/` for
`trezor-connect-rs/src/`. `PROJECT.json` maps each definition to its lines.

## 1. Inventory

| Part | State | Operations | Correct when |
|---|---|---|---|
| Task queue, `np/subscription/script_sync_service.dart` `runQueued` | `_walletSyncQueues`: last future per wallet | enqueue, start, settle, cleanup | a wallet's tasks run one at a time in arrival order, the map entry exists exactly while there is work, every task completes |
| Script synchronisation, same file | `_failedWalletSyncs`, `_failedScriptSyncs`, `_lastDormantSyncAt` | `_processScriptStatus`, `syncBatchScriptStatusList`, `syncDormantAddresses`, `syncViewedAddresses` | no update is lost, no failure is hidden, what failed is retried |
| Subscription, `np/subscription/subscription_service.dart` | `subscribedScriptMap` and used index of each walletItem copy, the closure per script | subscribe wallet/address, scan, compare, unsubscribe | every active address is watched, changed scripts are synchronised |
| Balances, `np/balance_sync_service.dart` | `_failedBalanceFetches` | single and batch fetch | wallet total is the sum of its addresses, failures are remembered |
| Isolate state manager, `np/state/isolate_state_manager.dart` | element states and counters per wallet | start/complete an element, init | messages reflect work in progress |
| Main state manager, `np/state/node_state_manager.dart` | node state, update info per wallet | one handler per message | node completed only with nothing queued and all wallets completed; last balance kept |
| Command loop, isolate manager, node provider, `np/isolate/*`, `np/node_provider.dart` | command in progress, timeouts, lifecycle flags | subscribe, resync, dormant recheck, connect, close | every command is answered, the shown state settles |
| Resync, `np/resync/wallet_resync_service.dart` | resyncing wallets | wipe, cold scan | wiped data comes back, caller is answered |
| Repositories, `repository/realm/*` | the database | writes in transactions | survive a stop at any point |
| Transactions and UTXOs, `np/transaction/*`, `np/utxo_sync_service.dart`, `np/subscription/script_callback_service.dart` | records, UTXO status, callbacks | fetch, replace, clean up | UTXO set agrees with the chain |
| Electrum client, `services/electrum_service.dart`, `services/network/socket/socket_manager.dart` | request table, callbacks, buffer | call, subscribe, ping | every answer reaches its request |
| Building transactions, `core/transaction/*` | none | coin selection, RBF, CPFP, splits | amounts balance |
| THP channel, `tc/protocol/thp/*` | channel, nonces, paired flag, session id, credential | encode, decode, handshake, pairing | a nonce is used once per channel, an answer is the answer to its request (neither holds always: runs `nonce_reuse`, `late_answer`) |
| Transports, `tc/transport/{callback,bluetooth,usb}.rs`, `session.rs`, `tc/trezor.rs` | state per path, `handshake_complete`, sessions, stored credential | open, detect, handshake with retries, pair, call, create session, release | a session stands for a confirmed channel, retries keep a good credential, every acquire ends |
| Coin selection, `tc/compose/*`, `tc/api/compose.rs` | none between calls; loops over filters and UTXOs | validate, filter, branch and bound, accumulate, split, sort | value conserved, fee pays for size, required UTXOs spent, confirmed and mature UTXOs first |
| Bridge, `trezor-bridge/src/lib.rs`, `src/lib/services/hardware_wallet/trezor_device.dart` | `SESSIONS`, `PENDING`, `PREV_TX_STORE`, credential file, connection queue, active device | connect, disconnect, xpub, fingerprint, session, settings, previous transactions, sign | the active device has its session, which is not touched while in use; every call returns; other devices' credentials kept |
| Signing, `tc/connected_device.rs`, `tc/psbt.rs`, `tc/tx_verify.rs` | signatures, serialised transaction | convert, validate, derive, answer the device's requests, verify, apply | the PSBT returned is the one asked for, signed |
| Hot wallet secrets, drafts, wallet list, preferences, screens | own stores | | not modelled |

**Interaction.** The main isolate sends a command with a *copy* of the
walletItem; the isolate runs it as tasks on the wallet's queue. Server
notifications call the closure that the last subscription of the script
registered; the closure enqueues an event task. Tasks write the database and
send state messages through a port; the main isolate applies them in order. The
command's result comes back on a port of its own, with a timeout.

**Hard behaviours.** Everything between two awaits is atomic and nothing else
is: events arrive while a batch runs; the ScriptStatus object a batch holds is
changed by the closure; each command's walletItem goes stale independently;
parts of a batch fail; the isolate can be stopped between any two awaits while
the database stays. `PROJECT.json` lists these as hazards at their lines, with the
property that covers each or why none does yet.

In the hardware half the native layers call the bridge from several threads
(iOS from a concurrent queue, Android from one executor) while one mutex guards
all sessions; the line loses, garbles or delays frames; an acquire is a chain of
up to a dozen exchanges inside a retry loop that may drop the stored credential;
the device steers the signing loop; and state made for one transaction stays for
the next.

Hazards that no property covers and that the list in `PROJECT.json` leaves out,
for later work. Synchronisation: a resync that begins while the node is shown as
failed ends at once with a connection error, because `syncStateStream` replays its
state (`np/node_provider.dart:568`); counters below zero
(`model/node/wallet_update_counter.dart:45`); a balance of 0 published between wipe
and cold scan (`np/resync/wallet_resync_service.dart:80`); the mark of a failed
dormant fetch fails later batches (`np/balance_sync_service.dart:67`); a failed UTXO
fetch counts as an empty list (`np/utxo_sync_service.dart:104`); orphan removal
against an older history (`np/transaction/transaction_sync_service.dart:356`);
messages of a deleted wallet (`np/state/node_state_manager.dart:122`); unsubscribing a
script two wallets share (`services/electrum_service.dart:352`); lifecycle flags read
before and written after awaits (`np/node_provider.dart:655`); growing lists of
callbacks (`np/subscription/script_callback_service.dart:52`). Hardware: an error of
close leaves the session acquired (`tc/transport/bluetooth.rs:1958`); silence during
detection means protocol v1 (`tc/transport/usb.rs:392`); the nonce limit is found
after sending (`tc/protocol/thp/state.rs:241`); a panic under `SESSIONS` poisons it
(`tc/psbt.rs:67`); `total_spent` of send-max leaves out other payments
(`tc/compose/mod.rs:487`); an amount that does not parse is 0
(`tc/api/compose.rs:338`); fees are products of `f64` (`tc/compose/weight.rs:125`).

## 2. Modules

| Module | Models |
|---|---|
| `WalletIds` | the constant set of wallets shared by the others |
| `SyncQueue` | `runQueued` as a chain of futures |
| `WalletFifo` | abstract specification: one FIFO line per wallet |
| `SyncQueueFifo` | refinement mapping from `SyncQueue` to `WalletFifo`, with its run |
| `NodeStateManager` | the main isolate's state; one action per message |
| `IsolateStateManager` | the isolate's counters and element states, as functions on one record, with its outgoing messages |
| `SyncTasks` | the state of the isolate, the database and the server; `runQueued` with its failure marks; the subscription task and the batch |
| `WalletSync` | event, dormant and reset tasks; commands; server, connection, restart, message port; the composed specification and its properties |
| `ThpChannel` | the host's channel state, the frames on the line, nonces, timeouts, the session manager |
| `ThpDevice` | external: a THP or protocol v1 device and the faults of the line |
| `CallbackTransport`, `BluetoothTransport`, `UsbTransport` | the three transports, one action per exchange |
| `ThpTransports` | the composition of the five, with its properties |
| `SeqTools` | sums, sorts and selections on vectors, with an order as a set of pairs |
| `CoinWeights` | weights, fees, dust and `finalize` as operators |
| `Compose`, `MCCompose` | `precompose`/`compose_tx` by stages; requests for TLC |
| `SignTransaction` | what signing computes: injection, conversion, validation, answers, verification |
| `TrezorBridge`, `MCTrezorBridge` | threads, locks, connection queue and the signing loop, using `SignTransaction`; PSBTs for TLC |
| `SyncComponentProofs` | theorems about the queue, its refinement, and the main isolate's state |
| `CoinWeightsProofs`, `ComposeProofs` | theorems about sums, sorts and `finalize`; about whole compositions |
| `TrezorBridgeProofs` | theorems about the bridge and signing |
| `WalletSyncEffects`, `WalletSyncProofs` | theorems about the composed synchronisation: what a step of a task may do, and the invariants that follow |
| `ThpEffects`, `ThpProofs` | theorems about the transports: what a step of any of them may do, and the invariants that follow |

`SyncTasks` extends the three component modules, so the composed system uses the
very actions that the theorems are about: `Enqueue` takes `RunQueued`, `Finish`
takes `Settle`, `QueueCleanup` takes `Cleanup`, `Deliver` takes
`HandleIsolateStateMessage`.

How the state of the synchronisation corresponds to code:

* A task is named by its creation order. `phase` tells where its future stands,
  `prev` is the future it was chained on, `tail` is `_walletSyncQueues`.
* `job[t].pc` is the await at which the task stands; one action is the code from
  there to the next await.
* `copy` names the walletItem of a command. `status`, `inMap` and `idx` are that
  object's script statuses, `subscribedScriptMap` keys and `receiveUsedIndex`
  (0 for the code's -1). A batch entry is either a value or `Alias`, the object
  the closure writes to.
* `stored`, `used`, `saved` are the database. `mainIdx` is the used index of the
  walletItem in the main isolate, which only a launch reloads.

Abstractions:

* An address is its index, on one branch; the gap limit is larger than
  `Scripts`, so the window never grows. The history of an address is a version
  number; odd versions leave it funded, even ones empty, always by confirmed
  transactions.
* The used index of the database is the largest used address: the two writes
  that advance it and set `isUsed` are one step.
* Database writes succeed, except the saves of statuses and the resync wipe,
  whose failure the code handles. The calls of one phase of a batch are
  answered together; which of them fail is free.
* A fetch of transactions is answered or fails; an answer has an empty history
  or not, and any set of used addresses as co-spent.
* One subscribe command and one resync at a time. The order of the wallets in the
  loop is free, and so is that in which `subscribeWallets` announces them.
* `Restart` is a reconnection or a launch: all memory of the isolate goes, at
  any point; the used index of the main isolate is kept or reloaded.

Hardware half:

* In `ThpChannel`, `host.pc` is the read at which the running operation waits, an
  action is the code up to the next read. A channel is named by the number of its
  allocation. The keys of a handshake are named by its channel (`keys`, 0 before the
  init answer is decrypted, when an encryption fails). A message is encrypted, written
  in chunks, and only then does its nonce advance: `sent` books every encryption since
  the last completion request, with its keys and nonce and whether all chunks were
  written, and a write that fails leaves the nonce as it is. ACK frames and sync bits only
  repeat what the nonces say and are left out; a cipher is abstracted to whether a
  message decrypts.
  One operation runs at a time, because the bridge holds `SESSIONS` for each.
* The device is external: it answers what its firmware and the way the host uses
  it imply, asks for an unlock or a button at any point, and knows, has revoked
  or never issued the credential on file. `FaultKinds` are a refused write, an
  answer that is slow (during an acquire) or late (after the timeout of a call), lost
  or garbled, a busy or failing device, and errors of open and close, `MaxFaults` of
  them.
* In `Compose` the inputs, flags and filters are sequences as in the code, because
  what can go wrong is in their positions. A sort is the list of positions that an
  order gives (`ByKey`, with the position as the last key, since Rust's sort is stable);
  branch and bound is a function of depth, sum and calls so far, as the recursion of
  the code is. Rates count quarters of a satoshi, so
  the code's `f64` product is exact; amounts are small, so `u64` does not overflow.
* In `TrezorBridge`, `calls[t].pc` is the stage of thread `t`'s call and `holder`
  the owner of `SESSIONS`. Connecting does not hold it; Dart's connection queue
  (`connecting`) keeps connects and disconnects apart. A session is named by the
  number of its connection. PSBTs always carry a `WITNESS_UTXO`, as the wallet's do.
  `trezor_clear_prev_tx_hexes` is exported but no flow calls it: it is no action.
  `Firmware` selects what the device may do besides signing.
* The native layers differ, so a behaviour runs on one `platform`. On Android one
  executor thread runs the calls of the bridge (`MayRun`), and a cancel (`Cancel`) ends
  Dart's turn at once while `trezor_connect` goes on with callbacks that refuse
  everything; should it still succeed, the native layer hands its whole answer to
  `trezor_disconnect` as a device id, and the session stays in the map (`Insert`). On iOS
  calls run beside each other and a cancel waits for `trezor_connect`. `conns` remembers
  of each connection whether Dart waited for it to the end; one that it did not answers
  nothing (`Responds`).
* A read of the credential file that fails counts as an empty file (`Loaded`); a write
  that fails leaves an empty one, as the file is truncated first, or, if it cannot be
  opened, the former one (`SaveCreds`). `creds.sound` tells whether every access has
  succeeded so far.
* In `SignTransaction` the script expected of a change output is the one of the key the
  device tells (`Derive`), one that was not derived is not compared, an OP_RETURN output is
  what follows the second byte of its script, pushed anew (`Repushed`), and the parts the
  device serialises are appended before they are deserialised (`Serialized`,
  `Deserializes`).

Bounds: `MaxTasks`, `MaxVersion` (changes per address), `MaxFaults` (failing
calls while connected), `MaxRestarts`, `MaxInbox`. `Room` admits a new command or
chain change only when the tasks it will cause still fit, so `MaxTasks` never
stops work that has begun. `MaxInbox = 0` means the isolate's next step
waits until the main isolate has read the messages of the last; the theorems about the
main isolate hold for any lag, and those about `NodeSpec`, which no run checks, for any
message in any state. `Commands` selects the commands and incidents of a run.

## 3. Runs

Passing runs:

| Run | Instance | Shows |
|---|---|---|
| `queue` | 2 wallets, 5 tasks | arrival order, exact map, completion, refinement of `WalletFifo` |
| `scripts` | 1 wallet, 2 addresses, 3 tasks, 2 versions, 1 fault, 1 restart, dormant recheck | failures stay visible; a successful subscription has retried every failed script |
| `resync` | 2 wallets of 1 address, 3 tasks, 1 version, 1 fault, `subscribeWallets`, resync, connection lost, command timeout | types; a completed node has nothing queued and every wallet completed, a balance once shown stays; the queued flag follows the queues; the balance shown is the stored one and the server's (`SyncedIsFresh`); a synchronisation shown as running ends; the resync is answered |
| `thp` | 4 kinds of line (callback BLE and USB, Bluetooth, USB), 5 kinds of stored credential, 3 operations, 1 fault | messages written whole share no nonce, completion is confirmed by the device, sessions have channels, a valid credential survives a fault, an acquire ends |
| `compose` | all lists of up to 3 of 6 UTXOs, 7 wishes, 4 rates, 3 sortings, search limit 9 | value, fee, dust, required UTXOs, order of confirmations; the search agrees with all subsets; funds are short only when they are |
| `bridge` | Android and iOS, 2 threads, 2 devices, 3 calls, 2 PSBTs, 2 answers of the device | sessions in use are kept, the active device has a live session, authentic previous transactions, credentials kept while the file is accessible, calls return |

Three operations let a device be acquired, called, and acquired or called again
after a failure. Three UTXOs are the least in which a required, an unconfirmed
and a worthless one meet; the search limit of 9 lets the search both end by
itself and be cut off. Three calls are the least in which two signings on one
session differ, or an operation meets a connect and a disconnect. The liveness
of the bridge needs a bound on the device's answers: the signing loop has none
(listed as a hazard).

Two addresses are the least for which a batch can fail in part and an unrelated
event can follow, and two wallets the least for one to be queued when the other
completes the node; both together are more than TLC searches, so `scripts` has the
addresses and `resync` the wallets. Two versions let an address be funded and emptied, so that it
is unsubscribed and found by the dormant recheck. One fault makes a mark, which later
tasks, the retry, a drain or a restart meet; that a retry fails too takes a second fault and
is left to the proofs, which bound neither. Deadlock is not
checked: with the bounds used up, and in the program with nothing to do, the
system rests.

Violation runs. Each checks what a comment or test says, and TLC's
counterexample is a behaviour of the code (`findings` in `PROJECT.json` has the
quotations):

| Run | Statement | Counterexample |
|---|---|---|
| `restart_stale` | comparison with saved statuses finds what was not synchronised | the saved status is newer than the data of its batch, then a shutdown |
| `immature_coinbase` | coinbase UTXOs require 100 confirmations | the inputs are sorted, the flags looked up by position are not |
| `stale_prev_tx` | preparing each input is enough to sign | entries left from a transaction with more inputs make the next one refused |
| `unsigned` | the signed PSBT is returned | a `PassphraseRequest` in the loop is taken for the end of signing |
| `nonce_reuse` | the send nonce is incremented for each encrypted message | a chunk of a message cannot be written; the next call encrypts under the same key and nonce |
| `late_answer` | one call is in flight per device | a call times out, its answer comes during the next call and is returned by it |

**What `SyncedIsFresh` is worth.** It speaks of wallets whose last subscription
succeeded, and it is a statement about small instances: TLC finds no violation with one
address a wallet and no restart (`resync`), and `restart_stale` violates it with a restart. It is *not* a property of the code without
restarts. A failure mark is dropped when its wallet's queue drains, and this can lose an
update: the dormant check stores the balances and fails to subscribe an address, which
nobody remembers after the drain; a gap extension of an older copy of the walletItem
subscribes it and fails on another address, whose next event takes that mark back; the new
status is in `subscribedScriptMap`, where no later comparison sees a difference. The
wallet is then shown as synchronised with an old balance. That takes five addresses, two
failing calls, two copies of the walletItem and more than 160 steps of `WalletSync`,
beyond what TLC searches completely, so no run shows it; the hazard at
`np/subscription/script_sync_service.dart:229` names it and no property covers it.
What does hold always is the other half of the promise,
`ShownIsStored`: what is shown is what is stored.

**Other limits of the statements.** `ValueConserved` is stated for requests
with at most one send-max output, because `compose_tx` gives the rest of the split to each
of them and does not refuse a second. `ConfirmedFirst` and
`ShortOnlyWhenShort` are stated for requests whose flags are in the order of the
sorted inputs or of no consequence (`Aligned`); the others are the subject of
`immature_coinbase`. `NonceFresh` leaves out messages whose write failed, which are the
subject of `nonce_reuse`, and run `thp` leaves out answers later than the timeout of their
call, the subject of `late_answer`. `CredentialsKept` ends with the first access to the
credential file that fails: that one can lose the credentials of every device
(hazard at `trezor-bridge/src/lib.rs:115`). `ActiveHasSession` says nothing of a session that
Android leaves in the map after a cancel; it answers nothing and the next connect of its
device replaces it, but `trezor_device.dart:102` speaks of one session, and nobody
disconnects this one.

**Fairness.** Weak fairness of each task's steps, of the command loop's
continuation, of the delivery of port messages and of notifications. The code
justifies it: every Electrum call has a timeout (`kElectrumResponseTimeout`), a
completed future's callbacks are run by the event loop, ports and sockets
deliver. Nothing is assumed of users, server, network, or of success of any call.
In `ThpTransports`, weak fairness of the host's steps (each read has a timeout) and
of the device's answers; in `TrezorBridge`, of each thread's steps once it has
called (reads time out, the user answers or cancels). Nothing makes the
application call or the user cancel.

Every property has a mutant: a definition changed as a plausible slip would
change it, under which the property fails in the same run.

## 4. Proofs

`SyncComponentProofs`, for any set of wallets and any `MaxTasks > 0`:

* `QueueTypeCorrect`; `QueueSerialises` (`ArrivalOrder`); `QueueMapExact`
  (`MapTracksLiveTasks`).
* `ArrivalOrder` is not inductive: a task knows only its predecessor. `QueueInv`
  adds that tasks exist up to `nTasks` (`Created`), that each chained task was
  linked to the youngest earlier task of its wallet or finds all of them done
  (`Linked`), and that the map entry is the youngest live task
  (`TailYoungest`). `Start` then needs `Linked`, `RunQueued` and `Cleanup` need
  `TailYoungest`.
* `ChainIsLine`: the chain implements `WalletFifo`, but for its fairness. `RunQueued` is
  `Submit`, `Start` is `Begin`, `Cleanup` is `Finish`, `Settle` a stutter. The line of a
  wallet is the set of its live tasks ordered by age (`ByAge`); the lemmas `AgeAppend` and
  `AgeTail` say that a younger task goes to its end and the oldest one leaves at its head.
  `Begin` needs a line that is not served, and `Finish` needs the task that completes to be the
  head: both follow from `ArrivalOrder` before or after the step.

In the same module, the main isolate's state, for any set of wallets and balances:

* `NodeInvariant`, `CompletedNodeIsIdle` (`CompletedIsIdle`), `SnapshotKept`
  (`SnapshotNeverLost`), `CompletedTogether` (`CompletedOnlyWithAll`).
* `NodeInv` adds to `CompletedIsIdle` the types and that an unregistered
  wallet's info is fresh, so that registering it again starts from nothing.
* They are about `NodeSpec`, in which any message comes in any state, also ones the
  isolate never sends there and the removal of a wallet
  (`UnregisterWalletUpdateState`), which `WalletSync` does not do. In `WalletSync` itself
  TLC checks the three properties with the messages the isolate sends.

`WalletSyncEffects` and `WalletSyncProofs`, for any finite set of wallets, any number of
addresses, tasks, versions, faults and restarts, any set of commands, and any lag of
the main isolate (`MaxInbox`: the runs let it read every message before the isolate's
next step, the theorems do not):

* `SyncTypeCorrect` (`TypeOK`), `QueueFlagHolds` (`QueueFlagFaithful`),
  `FailureVisible` (`FailureStaysVisible`), `RetriesHold`
  (`SubscriptionRetriesFailures`), `ShownBalanceStored` (`ShownIsStored`), and in the composed system `TasksSerialised`
  (`ArrivalOrder`, `MapTracksLiveTasks`) and `CompletedIsIdleHere`
  (`CompletedIsIdle`). All follow from `SyncInvariant`.
* None of the first five but `TypeOK` is inductive: `QueueFlagFaithful`,
  `FailureStaysVisible` and `ShownIsStored` speak of an empty port, and say nothing of what is still on it. `Inv` takes the
  queue's and the node's invariants and adds what each message in flight will do.
  `FlagAgrees`: the last announcement of a wallet on the port, or else the flag
  the main isolate shows, says whether the wallet has tasks. `FailureTold`: the drain of
  a queue with failures was announced without a balance, and nothing sent after it
  completes the wallet, so neither that message, when it is handled, nor those behind
  it can show the wallet or the node as completed. `BalanceTold`: what a wallet without
  tasks will show when the port is read, its last drain on the port or else its
  snapshot, is its stored balance or makes it not completed; a task may write the
  database because its drain is still to come. `RetriesKept`: between the comparison and the
  end of a subscription every marked script is in its batch. `Typed` adds that a job
  stands at a place of its kind, with a script and a walletItem where the code
  there uses them (`Sensible`).
* A task has some thirty steps. `TaskStepWorks` shows that each is one effect, `Works`:
  it keeps its own queue's place, sends only messages that announce no queue and complete at
  most its own wallet, and touches only its own job and its own wallet's marks. The
  proof needs the counters of the isolate's state manager only through `Grows`. The
  drain of a queue (`QueueCleanup`), the commands, the messages, the timeouts and the restart
  are proved one by one.
* `FailureVisible` holds because `runQueued` sends the announcement of the drain after the
  element states, and because the main isolate's handler of it, which finds no
  snapshot, takes back "completed" (`setWalletSyncQueueState`).

`CoinWeightsProofs`, for all natural amounts, rates, weights and vectors:

* `FinalizeSound` (what `finalize` accepts conserves value, pays the fee and returns no
  dust), `FinalizeAccepts` (an added input worth its cost keeps a selection accepted),
  `VbytesRoundUp`, `FeeRoundsUp`.
* Sums and sorts. `SumOf` is a recursive function, of which its equation is proved
  first, by induction on its domain. The sum of a vector over a list of positions depends only on the
  set of positions, by removing one position after the other; so no sort changes an
  amount, a weight or a fee. A total order on a finite set lists it without
  repetition (`ByKeyEnumerates` and the lemmas before it): the position of a member is
  the number of those before it.

`ComposeProofs`, for every set of requests and every search limit. All seven
invariants of run `compose`:

* `SearchIsExact` (`SearchAgrees`), `ShortIsShort` (`ShortOnlyWhenShort`), `BooksBalance`
  (`ValueConserved`), `FeeIsEnough` (`FeePaysForSize`), `NoDust` (`ChangeIsNoDust`),
  `RequiredAreSpent` (`RequiredSpent`), `ConfirmedAreFirst` (`ConfirmedFirst`).
* They speak of the result, which the last step makes of a choice that many steps
  prepared. `IInv`, proved inductive in `IInvHolds`, says of each stage what
  it leaves to the next: the request is one that was asked for; `order` is a permutation of
  the UTXOs; `usable` lists what the filter of the present trial admits; `picked` covers what
  accumulation has passed of the optional ones and was not enough; every earlier trial
  was short of the outputs and the fee (`TrialInv`); the choice is a shortage after the last
  trial, a selection that `finalize` accepted or a split (`Short`, `Paid`, `Emptied`);
  and the result is made of that choice.
* A trial that is skipped because it admits no more UTXOs than the one before admits the
  same ones, since each filter admits what the former did: equal
  numbers are equal sets. A trial is short if all of its UTXOs worth their fee are not
  enough: accumulation may skip a UTXO that costs more than it brings, and the lemmas
  about `finalize` show that the skipped ones, and the last one that is tried all the
  same, change nothing.
* `bnb_search` is a function whose values refer to deeper calls only. Its equation is
  proved by induction on the depth that is left, as is that a call without a match that
  stays below the limit has found no subset in the window: what
  the suffix sums and the window prune is out of reach of every extension.

`TrezorBridgeProofs`, for any threads, devices, PSBTs, bounds and answers of the
device:

* `SessionInUseHolds` (`SessionInUse`) and `ActiveHasSessionHolds`
  (`ActiveHasSession`), from `BridgeInvariant`.
* Neither is inductive. `BridgeInv` adds that the stages with the lock belong to one
  thread, and those of a connection to the thread with the turn on iOS and to the one
  that the executor runs on Android, where the turn can be over (`Exclusive`); that no
  device becomes active while a connection runs, cancelled or not (`Replaced`); and
  that also within a turn the active device has a session whose connect Dart waited for
  (`Owns`). The lemma `LocalStep` covers the steps that leave the sessions alone; the
  removal, release and insertion of a session are proved one by one.
* `CredentialsKeptHolds` (`CredentialsKept`), from `FileFresh`: as long as no access has
  failed, what a call has read of the credential file is what is in it, because only
  the thread with the turn, or the one that the executor runs, is at the file.
  `Elsewhere` names the steps that neither touch the file nor bring a call to it;
  the steps that do are proved one by one.
* `PrevTxAuthenticHolds` (`PrevTxAuthentic`), from `AllSound`. A call's entries of previous
  transactions were validated some exchanges before the device asks for one, while
  other calls write `PREV_TX_STORE`; `Sound` says of each stage of a signing what was
  already validated of its own copy and what the device was told.
* Nothing is claimed of what a returned PSBT pays: `VerifySignedTx` is a guard of the
  step that returns it, a property would repeat it, and the change script it compares
  with is the one of the key the device told.

`ThpEffects` and `ThpProofs`, for any bounds, kinds of fault and lines:

* The three transports have some seventy actions between them. `HostStepEffect` shows that
  each is one of sixteen effects (`HostEffect`: stop, allocate, take a channel, take
  keys, speak, complete, grant, ...) that say what happens to channel, keys,
  nonces, credential and the two lines; `ThpProofs` does the same for the
  device and the line. The invariants are then proved of the effects, once for all
  transports.
* `TypeOKHolds`, `NonceFreshHolds`, `SessionHasChannelHolds`,
  `CompleteMeansConfirmedHolds` from the inductive invariant `Safe`, which is
  `Typed` (types, also of frames in flight), `Fresh` (a channel number is offered
  once and nothing uses it before), `Nonces` (what was written whole under the
  present keys is below the send counter), `Phases` (what each place of an
  operation implies of the state) and `Confirmed` (the dialogue is on
  the device's latest channel with one frame in flight, so an end response that is
  heard was said of that channel). `NonceFresh` needs `Fresh`: keys of a new
  channel have encrypted nothing only because its number is new.
* A message whose write fails is an effect of its own (`Wasted`): it is booked in `sent`, the
  nonce stays, and the operation stops. `NonceFresh` is therefore about the messages
  written whole, and the stronger `NonceNeverReused` is false. So is
  `AnswerMatchesCall`, with late answers; neither has a theorem.

Assumptions: `BridgeAssumption`, `MaxTasksAssumption`, `NoWalletAssumption` and those that
`NodeStateManager` states about `NoBalance`; `ThpAssumption` types the constants of the
transports. `SyncTasks` assumes that the wallets are finitely many
(`WalletsAssumption`), that addresses are numbered from 1 (`ScriptsAssumption`), that
the balance of every set of addresses is a balance (`BalancesAssumption`) and that a
history has a version (`MaxVersionAssumption`). `Compose` assumes that the requests are
requests (`RequestsAssumption`) and that the search has a limit (`MaxTriesAssumption`). TLC
evaluates all of them in the runs.

Only model-checked: the liveness properties, the fairness of the refinement of `WalletFifo`
(both outside the prover's reach), and

* `SyncedIsFresh`, which is false in general (see section 3) and true in the small
  instance of `resync`;
* `ValidCredentialKept`, which is about one fault (`MaxFaults = 1` in `MCThp.cfg`) and no
  property of an unbounded number of them, since the third failed attempt clears the
  credential. Two faults are enough, as TLC shows with `MaxFaults = 2`: after an acquire
  that the user left at the code entry, the next one's first attempt fails on the old
  state without any fault (`ThpState` is kept by `or_insert_with`), the second by a fault,
  and the third pairs and saves a credential before a fault at its last message uses up
  the attempts. `perform_thp_handshake` then clears a credential that it never tried.

## 5. Plan

1. Done: queue, both state managers, tasks, their composition; THP channel and
   transports, coin selection, bridge and signing; theorems of eight modules, among them
   every invariant of the passing runs but `SyncedIsFresh`. Left: with restarts TLC has
   checked `FailureStaysVisible` and `SubscriptionRetriesFailures` only; that
   `QueueFlagFaithful` and `ShownIsStored` survive them rests on the proofs.
2. `SyncedIsFresh` of a repaired synchronisation: with a mark per address that outlives
   the drain, its proof would have to follow every status from the server through
   notification, map, batch and database.
3. `NodeConnection`: initialisation, close, reconnect and network changes with
   their flags, isolate readiness and init timeouts.
4. `ElectrumSocket`: request ids, completers, framing, callbacks registered after
   the answer, scripts shared by wallets, ping and loss.
5. `TransactionSync` and `UtxoLifecycle`: fetched transactions, the callback
   service's dependencies, orphan clean-up, UTXO statuses under sync, locks,
   drafts, RBF and resync.
6. `GapScan`: growth of the window and `minKnownUsedIndex`, viewed addresses.
7. The Dart `UtxoSelector` and fee bumping; `HotWalletSecret`.

## 6. Not modelled

`syncViewedAddresses`, `unsubscribeWallet` and wallet deletion, progress numbers,
contents of transactions and UTXOs (until the modules above). Screens, themes,
translations, analytics, price and fee services are presentation or pure I/O.

Of the Rust library: byte formats, checksums, ciphers and key agreement (the
model has whether a message decrypts); scanning and enumeration; `get_address`,
message signing, account discovery and static session ids, which are single
questions to the device; the older client `device/trezor.rs`, which the bridge does
not use; the refusal to send after 2^32 messages on one channel; a
stop of the app in the middle of a call of the bridge. The Go and native
bridges are glue, but for the executor and the cancel of Android's.
