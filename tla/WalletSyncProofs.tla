-------------------------- MODULE WalletSyncProofs --------------------------
(***************************************************************************)
(* The invariants of the composed wallet synchronisation, for every set of *)
(* wallets and scripts and every bound: types, the queue flag the screens  *)
(* show, and the fate of failures.  WalletSyncEffects says what a step of  *)
(* a task may do; here are the other steps and the invariants.             *)
(***************************************************************************)
EXTENDS WalletSyncEffects

(* The data of the wallets. *)

DbTyped ==
    /\ stored \in [Wallets -> [Scripts -> Versions]] /\ saved \in [Wallets -> [Scripts -> Versions]]
    /\ used \in [Wallets -> SUBSET Scripts] /\ idx \in [Tasks -> Scripts \cup {0}]

SubTyped ==
    /\ srvSub \in [Wallets -> SUBSET Scripts]
    /\ notif \in [Wallets -> [Scripts -> Seq(Versions)]]
    /\ cb \in [Wallets -> [Scripts -> Tasks \cup {NoCopy}]]
    /\ status \in [Tasks -> [Scripts -> Versions]]
    /\ inMap \in [Tasks -> SUBSET Scripts]

\* The parts of the data.
LEMMA DataParts ==
  ASSUME Typed
  PROVE  /\ DbTyped /\ SubTyped
         /\ server \in [Wallets -> [Scripts -> Versions]] /\ mainIdx \in [Wallets -> Scripts \cup {0}]
  BY DEF Typed, DataTyped, DbTyped, SubTyped

\* A step that leaves the server and the main isolate's items alone.
LEMMA DataOf ==
  ASSUME Typed, UNCHANGED <<server, mainIdx>>, DbTyped', SubTyped'
  PROVE  DataTyped'
  BY DEF Typed, DataTyped, DbTyped, SubTyped

\* The database, or the subscriptions, stay.
LEMMA DbStays ==
  ASSUME Typed, UNCHANGED dbVars
  PROVE  DbTyped'
  BY DataParts DEF DbTyped, dbVars

\* What keeps the subscriptions of the wallets keeps their types.
LEMMA SubStays ==
  ASSUME Typed, UNCHANGED subVars
  PROVE  SubTyped'
  BY DataParts DEF SubTyped, subVars

\* The balances that are stored are versions of the server.
LEMMA StoreTyped ==
  ASSUME Typed, NEW w \in Wallets, NEW S, StoreBalances(w, S), UNCHANGED <<used, saved, idx>>
  PROVE  DbTyped'
<1> DEFINE f == [s \in Scripts |-> IF s \in S THEN server[w][s] ELSE stored[w][s]]
<1>1. DbTyped /\ server \in [Wallets -> [Scripts -> Versions]]
  BY DataParts
<1>2. f \in [Scripts -> Versions]
  BY <1>1 DEF DbTyped
<1>3. stored' = [stored EXCEPT ![w] = f]
  BY DEF StoreBalances
<1> HIDE DEF f
<1>4. stored' \in [Wallets -> [Scripts -> Versions]]
  BY <1>1, <1>2, <1>3 DEF DbTyped
<1> QED BY <1>1, <1>4 DEF DbTyped

\* subscribeScriptForWallet
LEMMA SubscribeTyped ==
  ASSUME Typed, NEW w \in Wallets, NEW c \in Tasks, NEW S \in SUBSET Scripts, Subscribe(w, c, S)
  PROVE  SubTyped'
<1> DEFINE f == [s \in Scripts |-> IF s \in S THEN c ELSE cb[w][s]]
           g == [s \in Scripts |-> IF s \in S THEN server[w][s] ELSE status[c][s]]
<1>1. SubTyped /\ server \in [Wallets -> [Scripts -> Versions]]
  BY DataParts
<1>2. f \in [Scripts -> Tasks \cup {NoCopy}] /\ g \in [Scripts -> Versions]
  BY <1>1 DEF SubTyped
<1>3. /\ cb' = [cb EXCEPT ![w] = f] /\ status' = [status EXCEPT ![c] = g]
      /\ srvSub' = [srvSub EXCEPT ![w] = srvSub[w] \cup S] /\ inMap' = [inMap EXCEPT ![c] = inMap[c] \cup S]
      /\ notif' = notif
  BY <1>1 DEF Subscribe, SubTyped
<1> HIDE DEF f, g
<1>4. srvSub[w] \cup S \in SUBSET Scripts /\ inMap[c] \cup S \in SUBSET Scripts
  BY <1>1 DEF SubTyped
<1> QED BY <1>1, <1>2, <1>3, <1>4 DEF SubTyped

\* unsubscribeAddress
LEMMA UnsubscribeTyped ==
  ASSUME Typed, NEW w \in Wallets, NEW c \in Tasks, NEW S, Unsubscribe(w, c, S)
  PROVE  SubTyped'
<1> DEFINE f == [s \in Scripts |-> IF s \in S THEN NoCopy ELSE cb[w][s]]
<1>1. SubTyped
  BY DataParts
<1>2. f \in [Scripts -> Tasks \cup {NoCopy}]
  BY <1>1 DEF SubTyped
<1>3. /\ cb' = [cb EXCEPT ![w] = f] /\ status' = status /\ notif' = notif
      /\ srvSub' = [srvSub EXCEPT ![w] = srvSub[w] \ S] /\ inMap' = [inMap EXCEPT ![c] = inMap[c] \ S]
  BY <1>1 DEF Unsubscribe, SubTyped
<1> HIDE DEF f
<1>4. srvSub[w] \ S \in SUBSET Scripts /\ inMap[c] \ S \in SUBSET Scripts
  BY <1>1 DEF SubTyped
<1> QED BY <1>1, <1>2, <1>3, <1>4 DEF SubTyped

\* What is in the objects of a batch are statuses.
LEMMA StatusTyped ==
  ASSUME Typed, NEW t \in Tasks, phase[t] = "running"
  PROVE  /\ \A s \in DOMAIN job[t].batch : s \in Scripts /\ StatusOf(t, s) \in Versions
         /\ \A s \in DOMAIN job[t].again : s \in Scripts /\ job[t].again[s] \in Versions
<1>1. job[t] \in JobType /\ job[t].copy \in Tasks
  BY AtWallet
<1>2. PICK S \in SUBSET Scripts : job[t].batch \in [S -> Versions \cup {Alias}]
  BY <1>1 DEF JobType, Batches
<1>3. PICK T \in SUBSET Scripts : job[t].again \in [T -> Versions]
  BY <1>1 DEF JobType, Statuses
<1>4. \A s \in S : StatusOf(t, s) \in Versions
  BY <1>1, <1>2, DataParts DEF StatusOf, SubTyped
<1> QED BY <1>2, <1>3, <1>4

\* An index that is written is a script or 0.
LEMMA IndexTyped ==
  ASSUME Typed, NEW c \in Tasks, NEW i \in Scripts \cup {0}, idx' = [idx EXCEPT ![c] = i],
         NEW w \in Wallets, NEW U \in SUBSET Scripts, used' = [used EXCEPT ![w] = U] \/ used' = used,
         UNCHANGED <<stored, saved>>
  PROVE  DbTyped'
<1>1. DbTyped
  BY DataParts
<1> QED BY <1>1 DEF DbTyped
-----------------------------------------------------------------------------
(* The data after a step of a task. *)

\* The steps of a task that write neither the database nor the subscriptions.
LEMMA QuietData ==
  ASSUME Typed, NEW t \in Tasks,
         \/ Finish(t) \/ QueueCleanup(t) \/ BeginSubscribe(t) \/ BatchTransactions(t) \/ BatchUtxos(t)
         \/ BeginEvent(t) \/ Extended(t) \/ EventFailed(t) \/ EventTransactions(t) \/ EventUtxos(t)
         \/ EventDone(t) \/ BeginDormant(t) \/ DormantNext(t) \/ BeginReset(t)
  PROVE  DataTyped'
<1> USE DEF dbVars, subVars, cmdVars, envVars
<1>1. CASE Finish(t) \/ QueueCleanup(t) \/ BeginSubscribe(t) \/ BeginEvent(t) \/ BeginDormant(t) \/ BeginReset(t)
  <2>1. UNCHANGED <<dbVars, subVars, server, mainIdx>>
    BY <1>1 DEF Finish, QueueCleanup, BeginSubscribe, BeginEvent, BeginDormant, BeginReset
  <2> QED BY <2>1, DataOf, DbStays, SubStays
<1>2. CASE Extended(t) \/ EventFailed(t) \/ EventUtxos(t) \/ EventDone(t) \/ DormantNext(t) \/ BatchUtxos(t)
  <2>1. UNCHANGED <<dbVars, subVars, server, mainIdx>>
    BY <1>2 DEF Extended, EventFailed, EventUtxos, EventDone, DormantNext, BatchUtxos, EventEnds, Goto, Return
  <2> QED BY <2>1, DataOf, DbStays, SubStays
<1>3. CASE BatchTransactions(t) \/ EventTransactions(t)
  <2>1. UNCHANGED <<dbVars, subVars, server, mainIdx>>
    BY <1>3 DEF BatchTransactions, EventTransactions, BatchFails, SubscribeReturns, Goto, Return,
                Answered, Throws
  <2> QED BY <2>1, DataOf, DbStays, SubStays
<1> QED BY <1>1, <1>2, <1>3

\* Of the copy of the walletItem: the scan advances the index.
LEMMA ScanData ==
  ASSUME Typed, NEW t \in Tasks, Scan(t)
  PROVE  DataTyped'
<1> DEFINE w == walletOf[t]
           c == job[t].copy
           R == ScanRange(w, c)
           N == R \ inMap[c]
           T == {idx[c]} \cup {s \in R : (IF s \in N THEN server[w][s] ELSE status[c][s]) # 0}
<1>1. w \in Wallets /\ c \in Tasks
  BY AtWallet DEF Scan, At
<1>2. N \in SUBSET Scripts /\ R \in SUBSET Scripts
  BY DEF ScanRange
<1>3. Subscribe(w, c, N) /\ idx' = [idx EXCEPT ![c] = Max(T)] /\ UNCHANGED <<stored, saved, used, server, mainIdx>>
  BY <1>1, DataParts DEF Scan, DbTyped, cmdVars, envVars
<1>4. T \in SUBSET (Scripts \cup {0}) /\ T # {}
  BY <1>1, <1>2, DataParts DEF DbTyped
<1> HIDE DEF T, N, R
<1>5. SubTyped'
  BY <1>1, <1>2, <1>3, SubscribeTyped
<1>6. Max(T) \in Scripts \cup {0}
  BY <1>4, MaxOf
<1>7. DbTyped'
  BY <1>1, <1>3, <1>6, IndexTyped
<1> QED BY <1>3, <1>5, <1>7, DataOf

\* The scan that fails leaves the data typed.
LEMMA ScanFailsData ==
  ASSUME Typed, NEW t \in Tasks, ScanFails(t)
  PROVE  DataTyped'
<1> DEFINE w == walletOf[t]
           c == job[t].copy
           N == ScanRange(w, c) \ inMap[c]
<1>1. w \in Wallets /\ c \in Tasks
  BY AtWallet DEF ScanFails, At
<1>2. N \in SUBSET Scripts
  BY DEF ScanRange
<1>3. UNCHANGED dbVars /\ UNCHANGED <<server, mainIdx>> /\ \E R \in SUBSET N : Subscribe(w, c, R)
  BY DEF ScanFails, Throws, SubscribeReturns, Return, cmdVars
<1> HIDE DEF N
<1>4. SubTyped'
  BY <1>1, <1>2, <1>3, SubscribeTyped
<1> QED BY <1>3, <1>4, DataOf, DbStays

\* The index of the copy advances with the used scripts.
LEMMA CompareData ==
  ASSUME Typed, NEW t \in Tasks, Compare(t)
  PROVE  DataTyped'
<1> DEFINE w == walletOf[t]
           c == job[t].copy
           S == {s \in DOMAIN job[t].batch : [x \in DOMAIN job[t].batch |-> StatusOf(t, x)][s] # 0}
           U == used[w] \cup S
<1>1. w \in Wallets /\ c \in Tasks /\ phase[t] = "running"
  BY AtWallet DEF Compare, At
<1>2. U \in SUBSET Scripts
  BY <1>1, StatusTyped, DataParts DEF DbTyped
<1>3. SetUsed(w, c, S) /\ UNCHANGED <<stored, saved, server, mainIdx>> /\ UNCHANGED subVars
  BY DEF Compare, SubscribeReturns, Return, cmdVars, envVars
<1> HIDE DEF S
<1>4. used' = [used EXCEPT ![w] = U] /\ used'[w] = U
  BY <1>1, <1>3, DataParts DEF SetUsed, DbTyped
<1>5. idx' = [idx EXCEPT ![c] = Max({idx[c]} \cup U)]
  BY <1>1, <1>3, <1>4, DataParts DEF SetUsed, DbTyped
<1> HIDE DEF U
<1>6. {idx[c]} \cup U \in SUBSET (Scripts \cup {0}) /\ {idx[c]} \cup U # {}
  BY <1>1, <1>2, DataParts DEF DbTyped
<1>7. Max({idx[c]} \cup U) \in Scripts \cup {0}
  BY <1>6, MaxOf
<1>8. DbTyped'
  BY <1>1, <1>2, <1>3, <1>4, <1>5, <1>7, IndexTyped
<1> QED BY <1>3, <1>8, DataOf, SubStays

\* The steps that store balances.
LEMMA BalanceData ==
  ASSUME Typed, NEW t \in Tasks, NEW F \in SUBSET Scripts, NEW ok \in BOOLEAN, NEW s,
         BatchBalance(t, F) \/ DormantBalance(t, F) \/ EventBalance(t, ok) \/ CoSpent(t, s, ok)
  PROVE  DataTyped'
<1>1. walletOf[t] \in Wallets
  BY AtWallet DEF BatchBalance, DormantBalance, EventBalance, CoSpent, At
<1>2. /\ (\E S : StoreBalances(walletOf[t], S)) \/ UNCHANGED stored
      /\ UNCHANGED <<used, saved, idx>> /\ UNCHANGED subVars /\ UNCHANGED <<server, mainIdx>>
  <2>1. CASE BatchBalance(t, F)
    BY <2>1 DEF BatchBalance, BatchFails, SubscribeReturns, Goto, Return, Answered, Throws, cmdVars, envVars
  <2>2. CASE DormantBalance(t, F)
    BY <2>2 DEF DormantBalance, Goto, Answered, Throws, cmdVars, envVars
  <2>3. CASE EventBalance(t, ok)
    BY <2>3 DEF EventBalance, AddressBalance, Goto, Answered, Throws, cmdVars, envVars
  <2>4. CASE CoSpent(t, s, ok)
    BY <2>4 DEF CoSpent, AddressBalance, Answered, Throws, cmdVars, envVars
  <2> QED BY <2>1, <2>2, <2>3, <2>4
<1>3. DbTyped'
  <2>1. CASE UNCHANGED stored
    BY <2>1, <1>2, DbStays DEF dbVars
  <2> QED BY <2>1, <1>1, <1>2, StoreTyped
<1> QED BY <1>2, <1>3, DataOf, SubStays

\* The steps that unsubscribe.
LEMMA UnsubscribeData ==
  ASSUME Typed, NEW t \in Tasks, NEW R \in SUBSET Scripts,
         BatchUnsubscribe(t, R) \/ EventUnsubscribe(t) \/ CoSpentUnsubscribe(t)
  PROVE  DataTyped'
<1>1. walletOf[t] \in Wallets /\ job[t].copy \in Tasks
  BY AtWallet DEF BatchUnsubscribe, EventUnsubscribe, CoSpentUnsubscribe, At
<1>2. /\ (\E S : Unsubscribe(walletOf[t], job[t].copy, S)) \/ UNCHANGED subVars
      /\ UNCHANGED dbVars /\ UNCHANGED <<server, mainIdx>>
  <2>1. CASE BatchUnsubscribe(t, R)
    BY <2>1 DEF BatchUnsubscribe, BatchFails, SubscribeReturns, Goto, Return, Answered, Throws, cmdVars,
                envVars
  <2>2. CASE EventUnsubscribe(t)
    BY <2>2 DEF EventUnsubscribe, Goto, Answered, Throws, cmdVars, envVars
  <2>3. CASE CoSpentUnsubscribe(t)
    BY <2>3 DEF CoSpentUnsubscribe, Goto, Answered, Throws, cmdVars, envVars
  <2> QED BY <2>1, <2>2, <2>3
<1>3. SubTyped'
  BY <1>1, <1>2, UnsubscribeTyped, SubStays
<1> QED BY <1>2, <1>3, DataOf, DbStays

\* The statuses that are saved are those of the batch.
LEMMA SaveData ==
  ASSUME Typed, NEW t \in Tasks, SaveStatuses(t)
  PROVE  DataTyped'
<1> DEFINE w == walletOf[t]
           A == {s \in DOMAIN job[t].again : job[t].again[s] \notin {0, saved[w][s]}}
           f == [s \in Scripts |-> IF s \in A THEN job[t].again[s]
                                   ELSE IF s \in DOMAIN job[t].batch /\ StatusOf(t, s) # 0 THEN StatusOf(t, s)
                                   ELSE saved[w][s]]
<1>1. w \in Wallets /\ phase[t] = "running"
  BY AtWallet DEF SaveStatuses, At
<1>2. f \in [Scripts -> Versions]
  <2>1. A \subseteq DOMAIN job[t].again
    OBVIOUS
  <2>2. \A s \in Scripts : saved[w][s] \in Versions
    BY <1>1, DataParts DEF DbTyped
  <2> HIDE DEF A
  <2> QED BY <1>1, <2>1, <2>2, StatusTyped
<1>3. saved' = [saved EXCEPT ![w] = f] \/ saved' = saved
  BY <1>1, DataParts DEF SaveStatuses, DbTyped
<1> HIDE DEF f
<1>4. UNCHANGED <<stored, used, idx, server, mainIdx>> /\ UNCHANGED subVars
  BY DEF SaveStatuses, SubscribeReturns, Return, Throws, cmdVars, envVars
<1>5. DbTyped
  BY DataParts
<1>6. saved' \in [Wallets -> [Scripts -> Versions]]
  BY <1>1, <1>2, <1>3, <1>5 DEF DbTyped
<1>7. DbTyped'
  BY <1>4, <1>5, <1>6 DEF DbTyped
<1> QED BY <1>4, <1>7, DataOf, SubStays

\* The index after a script event.
LEMMA ProcessData ==
  ASSUME Typed, NEW t \in Tasks, ProcessBegin(t)
  PROVE  DataTyped'
<1> DEFINE w == walletOf[t]
           c == job[t].copy
           i == Max({idx[c], UsedIndex(w), job[t].script})
           U == used[w] \cup {job[t].script}
<1>1. w \in Wallets /\ c \in Tasks /\ job[t].script \in Scripts
  BY AtWallet, EventPlaces DEF ProcessBegin, At
<1>2. UsedIndex(w) \in Scripts \cup {0}
  <2>1. used[w] \in SUBSET (Scripts \cup {0})
    BY <1>1, DataParts DEF DbTyped
  <2> QED BY <2>1, MaxOf DEF UsedIndex
<1>3. i \in Scripts \cup {0}
  <2>1. {idx[c], UsedIndex(w), job[t].script} \in SUBSET (Scripts \cup {0})
    BY <1>1, <1>2, DataParts DEF DbTyped
  <2> QED BY <2>1, <1>2, MaxOf
<1>4. U \in SUBSET Scripts
  BY <1>1, DataParts DEF DbTyped
<1>5. /\ idx' = [idx EXCEPT ![c] = i] /\ used' = [used EXCEPT ![w] = U]
      /\ UNCHANGED <<stored, saved, server, mainIdx>> /\ UNCHANGED subVars
  BY <1>1, DataParts DEF ProcessBegin, Goto, cmdVars, envVars, DbTyped
<1> HIDE DEF i, U
<1>6. DbTyped'
  BY <1>1, <1>3, <1>4, <1>5, IndexTyped
<1> QED BY <1>5, <1>6, DataOf, SubStays

\* So does the renewed subscription of a dormant script.
LEMMA DormantSubscribeData ==
  ASSUME Typed, NEW t \in Tasks, DormantSubscribe(t)
  PROVE  DataTyped'
<1>1. walletOf[t] \in Wallets /\ job[t].copy \in Tasks /\ job[t].script \in Scripts
  BY AtWallet DEF DormantSubscribe, At, Sensible, JobType, Kinds, SubscribePcs
<1>2. /\ Subscribe(walletOf[t], job[t].copy, {job[t].script}) \/ UNCHANGED subVars
      /\ UNCHANGED dbVars /\ UNCHANGED <<server, mainIdx>>
  BY DEF DormantSubscribe, Goto, Return, Answered, Throws, cmdVars, envVars
<1>3. SubTyped'
  BY <1>1, <1>2, SubscribeTyped, SubStays
<1> QED BY <1>2, <1>3, DataOf, DbStays

\* resetWalletForResync
LEMMA ResetData ==
  ASSUME Typed, NEW t \in Tasks, Reset(t)
  PROVE  DataTyped'
<1>1. walletOf[t] \in Wallets /\ job[t].copy \in Tasks
  BY AtWallet DEF Reset, At
<1>2. UNCHANGED <<server, mainIdx>>
  BY DEF Reset, Return, Throws, cmdVars, envVars
<1>3. CASE UNCHANGED dbVars /\ UNCHANGED subVars
  BY <1>2, <1>3, DataOf, DbStays, SubStays
<1>4. CASE ~(UNCHANGED dbVars /\ UNCHANGED subVars)
  <2> DEFINE w == walletOf[t]
             c == job[t].copy
             z == [s \in Scripts |-> 0]
  <2>1. /\ stored' = [stored EXCEPT ![w] = z] /\ saved' = [saved EXCEPT ![w] = z]
        /\ used' = [used EXCEPT ![w] = {}] /\ idx' = [idx EXCEPT ![c] = 0]
        /\ inMap' = [inMap EXCEPT ![c] = {}] /\ UNCHANGED <<srvSub, notif, cb, status>>
    BY <1>4 DEF Reset
  <2>2. z \in [Scripts -> Versions]
    BY MaxVersionAssumption DEF Versions
  <2> HIDE DEF z
  <2>3. DbTyped' /\ SubTyped'
    BY <1>1, <2>1, <2>2, DataParts DEF DbTyped, SubTyped
  <2> QED BY <1>2, <2>3, DataOf
<1> QED BY <1>3, <1>4

\* Every step of a task keeps the data typed.
LEMMA TaskData ==
  ASSUME Typed, NEW t \in Tasks, TaskStep(t)
  PROVE  DataTyped'
<1>1. ASSUME NEW F \in SUBSET Scripts, BatchBalance(t, F) \/ DormantBalance(t, F) \/ BatchUnsubscribe(t, F)
      PROVE  DataTyped'
  <2>1. CASE BatchUnsubscribe(t, F)
    BY <2>1, UnsubscribeData
  <2>2. CASE BatchBalance(t, F) \/ DormantBalance(t, F)
    BY <2>2, BalanceData
  <2> QED BY <1>1, <2>1, <2>2
<1>2. ASSUME NEW ok \in BOOLEAN, EventBalance(t, ok) \/ \E s \in Scripts : CoSpent(t, s, ok)
      PROVE  DataTyped'
  <2>1. CASE EventBalance(t, ok)
    BY <2>1, BalanceData
  <2>2. CASE \E s \in Scripts : CoSpent(t, s, ok)
    BY <2>2, BalanceData
  <2> QED BY <1>2, <2>1, <2>2
<1>3. CASE \/ Finish(t) \/ QueueCleanup(t) \/ BeginSubscribe(t) \/ BatchTransactions(t) \/ BatchUtxos(t)
           \/ BeginEvent(t) \/ Extended(t) \/ EventFailed(t) \/ EventTransactions(t) \/ EventUtxos(t)
           \/ EventDone(t) \/ BeginDormant(t) \/ DormantNext(t) \/ BeginReset(t)
  BY <1>3, QuietData
<1>4. CASE Scan(t) \/ ScanFails(t) \/ Compare(t) \/ SaveStatuses(t)
  BY <1>4, ScanData, ScanFailsData, CompareData, SaveData
<1>5. CASE ProcessBegin(t) \/ EventUnsubscribe(t) \/ CoSpentUnsubscribe(t)
  BY <1>5, ProcessData, UnsubscribeData
<1>6. CASE DormantSubscribe(t) \/ Reset(t)
  BY <1>6, DormantSubscribeData, ResetData
<1> QED BY <1>1, <1>2, <1>3, <1>4, <1>5, <1>6 DEF TaskStep

\* A task writes the balances of its own wallet only.
LEMMA TaskStores ==
  ASSUME Typed, NEW t \in Tasks, TaskStep(t)
  PROVE  \A v \in Wallets : v # walletOf[t] => stored'[v] = stored[v]
<1> USE DEF dbVars
<1>1. ASSUME NEW F \in SUBSET Scripts, BatchBalance(t, F) \/ DormantBalance(t, F)
      PROVE  (\E S : StoreBalances(walletOf[t], S)) \/ UNCHANGED stored
  BY <1>1 DEF BatchBalance, DormantBalance
<1>2. ASSUME NEW ok \in BOOLEAN, NEW s, EventBalance(t, ok) \/ CoSpent(t, s, ok)
      PROVE  (\E S : StoreBalances(walletOf[t], S)) \/ UNCHANGED stored
  BY <1>2 DEF EventBalance, CoSpent, AddressBalance
<1>3. ASSUME \/ Finish(t) \/ QueueCleanup(t) \/ BeginSubscribe(t) \/ BatchTransactions(t) \/ BatchUtxos(t)
             \/ BeginEvent(t) \/ Extended(t) \/ EventFailed(t) \/ EventTransactions(t) \/ EventUtxos(t)
             \/ EventDone(t) \/ BeginDormant(t) \/ DormantNext(t) \/ BeginReset(t)
      PROVE  UNCHANGED stored
  BY <1>3 DEF Finish, QueueCleanup, BeginSubscribe, BatchTransactions, BatchUtxos, BeginEvent, Extended,
              EventFailed, EventTransactions, EventUtxos, EventDone, BeginDormant, DormantNext, BeginReset
<1>4. ASSUME Scan(t) \/ ScanFails(t) \/ Compare(t) \/ SaveStatuses(t) \/ ProcessBegin(t) \/ DormantSubscribe(t)
             \/ EventUnsubscribe(t) \/ CoSpentUnsubscribe(t) \/ \E R \in SUBSET Scripts : BatchUnsubscribe(t, R)
      PROVE  UNCHANGED stored
  BY <1>4 DEF Scan, ScanFails, Compare, SaveStatuses, ProcessBegin, DormantSubscribe, EventUnsubscribe,
              CoSpentUnsubscribe, BatchUnsubscribe
<1>5. ASSUME Reset(t)
      PROVE  UNCHANGED stored \/ \E f : stored' = [stored EXCEPT ![walletOf[t]] = f]
  BY <1>5 DEF Reset
<1>6. UNCHANGED stored \/ \E f : stored' = [stored EXCEPT ![walletOf[t]] = f]
  BY <1>1, <1>2, <1>3, <1>4, <1>5 DEF TaskStep, StoreBalances
<1>7. stored \in [Wallets -> [Scripts -> Versions]]
  BY DataParts DEF DbTyped
<1> QED BY <1>6, <1>7
-----------------------------------------------------------------------------
(* What is announced. *)

\* The invariants of a wallet the step neither announces nor completes.
LEMMA QuietFor ==
  ASSUME NEW v \in Wallets, iso \in IsoType, iso' \in IsoType,
         Len(iso.out) <= Len(iso'.out),
         \A i \in 1 .. Len(iso.out) : iso'.out[i] = iso.out[i],
         \A i \in 1 .. Len(iso'.out) : i > Len(iso.out) =>
            ~OfQueue(iso'.out[i], v) /\ (Completing(iso'.out[i], v) => tail[v] # NoTask),
         tail'[v] = NoTask <=> tail[v] = NoTask,
         UNCHANGED <<registered, walletInfo>>, nodeSyncState' \in {nodeSyncState, "failed"},
         Failing(v)' => Failing(v), tail[v] = NoTask => stored'[v] = stored[v],
         FlagOf(v), ToldOf(v), PublishedOf(v)
  PROVE  FlagOf(v)' /\ ToldOf(v)' /\ PublishedOf(v)'
<1> DEFINE k == Len(iso.out)
           n == Len(iso'.out)
<1>1. k \in Nat /\ n \in Nat /\ k <= n
  BY DEF IsoType
<1>2. Unannounced(v)' => Unannounced(v)
  BY <1>1 DEF Unannounced
<1>3. ASSUME NEW i, LastOfQueue(i, v)'
      PROVE  LastOfQueue(i, v) /\ iso'.out[i] = iso.out[i]
  <2>1. i \in 1 .. n /\ OfQueue(iso'.out[i], v) /\ \A j \in 1 .. n : OfQueue(iso'.out[j], v) => j <= i
    BY <1>3 DEF LastOfQueue
  <2>2. i \in 1 .. k
    BY <1>1, <2>1
  <2> QED BY <1>1, <2>1, <2>2 DEF LastOfQueue
<1>4. FlagOf(v)'
  BY <1>2, <1>3 DEF FlagOf
<1>5. ASSUME Failing(v)'
      PROVE  ToldOf(v)'
  <2>1. Failing(v) /\ tail[v] = NoTask
    BY <1>5 DEF Failing
  <2>2. \A j \in 1 .. n : ~Completing(iso'.out[j], v) \/ (j \in 1 .. k /\ Completing(iso.out[j], v))
    BY <1>1, <2>1
  <2>3. ASSUME Unannounced(v)'
        PROVE  /\ v \in registered' /\ walletInfo'[v].elements["balance"] # "completed"
               /\ nodeSyncState' # "completed"
               /\ \A j \in 1 .. n : ~Completing(iso'.out[j], v)
    BY <2>1, <2>2, <2>3, <1>2 DEF ToldOf
  <2>4. ASSUME NEW i \in Nat, LastOfQueue(i, v)'
        PROVE  /\ iso'.out[i].snapshot = NoBalance
               /\ \A j \in i .. n : ~Completing(iso'.out[j], v)
    <3>1. LastOfQueue(i, v) /\ iso'.out[i] = iso.out[i] /\ i \in 1 .. k
      BY <2>4, <1>3 DEF LastOfQueue
    <3>2. iso.out[i].snapshot = NoBalance /\ \A j \in i .. k : ~Completing(iso.out[j], v)
      BY <3>1, <2>1 DEF ToldOf
    <3> QED BY <3>1, <3>2, <2>2, <1>1
  <2> QED BY <2>3, <2>4 DEF ToldOf
<1>6. ASSUME tail'[v] = NoTask
      PROVE  PublishedOf(v)'
  <2>1. tail[v] = NoTask /\ WalletBalance(v)' = WalletBalance(v)
    BY <1>6 DEF WalletBalance
  <2>2. \A j \in 1 .. n : ~Completing(iso'.out[j], v) \/ (j \in 1 .. k /\ Completing(iso.out[j], v))
    BY <1>1, <2>1
  <2>3. ASSUME Unannounced(v)'
        PROVE  \/ walletInfo'[v].balanceSnapshot = WalletBalance(v)'
               \/ /\ walletInfo'[v].elements["balance"] # "completed"
                  /\ \A j \in 1 .. n : ~Completing(iso'.out[j], v)
    BY <2>1, <2>2, <2>3, <1>2 DEF PublishedOf
  <2>4. ASSUME NEW i \in Nat, LastOfQueue(i, v)'
        PROVE  \/ iso'.out[i].snapshot = WalletBalance(v)'
               \/ /\ iso'.out[i].snapshot = NoBalance
                  /\ \A j \in i .. n : ~Completing(iso'.out[j], v)
    <3>1. LastOfQueue(i, v) /\ iso'.out[i] = iso.out[i] /\ i \in 1 .. k
      BY <2>4, <1>3 DEF LastOfQueue
    <3>2. \/ iso.out[i].snapshot = WalletBalance(v)
          \/ iso.out[i].snapshot = NoBalance /\ \A j \in i .. k : ~Completing(iso.out[j], v)
      BY <3>1, <2>1 DEF PublishedOf
    <3> QED BY <3>1, <3>2, <2>1, <2>2, <1>1
  <2> QED BY <2>3, <2>4 DEF PublishedOf
<1> QED BY <1>4, <1>5, <1>6 DEF ToldOf, PublishedOf

\* Nothing is announced, and only wallets with tasks are completed.
LEMMA TalkKeeps ==
  ASSUME Typed, FlagAgrees, FailureTold, BalanceTold, NEW S, Grows(iso, iso', S),
         \A w \in Wallets : tail[w] = NoTask => stored'[w] = stored[w],
         \A w \in Wallets : w \in S => tail[w] # NoTask,
         \A w \in Wallets : tail'[w] = NoTask <=> tail[w] = NoTask,
         UNCHANGED <<registered, walletInfo>>, nodeSyncState' \in {nodeSyncState, "failed"},
         \A w \in Wallets : Failing(w)' => Failing(w)
  PROVE  FlagAgrees' /\ FailureTold' /\ BalanceTold'
<1> SUFFICES ASSUME NEW v \in Wallets PROVE FlagOf(v)' /\ ToldOf(v)' /\ PublishedOf(v)'
  BY DEF FlagAgrees, FailureTold, BalanceTold
<1>1. iso \in IsoType /\ FlagOf(v) /\ ToldOf(v) /\ PublishedOf(v)
  BY DEF Typed, ControlTyped, FlagAgrees, FailureTold, BalanceTold
<1>2. /\ iso' \in IsoType /\ Len(iso.out) <= Len(iso'.out)
      /\ \A i \in 1 .. Len(iso.out) : iso'.out[i] = iso.out[i]
      /\ \A i \in 1 .. Len(iso'.out) : i > Len(iso.out) =>
            ~OfQueue(iso'.out[i], v) /\ (Completing(iso'.out[i], v) => tail[v] # NoTask)
  BY DEF Grows
<1> QED BY <1>1, <1>2, QuietFor

\* The start or the end of the queue of w is announced, with no balance if it failed.
LEMMA AnnounceKeeps ==
  ASSUME Typed, FlagAgrees, FailureTold, BalanceTold, NEW m, Grows(iso, m, {}), UNCHANGED stored,
         NEW w \in Wallets, NEW q \in BOOLEAN, NEW b \in Balances \cup {NoBalance},
         iso' = Send(m, QueueMsg(w, q, b)),
         q <=> tail'[w] # NoTask,
         \A v \in Wallets : v # w => tail'[v] = tail[v],
         UNCHANGED nodeVars,
         Failing(w)' => b = NoBalance, b \in {NoBalance, WalletBalance(w)},
         \A v \in Wallets : v # w => (Failing(v)' => Failing(v))
  PROVE  FlagAgrees' /\ FailureTold' /\ BalanceTold'
<1> DEFINE x == QueueMsg(w, q, b)
           k == Len(iso.out)
           l == Len(m.out)
<1>1. iso \in IsoType /\ m \in IsoType /\ x \in Msgs
  BY MsgsKnown DEF Typed, ControlTyped, Grows
<1> HIDE DEF x
<1>2. /\ iso' \in IsoType /\ k \in Nat /\ l \in Nat /\ k <= l /\ Len(iso'.out) = l + 1
      /\ \A i \in 1 .. l : iso'.out[i] = m.out[i]
      /\ iso'.out[l + 1] = x
  <2>1. iso' = Send(m, x)
    BY DEF x
  <2>2. /\ Send(m, x) \in IsoType /\ l \in Nat /\ Len(Send(m, x).out) = l + 1
        /\ \A i \in 1 .. l : Send(m, x).out[i] = m.out[i]
        /\ Send(m, x).out[l + 1] = x
    BY <1>1, SendParts
  <2>3. k \in Nat
    <3>1. iso.out \in Seq(Msgs)
      BY <1>1 DEF IsoType
    <3> QED BY <3>1
  <2>4. k <= l
    BY DEF Grows
  <2> QED BY <2>1, <2>2, <2>3, <2>4
<1>3. /\ \A i \in 1 .. k : m.out[i] = iso.out[i]
      /\ \A i \in 1 .. l : i > k => \A v \in Wallets : ~OfQueue(m.out[i], v) /\ ~Completing(m.out[i], v)
  BY DEF Grows
<1>4. \A v : /\ OfQueue(x, v) <=> w = v
             /\ ~Completing(x, v)
             /\ x.queued = q /\ x.snapshot = b
  BY DEF x, OfQueue, Completing, QueueMsg
<1>5. FlagOf(w)' /\ ToldOf(w)' /\ PublishedOf(w)'
  <2>1. ~Unannounced(w)'
    BY <1>2, <1>4 DEF Unannounced
  <2>2. ASSUME NEW i, LastOfQueue(i, w)'
        PROVE  i = l + 1 /\ iso'.out[i].queued = q /\ iso'.out[i].snapshot = b
               /\ \A j \in i .. Len(iso'.out) : ~Completing(iso'.out[j], w)
    <3>1. i \in 1 .. l + 1 /\ l + 1 <= i
      BY <2>2, <1>2, <1>4 DEF LastOfQueue
    <3>2. i = l + 1
      BY <3>1, <1>2
    <3> QED BY <3>2, <1>2, <1>4
  <2>3. FlagOf(w)'
    BY <2>1, <2>2 DEF FlagOf
  <2>4. ToldOf(w)'
    BY <2>1, <2>2 DEF ToldOf
  <2>5. WalletBalance(w)' = WalletBalance(w)
    BY DEF WalletBalance
  <2>6. PublishedOf(w)'
    BY <2>1, <2>2, <2>5 DEF PublishedOf
  <2> QED BY <2>3, <2>4, <2>6
<1>6. ASSUME NEW v \in Wallets, v # w
      PROVE  FlagOf(v)' /\ ToldOf(v)' /\ PublishedOf(v)'
  <2>1. FlagOf(v) /\ ToldOf(v) /\ PublishedOf(v) /\ stored'[v] = stored[v]
    BY DEF FlagAgrees, FailureTold, BalanceTold
  <2>2. Len(iso.out) <= Len(iso'.out) /\ \A i \in 1 .. Len(iso.out) : iso'.out[i] = iso.out[i]
    BY <1>2, <1>3
  <2>3. ASSUME NEW i \in 1 .. Len(iso'.out), i > Len(iso.out)
        PROVE  ~OfQueue(iso'.out[i], v) /\ ~Completing(iso'.out[i], v)
    <3>1. CASE i = l + 1
      BY <3>1, <1>2, <1>4, <1>6
    <3>2. CASE i # l + 1
      <4>1. i \in 1 .. l
        BY <3>2, <1>2
      <4> QED BY <4>1, <2>3, <1>2, <1>3
    <3> QED BY <3>1, <3>2
  <2>4. UNCHANGED <<registered, walletInfo>> /\ nodeSyncState' \in {nodeSyncState, "failed"}
    BY DEF nodeVars
  <2> QED BY <1>1, <1>2, <1>6, <2>1, <2>2, <2>3, <2>4, QuietFor
<1> QED BY <1>5, <1>6 DEF FlagAgrees, FailureTold, BalanceTold

\* A step that leaves the marks of scripts and the running tasks alone.
LEMMA RetriesStay ==
  ASSUME RetriesKept, UNCHANGED failedScripts,
         \A t \in Tasks : phase'[t] = "running" =>
            phase[t] = "running" /\ job'[t] = job[t] /\ walletOf'[t] = walletOf[t]
  PROVE  RetriesKept'
<1> SUFFICES ASSUME NEW t \in Tasks, phase'[t] = "running" PROVE Retried(t)'
  BY DEF RetriesKept, Retried
<1>1. phase[t] = "running" /\ job'[t] = job[t] /\ walletOf'[t] = walletOf[t] /\ Retried(t)
  BY DEF RetriesKept
<1> QED BY <1>1 DEF Retried, Batch
-----------------------------------------------------------------------------
(* The inductive invariant. *)

Inv == Typed /\ NodeInv /\ FlagAgrees /\ FailureTold /\ BalanceTold /\ RetriesKept

\* The main isolate's part of the invariant, when it does nothing.
LEMMA NodeStays ==
  ASSUME NodeInv, UNCHANGED nodeVars
  PROVE  NodeInv'
  BY DEF NodeInv, NodeTypeOK, UnregisteredIsFresh, CompletedIsIdle, nodeVars

\* The parts of the type of a step that leaves the main isolate alone.
LEMMA TypedOf ==
  ASSUME Typed, QueueInv', DataTyped', Jobs', UNCHANGED nodeVars, iso' \in IsoType,
         job' \in [Tasks -> JobType], failedWallets' \in SUBSET Wallets,
         failedScripts' \in [Wallets -> SUBSET Scripts], failedBalances' \in [Wallets -> SUBSET Scripts]
  PROVE  Typed'
  BY DEF Typed, ControlTyped, nodeVars, NodeTypeOK

\* A queue with a live task has an entry in the map.
LEMMA LiveHasEntry ==
  ASSUME Typed, NEW t \in Tasks, Live(t)
  PROVE  tail[walletOf[t]] # NoTask
  BY OnWallet DEF Typed, QueueInv, TailYoungest

\* Two running tasks are on different wallets.
LEMMA OneRuns ==
  ASSUME QueueInv, NEW t \in Tasks, NEW u \in Tasks, t # u, phase[t] = "running", phase[u] = "running"
  PROVE  walletOf[t] # walletOf[u]
  BY MaxTasksAssumption DEF QueueInv, ArrivalOrder, Tasks

\* A step of a task between its start and its end keeps the invariant.
LEMMA WorksInv ==
  ASSUME Inv, NEW t \in Tasks, Works(t), DataTyped',
         \A v \in Wallets : v # walletOf[t] => stored'[v] = stored[v]
  PROVE  Inv'
<1> DEFINE w == walletOf[t]
<1>1. Typed /\ FlagAgrees /\ FailureTold /\ BalanceTold /\ RetriesKept /\ QueueInv
  BY DEF Inv, Typed
<1>2. /\ walletOf' = walletOf /\ tail' = tail /\ phase'[t] = "running" /\ Live(t)
      /\ \A u \in Tasks : u # t => phase'[u] = phase[u]
  BY <1>1 DEF Works, queueVars, Start, QueueInv, QueueTypeOK, Live
<1>3. QueueInv'
  <2>1. CASE UNCHANGED queueVars
    BY <1>1, <2>1, QueueNextInv
  <2> QED BY <2>1, <1>1, StartInv DEF Works
<1>4. \A u \in Tasks : job'[u].kind = job[u].kind
  BY DEF Works
<1>5. Jobs'
  <2>1. \A u \in Tasks : Sensible(job'[u])
    BY <1>1 DEF Works, Typed, Jobs
  <2>2. \A u \in Tasks : Live(u)' => Live(u)
    BY <1>2 DEF Live
  <2>3. UNCHANGED <<loop, resync>>
    BY DEF Works
  <2> QED BY <1>1, <1>2, <1>4, <2>1, <2>2, <2>3 DEF Typed, Jobs
<1>6. Typed'
  BY <1>1, <1>3, <1>5, TypedOf DEF Works, Grows
<1>7. FlagAgrees' /\ FailureTold' /\ BalanceTold'
  <2>1. tail[w] # NoTask
    BY <1>1, <1>2, LiveHasEntry
  <2>2. \A v \in Wallets : Failing(v)' => Failing(v)
    BY <1>2, <2>1 DEF Failing, Works
  <2>3. UNCHANGED <<registered, walletInfo>> /\ nodeSyncState' \in {nodeSyncState, "failed"}
    BY DEF Works, nodeVars
  <2>4. Grows(iso, iso', {w}) /\ \A v \in Wallets : v \in {w} => tail[v] # NoTask
    BY <2>1 DEF Works
  <2>5. \A v \in Wallets : tail'[v] = NoTask <=> tail[v] = NoTask
    BY <1>2
  <2>6. \A v \in Wallets : tail[v] = NoTask => stored'[v] = stored[v]
    BY <2>1
  <2> QED BY <1>1, <2>2, <2>3, <2>4, <2>5, <2>6, TalkKeeps
<1>8. RetriesKept'
  <2> SUFFICES ASSUME NEW u \in Tasks, u # t, phase'[u] = "running" PROVE Retried(u)'
    BY DEF RetriesKept, Works, Retried
  <2>1. phase[u] = "running" /\ walletOf'[u] = walletOf[u] /\ job'[u] = job[u] /\ Retried(u)
    BY <1>1, <1>2 DEF Works, RetriesKept
  <2>2. walletOf[u] \in Wallets /\ walletOf[u] # w
    BY <1>1, <1>2, <1>3, <2>1, AtWallet, MaxTasksAssumption DEF QueueInv, ArrivalOrder, Tasks
  <2>3. failedScripts'[walletOf[u]] = failedScripts[walletOf[u]]
    BY <2>2 DEF Works
  <2> QED BY <2>1, <2>3 DEF Retried, Batch
<1> QED BY <1>6, <1>7, <1>8, NodeStays DEF Inv, Works

\* A task settles.
LEMMA FinishInv ==
  ASSUME Inv, NEW t \in Tasks, Finish(t)
  PROVE  Inv'
<1>1. Typed /\ FlagAgrees /\ FailureTold /\ BalanceTold /\ RetriesKept /\ QueueInv /\ iso \in IsoType
  BY DEF Inv, Typed, ControlTyped
<1>2. /\ Settle(t) /\ phase[t] = "running" /\ walletOf' = walletOf /\ tail' = tail
      /\ UNCHANGED nodeVars /\ UNCHANGED <<job, iso, failedScripts, failedBalances, loop, resync>>
      /\ \A u \in Tasks : u # t => phase'[u] = phase[u]
      /\ phase'[t] = "settled" /\ UNCHANGED stored
  BY <1>1 DEF Finish, At, Settle, taskVars, dbVars, QueueInv, QueueTypeOK
<1>3. QueueInv' /\ DataTyped'
  BY <1>1, <1>2, SettleInv, QuietData
<1>4. Jobs'
  BY <1>1, <1>2 DEF Typed, Jobs, Live
<1>5. failedWallets' \in SUBSET Wallets
  BY <1>1, <1>2, AtWallet DEF Finish, Typed, ControlTyped
<1>6. Typed'
  BY <1>1, <1>2, <1>3, <1>4, <1>5, TypedOf DEF Typed, ControlTyped
<1>7. FlagAgrees' /\ FailureTold' /\ BalanceTold'
  <2>1. \A v \in Wallets : Failing(v)' => Failing(v)
    BY <1>2 DEF Failing
  <2>2. Grows(iso, iso', {}) /\ UNCHANGED <<registered, walletInfo>> /\ nodeSyncState' \in {nodeSyncState, "failed"}
    BY <1>1, <1>2, SameGrows DEF nodeVars
  <2>3. \A v \in Wallets : tail'[v] = NoTask <=> tail[v] = NoTask
    BY <1>2
  <2>4. \A v \in Wallets : tail[v] = NoTask => stored'[v] = stored[v]
    BY <1>2
  <2> QED BY <1>1, <2>1, <2>2, <2>3, <2>4, TalkKeeps
<1>8. RetriesKept'
  BY <1>1, <1>2, RetriesStay
<1> QED BY <1>2, <1>6, <1>7, <1>8, NodeStays DEF Inv

\* The future of a task completes; the last task of a queue announces its end.
LEMMA QueueCleanupInv ==
  ASSUME Inv, NEW t \in Tasks, QueueCleanup(t)
  PROVE  Inv'
<1> DEFINE w == walletOf[t]
           b == IF Marked(w) THEN NoBalance ELSE WalletBalance(w)
<1>1. Typed /\ FlagAgrees /\ FailureTold /\ BalanceTold /\ RetriesKept /\ QueueInv /\ iso \in IsoType
  BY DEF Inv, Typed, ControlTyped
<1>2. /\ Cleanup(t) /\ phase[t] = "settled" /\ walletOf' = walletOf
      /\ UNCHANGED nodeVars /\ UNCHANGED <<job, failedScripts, failedBalances, loop, resync>>
      /\ \A u \in Tasks : u # t => phase'[u] = phase[u]
      /\ phase'[t] = "done" /\ UNCHANGED stored
  BY <1>1 DEF QueueCleanup, Cleanup, cmdVars, dbVars, QueueInv, QueueTypeOK
<1>3. w \in Wallets /\ b \in Balances \cup {NoBalance} /\ b \in {NoBalance, WalletBalance(w)}
  BY <1>1, <1>2, OnWallet, BalanceTyped DEF Live
<1>4. QueueInv' /\ DataTyped'
  BY <1>1, <1>2, CleanupInv, QuietData
<1>5. Jobs'
  BY <1>1, <1>2 DEF Typed, Jobs, Live
<1>6. failedWallets' \in SUBSET Wallets
  BY <1>1, <1>3 DEF QueueCleanup, Typed, ControlTyped
<1>7. iso' = IF IsTail(t) THEN Send(iso, QueueMsg(w, FALSE, b)) ELSE iso
  BY DEF QueueCleanup, Drained
<1>8. Failing(w)' => b = NoBalance
  BY <1>2 DEF Failing, Marked
<1> HIDE DEF b
<1>9. iso' \in IsoType
  BY <1>1, <1>3, <1>7, MsgsKnown, SendParts
<1>10. Typed'
  BY <1>1, <1>2, <1>4, <1>5, <1>6, <1>9, TypedOf DEF Typed, ControlTyped
<1>11. FlagAgrees' /\ FailureTold' /\ BalanceTold'
  <2>1. CASE IsTail(t)
    <3>1. iso' = Send(iso, QueueMsg(w, FALSE, b)) /\ Grows(iso, iso, {})
      BY <1>1, <1>7, <2>1, SameGrows
    <3>2. tail' = [tail EXCEPT ![w] = NoTask]
      BY <1>2, <2>1 DEF Cleanup
    <3>3. tail'[w] = NoTask /\ \A v \in Wallets : v # w => tail'[v] = tail[v]
      BY <1>1, <1>3, <3>2 DEF QueueInv, QueueTypeOK
    <3>4. \A v \in Wallets : v # w => (Failing(v)' => Failing(v))
      BY <1>2, <3>3 DEF Failing
    <3>5. FALSE \in BOOLEAN /\ (FALSE <=> tail'[w] # NoTask)
      BY <3>3
    <3> QED BY <1>1, <1>2, <1>3, <1>8, <3>1, <3>3, <3>4, <3>5, AnnounceKeeps
  <2>2. CASE ~IsTail(t)
    <3>1. iso' = iso /\ tail' = tail
      BY <1>2, <1>7, <2>2 DEF Cleanup
    <3>2. \A v \in Wallets : Failing(v)' => Failing(v)
      BY <1>2, <3>1 DEF Failing
    <3>3. Grows(iso, iso', {}) /\ UNCHANGED <<registered, walletInfo>> /\ nodeSyncState' \in {nodeSyncState, "failed"}
      BY <1>1, <1>2, <3>1, SameGrows DEF nodeVars
    <3>4. \A v \in Wallets : tail'[v] = NoTask <=> tail[v] = NoTask
      BY <3>1
    <3>5. \A v \in Wallets : tail[v] = NoTask => stored'[v] = stored[v]
      BY <1>2
    <3> QED BY <1>1, <3>2, <3>3, <3>4, <3>5, TalkKeeps
  <2> QED BY <2>1, <2>2
<1>12. RetriesKept'
  BY <1>1, <1>2, RetriesStay
<1> QED BY <1>2, <1>10, <1>11, <1>12, NodeStays DEF Inv

\* Every step of a task keeps the invariant.
LEMMA TaskInv ==
  ASSUME Inv, NEW t \in Tasks, TaskStep(t)
  PROVE  Inv'
<1>1. Typed /\ Retried(t)
  BY DEF Inv, RetriesKept
<1>2. Works(t) \/ Finish(t) \/ QueueCleanup(t)
  BY <1>1, TaskStepWorks
<1>3. DataTyped' /\ \A v \in Wallets : v # walletOf[t] => stored'[v] = stored[v]
  BY <1>1, TaskData, TaskStores
<1> QED BY <1>2, <1>3, WorksInv, FinishInv, QueueCleanupInv
-----------------------------------------------------------------------------
(* The commands and the server's notifications: runQueued. *)

\* A new job of a command or of a notification.
LEMMA NewJobTyped ==
  ASSUME NEW k \in {"subscribe", "dormant", "reset"}, NEW c \in Tasks
  PROVE  NewJob(k, c) \in JobType /\ Sensible(NewJob(k, c)) /\ NewJob(k, c).kind = k
<1>1. <<>> \in Batches /\ <<>> \in Statuses
  BY NoBatch
<1>2. /\ k \in Kinds /\ c \in Tasks \cup {NoCopy} /\ "new" \in Pcs /\ {} \in SUBSET Scripts
      /\ 0 \in Scripts \cup {0} /\ FALSE \in BOOLEAN /\ TRUE \in BOOLEAN
  BY DEF Kinds, Pcs, SubscribePcs
<1>3. NewJob(k, c) \in JobType /\ NewJob(k, c).kind = k /\ NewJob(k, c).copy = c /\ NewJob(k, c).pc = "new"
  BY <1>1, <1>2 DEF JobType, NewJob, NoJob
<1> QED BY <1>3 DEF Sensible, SubscribePcs

\* A new job for a notification is typed.
LEMMA NewEventTyped ==
  ASSUME NEW c \in Tasks, NEW s \in Scripts, NEW r \in BOOLEAN
  PROVE  LET j == [NewJob("event", c) EXCEPT !.script = s, !.retry = r] IN
         j \in JobType /\ Sensible(j) /\ j.kind = "event"
<1> DEFINE j == [NewJob("event", c) EXCEPT !.script = s, !.retry = r]
<1>1. <<>> \in Batches /\ <<>> \in Statuses
  BY NoBatch
<1>2. /\ "event" \in Kinds /\ c \in Tasks \cup {NoCopy} /\ "new" \in Pcs /\ {} \in SUBSET Scripts
      /\ 0 \in Scripts \cup {0} /\ s \in Scripts \cup {0} /\ TRUE \in BOOLEAN
  BY DEF Kinds, Pcs, SubscribePcs
<1>3. j \in JobType /\ j.kind = "event" /\ j.copy = c /\ j.pc = "new" /\ j.script = s
  BY <1>1, <1>2 DEF JobType, NewJob, NoJob
<1> HIDE DEF j
<1>4. Sensible(j)
  BY <1>3 DEF Sensible
<1> QED BY <1>3, <1>4 DEF j

\* What runQueued leaves behind.
Enqueued(w) ==
    /\ QueueInv' /\ FlagAgrees' /\ FailureTold' /\ BalanceTold' /\ RetriesKept'
    /\ iso' \in IsoType /\ job' \in [Tasks -> JobType]
    /\ nTasks + 1 \in Tasks /\ walletOf'[nTasks + 1] = w
    /\ \A t \in Tasks : /\ Sensible(job'[t]) /\ (Live(t)' => job'[t].kind # "none")
                        /\ job[t].kind # "none" => job'[t].kind # "none"
                        /\ walletOf[t] \in Wallets => walletOf'[t] \in Wallets
    /\ job'[nTasks + 1].kind # "none"

\* The start of a queue is announced, whatever its first task is.
LEMMA EnqueueWorks ==
  ASSUME Inv, NEW w \in Wallets, NEW j \in JobType, Sensible(j), j.kind # "none",
         NEW m, Grows(iso, m, {}), Enqueue(w, j, m), UNCHANGED nodeVars, UNCHANGED markVars,
         UNCHANGED stored
  PROVE  Enqueued(w)
<1> DEFINE n == nTasks + 1
           b == WalletBalance(w)
<1>1. Typed /\ FlagAgrees /\ FailureTold /\ BalanceTold /\ RetriesKept /\ QueueInv /\ iso \in IsoType /\ m \in IsoType
  BY DEF Inv, Typed, ControlTyped, Grows
<1>2. RunQueued(w) /\ job' = [job EXCEPT ![n] = j]
      /\ iso' = IF StartsQueue(w) THEN Send(m, QueueMsg(w, TRUE, b)) ELSE m
  BY DEF Enqueue
<1>3. n \in Tasks /\ phase[n] = "absent"
  BY <1>1, <1>2, MaxTasksAssumption DEF QueueInv, QueueTypeOK, Created, RunQueued, Tasks
<1>4. /\ walletOf'[n] = w /\ phase'[n] = "chained" /\ tail'[w] = n
      /\ \A t \in Tasks : t # n => walletOf'[t] = walletOf[t] /\ phase'[t] = phase[t]
      /\ \A v \in Wallets : v # w => tail'[v] = tail[v]
  BY <1>1, <1>2, <1>3 DEF QueueInv, QueueTypeOK, RunQueued
<1>5. QueueInv'
  BY <1>1, <1>2, RunQueuedInv
<1>6. job' \in [Tasks -> JobType] /\ job'[n] = j /\ \A t \in Tasks : t # n => job'[t] = job[t]
  BY <1>1, <1>2, <1>3, JobChanges
<1>7. b \in Balances /\ b \in {NoBalance, WalletBalance(w)} /\ TRUE \in BOOLEAN /\ tail'[w] # NoTask
  BY <1>3, <1>4, BalanceTyped, MaxTasksAssumption DEF Tasks, NoTask
<1> HIDE DEF b, n
<1>8. iso' \in IsoType
  BY <1>1, <1>2, <1>7, MsgsKnown, SendParts
<1>9. \A t \in Tasks : /\ Sensible(job'[t]) /\ (Live(t)' => job'[t].kind # "none")
                       /\ job[t].kind # "none" => job'[t].kind # "none"
                       /\ walletOf[t] \in Wallets => walletOf'[t] \in Wallets
  BY <1>1, <1>4, <1>6 DEF Typed, Jobs, Live
<1>10. RetriesKept'
  BY <1>1, <1>3, <1>4, <1>6, RetriesStay DEF markVars
<1>11. /\ ~Failing(w)' /\ \A v \in Wallets : v # w => (Failing(v)' => Failing(v))
  BY <1>4, <1>7 DEF Failing, markVars
<1>12. FlagAgrees' /\ FailureTold' /\ BalanceTold'
  <2>1. CASE StartsQueue(w)
    <3>1. iso' = Send(m, QueueMsg(w, TRUE, b)) /\ (TRUE <=> tail'[w] # NoTask)
      BY <2>1, <1>2, <1>7
    <3> QED BY <3>1, <1>1, <1>4, <1>7, <1>11, AnnounceKeeps
  <2>2. CASE ~StartsQueue(w)
    <3>1. iso' = m /\ \A v \in Wallets : (tail'[v] = NoTask <=> tail[v] = NoTask)
      BY <2>2, <1>2, <1>4, <1>7 DEF StartsQueue
    <3>2. UNCHANGED <<registered, walletInfo>> /\ nodeSyncState' \in {nodeSyncState, "failed"}
      BY DEF nodeVars
    <3>3. Grows(iso, iso', {}) /\ \A v \in Wallets : /\ Failing(v)' => Failing(v)
                                                     /\ tail[v] = NoTask => stored'[v] = stored[v]
      BY <3>1, <1>11
    <3> QED BY <1>1, <3>1, <3>2, <3>3, TalkKeeps
  <2> QED BY <2>1, <2>2
<1> QED BY <1>3, <1>4, <1>5, <1>6, <1>8, <1>9, <1>10, <1>12 DEF Enqueued, n

\* After runQueued, with the command's record of it.
LEMMA EnqueuedInv ==
  ASSUME Inv, NEW w \in Wallets, Enqueued(w), UNCHANGED nodeVars, UNCHANGED markVars, DataTyped',
         loop' \in LoopType, resync' \in ResyncType,
         resync' = resync \/ resync'.task = nTasks + 1
  PROVE  Inv'
<1>1. Typed
  BY DEF Inv
<1>2. Jobs'
  BY <1>1 DEF Enqueued, Typed, Jobs
<1>3. Typed'
  BY <1>1, <1>2, TypedOf DEF Enqueued, markVars, Typed, ControlTyped
<1> QED BY <1>3, NodeStays DEF Inv, Enqueued

\* runQueued for a command.
LEMMA CommandEnqueues ==
  ASSUME Inv, NEW w \in Wallets, NEW k \in {"subscribe", "dormant", "reset"}, NEW m, Grows(iso, m, {}),
         EnqueueCommand(w, k, m)
  PROVE  Enqueued(w) /\ DataTyped' /\ UNCHANGED nodeVars /\ UNCHANGED markVars
<1>1. Typed
  BY DEF Inv
<1>2. /\ Enqueue(w, NewJob(k, nTasks + 1), m) /\ UNCHANGED nodeVars /\ UNCHANGED markVars
      /\ UNCHANGED <<stored, used, saved, server, mainIdx>> /\ UNCHANGED subVars
      /\ idx' = [idx EXCEPT ![nTasks + 1] = mainIdx[w]]
  BY DEF EnqueueCommand, envVars
<1>3. nTasks + 1 \in Tasks
  BY <1>1, <1>2, MaxTasksAssumption DEF Typed, QueueInv, QueueTypeOK, Enqueue, RunQueued, Tasks
<1>4. Enqueued(w)
  BY <1>2, <1>3, NewJobTyped, EnqueueWorks
<1>5. DbTyped'
  BY <1>1, <1>2, <1>3, DataParts DEF DbTyped
<1> QED BY <1>1, <1>2, <1>4, <1>5, DataOf, SubStays

\* The record of a resync that stays.
LEMMA SameResync ==
  ASSUME Inv, resync' = resync
  PROVE  resync' \in ResyncType
  BY DEF Inv, Typed, Jobs

\* A step that queues nothing and announces nothing, and keeps the marks.
LEMMA TalkInv ==
  ASSUME Inv, NodeInv', UNCHANGED <<registered, walletInfo>>, nodeSyncState' \in {nodeSyncState, "failed"},
         UNCHANGED markVars, UNCHANGED queueVars, UNCHANGED job, Grows(iso, iso', {}), DataTyped',
         UNCHANGED dbVars, loop' \in LoopType, resync' \in ResyncType,
         resync'.stage \in {"wiping", "scanning"} =>
            resync.stage \in {"wiping", "scanning"} /\ resync'.task = resync.task
  PROVE  Inv'
<1>1. Typed /\ FlagAgrees /\ FailureTold /\ BalanceTold /\ RetriesKept /\ QueueInv
  BY DEF Inv, Typed
<1>2. UNCHANGED <<walletOf, phase, tail, job, failedWallets, failedScripts, failedBalances>>
  BY DEF queueVars, markVars
<1>3. QueueInv'
  BY <1>1, QueueNextInv
<1>4. Jobs'
  BY <1>1, <1>2 DEF Typed, Jobs, Live
<1>5. Typed'
  BY <1>1, <1>2, <1>3, <1>4 DEF Typed, ControlTyped, Grows, NodeInv
<1>6. FlagAgrees' /\ FailureTold' /\ BalanceTold'
  <2>1. \A v \in Wallets : Failing(v)' => Failing(v)
    BY <1>2 DEF Failing
  <2>2. \A v \in Wallets : (tail'[v] = NoTask <=> tail[v] = NoTask)
    BY <1>2
  <2>3. \A v \in Wallets : tail[v] = NoTask => stored'[v] = stored[v]
    BY DEF dbVars
  <2> QED BY <1>1, <2>1, <2>2, <2>3, TalkKeeps
<1>7. RetriesKept'
  BY <1>1, <1>2, RetriesStay
<1> QED BY <1>5, <1>6, <1>7 DEF Inv

\* A step of the environment that only changes the data.
LEMMA IdleInv ==
  ASSUME Inv, UNCHANGED nodeVars, UNCHANGED markVars, UNCHANGED queueVars, UNCHANGED taskVars, DataTyped',
         UNCHANGED dbVars, UNCHANGED <<loop, resync>>
  PROVE  Inv'
<1>1. Grows(iso, iso', {}) /\ loop' \in LoopType /\ resync' \in ResyncType
  BY SameGrows DEF Inv, Typed, ControlTyped, Jobs, taskVars
<1>2. UNCHANGED <<registered, walletInfo>> /\ nodeSyncState' \in {nodeSyncState, "failed"} /\ NodeInv'
  BY NodeStays DEF nodeVars, Inv
<1> QED BY <1>1, <1>2, TalkInv DEF taskVars

\* The wallets of a list are announced as waiting before the first is queued.
LEMMA SubscribeWalletsInv ==
  ASSUME Inv, SubscribeWallets
  PROVE  Inv'
<1> DEFINE R == {w \in Wallets : ~IsWalletAnySyncing(iso, w)}
           k == Cardinality(R)
<1>1. iso \in IsoType
  BY DEF Inv, Typed, ControlTyped
<1>2. k \in Nat /\ R \subseteq Wallets
  <2>1. IsFiniteSet(R)
    BY WalletsAssumption, FS_Subset
  <2> QED BY <2>1, FS_CardinalityType
<1> HIDE DEF R, k
<1>3. PICK w \in Wallets, order \in Bijection(1 .. k, R) :
        /\ EnqueueCommand(w, "subscribe", Send(InitWallets(iso, order), NodeSyncingMsg))
        /\ loop' = [todo |-> Wallets \ {w}, task |-> nTasks + 1, awaited |-> TRUE]
  BY DEF SubscribeWallets, R, k
<1>4. order \in [1 .. k -> Wallets]
  BY <1>2 DEF Bijection, Injection
<1> DEFINE l == InitWallets(iso, order)
           m == Send(l, NodeSyncingMsg)
<1>5. Grows(iso, l, {}) /\ l \in IsoType
  BY <1>1, <1>2, <1>4, InitWalletsGrows
<1> HIDE DEF l
<1>6. Grows(l, m, {}) /\ m \in IsoType
  BY <1>5, SendGrows, MsgsKnown, MsgsAbout
<1>7. Grows(iso, m, {})
  BY <1>1, <1>5, <1>6, GrowsOn
<1>8. EnqueueCommand(w, "subscribe", m)
  BY <1>3 DEF l
<1> HIDE DEF m
<1>9. Enqueued(w) /\ DataTyped' /\ UNCHANGED nodeVars /\ UNCHANGED markVars
  BY <1>7, <1>8, CommandEnqueues
<1>10. loop' \in LoopType /\ resync' = resync
  BY <1>3, <1>9 DEF SubscribeWallets, LoopType, Enqueued
<1> QED BY <1>9, <1>10, SameResync, EnqueuedInv

\* The command for one wallet.
LEMMA SubscribeWalletInv ==
  ASSUME Inv, NEW w \in Wallets, SubscribeWallet(w)
  PROVE  Inv'
<1> DEFINE m == IsoInitWalletUpdateStatus(iso, w)
<1>1. Grows(iso, m, {})
  BY InitGrows DEF Inv, Typed, ControlTyped
<1>2. /\ EnqueueCommand(w, "subscribe", m) /\ resync' = resync
      /\ loop' = [todo |-> {}, task |-> nTasks + 1, awaited |-> TRUE]
  BY DEF SubscribeWallet
<1> HIDE DEF m
<1>3. Enqueued(w) /\ DataTyped' /\ UNCHANGED nodeVars /\ UNCHANGED markVars
  BY <1>1, <1>2, CommandEnqueues
<1>4. loop' \in LoopType
  BY <1>2, <1>3 DEF LoopType, Enqueued
<1> QED BY <1>2, <1>3, <1>4, SameResync, EnqueuedInv

\* The next wallet of the loop over all of them.
LEMMA LoopNextInv ==
  ASSUME Inv, LoopNext
  PROVE  Inv'
<1>1. PICK w \in loop.todo : /\ EnqueueCommand(w, "subscribe", iso)
                             /\ loop' = [loop EXCEPT !.todo = loop.todo \ {w}, !.task = nTasks + 1]
  BY DEF LoopNext
<1>2. Grows(iso, iso, {}) /\ loop \in LoopType /\ w \in Wallets /\ resync' = resync
  BY SameGrows DEF Inv, Typed, ControlTyped, Jobs, LoopType, LoopNext
<1>3. Enqueued(w) /\ DataTyped' /\ UNCHANGED nodeVars /\ UNCHANGED markVars
  BY <1>1, <1>2, CommandEnqueues
<1>4. loop' \in LoopType
  BY <1>1, <1>2, <1>3 DEF LoopType, Enqueued
<1> QED BY <1>2, <1>3, <1>4, SameResync, EnqueuedInv

\* The command for the dormant addresses of a wallet.
LEMMA SyncDormantInv ==
  ASSUME Inv, NEW w \in Wallets, SyncDormant(w)
  PROVE  Inv'
<1>1. EnqueueCommand(w, "dormant", iso) /\ UNCHANGED <<loop, resync>>
  BY DEF SyncDormant
<1>2. Grows(iso, iso, {}) /\ loop' \in LoopType
  BY <1>1, SameGrows DEF Inv, Typed, ControlTyped, Jobs
<1>3. Enqueued(w) /\ DataTyped' /\ UNCHANGED nodeVars /\ UNCHANGED markVars
  BY <1>1, <1>2, CommandEnqueues
<1> QED BY <1>1, <1>2, <1>3, SameResync, EnqueuedInv

\* The command for a resync.
LEMMA ResyncWalletInv ==
  ASSUME Inv, NEW w \in Wallets, ResyncWallet(w)
  PROVE  Inv'
<1> DEFINE m == IsoInitWalletUpdateStatus(iso, w)
<1>1. Grows(iso, m, {}) /\ loop \in LoopType
  BY InitGrows DEF Inv, Typed, ControlTyped, Jobs
<1>2. /\ EnqueueCommand(w, "reset", m) /\ loop' = loop
      /\ resync' = [task |-> nTasks + 1, stage |-> "wiping",
                    outcome |-> IF nodeSyncState = "failed" THEN "connectionError" ELSE "waiting"]
  BY DEF ResyncWallet
<1> HIDE DEF m
<1>3. Enqueued(w) /\ DataTyped' /\ UNCHANGED nodeVars /\ UNCHANGED markVars
  BY <1>1, <1>2, CommandEnqueues
<1>4. resync' \in ResyncType /\ resync'.task = nTasks + 1
  BY <1>2, <1>3 DEF ResyncType, Enqueued
<1> QED BY <1>1, <1>2, <1>3, <1>4, EnqueuedInv

\* The cold scan of a resync goes on with the copy of the reset.
LEMMA ResyncScansInv ==
  ASSUME Inv, ResyncScans
  PROVE  Inv'
<1> DEFINE r == resync.task
           w == walletOf[r]
<1>1. Typed /\ iso \in IsoType /\ loop \in LoopType /\ resync \in ResyncType
  BY DEF Inv, Typed, ControlTyped, Jobs
<1>2. w \in Wallets /\ job[r].copy \in Tasks
  BY <1>1 DEF ResyncScans, Typed, Jobs, Sensible
<1>3. /\ Enqueue(w, NewJob("subscribe", job[r].copy), iso)
      /\ UNCHANGED nodeVars /\ UNCHANGED markVars /\ UNCHANGED dbVars /\ UNCHANGED subVars
      /\ UNCHANGED <<loop, server, mainIdx>>
      /\ resync' = [resync EXCEPT !.stage = "scanning", !.task = nTasks + 1]
  BY DEF ResyncScans, envVars
<1>4. Grows(iso, iso, {})
  BY <1>1, SameGrows
<1>5. Enqueued(w)
  BY <1>2, <1>3, <1>4, NewJobTyped, EnqueueWorks DEF dbVars
<1>6. DataTyped'
  BY <1>1, <1>3, DataOf, DbStays, SubStays
<1>7. resync' \in ResyncType /\ resync'.task = nTasks + 1
  BY <1>1, <1>3, <1>5 DEF ResyncType, Enqueued
<1> QED BY <1>1, <1>2, <1>3, <1>5, <1>6, <1>7, EnqueuedInv

\* The wallet's onUpdate closure queues an event for its copy of the walletItem.
LEMMA NotifyInv ==
  ASSUME Inv, NEW w \in Wallets, NEW s \in Scripts, Notify(w, s)
  PROVE  Inv'
<1> DEFINE c == cb[w][s]
           v == Head(notif[w][s])
           r == (s \notin inMap[c] \/ status[c][s] # v) /\ s >= idx[c]
           j == [NewJob("event", c) EXCEPT !.script = s, !.retry = r]
<1>1. Typed /\ iso \in IsoType /\ loop \in LoopType /\ resync \in ResyncType
  BY DEF Inv, Typed, ControlTyped, Jobs
<1>2. /\ UNCHANGED nodeVars /\ UNCHANGED markVars /\ UNCHANGED dbVars /\ UNCHANGED <<srvSub, cb>>
      /\ UNCHANGED <<loop, resync, server, mainIdx>>
      /\ notif[w][s] # <<>>
  BY DEF Notify, cmdVars, envVars
<1>3. /\ v \in Versions /\ Tail(notif[w][s]) \in Seq(Versions)
      /\ notif' = [notif EXCEPT ![w] = [notif[w] EXCEPT ![s] = Tail(notif[w][s])]]
  <2>1. notif[w][s] \in Seq(Versions) /\ notif \in [Wallets -> [Scripts -> Seq(Versions)]]
    BY <1>1, DataParts DEF SubTyped
  <2> QED BY <1>2, <2>1 DEF Notify
<1>4. notif' \in [Wallets -> [Scripts -> Seq(Versions)]]
  BY <1>1, <1>3, DataParts DEF SubTyped
<1>5. CASE c = NoCopy
  <2>1. UNCHANGED queueVars /\ UNCHANGED taskVars /\ UNCHANGED <<status, inMap>>
    BY <1>5 DEF Notify
  <2>2. SubTyped'
    BY <1>1, <1>2, <1>4, <2>1, DataParts DEF SubTyped
  <2>3. DataTyped'
    BY <1>1, <1>2, <2>2, DataOf, DbStays
  <2> QED BY <1>1, <1>2, <2>1, <2>3, IdleInv
<1>6. CASE c # NoCopy
  <2>1. c \in Tasks /\ r \in BOOLEAN
    BY <1>1, <1>6, DataParts DEF SubTyped
  <2>2. /\ Enqueue(w, j, iso) /\ status' = [status EXCEPT ![c] = [status[c] EXCEPT ![s] = v]]
        /\ inMap' = [inMap EXCEPT ![c] = inMap[c] \cup {s}]
    BY <1>1, <1>6, <2>1, DataParts DEF Notify, SubTyped
  <2> HIDE DEF r, v
  <2>3. SubTyped'
    <3>1. status' \in [Tasks -> [Scripts -> Versions]] /\ inMap' \in [Tasks -> SUBSET Scripts]
      BY <1>1, <1>3, <2>1, <2>2, DataParts DEF SubTyped
    <3> QED BY <1>1, <1>2, <1>4, <3>1, DataParts DEF SubTyped
  <2>4. DataTyped'
    BY <1>1, <1>2, <2>3, DataOf, DbStays
  <2>5. j \in JobType /\ Sensible(j) /\ j.kind # "none"
    BY <2>1, NewEventTyped
  <2>6. Grows(iso, iso, {})
    BY <1>1, SameGrows
  <2> HIDE DEF j, c
  <2>7. Enqueued(w)
    BY <1>2, <2>2, <2>5, <2>6, EnqueueWorks DEF dbVars
  <2> QED BY <1>1, <1>2, <2>4, <2>7, EnqueuedInv
<1> QED BY <1>5, <1>6
-----------------------------------------------------------------------------
(* The ends of the commands, the server and the connection. *)

\* The data when nothing of it changes.
LEMMA SameData ==
  ASSUME Inv, UNCHANGED dbVars, UNCHANGED subVars, UNCHANGED <<server, mainIdx>>
  PROVE  DataTyped'
  BY DataOf, DbStays, SubStays DEF Inv

\* The loop answers.
LEMMA LoopEndsInv ==
  ASSUME Inv, LoopEnds
  PROVE  Inv'
<1>1. iso \in IsoType /\ loop \in LoopType /\ resync \in ResyncType /\ NodeInv
  BY DEF Inv, Typed, ControlTyped, Jobs
<1>2. /\ UNCHANGED nodeVars /\ UNCHANGED markVars /\ UNCHANGED queueVars /\ UNCHANGED <<job, resync>>
      /\ UNCHANGED dbVars /\ UNCHANGED subVars /\ UNCHANGED <<server, mainIdx>>
      /\ loop' = IdleLoop /\ (iso' = iso \/ iso' = Send(iso, NodeFailedMsg))
  BY DEF LoopEnds, envVars
<1>3. Grows(iso, iso', {})
  <2>1. Grows(iso, iso, {})
    BY <1>1, SameGrows
  <2>2. Grows(iso, Send(iso, NodeFailedMsg), {})
    BY <1>1, SendGrows, MsgsKnown, MsgsAbout
  <2> QED BY <1>2, <2>1, <2>2
<1>4. loop' \in LoopType /\ resync' \in ResyncType
  BY <1>1, <1>2 DEF LoopType, IdleLoop
<1>5. UNCHANGED <<registered, walletInfo>> /\ nodeSyncState' \in {nodeSyncState, "failed"} /\ NodeInv'
  BY <1>1, <1>2, NodeStays DEF nodeVars
<1> QED BY <1>2, <1>3, <1>4, <1>5, SameData, TalkInv

\* The resync answers.
LEMMA ResyncEndsInv ==
  ASSUME Inv, ResyncEnds
  PROVE  Inv'
<1> DEFINE r == resync.task
<1>1. iso \in IsoType /\ loop \in LoopType /\ resync \in ResyncType /\ NodeInv
  BY DEF Inv, Typed, ControlTyped, Jobs
<1>2. /\ UNCHANGED nodeVars /\ UNCHANGED markVars /\ UNCHANGED queueVars /\ UNCHANGED <<job, loop>>
      /\ UNCHANGED dbVars /\ UNCHANGED subVars /\ UNCHANGED <<server, mainIdx>>
      /\ iso' = Send(iso, ResultMsg(job[r].ok))
      /\ resync' = [resync EXCEPT !.stage = "ended", !.task = NoTask]
  BY DEF ResyncEnds, envVars
<1>3. job[r].ok \in BOOLEAN
  BY DEF ResyncEnds, Inv, Typed, Jobs, ControlTyped, JobType
<1>4. Grows(iso, iso', {})
  BY <1>1, <1>2, <1>3, SendGrows, MsgsKnown, MsgsAbout
<1>5. loop' \in LoopType /\ resync' \in ResyncType /\ resync'.stage = "ended"
  BY <1>1, <1>2 DEF ResyncType
<1>6. UNCHANGED <<registered, walletInfo>> /\ nodeSyncState' \in {nodeSyncState, "failed"} /\ NodeInv'
  BY <1>1, <1>2, NodeStays DEF nodeVars
<1> QED BY <1>2, <1>4, <1>5, <1>6, SameData, TalkInv

\* The socket is lost.
LEMMA ConnectionLostInv ==
  ASSUME Inv, ConnectionLost
  PROVE  Inv'
<1>1. Typed /\ iso \in IsoType /\ loop \in LoopType /\ resync \in ResyncType /\ NodeInv
  BY DEF Inv, Typed, ControlTyped, Jobs
<1>2. /\ UNCHANGED nodeVars /\ UNCHANGED markVars /\ UNCHANGED queueVars /\ UNCHANGED <<job, loop, resync>>
      /\ UNCHANGED dbVars /\ UNCHANGED <<server, mainIdx, cb, status, inMap>>
      /\ iso' = Send(iso, NodeFailedMsg)
      /\ srvSub' = [w \in Wallets |-> {}]
      /\ notif' = [w \in Wallets |-> [s \in Scripts |-> <<>>]]
  BY DEF ConnectionLost, cmdVars
<1>3. Grows(iso, iso', {})
  BY <1>1, <1>2, SendGrows, MsgsKnown, MsgsAbout
<1>4. SubTyped'
  BY <1>1, <1>2, DataParts DEF SubTyped
<1>5. DataTyped'
  BY <1>1, <1>2, <1>4, DataOf, DbStays
<1>6. UNCHANGED <<registered, walletInfo>> /\ nodeSyncState' \in {nodeSyncState, "failed"} /\ NodeInv'
  BY <1>1, <1>2, NodeStays DEF nodeVars
<1> QED BY <1>1, <1>2, <1>3, <1>5, <1>6, TalkInv

\* What raceResyncAgainstConnectionLoss does to the record of a resync.
LEMMA RaceTyped ==
  ASSUME resync \in ResyncType, resync' = RaceResync
  PROVE  resync' \in ResyncType /\ resync'.stage = resync.stage /\ resync'.task = resync.task
<1>1. resync' = resync \/ resync' = [resync EXCEPT !.outcome = "connectionError"]
  BY DEF RaceResync
<1> QED BY <1>1 DEF ResyncType

\* The main isolate stops waiting for an answer.
LEMMA CommandTimeoutInv ==
  ASSUME Inv, CommandTimeout
  PROVE  Inv'
<1>1. iso \in IsoType /\ loop \in LoopType /\ resync \in ResyncType /\ NodeInv
  BY DEF Inv, Typed, ControlTyped, Jobs
<1>2. /\ UNCHANGED markVars /\ UNCHANGED queueVars /\ UNCHANGED <<job, iso>>
      /\ UNCHANGED dbVars /\ UNCHANGED subVars /\ UNCHANGED <<server, mainIdx>>
      /\ SetNodeSyncStateToFailed /\ resync' = RaceResync /\ loop' = [loop EXCEPT !.awaited = FALSE]
  BY DEF CommandTimeout, envVars, taskVars
<1>3. Grows(iso, iso', {})
  BY <1>1, <1>2, SameGrows
<1>4. loop' \in LoopType /\ resync' \in ResyncType /\ resync'.stage = resync.stage /\ resync'.task = resync.task
  BY <1>1, <1>2, RaceTyped DEF LoopType
<1>5. NodeInv'
  BY <1>1, <1>2, NodeStep DEF NodeNext
<1>6. UNCHANGED <<registered, walletInfo>> /\ nodeSyncState' \in {nodeSyncState, "failed"}
  BY <1>2 DEF SetNodeSyncStateToFailed
<1> QED BY <1>2, <1>3, <1>4, <1>5, <1>6, SameData, TalkInv

\* The server has a new version of a script.
LEMMA ChainChangeInv ==
  ASSUME Inv, NEW w \in Wallets, NEW s \in Scripts, ChainChange(w, s)
  PROVE  Inv'
<1> DEFINE v == server[w][s] + 1
<1>1. Typed
  BY DEF Inv
<1>2. /\ UNCHANGED nodeVars /\ UNCHANGED markVars /\ UNCHANGED queueVars /\ UNCHANGED taskVars
      /\ UNCHANGED dbVars /\ UNCHANGED <<srvSub, cb, status, inMap>> /\ UNCHANGED <<loop, resync, mainIdx>>
  BY DEF ChainChange, cmdVars
<1>3. v \in Versions /\ server' = [server EXCEPT ![w] = [server[w] EXCEPT ![s] = v]]
  BY <1>1, DataParts, MaxVersionAssumption DEF ChainChange, Versions
<1> HIDE DEF v
<1>4. server' \in [Wallets -> [Scripts -> Versions]] /\ server'[w][s] = v
  BY <1>1, <1>3, DataParts
<1>5. notif' \in [Wallets -> [Scripts -> Seq(Versions)]]
  <2>1. notif \in [Wallets -> [Scripts -> Seq(Versions)]]
    BY <1>1, DataParts DEF SubTyped
  <2>2. notif' = notif \/ notif' = [notif EXCEPT ![w] = [notif[w] EXCEPT ![s] = Append(notif[w][s], v)]]
    BY <1>4, <2>1 DEF ChainChange
  <2> DEFINE f == [notif[w] EXCEPT ![s] = Append(notif[w][s], v)]
  <2>3. Append(notif[w][s], v) \in Seq(Versions)
    BY <1>3, <2>1
  <2>4. f \in [Scripts -> Seq(Versions)] /\ (notif' = notif \/ notif' = [notif EXCEPT ![w] = f])
    BY <2>1, <2>2, <2>3
  <2> HIDE DEF f
  <2> QED BY <2>1, <2>4
<1>6. DbTyped' /\ SubTyped'
  BY <1>1, <1>2, <1>5, DbStays, DataParts DEF SubTyped
<1>7. mainIdx' \in [Wallets -> Scripts \cup {0}]
  BY <1>1, <1>2, DataParts
<1>8. DataTyped'
  BY <1>4, <1>6, <1>7 DEF DataTyped, DbTyped, SubTyped
<1> QED BY <1>2, <1>8, IdleInv
-----------------------------------------------------------------------------
(* The port and the main isolate. *)

\* The parts of a message are those of its method.
LEMMA MsgParts ==
  ASSUME NEW x \in Msgs
  PROVE  /\ x.method = "setWalletSyncQueueState" =>
              x.wallet \in Wallets /\ x.queued \in BOOLEAN /\ x.snapshot \in Balances \cup {NoBalance}
         /\ x.method \in {"addWalletSyncState", "addWalletCompletedState"} =>
              x.wallet \in Wallets /\ x.element \in UpdateElements
         /\ x.method \in {"initWalletUpdateStatus", "addWalletCompletedAllStates"} => x.wallet \in Wallets
  BY DEF Msgs

\* A message makes a step of the node state manager.
LEMMA HandlerStep ==
  ASSUME NodeInv, NEW x \in Msgs, HandleIsolateStateMessage(x)
  PROVE  NodeInv'
<1>1. NodeNext
  BY MsgParts DEF HandleIsolateStateMessage, NodeNext
<1> QED BY <1>1, NodeStep

\* What a message about v, or about another wallet, does to v.
LEMMA HandlerEffect ==
  ASSUME NodeInv, NEW x \in Msgs, HandleIsolateStateMessage(x), NEW v \in Wallets
  PROVE  /\ registered \subseteq registered'
         /\ OfQueue(x, v) => /\ v \in registered'
                             /\ walletInfo'[v] = QueueStateInfo(walletInfo[v], x.queued, x.snapshot)
         /\ ~OfQueue(x, v) => /\ walletInfo'[v].isSyncQueued = walletInfo[v].isSyncQueued
                              /\ walletInfo'[v].balanceSnapshot = walletInfo[v].balanceSnapshot
         /\ (~OfQueue(x, v) /\ ~Completing(x, v) /\ walletInfo[v].elements["balance"] # "completed") =>
              walletInfo'[v].elements["balance"] # "completed"
         /\ nodeSyncState' = "completed" =>
              nodeSyncState = "completed" \/ IsAllWalletsCompleted(registered', walletInfo')
<1>1. walletInfo \in [Wallets -> WalletUpdateInfos] /\ NodeTypeOK
  BY DEF NodeInv, NodeTypeOK
<1>2. CASE x.method = "initWalletUpdateStatus" /\ InitWalletUpdateStatus(x.wallet)
  BY <1>1, <1>2, MsgParts
  DEF InitWalletUpdateStatus, Register, OfQueue, Completing, WalletUpdateInfos, AllElements, UpdateElements
<1>3. CASE x.method = "addWalletSyncState" /\ AddWalletSyncState(x.wallet, x.element)
  BY <1>1, <1>3, MsgParts
  DEF AddWalletSyncState, Register, OfQueue, Completing, WalletUpdateInfos, UpdateElements
<1>4. CASE x.method = "addWalletCompletedState" /\ AddWalletCompletedState(x.wallet, x.element)
  BY <1>1, <1>4, MsgParts
  DEF AddWalletCompletedState, CompleteIfLast, Register, OfQueue, Completing, WalletUpdateInfos, nodeVars
<1>5. CASE x.method = "addWalletCompletedAllStates" /\ AddWalletCompletedAllStates(x.wallet)
  BY <1>1, <1>5, MsgParts
  DEF AddWalletCompletedAllStates, CompleteIfLast, Register, OfQueue, Completing, WalletUpdateInfos
<1>6. CASE x.method \in {"setNodeSyncStateToSyncing", "setNodeSyncStateToCompleted", "setNodeSyncStateToFailed"}
           /\ (SetNodeSyncStateToSyncing \/ SetNodeSyncStateToCompleted \/ SetNodeSyncStateToFailed)
  BY <1>6
  DEF SetNodeSyncStateToSyncing, SetNodeSyncStateToCompleted, SetNodeSyncStateToFailed, OfQueue,
      IsAllWalletsCompleted
<1>7. CASE x.method = "setWalletSyncQueueState" /\ SetWalletSyncQueueState(x.wallet, x.queued, x.snapshot)
  <2>1. x.wallet \in Wallets
    BY <1>7, MsgParts
  <2>2. /\ registered' = registered \cup {x.wallet}
        /\ walletInfo' = [walletInfo EXCEPT ![x.wallet] =
                            QueueStateInfo(walletInfo[x.wallet], x.queued, x.snapshot)]
    BY <1>7 DEF SetWalletSyncQueueState, Register
  <2>3. nodeSyncState' = "completed" => IsAllWalletsCompleted(registered', walletInfo')
    BY <1>7 DEF SetWalletSyncQueueState
  <2>4. OfQueue(x, v) <=> x.wallet = v
    BY <1>7 DEF OfQueue
  <2> QED BY <1>1, <2>1, <2>2, <2>3, <2>4
<1> QED BY <1>2, <1>3, <1>4, <1>5, <1>6, <1>7 DEF HandleIsolateStateMessage

\* The first message leaves the port.
LEMMA HeadLeaves ==
  ASSUME iso \in IsoType, iso.out # <<>>, iso' = [iso EXCEPT !.out = Tail(@)]
  PROVE  /\ iso' \in IsoType /\ Len(iso.out) \in Nat /\ Len(iso.out) >= 1
         /\ Head(iso.out) = iso.out[1] /\ iso.out[1] \in Msgs
         /\ Len(iso'.out) = Len(iso.out) - 1
         /\ \A i \in 1 .. Len(iso'.out) : iso'.out[i] = iso.out[i + 1]
<1>1. iso.out \in Seq(Msgs) /\ iso' = [iso EXCEPT !.out = Tail(iso.out)]
  BY DEF IsoType
<1>2. /\ Tail(iso.out) \in Seq(Msgs) /\ Len(Tail(iso.out)) = Len(iso.out) - 1 /\ Len(iso.out) \in Nat
      /\ Len(iso.out) >= 1 /\ Head(iso.out) = iso.out[1] /\ iso.out[1] \in Msgs
      /\ \A i \in 1 .. Len(iso.out) - 1 : Tail(iso.out)[i] = iso.out[i + 1]
  BY <1>1
<1>3. iso' \in IsoType /\ iso'.out = Tail(iso.out)
  BY <1>1, <1>2 DEF IsoType
<1> QED BY <1>2, <1>3

\* What the port says of a wallet after the first message left.
LEMMA PortAfter ==
  ASSUME iso \in IsoType, iso.out # <<>>, iso' = [iso EXCEPT !.out = Tail(@)], NEW v
  PROVE  /\ \A i \in Nat : LastOfQueue(i, v)' => /\ LastOfQueue(i + 1, v)
                                                /\ iso'.out[i] = iso.out[i + 1]
                                                /\ \A j \in i .. Len(iso'.out) :
                                                     iso'.out[j] = iso.out[j + 1] /\ j + 1 \in i + 1 .. Len(iso.out)
         /\ Unannounced(v)' /\ OfQueue(iso.out[1], v) => LastOfQueue(1, v)
         /\ Unannounced(v)' /\ ~OfQueue(iso.out[1], v) => Unannounced(v)
<1> DEFINE k == Len(iso.out)
           n == Len(iso'.out)
<1>1. k \in Nat /\ k >= 1 /\ n = k - 1 /\ \A i \in 1 .. n : iso'.out[i] = iso.out[i + 1]
  BY HeadLeaves
<1>2. \A j \in 1 .. k : j # 1 => j - 1 \in 1 .. n /\ iso'.out[j - 1] = iso.out[j]
  BY <1>1
<1>3. ASSUME NEW i \in Nat, LastOfQueue(i, v)'
      PROVE  /\ LastOfQueue(i + 1, v) /\ iso'.out[i] = iso.out[i + 1]
             /\ \A j \in i .. n : iso'.out[j] = iso.out[j + 1] /\ j + 1 \in i + 1 .. k
  <2>1. i \in 1 .. n /\ OfQueue(iso'.out[i], v) /\ \A j \in 1 .. n : OfQueue(iso'.out[j], v) => j <= i
    BY <1>3 DEF LastOfQueue
  <2>2. ASSUME NEW j \in 1 .. k, OfQueue(iso.out[j], v)
        PROVE  j <= i + 1
    <3>1. CASE j = 1
      BY <3>1, <2>1, <1>1
    <3>2. CASE j # 1
      <4>1. j - 1 \in 1 .. n /\ OfQueue(iso'.out[j - 1], v)
        BY <3>2, <2>2, <1>2
      <4>2. j - 1 <= i
        BY <4>1, <2>1
      <4> QED BY <4>2, <2>1, <1>1
    <3> QED BY <3>1, <3>2
  <2>3. LastOfQueue(i + 1, v) /\ iso'.out[i] = iso.out[i + 1]
    BY <1>1, <2>1, <2>2 DEF LastOfQueue
  <2> QED BY <1>1, <2>1, <2>3
<1>4. Unannounced(v)' => \A j \in 1 .. k : j # 1 => ~OfQueue(iso.out[j], v)
  BY <1>2 DEF Unannounced
<1>5. Unannounced(v)' /\ OfQueue(iso.out[1], v) => LastOfQueue(1, v)
  <2> SUFFICES ASSUME Unannounced(v)', OfQueue(iso.out[1], v) PROVE LastOfQueue(1, v)
    OBVIOUS
  <2>1. 1 \in 1 .. k /\ \A j \in 1 .. k : OfQueue(iso.out[j], v) => j <= 1
    BY <1>1, <1>4
  <2> QED BY <2>1 DEF LastOfQueue
<1>6. Unannounced(v)' /\ ~OfQueue(iso.out[1], v) => Unannounced(v)
  BY <1>4 DEF Unannounced
<1> QED BY <1>3, <1>5, <1>6

\* The result of a resync concerns no wallet.
LEMMA ResultSilent ==
  ASSUME NEW x, x.method = "resyncResult", NEW v
  PROVE  ~OfQueue(x, v) /\ ~Completing(x, v)
  BY DEF OfQueue, Completing

\* A message that is read agrees with what the last one sent will say.
LEMMA DeliverFor ==
  ASSUME Inv, NEW v \in Wallets, NEW x \in Msgs, iso.out # <<>>, iso' = [iso EXCEPT !.out = Tail(@)],
         x = iso.out[1], UNCHANGED <<tail, failedScripts, failedBalances, stored>>,
         \/ x.method = "resyncResult" /\ UNCHANGED nodeVars
         \/ HandleIsolateStateMessage(x)
  PROVE  FlagOf(v)' /\ ToldOf(v)' /\ PublishedOf(v)'
<1>1. /\ FlagOf(v) /\ ToldOf(v) /\ PublishedOf(v) /\ NodeInv /\ iso \in IsoType
      /\ Failing(v)' <=> Failing(v)
  BY DEF Inv, FlagAgrees, FailureTold, BalanceTold, Typed, ControlTyped, Failing
<1> DEFINE k == Len(iso.out)
           n == Len(iso'.out)
<1>2. k \in Nat /\ n = k - 1 /\ \A i \in 1 .. n : iso'.out[i] = iso.out[i + 1]
  BY <1>1, HeadLeaves
<1>3. /\ registered \subseteq registered'
      /\ OfQueue(x, v) => /\ v \in registered'
                          /\ walletInfo'[v] = QueueStateInfo(walletInfo[v], x.queued, x.snapshot)
      /\ ~OfQueue(x, v) => /\ walletInfo'[v].isSyncQueued = walletInfo[v].isSyncQueued
                           /\ walletInfo'[v].balanceSnapshot = walletInfo[v].balanceSnapshot
      /\ (~OfQueue(x, v) /\ ~Completing(x, v) /\ walletInfo[v].elements["balance"] # "completed") =>
              walletInfo'[v].elements["balance"] # "completed"
      /\ nodeSyncState' = "completed" =>
              nodeSyncState = "completed" \/ IsAllWalletsCompleted(registered', walletInfo')
  <2>1. CASE x.method = "resyncResult" /\ UNCHANGED nodeVars
    BY <2>1, ResultSilent DEF nodeVars
  <2>2. CASE HandleIsolateStateMessage(x)
    BY <2>2, <1>1, HandlerEffect
  <2> QED BY <2>1, <2>2
<1>4. /\ \A i \in Nat : LastOfQueue(i, v)' =>
            /\ LastOfQueue(i + 1, v) /\ iso'.out[i] = iso.out[i + 1]
            /\ \A j \in i .. n : iso'.out[j] = iso.out[j + 1] /\ j + 1 \in i + 1 .. k
      /\ Unannounced(v)' /\ OfQueue(x, v) => LastOfQueue(1, v)
      /\ Unannounced(v)' /\ ~OfQueue(x, v) => Unannounced(v)
  BY <1>1, PortAfter
<1>5. Unannounced(v)' => (walletInfo'[v].isSyncQueued <=> tail'[v] # NoTask)
  <2>1. CASE OfQueue(x, v)
    <3>1. x.queued \in BOOLEAN /\ walletInfo'[v].isSyncQueued = x.queued
      BY <2>1, <1>3, MsgParts DEF OfQueue, QueueStateInfo
    <3>2. Unannounced(v)' => (x.queued <=> tail[v] # NoTask)
      BY <2>1, <1>1, <1>4 DEF FlagOf
    <3> QED BY <3>1, <3>2
  <2>2. CASE ~OfQueue(x, v)
    BY <2>2, <1>1, <1>3, <1>4 DEF FlagOf
  <2> QED BY <2>1, <2>2
<1>6. ASSUME NEW i \in Nat, LastOfQueue(i, v)'
      PROVE  iso'.out[i].queued <=> tail'[v] # NoTask
  <2>0. i + 1 \in Nat
    OBVIOUS
  <2>1. LastOfQueue(i + 1, v) /\ iso'.out[i] = iso.out[i + 1]
    BY <1>6, <1>4, Zenon
  <2>2. iso.out[i + 1].queued <=> tail[v] # NoTask
    BY <2>0, <2>1, <1>1, Zenon DEF FlagOf
  <2>3. tail' = tail
    OBVIOUS
  <2> QED BY <2>1, <2>2, <2>3, Zenon
<1>7. FlagOf(v)'
  BY <1>5, <1>6 DEF FlagOf
<1>8. ASSUME Failing(v), Unannounced(v)'
      PROVE  /\ v \in registered' /\ walletInfo'[v].elements["balance"] # "completed"
             /\ nodeSyncState' # "completed"
             /\ \A j \in 1 .. n : ~Completing(iso'.out[j], v)
  <2>1. CASE OfQueue(x, v)
    <3>1. LastOfQueue(1, v) /\ x.snapshot = NoBalance /\ \A j \in 1 .. k : ~Completing(iso.out[j], v)
      BY <2>1, <1>1, <1>4, <1>8 DEF ToldOf
    <3>2. x.queued = FALSE
      BY <2>1, <3>1, <1>1, <1>8, MsgParts DEF FlagOf, Failing, OfQueue
    <3>3. v \in registered' /\ walletInfo'[v].elements = [walletInfo[v].elements EXCEPT !["balance"] = "waiting"]
      BY <2>1, <3>1, <3>2, <1>3 DEF QueueStateInfo
    <3>4. walletInfo[v].elements \in [UpdateElements -> WalletSyncStates]
      BY <1>1 DEF NodeInv, NodeTypeOK, WalletUpdateInfos
    <3>5. walletInfo'[v].elements["balance"] # "completed"
      BY <3>3, <3>4 DEF UpdateElements
    <3>6. nodeSyncState' # "completed"
      <4>1. ~IsAllWalletsCompleted(registered', walletInfo')
        BY <3>3, <3>5 DEF IsAllWalletsCompleted, UpdateElements
      <4>2. x.method = "setWalletSyncQueueState"
        BY <2>1 DEF OfQueue
      <4>3. nodeSyncState' = "completed" => IsAllWalletsCompleted(registered', walletInfo')
        BY <4>2 DEF HandleIsolateStateMessage, SetWalletSyncQueueState
      <4> QED BY <4>1, <4>3
    <3>7. \A j \in 1 .. n : ~Completing(iso'.out[j], v)
      <4>1. \A j \in 1 .. n : j + 1 \in 1 .. k
        BY <1>2
      <4> QED BY <4>1, <3>1, <1>2, Zenon
    <3> QED BY <3>3, <3>5, <3>6, <3>7
  <2>2. CASE ~OfQueue(x, v)
    <3>1. /\ v \in registered /\ walletInfo[v].elements["balance"] # "completed"
          /\ nodeSyncState # "completed"
          /\ \A j \in 1 .. k : ~Completing(iso.out[j], v)
      BY <2>2, <1>1, <1>4, <1>8 DEF ToldOf
    <3>2. ~Completing(x, v) /\ \A j \in 1 .. n : ~Completing(iso'.out[j], v)
      <4>1. 1 \in 1 .. k /\ \A j \in 1 .. n : j + 1 \in 1 .. k
        BY <1>1, <1>2, HeadLeaves
      <4>2. \A j \in 1 .. n : ~Completing(iso'.out[j], v)
        BY <4>1, <3>1, <1>2, Zenon
      <4> QED BY <4>1, <4>2, <3>1, Zenon
    <3>3. v \in registered' /\ walletInfo'[v].elements["balance"] # "completed"
      BY <2>2, <3>1, <3>2, <1>3
    <3>4. ~IsAllWalletsCompleted(registered', walletInfo')
      BY <3>3 DEF IsAllWalletsCompleted, UpdateElements
    <3> QED BY <3>1, <3>2, <3>3, <3>4, <1>3
  <2> QED BY <2>1, <2>2
<1>9. ASSUME Failing(v), NEW i \in Nat, LastOfQueue(i, v)'
      PROVE  /\ iso'.out[i].snapshot = NoBalance
             /\ \A j \in i .. n : ~Completing(iso'.out[j], v)
  <2>0. i + 1 \in Nat
    OBVIOUS
  <2>1. /\ LastOfQueue(i + 1, v) /\ iso'.out[i] = iso.out[i + 1]
        /\ \A j \in i .. n : iso'.out[j] = iso.out[j + 1] /\ j + 1 \in i + 1 .. k
    BY <1>9, <1>4, Zenon
  <2>2. iso.out[i + 1].snapshot = NoBalance /\ \A j \in i + 1 .. k : ~Completing(iso.out[j], v)
    BY <1>9, <2>0, <2>1, <1>1, Zenon DEF ToldOf
  <2>3. iso'.out[i].snapshot = NoBalance
    BY <2>1, <2>2
  <2>4. \A j \in i .. n : ~Completing(iso'.out[j], v)
    BY <2>1, <2>2, Zenon
  <2> QED BY <2>3, <2>4
<1>10. ToldOf(v)'
  BY <1>1, <1>8, <1>9 DEF ToldOf
<1>11. WalletBalance(v)' = WalletBalance(v) /\ WalletBalance(v) # NoBalance
  <2>1. WalletBalance(v) \in Balances
    BY BalanceTyped
  <2> QED BY <2>1, NoBalanceAssumption DEF WalletBalance
<1>12. ASSUME tail[v] = NoTask, Unannounced(v)'
       PROVE  \/ walletInfo'[v].balanceSnapshot = WalletBalance(v)'
              \/ /\ walletInfo'[v].elements["balance"] # "completed"
                 /\ \A j \in 1 .. n : ~Completing(iso'.out[j], v)
  <2>1. CASE OfQueue(x, v)
    <3>1. LastOfQueue(1, v) /\ 1 \in Nat
      BY <2>1, <1>4, <1>12
    <3>2. x.queued = FALSE
      BY <2>1, <3>1, <1>1, <1>12, MsgParts DEF FlagOf, OfQueue
    <3>3. walletInfo'[v] = QueueStateInfo(walletInfo[v], FALSE, x.snapshot)
      BY <2>1, <3>2, <1>3
    <3>4. CASE x.snapshot = WalletBalance(v)
      BY <3>3, <3>4, <1>11 DEF QueueStateInfo
    <3>5. CASE x.snapshot = NoBalance /\ \A j \in 1 .. k : ~Completing(iso.out[j], v)
      <4>1. walletInfo'[v].elements = [walletInfo[v].elements EXCEPT !["balance"] = "waiting"]
        BY <3>3, <3>5 DEF QueueStateInfo
      <4>2. walletInfo[v].elements \in [UpdateElements -> WalletSyncStates]
        BY <1>1 DEF NodeInv, NodeTypeOK, WalletUpdateInfos
      <4>3. walletInfo'[v].elements["balance"] # "completed"
        BY <4>1, <4>2 DEF UpdateElements
      <4>4. \A j \in 1 .. n : j + 1 \in 1 .. k
        BY <1>2
      <4>5. \A j \in 1 .. n : ~Completing(iso'.out[j], v)
        BY <4>4, <3>5, <1>2, Zenon
      <4> QED BY <4>3, <4>5
    <3> QED BY <3>1, <3>4, <3>5, <1>1, <1>12 DEF PublishedOf
  <2>2. CASE ~OfQueue(x, v)
    <3>1. \/ walletInfo[v].balanceSnapshot = WalletBalance(v)
          \/ /\ walletInfo[v].elements["balance"] # "completed"
             /\ \A j \in 1 .. k : ~Completing(iso.out[j], v)
      BY <2>2, <1>1, <1>4, <1>12 DEF PublishedOf
    <3>2. CASE walletInfo[v].balanceSnapshot = WalletBalance(v)
      BY <2>2, <3>2, <1>3, <1>11
    <3>3. CASE /\ walletInfo[v].elements["balance"] # "completed"
               /\ \A j \in 1 .. k : ~Completing(iso.out[j], v)
      <4>1. 1 \in 1 .. k /\ \A j \in 1 .. n : j + 1 \in 1 .. k
        BY <1>1, <1>2, HeadLeaves
      <4>2. ~Completing(x, v) /\ \A j \in 1 .. n : ~Completing(iso'.out[j], v)
        BY <4>1, <3>3, <1>2, Zenon
      <4> QED BY <2>2, <3>3, <4>2, <1>3
    <3> QED BY <3>1, <3>2, <3>3
  <2> QED BY <2>1, <2>2
<1>13. ASSUME tail[v] = NoTask, NEW i \in Nat, LastOfQueue(i, v)'
       PROVE  \/ iso'.out[i].snapshot = WalletBalance(v)'
              \/ /\ iso'.out[i].snapshot = NoBalance
                 /\ \A j \in i .. n : ~Completing(iso'.out[j], v)
  <2>0. i + 1 \in Nat
    OBVIOUS
  <2>1. /\ LastOfQueue(i + 1, v) /\ iso'.out[i] = iso.out[i + 1]
        /\ \A j \in i .. n : iso'.out[j] = iso.out[j + 1] /\ j + 1 \in i + 1 .. k
    BY <1>13, <1>4, Zenon
  <2>2. \/ iso.out[i + 1].snapshot = WalletBalance(v)
        \/ iso.out[i + 1].snapshot = NoBalance /\ \A j \in i + 1 .. k : ~Completing(iso.out[j], v)
    BY <1>13, <2>0, <2>1, <1>1, Zenon DEF PublishedOf
  <2>3. CASE iso.out[i + 1].snapshot = WalletBalance(v)
    BY <2>1, <2>3, <1>11
  <2>4. CASE iso.out[i + 1].snapshot = NoBalance /\ \A j \in i + 1 .. k : ~Completing(iso.out[j], v)
    <3>1. \A j \in i .. n : ~Completing(iso'.out[j], v)
      BY <2>1, <2>4, Zenon
    <3> QED BY <2>1, <2>4, <3>1
  <2> QED BY <2>2, <2>3, <2>4
<1>14. PublishedOf(v)'
  BY <1>12, <1>13 DEF PublishedOf
<1> QED BY <1>7, <1>10, <1>14

\* The main isolate handles one message of the isolate.
LEMMA DeliverInv ==
  ASSUME Inv, Deliver
  PROVE  Inv'
<1> DEFINE x == Head(iso.out)
<1>1. /\ Typed /\ NodeInv /\ RetriesKept /\ QueueInv /\ iso \in IsoType /\ loop \in LoopType
      /\ resync \in ResyncType
  BY DEF Inv, Typed, ControlTyped, Jobs
<1>2. /\ iso.out # <<>> /\ iso' = [iso EXCEPT !.out = Tail(@)]
      /\ UNCHANGED queueVars /\ UNCHANGED <<job, loop>> /\ UNCHANGED markVars
      /\ UNCHANGED dbVars /\ UNCHANGED subVars /\ UNCHANGED <<server, mainIdx>>
      /\ UNCHANGED <<walletOf, phase, tail>> /\ UNCHANGED <<failedWallets, failedScripts, failedBalances>>
  BY DEF Deliver, envVars, queueVars, markVars
<1>3. x = iso.out[1] /\ x \in Msgs /\ iso' \in IsoType
  BY <1>1, <1>2, HeadLeaves
<1>4. \/ x.method = "resyncResult" /\ UNCHANGED nodeVars
      \/ HandleIsolateStateMessage(x)
  BY DEF Deliver
<1>5. NodeInv'
  BY <1>1, <1>3, <1>4, HandlerStep, NodeStays
<1>6. resync' \in ResyncType /\ (resync'.stage \in {"wiping", "scanning"} =>
         resync.stage \in {"wiping", "scanning"} /\ resync'.task = resync.task)
  <2>1. CASE resync' = RaceResync
    BY <2>1, <1>1, RaceTyped
  <2>2. CASE resync' # RaceResync
    <3>1. \E o \in {"none", "waiting", "success", "failure", "connectionError"} :
             resync' = [resync EXCEPT !.stage = "idle", !.outcome = o]
      BY <2>2, <1>1 DEF Deliver, ResyncType
    <3> QED BY <3>1, <1>1 DEF ResyncType
  <2> QED BY <2>1, <2>2
<1> HIDE DEF x
<1>7. \A v \in Wallets : FlagOf(v)' /\ ToldOf(v)' /\ PublishedOf(v)'
  BY <1>2, <1>3, <1>4, DeliverFor DEF dbVars
<1>8. FlagAgrees' /\ FailureTold' /\ BalanceTold'
  BY <1>7 DEF FlagAgrees, FailureTold, BalanceTold
<1>9. RetriesKept'
  BY <1>1, <1>2, RetriesStay
<1>10. QueueInv' /\ DataTyped'
  BY <1>1, <1>2, QueueNextInv, SameData
<1>11. Jobs'
  BY <1>1, <1>2, <1>6 DEF Typed, Jobs, Live
<1>12. Typed'
  BY <1>1, <1>2, <1>3, <1>5, <1>10, <1>11 DEF Typed, ControlTyped, NodeInv
<1> QED BY <1>5, <1>8, <1>9, <1>12 DEF Inv

\* The isolate and the main isolate start over.
LEMMA Restarts ==
  ASSUME QueueInv,
         phase' = [t \in Tasks |-> IF phase[t] = "absent" THEN "absent" ELSE "done"],
         tail' = [w \in Wallets |-> NoTask], UNCHANGED <<nTasks, walletOf, prev>>
  PROVE  QueueInv'
<1>1. QueueTypeOK'
  BY DEF QueueInv, QueueTypeOK, Phases
<1>2. \A t \in Tasks : ~Live(t)' /\ (phase'[t] = "absent" <=> phase[t] = "absent") /\ phase'[t] \in {"absent", "done"}
  BY DEF Live
<1>3. Created'
  BY <1>2 DEF QueueInv, Created
<1>4. Linked'
  BY <1>2 DEF QueueInv, Linked
<1>5. TailYoungest'
  BY <1>2 DEF TailYoungest
<1>6. ArrivalOrder'
  BY <1>2, <1>3, MaxTasksAssumption DEF QueueInv, QueueTypeOK, Created, ArrivalOrder, Tasks
<1> QED BY <1>1, <1>3, <1>4, <1>5, <1>6 DEF QueueInv

\* A job that does not exist, a port that is empty.
LEMMA FreshTyped ==
  /\ NoJob \in JobType /\ Sensible(NoJob) /\ NoJob.kind = "none"
  /\ IsoInit \in IsoType /\ IsoInit.out = <<>>
  /\ IdleLoop \in LoopType /\ NoResync \in ResyncType /\ NoResync.stage = "idle"
  /\ 0 \in Versions
<1>1. <<>> \in Batches /\ <<>> \in Statuses
  BY NoBatch
<1>2. /\ "none" \in Kinds /\ NoCopy \in Tasks \cup {NoCopy} /\ "none" \in Pcs /\ {} \in SUBSET Scripts
      /\ 0 \in Scripts \cup {0} /\ FALSE \in BOOLEAN /\ TRUE \in BOOLEAN
  BY DEF Kinds, Pcs
<1>3. NoJob \in JobType /\ Sensible(NoJob) /\ NoJob.kind = "none"
  BY <1>1, <1>2 DEF JobType, NoJob, Sensible
<1>4. IsoInit \in IsoType /\ IsoInit.out = <<>>
  BY DEF IsoInit, IsoType, AllElements, WalletSyncStates
<1>5. IdleLoop \in LoopType /\ NoResync \in ResyncType /\ NoResync.stage = "idle"
  BY DEF IdleLoop, LoopType, NoResync, ResyncType
<1> QED BY <1>3, <1>4, <1>5, MaxVersionAssumption DEF Versions

\* A wallet nobody has announced is not queued, and its balance is waited for.
LEMMA FreshInfoWaits == FreshInfo.isSyncQueued = FALSE /\ FreshInfo.elements["balance"] # "completed"
  BY DEF FreshInfo, AllElements, UpdateElements

\* With an empty port and no tasks there is nothing to announce.
LEMMA NothingToTell ==
  ASSUME iso.out = <<>>, \A w \in Wallets : tail[w] = NoTask /\ walletInfo[w] = FreshInfo,
         \A w \in Wallets : failedScripts[w] = {} /\ failedBalances[w] = {},
         \A t \in Tasks : phase[t] # "running"
  PROVE  FlagAgrees /\ FailureTold /\ BalanceTold /\ RetriesKept
<1>1. 1 .. Len(iso.out) = {}
  OBVIOUS
<1>2. \A i, w : ~LastOfQueue(i, w)
  BY <1>1 DEF LastOfQueue
<1>3. FreshInfo.isSyncQueued = FALSE /\ FreshInfo.elements["balance"] # "completed"
  BY FreshInfoWaits
<1>4. BalanceTold
  BY <1>1, <1>2, <1>3 DEF BalanceTold, PublishedOf
<1> QED BY <1>2, <1>3, <1>4
    DEF FlagAgrees, FlagOf, FailureTold, ToldOf, Failing, RetriesKept, Retried

\* A reconnection leaves no task, no message and no mark.
LEMMA RestartInv ==
  ASSUME Inv, Restart
  PROVE  Inv'
<1>1. Typed /\ QueueInv
  BY DEF Inv, Typed
<1>2. /\ phase' = [t \in Tasks |-> IF phase[t] = "absent" THEN "absent" ELSE "done"]
      /\ tail' = [w \in Wallets |-> NoTask] /\ UNCHANGED <<nTasks, walletOf, prev>>
      /\ job' = [t \in Tasks |-> NoJob] /\ iso' = IsoInit /\ loop' = IdleLoop /\ resync' = NoResync
      /\ failedWallets' = {} /\ failedScripts' = [w \in Wallets |-> {}]
      /\ failedBalances' = [w \in Wallets |-> {}]
  BY DEF Restart, IsolateCloses, MainReconnects
<1>3. QueueInv'
  BY <1>1, <1>2, Restarts
<1>4. DataTyped'
  <2>1. /\ srvSub' = [w \in Wallets |-> {}] /\ notif' = [w \in Wallets |-> [s \in Scripts |-> <<>>]]
        /\ cb' = [w \in Wallets |-> [s \in Scripts |-> NoCopy]]
        /\ status' = [c \in Tasks |-> [s \in Scripts |-> 0]]
        /\ inMap' = [c \in Tasks |-> {}] /\ idx' = [c \in Tasks |-> 0]
        /\ UNCHANGED <<stored, used, saved, server>>
        /\ mainIdx' \in {mainIdx, [w \in Wallets |-> UsedIndex(w)]}
    BY DEF Restart, IsolateCloses, MainReconnects
  <2>2. \A w \in Wallets : UsedIndex(w) \in Scripts \cup {0}
    <3> SUFFICES ASSUME NEW w \in Wallets, used[w] # {} PROVE Max(used[w]) \in Scripts \cup {0}
      BY DEF UsedIndex
    <3>1. used[w] \in SUBSET (Scripts \cup {0})
      BY <1>1, DataParts DEF DbTyped
    <3> QED BY <3>1, MaxOf
  <2>3. mainIdx' \in [Wallets -> Scripts \cup {0}]
    BY <1>1, <2>1, <2>2, DataParts
  <2>4. DbTyped'
    BY <1>1, <2>1, DataParts DEF DbTyped
  <2>5. SubTyped'
    BY <2>1, FreshTyped DEF SubTyped
  <2>6. server' \in [Wallets -> [Scripts -> Versions]]
    BY <1>1, <2>1, DataParts
  <2> QED BY <2>3, <2>4, <2>5, <2>6 DEF DataTyped, DbTyped, SubTyped
<1>5. NodeInv' /\ \A w \in Wallets : walletInfo'[w] = FreshInfo
  <2>1. nodeSyncState' = "init" /\ registered' = {} /\ walletInfo' = [w \in Wallets |-> FreshInfo]
    BY DEF Restart, MainReconnects
  <2> QED BY <2>1, FreshInfoType
      DEF NodeInv, NodeTypeOK, UnregisteredIsFresh, CompletedIsIdle, NodeSyncStates
<1>6. \A t \in Tasks : phase'[t] \in {"absent", "done"} /\ job'[t] = NoJob
  BY <1>2
<1>7. Jobs'
  BY <1>2, <1>6, FreshTyped DEF Jobs, Live
<1>8. job' \in [Tasks -> JobType] /\ iso' \in IsoType
  BY <1>2, FreshTyped
<1>9. ControlTyped'
  BY <1>2, <1>5, <1>8 DEF ControlTyped, NodeInv
<1>10. FlagAgrees' /\ FailureTold' /\ BalanceTold' /\ RetriesKept'
  <2>1. iso'.out = <<>> /\ \A t \in Tasks : phase'[t] # "running"
    BY <1>2, <1>6, FreshTyped
  <2>2. \A w \in Wallets : /\ tail'[w] = NoTask /\ walletInfo'[w].isSyncQueued = FALSE
                          /\ walletInfo'[w].elements["balance"] # "completed"
    BY <1>2, <1>5, FreshInfoWaits
  <2>3. \A w \in Wallets : failedScripts'[w] = {} /\ failedBalances'[w] = {}
    BY <1>2
  <2>4. 1 .. Len(iso'.out) = {}
    <3>1. Len(iso'.out) = 0
      BY <2>1
    <3> QED BY <3>1
  <2>5. FlagAgrees'
    BY <2>2, <2>4 DEF FlagAgrees, FlagOf, LastOfQueue
  <2>6. FailureTold'
    BY <2>3 DEF FailureTold, ToldOf, Failing
  <2>7. RetriesKept'
    BY <2>1 DEF RetriesKept, Retried
  <2>8. BalanceTold'
    BY <2>2, <2>4 DEF BalanceTold, PublishedOf, LastOfQueue
  <2> QED BY <2>5, <2>6, <2>7, <2>8
<1> QED BY <1>3, <1>4, <1>5, <1>7, <1>9, <1>10 DEF Inv, Typed

\* The initial states have the invariant.
LEMMA InitInv == Init => Inv
<1> SUFFICES ASSUME Init PROVE Inv
  OBVIOUS
<1>1. QueueInv /\ NodeInv
  BY QueueInitInv, NodeInitInv DEF Init
<1>2. DataTyped
  <2>1. {server, stored, saved} \subseteq [Wallets -> [Scripts -> Versions]]
    BY MaxVersionAssumption DEF Init, Versions
  <2>2. used \in [Wallets -> SUBSET Scripts] /\ srvSub \in [Wallets -> SUBSET Scripts]
        /\ notif \in [Wallets -> [Scripts -> Seq(Versions)]]
    BY DEF Init
  <2>3. /\ cb \in [Wallets -> [Scripts -> Tasks \cup {NoCopy}]]
        /\ status \in [Tasks -> [Scripts -> Versions]]
        /\ inMap \in [Tasks -> SUBSET Scripts] /\ idx \in [Tasks -> Scripts \cup {0}]
        /\ mainIdx \in [Wallets -> Scripts \cup {0}]
    BY FreshTyped DEF Init
  <2> QED BY <2>1, <2>2, <2>3 DEF DataTyped
<1>3. \A t \in Tasks : phase[t] = "absent" /\ job[t] = NoJob
  BY DEF Init, QueueInit
<1>4. Jobs
  BY <1>3, FreshTyped DEF Init, Jobs, Live
<1>5. ControlTyped
  BY <1>1, FreshTyped DEF Init, ControlTyped, NodeInv
<1>6. FlagAgrees /\ FailureTold /\ BalanceTold /\ RetriesKept
  <2>1. iso.out = <<>> /\ \A t \in Tasks : phase[t] # "running"
    BY <1>3, FreshTyped DEF Init
  <2>2. \A w \in Wallets : tail[w] = NoTask /\ walletInfo[w] = FreshInfo
    BY DEF Init, QueueInit, NodeInit
  <2>3. \A w \in Wallets : failedScripts[w] = {} /\ failedBalances[w] = {}
    BY DEF Init
  <2> QED BY <2>1, <2>2, <2>3, NothingToTell
<1> QED BY <1>1, <1>2, <1>4, <1>5, <1>6 DEF Inv, Typed

\* One case per kind of step.
LEMMA NextInv == Inv /\ [Next]_vars => Inv'
<1> SUFFICES ASSUME Inv, [Next]_vars PROVE Inv'
  OBVIOUS
<1>1. CASE UNCHANGED vars
  <2>1. /\ UNCHANGED nodeVars /\ UNCHANGED markVars /\ UNCHANGED queueVars /\ UNCHANGED taskVars
        /\ UNCHANGED dbVars /\ UNCHANGED subVars /\ UNCHANGED <<server, mainIdx, loop, resync>>
    BY <1>1 DEF vars, cmdVars, envVars
  <2> QED BY <2>1, SameData, IdleInv
<1>2. ASSUME NEW t \in Tasks, Task(t) PROVE Inv'
  BY <1>2, TaskInv DEF Task
<1>3. CASE Continue
  BY <1>3, LoopNextInv, LoopEndsInv, ResyncScansInv, ResyncEndsInv DEF Continue
<1>4. CASE PortOpen /\ Command
  BY <1>4, SubscribeWalletsInv, SubscribeWalletInv, SyncDormantInv, ResyncWalletInv DEF Command
<1>5. ASSUME NEW w \in Wallets, NEW s \in Scripts, Notify(w, s) PROVE Inv'
  BY <1>5, NotifyInv
<1>6. CASE PortOpen /\ Environment
  BY <1>6, CommandTimeoutInv, ConnectionLostInv, RestartInv, ChainChangeInv DEF Environment
<1>7. CASE Deliver
  BY <1>7, DeliverInv
<1> QED BY <1>1, <1>2, <1>3, <1>4, <1>5, <1>6, <1>7 DEF Next
-----------------------------------------------------------------------------
\* The invariant holds in every behaviour of the wallet synchronisation.
THEOREM SyncInvariant == Spec => []Inv
BY InitInv, NextInv, PTL DEF Spec

\* Every reachable state is well typed: no task, copy, script or status that
\* does not exist is named anywhere, for any wallets, scripts and bounds.
THEOREM SyncTypeCorrect == Spec => []TypeOK
<1>1. Inv => TypeOK
  <2> SUFFICES ASSUME Inv PROVE TypeOK
    OBVIOUS
  <2>1. QueueTypeOK /\ NodeTypeOK /\ DataTyped /\ ControlTyped
    BY DEF Inv, Typed, QueueInv, ControlTyped
  <2>2. \A t \in Tasks : job[t].script \in Scripts \cup {0} /\ job[t].copy \in Tasks \cup {NoCopy}
    BY <2>1 DEF ControlTyped, JobType
  <2>3. \A w \in Wallets : failedScripts[w] \cup failedBalances[w] \cup used[w] \cup srvSub[w] \subseteq Scripts
    BY <2>1 DEF ControlTyped, DataTyped
  <2> QED BY <2>1, <2>2, <2>3 DEF TypeOK, ControlTyped, DataTyped
<1> QED BY <1>1, SyncInvariant, PTL

\* Once the main isolate has read its messages it shows a wallet as queued
\* exactly while the isolate has work for it: runQueued's announcement of the
\* first task and the cleanup of the last agree in every order of events.
THEOREM QueueFlagHolds == Spec => []QueueFlagFaithful
<1>1. Inv => QueueFlagFaithful
  <2> SUFFICES ASSUME Inv, iso.out = <<>>, NEW w \in registered
               PROVE  walletInfo[w].isSyncQueued <=> tail[w] # NoTask
    BY DEF QueueFlagFaithful
  <2>1. w \in Wallets
    BY DEF Inv, NodeInv, NodeTypeOK
  <2>2. 1 .. Len(iso.out) = {}
    OBVIOUS
  <2> QED BY <2>1, <2>2 DEF Inv, FlagAgrees, FlagOf, Unannounced
<1> QED BY <1>1, SyncInvariant, PTL

\* A wallet with a script or a balance that could not be synchronised is not
\* shown as synchronised when its queue has drained, and neither is the node,
\* whatever the other wallets, the timeouts and the reconnections do meanwhile.
THEOREM FailureVisible == Spec => []FailureStaysVisible
<1>1. Inv => FailureStaysVisible
  <2> SUFFICES ASSUME Inv, NEW w \in Wallets, Quiet(w), failedScripts[w] \cup failedBalances[w] # {}
               PROVE  ~Shown(w) /\ nodeSyncState # "completed"
    BY DEF FailureStaysVisible
  <2>1. iso.out = <<>> /\ Failing(w)
    BY DEF Quiet, Failing
  <2>2. 1 .. Len(iso.out) = {}
    BY <2>1
  <2>3. Unannounced(w) /\ ToldOf(w)
    BY <2>2 DEF Unannounced, Inv, FailureTold
  <2>4. walletInfo[w].elements["balance"] # "completed" /\ nodeSyncState # "completed"
    BY <2>1, <2>3 DEF ToldOf
  <2> QED BY <2>4 DEF Shown, UpdateElements
<1> QED BY <1>1, SyncInvariant, PTL

\* A wallet that is shown as synchronised, with nothing queued or on its way,
\* shows the balance of its database: no failure, drain, restart or message of
\* another task leaves an older balance on the screen.
THEOREM ShownBalanceStored == Spec => []ShownIsStored
<1>1. Inv => ShownIsStored
  <2> SUFFICES ASSUME Inv, NEW w \in Wallets, Quiet(w), Shown(w)
               PROVE  walletInfo[w].balanceSnapshot = WalletBalance(w)
    BY DEF ShownIsStored
  <2>1. iso.out = <<>> /\ tail[w] = NoTask
    BY DEF Quiet
  <2>2. 1 .. Len(iso.out) = {}
    BY <2>1
  <2>3. Unannounced(w) /\ PublishedOf(w)
    BY <2>2 DEF Unannounced, Inv, BalanceTold
  <2>4. walletInfo[w].elements["balance"] = "completed"
    BY DEF Shown, UpdateElements
  <2> QED BY <2>1, <2>3, <2>4 DEF PublishedOf
<1> QED BY <1>1, SyncInvariant, PTL

\* A subscription that reports success has synchronised every script whose
\* last synchronisation failed: getUpdatedScriptStatuses takes them into its
\* batch, and nothing can mark another while it runs.
THEOREM RetriesHold == Spec => []SubscriptionRetriesFailures
<1>1. Inv => SubscriptionRetriesFailures
  BY DEF Inv, RetriesKept, Retried, SubscriptionRetriesFailures, At
<1> QED BY <1>1, SyncInvariant, PTL

\* The tasks of a wallet run one at a time and in arrival order, also while
\* commands, notifications and reconnections come in between.
THEOREM TasksSerialised == Spec => [](ArrivalOrder /\ MapTracksLiveTasks)
<1>1. Inv => ArrivalOrder /\ MapTracksLiveTasks
  BY QueueInvImpliesMap DEF Inv, Typed, QueueInv
<1> QED BY <1>1, SyncInvariant, PTL

\* The node is never shown as completed while a wallet has queued work, with
\* the messages the isolate really sends.
THEOREM CompletedIsIdleHere == Spec => []CompletedIsIdle
<1>1. Inv => CompletedIsIdle
  BY DEF Inv, NodeInv
<1> QED BY <1>1, SyncInvariant, PTL
=============================================================================
