------------------------ MODULE SyncComponentProofs ------------------------
(***************************************************************************)
(* Proofs about the two components of the synchronisation that stand by    *)
(* themselves, SyncQueue and NodeStateManager.                             *)
(***************************************************************************)
EXTENDS SyncQueueFifo, NodeStateManager, FiniteSetTheorems, SequenceTheorems, TLAPS

(***************************************************************************)
(* SyncQueue, for every set of wallets and every bound on the number of    *)
(* tasks: the promise chain serialises a wallet's tasks in arrival order,  *)
(* and the map entry is present exactly while one is live.                 *)
(***************************************************************************)

\* A task exists once runQueued has created it, and is then on some wallet.
Created ==
    \A t \in Tasks :
        /\ (phase[t] = "absent") <=> (t > nTasks)
        /\ t <= nTasks => walletOf[t] \in Wallets
        /\ t > nTasks => walletOf[t] = NoWallet /\ prev[t] = NoTask

\* A task waits for an older task of its wallet, and no older task of the
\* wallet that is still live lies behind the one it waits for.
Linked ==
    \A t \in Tasks :
        /\ prev[t] # NoTask => prev[t] < t /\ walletOf[prev[t]] = walletOf[t]
        /\ t <= nTasks =>
             \A u \in Tasks : (u < t /\ walletOf[u] = walletOf[t] /\ Live(u))
                                 => prev[t] # NoTask /\ u <= prev[t]

\* The map entry is the youngest live task of the wallet.
TailYoungest ==
    \A w \in Wallets :
        /\ tail[w] # NoTask => Live(tail[w]) /\ walletOf[tail[w]] = w
        /\ \A t \in Tasks : (walletOf[t] = w /\ Live(t))
                               => tail[w] # NoTask /\ t <= tail[w]

QueueInv == QueueTypeOK /\ Created /\ Linked /\ TailYoungest /\ ArrivalOrder
-----------------------------------------------------------------------------
LEMMA QueueInitInv == QueueInit => QueueInv
  BY MaxTasksAssumption, NoWalletAssumption
  DEF QueueInit, QueueInv, QueueTypeOK, Created, Linked, TailYoungest, ArrivalOrder,
      Live, Tasks, NoTask, Phases

\* A new task is younger than every other one and is linked to the youngest
\* live task of its wallet.
LEMMA RunQueuedInv ==
  ASSUME QueueInv, NEW w \in Wallets, RunQueued(w)
  PROVE  QueueInv'
<1> DEFINE n == nTasks + 1
<1>1. n \in Tasks /\ phase[n] = "absent" /\ nTasks' = n
  BY MaxTasksAssumption DEF QueueInv, QueueTypeOK, Created, RunQueued, Tasks
<1>2. QueueTypeOK'
  BY <1>1, MaxTasksAssumption DEF QueueInv, QueueTypeOK, RunQueued, Tasks, Phases
<1>3. /\ walletOf'[n] = w /\ phase'[n] = "chained" /\ prev'[n] = tail[w]
      /\ \A t \in Tasks \ {n} : /\ walletOf'[t] = walletOf[t]
                                /\ phase'[t] = phase[t]
                                /\ prev'[t] = prev[t]
      /\ tail'[w] = n
      /\ \A v \in Wallets \ {w} : tail'[v] = tail[v]
  BY <1>1 DEF QueueInv, QueueTypeOK, RunQueued
<1>4. Created'
  BY <1>1, <1>3, MaxTasksAssumption, NoWalletAssumption
  DEF QueueInv, QueueTypeOK, Created, Tasks
<1>5. tail[w] # NoTask => tail[w] < n /\ tail[w] \in Tasks /\ walletOf[tail[w]] = w
  BY <1>1, MaxTasksAssumption
  DEF QueueInv, QueueTypeOK, TailYoungest, Created, Live, Tasks, NoTask
<1>6. Linked'
  <2> SUFFICES ASSUME NEW t \in Tasks
               PROVE  /\ prev'[t] # NoTask => prev'[t] < t /\ walletOf'[prev'[t]] = walletOf'[t]
                      /\ t <= nTasks' =>
                           \A u \in Tasks : (u < t /\ walletOf'[u] = walletOf'[t] /\ Live(u)')
                                               => prev'[t] # NoTask /\ u <= prev'[t]
    BY DEF Linked
  <2>1. CASE t = n
    BY <2>1, <1>1, <1>3, <1>5, MaxTasksAssumption
    DEF QueueInv, TailYoungest, Live, Tasks
  <2>2. CASE t # n
    <3>1. prev[t] # NoTask => prev[t] \in Tasks /\ prev[t] # n
      BY <2>2, <1>1, NoWalletAssumption, MaxTasksAssumption
      DEF QueueInv, QueueTypeOK, Linked, Created, Tasks, NoTask
    <3>2. t <= nTasks' => t <= nTasks
      BY <2>2, <1>1, MaxTasksAssumption DEF Tasks, QueueInv, QueueTypeOK
    <3> QED
      BY <2>2, <3>1, <3>2, <1>1, <1>3, MaxTasksAssumption
      DEF QueueInv, QueueTypeOK, Linked, Live, Tasks
  <2> QED BY <2>1, <2>2
<1>7. TailYoungest'
  <2> SUFFICES ASSUME NEW v \in Wallets
               PROVE  /\ tail'[v] # NoTask => Live(tail[v])' /\ walletOf'[tail'[v]] = v
                      /\ \A t \in Tasks : (walletOf'[t] = v /\ Live(t)')
                                             => tail'[v] # NoTask /\ t <= tail'[v]
    BY DEF TailYoungest
  <2>1. CASE v = w
    <3>1. \A t \in Tasks : Live(t)' => t <= n
      BY <1>1, <1>3, MaxTasksAssumption DEF QueueInv, QueueTypeOK, Created, Live, Tasks
    <3> QED BY <2>1, <3>1, <1>1, <1>3, MaxTasksAssumption DEF Live, Tasks, NoTask
  <2>2. CASE v # w
    <3>1. tail[v] # NoTask => tail[v] \in Tasks \ {n}
      BY <1>1 DEF QueueInv, QueueTypeOK, TailYoungest, Live
    <3>2. \A t \in Tasks : (walletOf'[t] = v /\ Live(t)') => t # n /\ walletOf[t] = v /\ Live(t)
      BY <2>2, <1>3 DEF Live
    <3> QED BY <2>2, <3>1, <3>2, <1>3 DEF QueueInv, TailYoungest, Live
  <2> QED BY <2>1, <2>2
<1>8. ArrivalOrder'
  BY <1>1, <1>3, <1>4, MaxTasksAssumption, NoWalletAssumption
  DEF QueueInv, QueueTypeOK, ArrivalOrder, Created, Tasks
<1> QED BY <1>2, <1>4, <1>6, <1>7, <1>8 DEF QueueInv

\* The step that could break the order: a task starts because the one it
\* waits for is done, hence so is everything behind that one.
LEMMA StartInv ==
  ASSUME QueueInv, NEW s \in Tasks, Start(s)
  PROVE  QueueInv'
<1> USE DEF Start
<1>1. QueueTypeOK'
  BY DEF QueueInv, QueueTypeOK, Phases
<1>2. phase'[s] = "running" /\ \A t \in Tasks \ {s} : phase'[t] = phase[t]
  BY DEF QueueInv, QueueTypeOK
<1>3. \A t \in Tasks : Live(t)' <=> Live(t)
  BY <1>2 DEF Live
<1>4. Created'
  BY <1>2 DEF QueueInv, Created
<1>5. Linked' /\ TailYoungest'
  BY <1>3 DEF QueueInv, QueueTypeOK, Linked, TailYoungest, NoTask
<1>6. \A u \in Tasks : (u < s /\ walletOf[u] = walletOf[s]) => phase[u] = "done"
  <2> SUFFICES ASSUME NEW u \in Tasks, u < s, walletOf[u] = walletOf[s]
               PROVE  phase[u] = "done"
    OBVIOUS
  <2>1. s <= nTasks /\ phase[u] # "absent"
    BY MaxTasksAssumption DEF QueueInv, QueueTypeOK, Created, Tasks
  <2>2. ASSUME Live(u) PROVE FALSE
    <3>1. prev[s] # NoTask /\ u <= prev[s] /\ prev[s] \in Tasks /\ phase[prev[s]] = "done"
      BY <2>1, <2>2 DEF QueueInv, QueueTypeOK, Linked
    <3>2. walletOf[prev[s]] = walletOf[s]
      BY <3>1 DEF QueueInv, Linked
    <3>3. u # prev[s]
      BY <3>1, <2>2 DEF Live
    <3>4. phase[u] = "done"
      BY <3>1, <3>2, <3>3, MaxTasksAssumption DEF QueueInv, ArrivalOrder, Tasks
    <3> QED BY <3>4, <2>2 DEF Live
  <2> QED BY <2>1, <2>2 DEF QueueInv, QueueTypeOK, Phases, Live
<1>7. ArrivalOrder'
  <2> SUFFICES ASSUME NEW t \in Tasks, NEW u \in Tasks, u < t, walletOf[u] = walletOf[t],
                      phase'[t] \in {"running", "settled", "done"}
               PROVE  phase'[u] = "done"
    BY DEF ArrivalOrder
  <2>1. phase[u] = "done"
    BY <1>2, <1>6 DEF QueueInv, ArrivalOrder
  <2> QED BY <2>1, <1>2
<1> QED BY <1>1, <1>4, <1>5, <1>7 DEF QueueInv

LEMMA SettleInv ==
  ASSUME QueueInv, NEW s \in Tasks, Settle(s)
  PROVE  QueueInv'
<1> USE DEF Settle
<1>1. QueueTypeOK'
  BY DEF QueueInv, QueueTypeOK, Phases
<1>2. phase'[s] = "settled" /\ \A t \in Tasks \ {s} : phase'[t] = phase[t]
  BY DEF QueueInv, QueueTypeOK
<1>3. \A t \in Tasks : Live(t)' <=> Live(t)
  BY <1>2 DEF Live
<1>4. Created' /\ ArrivalOrder'
  BY <1>2 DEF QueueInv, Created, ArrivalOrder
<1>5. Linked' /\ TailYoungest'
  BY <1>3 DEF QueueInv, QueueTypeOK, Linked, TailYoungest, NoTask
<1> QED BY <1>1, <1>4, <1>5 DEF QueueInv

\* The entry is removed only by the youngest task; everything before it is
\* done by then, so an absent entry means that no task of the wallet is live.
LEMMA CleanupInv ==
  ASSUME QueueInv, NEW s \in Tasks, Cleanup(s)
  PROVE  QueueInv'
<1> USE DEF Cleanup
<1>1. QueueTypeOK'
  BY DEF QueueInv, QueueTypeOK, Phases
<1>2. /\ phase[s] = "settled" /\ phase'[s] = "done"
      /\ \A t \in Tasks \ {s} : phase'[t] = phase[t]
      /\ walletOf' = walletOf /\ prev' = prev /\ nTasks' = nTasks
  BY DEF QueueInv, QueueTypeOK
<1>3. Live(s) /\ ~Live(s)' /\ \A t \in Tasks \ {s} : Live(t)' <=> Live(t)
  BY <1>2 DEF Live
<1>4. Created' /\ ArrivalOrder'
  BY <1>2 DEF QueueInv, Created, ArrivalOrder
<1>5. Linked'
  BY <1>2, <1>3 DEF QueueInv, QueueTypeOK, Linked, NoTask
<1>6. walletOf[s] \in Wallets
  BY <1>2, MaxTasksAssumption DEF QueueInv, QueueTypeOK, Created, Tasks
<1>7. TailYoungest'
  <2> SUFFICES ASSUME NEW w \in Wallets
               PROVE  /\ tail'[w] # NoTask => Live(tail[w])' /\ walletOf[tail'[w]] = w
                      /\ \A t \in Tasks : (walletOf[t] = w /\ Live(t)')
                                             => tail'[w] # NoTask /\ t <= tail'[w]
    BY <1>2 DEF TailYoungest
  <2>1. CASE w # walletOf[s]
    BY <2>1, <1>2, <1>3, <1>6 DEF QueueInv, QueueTypeOK, TailYoungest, NoTask
  <2>2. CASE w = walletOf[s] /\ ~IsTail(s)
    BY <2>2, <1>2, <1>3 DEF QueueInv, QueueTypeOK, TailYoungest, NoTask, IsTail
  <2>3. CASE w = walletOf[s] /\ IsTail(s)
    <3>1. tail'[w] = NoTask
      BY <2>3, <1>6 DEF QueueInv, QueueTypeOK
    <3>2. \A t \in Tasks : walletOf[t] = w => ~Live(t)'
      <4> SUFFICES ASSUME NEW t \in Tasks, walletOf[t] = w, Live(t)' PROVE FALSE
        OBVIOUS
      <4>1. t # s /\ Live(t)
        BY <1>3
      <4>2. t < s
        BY <4>1, <2>3, MaxTasksAssumption DEF QueueInv, TailYoungest, IsTail, Tasks
      <4>3. phase[t] = "done"
        BY <4>2, <2>3, <1>2 DEF QueueInv, ArrivalOrder
      <4> QED BY <4>1, <4>3 DEF Live
    <3> QED BY <3>1, <3>2
  <2> QED BY <2>1, <2>2, <2>3
<1> QED BY <1>1, <1>4, <1>5, <1>7 DEF QueueInv

LEMMA QueueNextInv == QueueInv /\ [QueueNext]_queueVars => QueueInv'
<1> SUFFICES ASSUME QueueInv, [QueueNext]_queueVars PROVE QueueInv'
  OBVIOUS
<1>1. CASE UNCHANGED queueVars
  BY <1>1 DEF queueVars, QueueInv, QueueTypeOK, Created, Linked, TailYoungest, ArrivalOrder, Live
<1>2. ASSUME NEW w \in Wallets, RunQueued(w) PROVE QueueInv'
  BY <1>2, RunQueuedInv
<1>3. ASSUME NEW t \in Tasks, Start(t) PROVE QueueInv'
  BY <1>3, StartInv
<1>4. ASSUME NEW t \in Tasks, Settle(t) PROVE QueueInv'
  BY <1>4, SettleInv
<1>5. ASSUME NEW t \in Tasks, Cleanup(t) PROVE QueueInv'
  BY <1>5, CleanupInv
<1> QED BY <1>1, <1>2, <1>3, <1>4, <1>5 DEF QueueNext

LEMMA QueueInvImpliesMap == QueueInv => MapTracksLiveTasks
  BY DEF QueueInv, QueueTypeOK, TailYoungest, MapTracksLiveTasks, NoTask
-----------------------------------------------------------------------------
\* Every reachable state of the queue is well typed, for any wallets and bound.
THEOREM QueueTypeCorrect == QueueSpec => []QueueTypeOK
<1>1. QueueInv => QueueTypeOK
  BY DEF QueueInv
<1> QED BY <1>1, QueueInitInv, QueueNextInv, PTL DEF QueueSpec

\* runQueued serialises the tasks of a wallet in arrival order.
THEOREM QueueSerialises == QueueSpec => []ArrivalOrder
<1>1. QueueInv => ArrivalOrder
  BY DEF QueueInv
<1> QED BY <1>1, QueueInitInv, QueueNextInv, PTL DEF QueueSpec

\* _walletSyncQueues has an entry for a wallet exactly while a task is live.
THEOREM QueueMapExact == QueueSpec => []MapTracksLiveTasks
BY QueueInvImpliesMap, QueueInitInv, QueueNextInv, PTL DEF QueueSpec
-----------------------------------------------------------------------------
(* The chain implements WalletFifo. *)

\* The line of a set of tasks is a sequence of its size.
LEMMA AgeSequence ==
  ASSUME NEW S \in SUBSET Tasks
  PROVE  /\ IsFiniteSet(S) /\ Cardinality(S) \in Nat
         /\ \E T : ByAge(S) \in Seq(T)
         /\ Len(ByAge(S)) = Cardinality(S)
         /\ \A i \in 1 .. Cardinality(S) : ByAge(S)[i] = CHOOSE t \in Ranked(S, i) : TRUE
<1>1. IsFiniteSet(Tasks)
  BY MaxTasksAssumption, FS_Interval DEF Tasks
<1>2. IsFiniteSet(S) /\ Cardinality(S) \in Nat
  BY <1>1, FS_Subset, FS_CardinalityType
<1> DEFINE n == Cardinality(S)
           f(i) == CHOOSE t \in Ranked(S, i) : TRUE
           T == {f(i) : i \in 1 .. n}
<1>3. ByAge(S) = [i \in 1 .. n |-> f(i)]
  BY DEF ByAge
<1> HIDE DEF f, n
<1>4. ByAge(S) \in [1 .. n -> T]
  BY <1>3
<1>5. n \in Nat
  BY <1>2 DEF n
<1>6. ByAge(S) \in Seq(T) /\ Len(ByAge(S)) = n
  <2>1. ByAge(S) \in Seq(T)
    BY <1>4, <1>5, SeqDef
  <2>2. DOMAIN ByAge(S) = 1 .. n
    BY <1>3
  <2>3. Len(ByAge(S)) \in Nat /\ 1 .. Len(ByAge(S)) = 1 .. n
    BY <2>1, <2>2, LenProperties
  <2> QED BY <1>5, <2>1, <2>3
<1>7. \A i \in 1 .. n : ByAge(S)[i] = f(i)
  BY <1>3
<1> QED BY <1>2, <1>6, <1>7 DEF n, f

\* It is the sequence of its size with the tasks by rank.
LEMMA AgeEqual ==
  ASSUME NEW S \in SUBSET Tasks, NEW T, NEW s \in Seq(T), Len(s) = Cardinality(S),
         \A i \in 1 .. Cardinality(S) : s[i] = CHOOSE t \in Ranked(S, i) : TRUE
  PROVE  ByAge(S) = s
<1>1. s \in [1 .. Cardinality(S) -> T]
  BY LenProperties
<1>2. s = [i \in 1 .. Cardinality(S) |-> s[i]]
  BY <1>1
<1>3. s = [i \in 1 .. Cardinality(S) |-> CHOOSE t \in Ranked(S, i) : TRUE]
  BY <1>2, Zenon
<1> QED BY <1>3 DEF ByAge

\* A younger task goes to the end of the line.
LEMMA AgeAppend ==
  ASSUME NEW S \in SUBSET Tasks, NEW n \in Tasks, \A t \in S : t < n
  PROVE  ByAge(S \cup {n}) = Append(ByAge(S), n)
<1> DEFINE R == S \cup {n}
           k == Cardinality(S)
<1>1. /\ IsFiniteSet(S) /\ k \in Nat /\ Len(ByAge(S)) = k
      /\ \A i \in 1 .. k : ByAge(S)[i] = CHOOSE t \in Ranked(S, i) : TRUE
  BY AgeSequence
<1>2. n \notin S /\ S \subseteq Int /\ n \in Int
  BY MaxTasksAssumption DEF Tasks
<1>3. Cardinality(R) = k + 1
  BY <1>1, <1>2, FS_AddElement
<1>4. \A t \in S : Older(R, t) = Older(S, t)
  BY <1>2 DEF Older
<1>5. Older(R, n) = S
  <2>1. ~(n < n) /\ \A t \in S : t < n
    BY <1>2
  <2> QED BY <2>1 DEF Older
<1>6. ASSUME NEW i \in 1 .. k PROVE Ranked(R, i) = Ranked(S, i)
  <2>1. k # i - 1
    BY <1>1, <1>6
  <2> QED BY <2>1, <1>4, <1>5 DEF Ranked
<1>7. Ranked(R, k + 1) = {n}
  <2>1. ASSUME NEW t \in S PROVE Cardinality(Older(S, t)) # k
    <3>1. Older(S, t) \subseteq S /\ t \notin Older(S, t)
      BY <1>2 DEF Older
    <3>2. Older(S, t) # S
      BY <3>1
    <3> QED BY <1>1, <3>1, <3>2, FS_Subset
  <2>2. k = (k + 1) - 1
    BY <1>1
  <2> QED BY <2>1, <2>2, <1>4, <1>5 DEF Ranked
<1>8. PICK T : ByAge(S) \in Seq(T)
  BY AgeSequence
<1>9. ByAge(S) \in Seq(T \cup {n})
  BY <1>8, SeqMonotonic
<1> DEFINE s == Append(ByAge(S), n)
<1>10. /\ s \in Seq(T \cup {n}) /\ Len(s) = k + 1 /\ s[k + 1] = n
       /\ \A i \in 1 .. k : s[i] = ByAge(S)[i]
  BY <1>1, <1>9
<1> HIDE DEF s
<1>11. ASSUME NEW i \in 1 .. k + 1 PROVE s[i] = CHOOSE t \in Ranked(R, i) : TRUE
  <2>1. CASE i = k + 1
    <3>1. (CHOOSE t \in {n} : TRUE) = n
      OBVIOUS
    <3> QED BY <2>1, <3>1, <1>7, <1>10
  <2>2. CASE i # k + 1
    <3>1. i \in 1 .. k
      BY <2>2, <1>1
    <3>2. Ranked(R, i) = Ranked(S, i) /\ ByAge(S)[i] = CHOOSE t \in Ranked(S, i) : TRUE
      BY <3>1, <1>1, <1>6
    <3> QED BY <3>1, <3>2, <1>10
  <2> QED BY <2>1, <2>2
<1>12. R \in SUBSET Tasks
  OBVIOUS
<1> HIDE DEF R
<1>13. ByAge(R) = s
  BY <1>3, <1>10, <1>11, <1>12, AgeEqual
<1> QED BY <1>13 DEF s, R

\* The oldest task leaves the line at its head.
LEMMA AgeTail ==
  ASSUME NEW S \in SUBSET Tasks, NEW m \in S, \A t \in S : m <= t
  PROVE  ByAge(S \ {m}) = Tail(ByAge(S))
<1> DEFINE R == S \ {m}
           k == Cardinality(S)
<1>1. /\ IsFiniteSet(S) /\ k \in Nat /\ Len(ByAge(S)) = k
      /\ \A i \in 1 .. k : ByAge(S)[i] = CHOOSE t \in Ranked(S, i) : TRUE
  BY AgeSequence
<1>2. S \subseteq Int
  BY MaxTasksAssumption DEF Tasks
<1>3. Cardinality(R) = k - 1 /\ IsFiniteSet(R)
  BY <1>1, FS_RemoveElement
<1>4. k \in Nat \ {0}
  BY <1>1, FS_EmptySet
<1>5. Older(S, m) = {}
  <2>1. \A t \in S : ~(t < m)
    BY <1>2
  <2> QED BY <2>1 DEF Older
<1>6. ASSUME NEW t \in R
      PROVE  /\ Cardinality(Older(S, t)) \in Nat
             /\ Cardinality(Older(R, t)) = Cardinality(Older(S, t)) - 1
  <2>1. Older(R, t) = Older(S, t) \ {m} /\ m \in Older(S, t) /\ Older(S, t) \subseteq S
    BY <1>2 DEF Older
  <2>2. IsFiniteSet(Older(S, t))
    BY <2>1, <1>1, FS_Subset
  <2>3. Cardinality(Older(S, t)) \in Nat
    BY <2>2, FS_CardinalityType
  <2>4. Cardinality(Older(S, t) \ {m}) = Cardinality(Older(S, t)) - 1
    BY <2>1, <2>2, FS_RemoveElement
  <2> QED BY <2>1, <2>3, <2>4
<1>7. ASSUME NEW i \in 1 .. k - 1 PROVE Ranked(R, i) = Ranked(S, i + 1)
  <2>1. Cardinality(Older(S, m)) = 0
    BY <1>5, FS_EmptySet
  <2>2. i \in Int /\ 0 # (i + 1) - 1
    BY <1>4, <1>7
  <2>3. \A t \in R : Cardinality(Older(R, t)) = i - 1 <=> Cardinality(Older(S, t)) = (i + 1) - 1
    BY <1>6, <2>2
  <2> QED BY <2>1, <2>2, <2>3 DEF Ranked
<1>8. PICK T : ByAge(S) \in Seq(T)
  BY AgeSequence
<1> DEFINE s == Tail(ByAge(S))
<1>9. s \in Seq(T) /\ Len(s) = k - 1 /\ \A i \in 1 .. k - 1 : s[i] = ByAge(S)[i + 1]
  <2>1. ByAge(S) # <<>>
    BY <1>1, <1>4
  <2> QED BY <1>1, <1>8, <2>1, HeadTailProperties
<1> HIDE DEF s
<1>10. ASSUME NEW i \in 1 .. k - 1 PROVE s[i] = CHOOSE t \in Ranked(R, i) : TRUE
  <2>1. i + 1 \in 1 .. k
    BY <1>4
  <2>2. ByAge(S)[i + 1] = CHOOSE t \in Ranked(S, i + 1) : TRUE
    BY <2>1, <1>1
  <2> QED BY <2>2, <1>7, <1>9
<1>11. R \in SUBSET Tasks
  OBVIOUS
<1> HIDE DEF R
<1>12. ByAge(R) = s
  BY <1>3, <1>9, <1>10, <1>11, AgeEqual
<1> QED BY <1>12 DEF s, R

\* The line of a wallet none of whose tasks moves stays.
LEMMA LineStays ==
  ASSUME NEW v,
         \A t \in Tasks : walletOf'[t] = v \/ walletOf[t] = v =>
            walletOf'[t] = walletOf[t] /\ phase'[t] = phase[t]
  PROVE  LineOf(v)' = LineOf(v) /\ ServedOf(v)' = ServedOf(v)
<1>1. LiveOf(v)' = LiveOf(v)
  BY DEF LiveOf, Live
<1>2. ServedOf(v)' = ServedOf(v)
  BY DEF ServedOf
<1> QED BY <1>1, <1>2 DEF LineOf

\* Before the first task every line is empty.
LEMMA LinesEmpty == QueueInit => Fifo!Init
<1> SUFFICES ASSUME QueueInit PROVE Fifo!Init
  OBVIOUS
<1>1. \A t \in Tasks : phase[t] = "absent"
  BY DEF QueueInit
<1>2. ByAge({}) = <<>>
  <2>1. Cardinality({}) = 0 /\ <<>> \in Seq({}) /\ Len(<<>>) = 0
    BY FS_EmptySet
  <2>2. {} \in SUBSET Tasks /\ \A i \in 1 .. 0 : FALSE
    OBVIOUS
  <2>3. \A i \in 1 .. 0 : <<>>[i] = CHOOSE t \in Ranked({}, i) : TRUE
    BY <2>2
  <2> QED BY <2>1, <2>2, <2>3, AgeEqual
<1>3. ASSUME NEW w \in Wallets PROVE LineOf(w) = <<>> /\ ServedOf(w) = FALSE
  <2>1. LiveOf(w) = {}
    BY <1>1 DEF LiveOf, Live
  <2>2. ~ServedOf(w)
    BY <1>1 DEF ServedOf
  <2> QED BY <1>2, <2>1, <2>2 DEF LineOf
<1> QED BY <1>3 DEF QueueInit, Fifo!Init

\* runQueued puts the new task at the end of the line.
LEMMA RunQueuedSubmits ==
  ASSUME QueueInv, NEW w \in Wallets, RunQueued(w)
  PROVE  Fifo!Submit(w)
<1> DEFINE n == nTasks + 1
<1>1. n \in Tasks /\ phase[n] = "absent" /\ walletOf[n] = NoWallet /\ nTasks < MaxTasks /\ nTasks' = n
  BY MaxTasksAssumption DEF QueueInv, QueueTypeOK, Created, RunQueued, Tasks
<1>2. /\ walletOf'[n] = w /\ phase'[n] = "chained"
      /\ \A t \in Tasks \ {n} : walletOf'[t] = walletOf[t] /\ phase'[t] = phase[t]
  BY <1>1 DEF QueueInv, QueueTypeOK, RunQueued
<1>3. ASSUME NEW v \in Wallets, v # w PROVE LineOf(v)' = LineOf(v) /\ ServedOf(v)' = ServedOf(v)
  <2>1. \A t \in Tasks : walletOf'[t] = v \/ walletOf[t] = v => t # n
    BY <1>1, <1>2, <1>3, NoWalletAssumption
  <2> QED BY <1>2, <2>1, LineStays
<1>4. LineOf(w)' = Append(LineOf(w), n)
  <2>1. LiveOf(w)' = LiveOf(w) \cup {n}
    BY <1>1, <1>2, NoWalletAssumption DEF LiveOf, Live
  <2>2. LiveOf(w) \in SUBSET Tasks
    BY DEF LiveOf
  <2>3. \A t \in LiveOf(w) : t < n
    BY <1>1, MaxTasksAssumption DEF LiveOf, Live, QueueInv, QueueTypeOK, Created, Tasks
  <2>4. ByAge(LiveOf(w) \cup {n}) = Append(ByAge(LiveOf(w)), n)
    BY <1>1, <2>2, <2>3, AgeAppend
  <2> QED BY <2>1, <2>4 DEF LineOf
<1>5. ServedOf(w)' = ServedOf(w)
  BY <1>1, <1>2, NoWalletAssumption DEF ServedOf
<1> HIDE DEF n
<1>6. nTasks + 1 = n
  BY DEF n
<1>7. [v \in Wallets |-> LineOf(v)]'
        = [[v \in Wallets |-> LineOf(v)] EXCEPT ![w] = Append(@, n)]
  BY <1>3, <1>4
<1>8. [v \in Wallets |-> ServedOf(v)]' = [v \in Wallets |-> ServedOf(v)]
  BY <1>3, <1>5, Zenon
<1> QED BY <1>1, <1>6, <1>7, <1>8 DEF Fifo!Submit

\* A task that starts is the head of a line that is not served.
LEMMA StartBegins ==
  ASSUME QueueInv, NEW s \in Tasks, Start(s)
  PROVE  walletOf[s] \in Wallets /\ Fifo!Begin(walletOf[s])
<1>1. /\ phase[s] = "chained" /\ phase'[s] = "running"
      /\ \A t \in Tasks \ {s} : phase'[t] = phase[t]
      /\ nTasks' = nTasks /\ walletOf' = walletOf
  BY DEF Start, QueueInv, QueueTypeOK
<1>2. PICK w \in Wallets : w = walletOf[s]
  BY <1>1, MaxTasksAssumption DEF QueueInv, QueueTypeOK, Created, Tasks
<1>3. ArrivalOrder'
  BY StartInv DEF QueueInv
<1>4. ~ServedOf(w)
  <2> SUFFICES ASSUME NEW t \in Tasks, walletOf[t] = w, phase[t] \in {"running", "settled"}
               PROVE  FALSE
    BY DEF ServedOf
  <2>1. t # s /\ t \in Int /\ s \in Int
    BY <1>1, MaxTasksAssumption DEF Tasks
  <2>2. CASE t < s
    BY <1>1, <1>2, <1>3, <2>1, <2>2 DEF ArrivalOrder
  <2>3. CASE s < t
    BY <1>1, <1>2, <2>3 DEF QueueInv, ArrivalOrder
  <2> QED BY <2>1, <2>2, <2>3
<1>5. ServedOf(w)'
  BY <1>1, <1>2 DEF ServedOf
<1>6. LineOf(w) # <<>>
  <2>1. s \in LiveOf(w) /\ LiveOf(w) \in SUBSET Tasks
    BY <1>1, <1>2 DEF LiveOf, Live
  <2>2. Cardinality(LiveOf(w)) # 0 /\ Len(ByAge(LiveOf(w))) = Cardinality(LiveOf(w))
    BY <2>1, AgeSequence, FS_EmptySet
  <2>3. Len(<<>>) = 0
    OBVIOUS
  <2> QED BY <2>2, <2>3 DEF LineOf
<1>7. ASSUME NEW v \in Wallets PROVE LineOf(v)' = LineOf(v)
  <2>1. LiveOf(v)' = LiveOf(v)
    BY <1>1 DEF LiveOf, Live
  <2> QED BY <2>1 DEF LineOf
<1>8. ASSUME NEW v \in Wallets, v # w PROVE ServedOf(v)' = ServedOf(v)
  BY <1>1, <1>2, <1>8 DEF ServedOf
<1>9. ServedOf(w)' = TRUE
  BY <1>5
<1>10. [v \in Wallets |-> ServedOf(v)]' = [[v \in Wallets |-> ServedOf(v)] EXCEPT ![w] = TRUE]
  BY <1>8, <1>9
<1>11. [v \in Wallets |-> LineOf(v)]' = [v \in Wallets |-> LineOf(v)]
  BY <1>7
<1>12. Fifo!Begin(w)
  BY <1>1, <1>2, <1>4, <1>6, <1>10, <1>11 DEF Fifo!Begin
<1> QED BY <1>2, <1>12

\* The result of a task changes nothing for the line.
LEMMA SettleStutters ==
  ASSUME QueueInv, NEW s \in Tasks, Settle(s)
  PROVE  UNCHANGED Fifo!vars
<1>1. /\ phase[s] = "running" /\ phase'[s] = "settled"
      /\ \A t \in Tasks \ {s} : phase'[t] = phase[t]
      /\ nTasks' = nTasks /\ walletOf' = walletOf
  BY DEF Settle, QueueInv, QueueTypeOK
<1>2. ASSUME NEW v \in Wallets PROVE LineOf(v)' = LineOf(v) /\ ServedOf(v)' = ServedOf(v)
  <2>1. LiveOf(v)' = LiveOf(v)
    BY <1>1 DEF LiveOf, Live
  <2>2. ServedOf(v)' = ServedOf(v)
    BY <1>1 DEF ServedOf
  <2> QED BY <2>1, <2>2 DEF LineOf
<1>3. [v \in Wallets |-> LineOf(v)]' = [v \in Wallets |-> LineOf(v)]
  BY <1>2
<1>4. [v \in Wallets |-> ServedOf(v)]' = [v \in Wallets |-> ServedOf(v)]
  BY <1>2
<1> QED BY <1>1, <1>3, <1>4 DEF Fifo!vars

\* A task that completes is the oldest of its wallet, and no other is under way.
LEMMA CleanupFinishes ==
  ASSUME QueueInv, NEW s \in Tasks, Cleanup(s)
  PROVE  walletOf[s] \in Wallets /\ Fifo!Finish(walletOf[s])
<1>1. /\ phase[s] = "settled" /\ phase'[s] = "done"
      /\ \A t \in Tasks \ {s} : phase'[t] = phase[t]
      /\ nTasks' = nTasks /\ walletOf' = walletOf
  BY DEF Cleanup, QueueInv, QueueTypeOK
<1>2. PICK w \in Wallets : w = walletOf[s]
  BY <1>1, MaxTasksAssumption DEF QueueInv, QueueTypeOK, Created, Tasks
<1>3. \A t \in Tasks : walletOf[t] = w /\ t < s => phase[t] = "done"
  BY <1>1, <1>2 DEF QueueInv, ArrivalOrder
<1>4. \A t \in Tasks : walletOf[t] = w /\ s < t => phase[t] \notin {"running", "settled"}
  BY <1>1, <1>2 DEF QueueInv, ArrivalOrder
<1>5. \A t \in Tasks : t < s \/ t = s \/ s < t
  BY MaxTasksAssumption DEF Tasks
<1>6. ServedOf(w)
  BY <1>1, <1>2 DEF ServedOf
<1>7. ~ServedOf(w)'
  BY <1>1, <1>3, <1>4, <1>5 DEF ServedOf
<1>8. LineOf(w)' = Tail(LineOf(w))
  <2>1. LiveOf(w) \in SUBSET Tasks /\ s \in LiveOf(w) /\ LiveOf(w)' = LiveOf(w) \ {s}
    BY <1>1, <1>2 DEF LiveOf, Live
  <2>2. \A t \in LiveOf(w) : s <= t
    BY <1>3, MaxTasksAssumption DEF LiveOf, Live, Tasks
  <2>3. ByAge(LiveOf(w) \ {s}) = Tail(ByAge(LiveOf(w)))
    BY <2>1, <2>2, AgeTail
  <2> QED BY <2>1, <2>3 DEF LineOf
<1>9. ASSUME NEW v \in Wallets, v # w PROVE LineOf(v)' = LineOf(v) /\ ServedOf(v)' = ServedOf(v)
  <2>1. \A t \in Tasks : walletOf'[t] = v \/ walletOf[t] = v => t # s
    BY <1>1, <1>2, <1>9
  <2> QED BY <1>1, <2>1, LineStays
<1>10. ServedOf(w)' = FALSE
  BY <1>7
<1>11. [v \in Wallets |-> ServedOf(v)]' = [[v \in Wallets |-> ServedOf(v)] EXCEPT ![w] = FALSE]
  BY <1>9, <1>10
<1>12. [v \in Wallets |-> LineOf(v)]' = [[v \in Wallets |-> LineOf(v)] EXCEPT ![w] = Tail(@)]
  BY <1>8, <1>9
<1>13. Fifo!Finish(w)
  BY <1>1, <1>2, <1>6, <1>11, <1>12 DEF Fifo!Finish
<1> QED BY <1>2, <1>13

\* Every step of the chain is a step of the line, or one it does not see.
LEMMA NextIsLine == QueueInv /\ [QueueNext]_queueVars => [Fifo!Next]_Fifo!vars
<1> SUFFICES ASSUME QueueInv, [QueueNext]_queueVars PROVE [Fifo!Next]_Fifo!vars
  OBVIOUS
<1>1. CASE UNCHANGED queueVars
  <2>1. \A v \in Wallets : LineOf(v)' = LineOf(v) /\ ServedOf(v)' = ServedOf(v)
    BY <1>1, LineStays DEF queueVars
  <2>2. nTasks' = nTasks
    BY <1>1 DEF queueVars
  <2>3. [v \in Wallets |-> LineOf(v)]' = [v \in Wallets |-> LineOf(v)]
    BY <2>1
  <2>4. [v \in Wallets |-> ServedOf(v)]' = [v \in Wallets |-> ServedOf(v)]
    BY <2>1
  <2> QED BY <2>2, <2>3, <2>4 DEF Fifo!vars
<1>2. ASSUME NEW w \in Wallets, RunQueued(w) PROVE Fifo!Next
  BY <1>2, RunQueuedSubmits DEF Fifo!Next
<1>3. ASSUME NEW t \in Tasks, Start(t) PROVE Fifo!Next
  BY <1>3, StartBegins DEF Fifo!Next
<1>4. ASSUME NEW t \in Tasks, Settle(t) PROVE UNCHANGED Fifo!vars
  BY <1>4, SettleStutters
<1>5. ASSUME NEW t \in Tasks, Cleanup(t) PROVE Fifo!Next
  BY <1>5, CleanupFinishes DEF Fifo!Next
<1> QED BY <1>1, <1>2, <1>3, <1>4, <1>5 DEF QueueNext

\* The promise chain of runQueued implements a first-in first-out line per
\* wallet: the only task served is the oldest, and wallets do not wait for each
\* other.  (That every task is served in the end is checked by TLC.)
THEOREM ChainIsLine == QueueSpec => ImplementsLine
  BY LinesEmpty, NextIsLine, QueueInitInv, QueueNextInv, PTL DEF QueueSpec, ImplementsLine

-----------------------------------------------------------------------------
(***************************************************************************)
(* NodeStateManager, for every set of wallets and of balances, and for     *)
(* every order of calls: what the main isolate shows does not depend on    *)
(* the sync isolate's messages coming in a sensible order.                 *)
(***************************************************************************)

\* A wallet that is not registered has the info every method would create for
\* it; with CompletedIsIdle alone, registering one could bring in a queue flag.
UnregisteredIsFresh == \A w \in Wallets : w \notin registered => walletInfo[w] = FreshInfo

NodeInv == NodeTypeOK /\ UnregisteredIsFresh /\ CompletedIsIdle

LEMMA FreshInfoType == FreshInfo \in WalletUpdateInfos
  BY DEF FreshInfo, WalletUpdateInfos, AllElements, WalletSyncStates

LEMMA QueueStateInfoType ==
  ASSUME NEW p \in WalletUpdateInfos, NEW q \in BOOLEAN, NEW b \in Balances \cup {NoBalance}
  PROVE  /\ QueueStateInfo(p, q, b) \in WalletUpdateInfos
         /\ QueueStateInfo(p, q, b).isSyncQueued = q
         /\ p.balanceSnapshot # NoBalance => QueueStateInfo(p, q, b).balanceSnapshot # NoBalance
<1> DEFINE els == IF ~q /\ b # NoBalance THEN AllElements("completed")
                  ELSE IF q THEN p.elements
                  ELSE [p.elements EXCEPT !["balance"] = "waiting"]
           snap == IF b = NoBalance \/ (q /\ p.balanceSnapshot # NoBalance)
                   THEN p.balanceSnapshot ELSE b
<1>1. els \in [UpdateElements -> WalletSyncStates]
  <2>1. AllElements("completed") \in [UpdateElements -> WalletSyncStates]
    BY DEF AllElements, WalletSyncStates
  <2>2. p.elements \in [UpdateElements -> WalletSyncStates]
    BY DEF WalletUpdateInfos
  <2>3. [p.elements EXCEPT !["balance"] = "waiting"] \in [UpdateElements -> WalletSyncStates]
    BY <2>2 DEF WalletSyncStates
  <2> QED
    BY <2>1, <2>2, <2>3
<1>2. /\ snap \in Balances \cup {NoBalance}
      /\ p.balanceSnapshot # NoBalance => snap # NoBalance
  BY DEF WalletUpdateInfos
<1>3. QueueStateInfo(p, q, b) = [elements |-> els, isSyncQueued |-> q, balanceSnapshot |-> snap]
  BY DEF QueueStateInfo
<1> HIDE DEF els, snap
<1> QED
  BY <1>1, <1>2, <1>3 DEF WalletUpdateInfos

\* Registering a wallet with a well-typed info touches no other wallet.
LEMMA RegisterEffect ==
  ASSUME NodeTypeOK, UnregisteredIsFresh,
         NEW w \in Wallets, NEW info \in WalletUpdateInfos, Register(w, info)
  PROVE  /\ registered' \in SUBSET Wallets /\ registered' = registered \cup {w}
         /\ walletInfo' \in [Wallets -> WalletUpdateInfos]
         /\ walletInfo'[w] = info
         /\ \A v \in Wallets \ {w} : walletInfo'[v] = walletInfo[v]
         /\ UnregisteredIsFresh'
  BY DEF NodeTypeOK, UnregisteredIsFresh, Register

\* The flag and the snapshot of a wallet before a step that changes its elements.
LEMMA ElementsUpdate ==
  ASSUME NEW p \in WalletUpdateInfos, NEW els \in [UpdateElements -> WalletSyncStates]
  PROVE  /\ [p EXCEPT !.elements = els] \in WalletUpdateInfos
         /\ [p EXCEPT !.elements = els].isSyncQueued = p.isSyncQueued
         /\ [p EXCEPT !.elements = els].balanceSnapshot = p.balanceSnapshot
  BY DEF WalletUpdateInfos

\* What every registered wallet that is not queued stays like.
LEMMA IdleWallet ==
  ASSUME NodeInv, nodeSyncState = "completed", NEW w \in Wallets
  PROVE  walletInfo[w].isSyncQueued = FALSE
  BY DEF NodeInv, NodeTypeOK, UnregisteredIsFresh, CompletedIsIdle, FreshInfo, WalletUpdateInfos
-----------------------------------------------------------------------------
LEMMA NodeInitInv == NodeInit => NodeInv
  BY FreshInfoType
  DEF NodeInit, NodeInv, NodeTypeOK, UnregisteredIsFresh, CompletedIsIdle, NodeSyncStates

\* A step that only changes the elements of a wallet keeps the invariant, if the
\* node becomes completed only with every wallet idle.
LEMMA ElementsStep ==
  ASSUME NodeInv, NEW w \in Wallets, NEW els \in [UpdateElements -> WalletSyncStates],
         Register(w, [walletInfo[w] EXCEPT !.elements = els]),
         nodeSyncState' \in NodeSyncStates,
         nodeSyncState' = "completed" =>
             nodeSyncState = "completed" \/ IsAllWalletsCompleted(registered', walletInfo')
  PROVE  NodeInv' /\ \A v \in Wallets : walletInfo'[v].balanceSnapshot = walletInfo[v].balanceSnapshot
<1> DEFINE info == [walletInfo[w] EXCEPT !.elements = els]
<1>1. walletInfo[w] \in WalletUpdateInfos
  BY DEF NodeInv, NodeTypeOK
<1>2. /\ info \in WalletUpdateInfos
      /\ info.isSyncQueued = walletInfo[w].isSyncQueued
      /\ info.balanceSnapshot = walletInfo[w].balanceSnapshot
  BY <1>1, ElementsUpdate
<1> HIDE DEF info
<1>3. Register(w, info)
  BY DEF info
<1>4. /\ registered' \in SUBSET Wallets
      /\ walletInfo' \in [Wallets -> WalletUpdateInfos]
      /\ walletInfo'[w] = info
      /\ \A v \in Wallets \ {w} : walletInfo'[v] = walletInfo[v]
      /\ UnregisteredIsFresh'
  BY <1>2, <1>3, RegisterEffect DEF NodeInv
<1>5. CompletedIsIdle'
  <2>1. CASE nodeSyncState = "completed"
    BY <2>1, <1>2, <1>4, IdleWallet DEF CompletedIsIdle
  <2>2. CASE nodeSyncState' = "completed" /\ IsAllWalletsCompleted(registered', walletInfo')
    BY <2>2 DEF CompletedIsIdle, IsAllWalletsCompleted
  <2> QED
    BY <2>1, <2>2 DEF CompletedIsIdle
<1> QED
  BY <1>2, <1>4, <1>5 DEF NodeInv, NodeTypeOK

\* What a step guarantees on top of the invariant: SnapshotNeverLost and
\* CompletedOnlyWithAll, as relations on two states.
KeepsSnapshots ==
    \A w \in Wallets :
        (walletInfo[w].balanceSnapshot # NoBalance /\ w \in registered')
            => walletInfo'[w].balanceSnapshot # NoBalance

CompletesAll ==
    (nodeSyncState # "completed" /\ nodeSyncState' = "completed")
        => \A w \in registered' : \A e \in UpdateElements : walletInfo'[w].elements[e] = "completed"

LEMMA QueueStateStep ==
  ASSUME NodeInv, NEW w \in Wallets, NEW q \in BOOLEAN, NEW b \in Balances \cup {NoBalance},
         SetWalletSyncQueueState(w, q, b)
  PROVE  NodeInv' /\ KeepsSnapshots /\ CompletesAll
<1> DEFINE info == QueueStateInfo(walletInfo[w], q, b)
<1>1. walletInfo[w] \in WalletUpdateInfos
  BY DEF NodeInv, NodeTypeOK
<1>2. /\ info \in WalletUpdateInfos
      /\ walletInfo[w].balanceSnapshot # NoBalance => info.balanceSnapshot # NoBalance
  BY <1>1, QueueStateInfoType
<1> HIDE DEF info
<1>3. Register(w, info)
  BY DEF info, SetWalletSyncQueueState
<1>4. /\ registered' \in SUBSET Wallets
      /\ walletInfo' \in [Wallets -> WalletUpdateInfos]
      /\ walletInfo'[w] = info
      /\ \A v \in Wallets \ {w} : walletInfo'[v] = walletInfo[v]
      /\ UnregisteredIsFresh'
  BY <1>2, <1>3, RegisterEffect DEF NodeInv
<1>5. /\ nodeSyncState' \in NodeSyncStates
      /\ nodeSyncState' = "completed" => IsAllWalletsCompleted(registered', walletInfo')
  BY DEF SetWalletSyncQueueState, NodeSyncStates
<1>6. CompletedIsIdle' /\ CompletesAll
  BY <1>5 DEF CompletedIsIdle, CompletesAll, IsAllWalletsCompleted
<1>7. KeepsSnapshots
  BY <1>2, <1>4 DEF KeepsSnapshots
<1> QED
  BY <1>4, <1>5, <1>6, <1>7 DEF NodeInv, NodeTypeOK

\* One case per method.
LEMMA NodeStep ==
  ASSUME NodeInv, [NodeNext]_nodeVars
  PROVE  NodeInv' /\ KeepsSnapshots /\ CompletesAll
<1> DEFINE Els == [UpdateElements -> WalletSyncStates]
<1>0. \A w \in Wallets : walletInfo[w] \in WalletUpdateInfos /\ walletInfo[w].elements \in Els
  BY DEF NodeInv, NodeTypeOK, WalletUpdateInfos
<1>a. \A s \in WalletSyncStates : AllElements(s) \in Els
  BY DEF AllElements
<1>b. nodeSyncState \in NodeSyncStates
  BY DEF NodeInv, NodeTypeOK
<1>1. ASSUME NEW w \in Wallets, InitWalletUpdateStatus(w)
      PROVE  NodeInv' /\ KeepsSnapshots /\ CompletesAll
  <2>1. AllElements("waiting") \in Els
    BY <1>a DEF WalletSyncStates
  <2> QED
    BY <1>1, <1>b, <2>1, ElementsStep DEF InitWalletUpdateStatus, KeepsSnapshots, CompletesAll
<1>2. ASSUME NEW w \in Wallets, AddWalletCompletedAllStates(w)
      PROVE  NodeInv' /\ KeepsSnapshots /\ CompletesAll
  <2>1. AllElements("completed") \in Els
    BY <1>a DEF WalletSyncStates
  <2>2. /\ nodeSyncState' \in NodeSyncStates
        /\ nodeSyncState' = "completed" =>
             nodeSyncState = "completed" \/ IsAllWalletsCompleted(registered', walletInfo')
    BY <1>2, <1>b DEF AddWalletCompletedAllStates, CompleteIfLast, NodeSyncStates
  <2>3. NodeInv' /\ \A v \in Wallets : walletInfo'[v].balanceSnapshot = walletInfo[v].balanceSnapshot
    BY <1>2, <2>1, <2>2, ElementsStep DEF AddWalletCompletedAllStates
  <2> QED
    BY <2>2, <2>3 DEF KeepsSnapshots, CompletesAll, IsAllWalletsCompleted
<1>3. ASSUME NEW w \in Wallets, UnregisterWalletUpdateState(w)
      PROVE  NodeInv' /\ KeepsSnapshots /\ CompletesAll
  BY <1>3, FreshInfoType
  DEF UnregisterWalletUpdateState, NodeInv, NodeTypeOK, UnregisteredIsFresh, CompletedIsIdle,
      KeepsSnapshots, CompletesAll
<1>4. ASSUME NEW w \in Wallets, NEW e \in UpdateElements, AddWalletSyncState(w, e)
      PROVE  NodeInv' /\ KeepsSnapshots /\ CompletesAll
  <2> DEFINE els == [walletInfo[w].elements EXCEPT ![e] = "syncing"]
  <2>1. els \in Els
    BY <1>0 DEF WalletSyncStates
  <2>2. Register(w, [walletInfo[w] EXCEPT !.elements = els]) /\ nodeSyncState' = "syncing"
    BY <1>0, <1>4 DEF AddWalletSyncState
  <2> HIDE DEF els
  <2>3. NodeInv' /\ \A v \in Wallets : walletInfo'[v].balanceSnapshot = walletInfo[v].balanceSnapshot
    BY <2>1, <2>2, ElementsStep DEF NodeSyncStates
  <2> QED
    BY <2>2, <2>3 DEF KeepsSnapshots, CompletesAll
<1>5. ASSUME NEW w \in Wallets, NEW e \in UpdateElements, AddWalletCompletedState(w, e)
      PROVE  NodeInv' /\ KeepsSnapshots /\ CompletesAll
  <2> DEFINE els == [walletInfo[w].elements EXCEPT ![e] = "completed"]
  <2>1. CASE w \in registered
    <3>1. els \in Els
      BY <1>0 DEF WalletSyncStates
    <3>2. Register(w, [walletInfo[w] EXCEPT !.elements = els]) /\ CompleteIfLast
      BY <1>0, <1>5, <2>1 DEF AddWalletCompletedState
    <3> HIDE DEF els
    <3>3. /\ nodeSyncState' \in NodeSyncStates
          /\ nodeSyncState' = "completed" =>
               nodeSyncState = "completed" \/ IsAllWalletsCompleted(registered', walletInfo')
      BY <3>2, <1>b DEF CompleteIfLast, NodeSyncStates
    <3>4. NodeInv' /\ \A v \in Wallets : walletInfo'[v].balanceSnapshot = walletInfo[v].balanceSnapshot
      BY <3>1, <3>2, <3>3, ElementsStep
    <3> QED
      BY <3>3, <3>4 DEF KeepsSnapshots, CompletesAll, IsAllWalletsCompleted
  <2>2. CASE w \notin registered
    BY <1>5, <2>2
    DEF AddWalletCompletedState, nodeVars, NodeInv, NodeTypeOK, UnregisteredIsFresh,
        CompletedIsIdle, KeepsSnapshots, CompletesAll
  <2> QED
    BY <2>1, <2>2
<1>6. ASSUME NEW w \in Wallets, NEW q \in BOOLEAN, NEW b \in Balances \cup {NoBalance},
             SetWalletSyncQueueState(w, q, b)
      PROVE  NodeInv' /\ KeepsSnapshots /\ CompletesAll
  BY <1>6, QueueStateStep
<1>7. CASE SetNodeSyncStateToSyncing \/ SetNodeSyncStateToCompleted \/ SetNodeSyncStateToFailed
  BY <1>7
  DEF SetNodeSyncStateToSyncing, SetNodeSyncStateToCompleted, SetNodeSyncStateToFailed, NodeInv,
      NodeTypeOK, NodeSyncStates, UnregisteredIsFresh, CompletedIsIdle, IsAllWalletsCompleted,
      KeepsSnapshots, CompletesAll
<1>8. CASE UNCHANGED nodeVars
  BY <1>8
  DEF nodeVars, NodeInv, NodeTypeOK, UnregisteredIsFresh, CompletedIsIdle, KeepsSnapshots,
      CompletesAll
<1> QED
  BY <1>1, <1>2, <1>3, <1>4, <1>5, <1>6, <1>7, <1>8 DEF NodeNext
-----------------------------------------------------------------------------
\* The inductive invariant holds in every behaviour of the manager.
THEOREM NodeInvariant == NodeSpec => []NodeInv
<1>1. NodeInit => NodeInv
  BY NodeInitInv
<1>2. NodeInv /\ [NodeNext]_nodeVars => NodeInv'
  BY NodeStep
<1> QED
  BY <1>1, <1>2, PTL DEF NodeSpec

\* The node is never shown as completed while a registered wallet has queued
\* work, for any number of wallets and any order of calls
\* (isAllWalletsCompleted, setWalletSyncQueueState).
THEOREM CompletedNodeIsIdle == NodeSpec => []CompletedIsIdle
<1>1. NodeInv => CompletedIsIdle
  BY DEF NodeInv
<1> QED
  BY <1>1, NodeInvariant, PTL

\* A published balance is never taken back while the wallet exists
\* (WalletUpdateInfo.fromExisting, setWalletSyncQueueState).
THEOREM SnapshotKept == NodeSpec => SnapshotNeverLost
<1>1. NodeInv /\ [NodeNext]_nodeVars => [KeepsSnapshots]_nodeVars
  BY NodeStep
<1> QED
  BY <1>1, NodeInvariant, PTL DEF NodeSpec, SnapshotNeverLost, KeepsSnapshots

\* The node becomes completed only together with every registered wallet.
THEOREM CompletedTogether == NodeSpec => CompletedOnlyWithAll
<1>1. NodeInv /\ [NodeNext]_nodeVars => [CompletesAll]_nodeVars
  BY NodeStep
<1> QED
  BY <1>1, NodeInvariant, PTL DEF NodeSpec, CompletedOnlyWithAll, CompletesAll
=============================================================================
