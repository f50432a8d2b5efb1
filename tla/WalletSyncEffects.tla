------------------------- MODULE WalletSyncEffects -------------------------
(***************************************************************************)
(* What a step of WalletSync may do to the queues, to the message port, to *)
(* the failure marks and to the task that makes it, for every set of       *)
(* wallets and scripts and every bound.  WalletSyncProofs builds the       *)
(* invariants of the composed system on it.                                *)
(***************************************************************************)
EXTENDS WalletSync, SyncComponentProofs, SequenceTheorems, FiniteSetTheorems, WellFoundedInduction

Kinds == {"none", "subscribe", "event", "dormant", "reset"}

\* The places of a subscription, and all.
SubscribePcs == {"new", "scan", "compare", "b.balance", "b.tx", "b.unsub", "b.utxo", "save", "end"}
Pcs == SubscribePcs \cup {"none", "delay", "extended", "failed", "e.balance", "e.tx", "e.utxo", "e.unsub",
                          "e.cospent", "e.counsub", "d.balance", "d.next", "d.sub", "reset"}

\* The scripts of a batch with their statuses.
Batches == UNION {[S -> Versions \cup {Alias}] : S \in SUBSET Scripts}
Statuses == UNION {[S -> Versions] : S \in SUBSET Scripts}

JobType == [kind : Kinds, script : Scripts \cup {0}, copy : Tasks \cup {NoCopy}, retry : BOOLEAN,
            pc : Pcs, batch : Batches, again : Statuses, todo : SUBSET Scripts,
            co : SUBSET Scripts, peer : Scripts \cup {0}, ok : BOOLEAN]

\* A job has a copy of the walletItem, the places of its kind, and a script
\* wherever _processScriptStatus may be running.
Sensible(j) ==
    /\ j.kind = "none" \/ j.copy \in Tasks
    /\ j.kind = "none" => j.pc = "none"
    /\ j.kind = "subscribe" => j.pc \in SubscribePcs
    /\ j.kind = "reset" => j.pc \in {"new", "reset", "end"}
    /\ j.kind = "event" /\ j.pc # "end" => j.script \in Scripts
    /\ j.kind = "dormant" => j.script \in Scripts \/ j.pc \in {"new", "d.balance", "d.next", "end"}

\* The messages on the port to the main isolate.
Msgs ==
    [method : {"initWalletUpdateStatus", "addWalletCompletedAllStates"}, wallet : Wallets]
    \cup [method : {"addWalletSyncState", "addWalletCompletedState"}, wallet : Wallets,
          element : UpdateElements]
    \cup [method : {"setWalletSyncQueueState"}, wallet : Wallets, queued : BOOLEAN,
          snapshot : Balances \cup {NoBalance}]
    \cup [method : {"setNodeSyncStateToSyncing", "setNodeSyncStateToCompleted",
                    "setNodeSyncStateToFailed"}]
    \cup [method : {"resyncResult"}, ok : BOOLEAN]

IsoType == [known : SUBSET Wallets,
            info : [Wallets -> [UpdateElements -> WalletSyncStates]],
            counter : [Wallets -> [UpdateElements -> Int]],
            out : Seq(Msgs)]

DataTyped ==
    /\ {server, stored, saved} \subseteq [Wallets -> [Scripts -> Versions]]
    /\ used \in [Wallets -> SUBSET Scripts] /\ srvSub \in [Wallets -> SUBSET Scripts]
    /\ notif \in [Wallets -> [Scripts -> Seq(Versions)]]
    /\ cb \in [Wallets -> [Scripts -> Tasks \cup {NoCopy}]]
    /\ status \in [Tasks -> [Scripts -> Versions]]
    /\ inMap \in [Tasks -> SUBSET Scripts]
    /\ idx \in [Tasks -> Scripts \cup {0}]
    /\ mainIdx \in [Wallets -> Scripts \cup {0}]

ControlTyped ==
    /\ NodeTypeOK
    /\ job \in [Tasks -> JobType]
    /\ iso \in IsoType
    /\ failedWallets \in SUBSET Wallets
    /\ failedScripts \in [Wallets -> SUBSET Scripts]
    /\ failedBalances \in [Wallets -> SUBSET Scripts]

LoopType == [todo : SUBSET Wallets, task : Tasks \cup {NoTask}, awaited : BOOLEAN]
ResyncType == [task : Tasks \cup {NoTask}, stage : {"idle", "wiping", "scanning", "ended"},
               outcome : {"none", "waiting", "success", "failure", "connectionError"}]

\* Live tasks have a job; so has the task a resync waits for.
Jobs ==
    /\ \A t \in Tasks : Sensible(job[t])
    /\ \A t \in Tasks : Live(t) => job[t].kind # "none"
    /\ loop \in LoopType /\ resync \in ResyncType
    /\ resync.stage \in {"wiping", "scanning"} =>
         resync.task \in Tasks /\ walletOf[resync.task] \in Wallets /\ job[resync.task].kind # "none"

Typed == QueueInv /\ ControlTyped /\ DataTyped /\ Jobs
-----------------------------------------------------------------------------
\* x announces the start or the end of the queue of w.
OfQueue(x, w) == x.method = "setWalletSyncQueueState" /\ x.wallet = w

\* x may complete the balance of w.
Completing(x, w) ==
    x.method \in {"addWalletCompletedState", "addWalletCompletedAllStates"} /\ x.wallet = w

\* The last announcement about w on the port is message i.
LastOfQueue(i, w) ==
    /\ i \in 1 .. Len(iso.out) /\ OfQueue(iso.out[i], w)
    /\ \A j \in 1 .. Len(iso.out) : OfQueue(iso.out[j], w) => j <= i

Unannounced(w) == \A i \in 1 .. Len(iso.out) : ~OfQueue(iso.out[i], w)

\* The last announcement, or the state of the main isolate, says whether w has tasks.
FlagOf(w) ==
    /\ Unannounced(w) => (walletInfo[w].isSyncQueued <=> tail[w] # NoTask)
    /\ \A i \in Nat : LastOfQueue(i, w) => (iso.out[i].queued <=> tail[w] # NoTask)

FlagAgrees == \A w \in Wallets : FlagOf(w)

Failing(w) == tail[w] = NoTask /\ failedScripts[w] \cup failedBalances[w] # {}

\* The end of a queue with failures was announced without a balance, and nothing
\* that was sent since completes the wallet.
ToldOf(w) ==
    Failing(w) =>
        /\ Unannounced(w) =>
             /\ w \in registered /\ walletInfo[w].elements["balance"] # "completed"
             /\ nodeSyncState # "completed"
             /\ \A j \in 1 .. Len(iso.out) : ~Completing(iso.out[j], w)
        /\ \A i \in Nat : LastOfQueue(i, w) =>
             /\ iso.out[i].snapshot = NoBalance
             /\ \A j \in i .. Len(iso.out) : ~Completing(iso.out[j], w)

FailureTold == \A w \in Wallets : ToldOf(w)

\* The end of a queue was announced with the balance of the database, which
\* nothing has written since, or nothing sent since completes the wallet.
PublishedOf(w) ==
    tail[w] = NoTask =>
        /\ Unannounced(w) =>
             \/ walletInfo[w].balanceSnapshot = WalletBalance(w)
             \/ /\ walletInfo[w].elements["balance"] # "completed"
                /\ \A j \in 1 .. Len(iso.out) : ~Completing(iso.out[j], w)
        /\ \A i \in Nat : LastOfQueue(i, w) =>
             \/ iso.out[i].snapshot = WalletBalance(w)
             \/ /\ iso.out[i].snapshot = NoBalance
                /\ \A j \in i .. Len(iso.out) : ~Completing(iso.out[j], w)

BalanceTold == \A w \in Wallets : PublishedOf(w)

\* The scripts that failed are in the batch of a running subscription until they
\* are synchronised.
Retried(t) ==
    LET F == failedScripts[walletOf[t]]  j == job[t] IN
    phase[t] = "running" /\ j.kind = "subscribe" =>
        /\ j.pc = "compare" => F \subseteq DOMAIN j.batch
        /\ j.pc \in {"b.balance", "b.tx", "b.unsub", "b.utxo"} => F \subseteq Batch(t)
        /\ j.pc = "save" => F = {}
        /\ j.pc = "end" /\ j.ok => F = {}

RetriesKept == \A t \in Tasks : Retried(t)
-----------------------------------------------------------------------------
(* The state manager of the isolate. *)

\* From m to n the isolate has sent messages that announce no queue, and
\* complete no wallet outside S.
Grows(m, n, S) ==
    /\ n \in IsoType
    /\ Len(m.out) <= Len(n.out)
    /\ \A i \in 1 .. Len(m.out) : n.out[i] = m.out[i]
    /\ \A i \in 1 .. Len(n.out) : i > Len(m.out) =>
         \A w \in Wallets : ~OfQueue(n.out[i], w) /\ (Completing(n.out[i], w) => w \in S)

\* The messages the isolate sends are messages of the port.
LEMMA MsgsKnown ==
  /\ \A w \in Wallets : InitMsg(w) \in Msgs /\ CompletedAllMsg(w) \in Msgs
  /\ \A w \in Wallets, e \in UpdateElements : SyncMsg(w, e) \in Msgs /\ CompletedMsg(w, e) \in Msgs
  /\ \A w \in Wallets, q \in BOOLEAN, b \in Balances \cup {NoBalance} : QueueMsg(w, q, b) \in Msgs
  /\ NodeSyncingMsg \in Msgs /\ NodeCompletedMsg \in Msgs /\ NodeFailedMsg \in Msgs
  /\ \A ok \in BOOLEAN : ResultMsg(ok) \in Msgs
  BY DEF Msgs, InitMsg, CompletedAllMsg, SyncMsg, CompletedMsg, QueueMsg, NodeSyncingMsg,
         NodeCompletedMsg, NodeFailedMsg, ResultMsg

\* Which wallet a message is about.
LEMMA MsgsAbout ==
  ASSUME NEW w, NEW v
  PROVE  /\ ~OfQueue(InitMsg(v), w) /\ ~OfQueue(CompletedAllMsg(v), w)
         /\ \A e : ~OfQueue(SyncMsg(v, e), w) /\ ~OfQueue(CompletedMsg(v, e), w)
         /\ ~OfQueue(NodeSyncingMsg, w) /\ ~OfQueue(NodeCompletedMsg, w) /\ ~OfQueue(NodeFailedMsg, w)
         /\ \A ok : ~OfQueue(ResultMsg(ok), w) /\ ~Completing(ResultMsg(ok), w)
         /\ ~Completing(NodeSyncingMsg, w) /\ ~Completing(NodeCompletedMsg, w)
         /\ ~Completing(NodeFailedMsg, w) /\ ~Completing(InitMsg(v), w)
         /\ \A e : ~Completing(SyncMsg(v, e), w) /\ (Completing(CompletedMsg(v, e), w) => w = v)
         /\ Completing(CompletedAllMsg(v), w) => w = v
         /\ \A q, b : /\ OfQueue(QueueMsg(v, q, b), w) <=> v = w
                      /\ ~Completing(QueueMsg(v, q, b), w)
                      /\ QueueMsg(v, q, b).queued = q /\ QueueMsg(v, q, b).snapshot = b
  BY DEF OfQueue, Completing, InitMsg, CompletedAllMsg, SyncMsg, CompletedMsg, QueueMsg,
         NodeSyncingMsg, NodeCompletedMsg, NodeFailedMsg, ResultMsg

\* A message goes to the end of the port.
LEMMA SendParts ==
  ASSUME NEW m \in IsoType, NEW x \in Msgs
  PROVE  /\ Send(m, x) \in IsoType
         /\ Send(m, x).known = m.known /\ Send(m, x).info = m.info /\ Send(m, x).counter = m.counter
         /\ Len(m.out) \in Nat /\ Len(Send(m, x).out) = Len(m.out) + 1
         /\ \A i \in 1 .. Len(m.out) : Send(m, x).out[i] = m.out[i]
         /\ Send(m, x).out[Len(m.out) + 1] = x
<1>1. m.out \in Seq(Msgs) /\ Send(m, x) = [m EXCEPT !.out = Append(m.out, x)]
  BY DEF IsoType, Send
<1>2. /\ Append(m.out, x) \in Seq(Msgs) /\ Len(m.out) \in Nat
      /\ Len(Append(m.out, x)) = Len(m.out) + 1
      /\ \A i \in 1 .. Len(m.out) : Append(m.out, x)[i] = m.out[i]
      /\ Append(m.out, x)[Len(m.out) + 1] = x
  BY <1>1
<1>3. Send(m, x).out = Append(m.out, x)
  BY <1>1 DEF IsoType
<1>4. /\ Send(m, x) \in IsoType
      /\ Send(m, x).known = m.known /\ Send(m, x).info = m.info /\ Send(m, x).counter = m.counter
  BY <1>1, <1>2 DEF IsoType
<1> QED BY <1>2, <1>3, <1>4

\* A state manager that sends nothing grows by nothing.
LEMMA SameGrows ==
  ASSUME NEW m \in IsoType, NEW n \in IsoType, n.out = m.out, NEW S
  PROVE  Grows(m, n, S)
<1>1. m.out \in Seq(Msgs)
  BY DEF IsoType
<1>2. Len(m.out) \in Nat
  BY <1>1
<1> QED BY <1>2 DEF Grows

\* A message that announces no queue.
LEMMA SendGrows ==
  ASSUME NEW m \in IsoType, NEW x \in Msgs, NEW S,
         \A w \in Wallets : ~OfQueue(x, w) /\ (Completing(x, w) => w \in S)
  PROVE  Grows(m, Send(m, x), S) /\ Send(m, x) \in IsoType
  BY SendParts DEF Grows

\* Calls one after the other.
LEMMA GrowsOn ==
  ASSUME NEW l \in IsoType, NEW m, NEW n, NEW S, Grows(l, m, S), Grows(m, n, S)
  PROVE  Grows(l, n, S)
<1>1. l.out \in Seq(Msgs) /\ m.out \in Seq(Msgs) /\ n.out \in Seq(Msgs) /\ n \in IsoType
  BY DEF Grows, IsoType
<1>2. Len(l.out) \in Nat /\ Len(m.out) \in Nat /\ Len(n.out) \in Nat
  BY <1>1
<1>3. ASSUME NEW i \in 1 .. Len(n.out), i > Len(l.out), NEW w \in Wallets
      PROVE  ~OfQueue(n.out[i], w) /\ (Completing(n.out[i], w) => w \in S)
  <2>1. CASE i > Len(m.out)
    BY <2>1, <1>3 DEF Grows
  <2>2. CASE i \in 1 .. Len(m.out)
    BY <2>2, <1>3, <1>2 DEF Grows
  <2> QED BY <2>1, <2>2, <1>2
<1> QED BY <1>1, <1>2, <1>3 DEF Grows

\* A change of known, info or counter sends nothing.
LEMMA QuietGrows ==
  ASSUME NEW m \in IsoType, NEW k \in SUBSET Wallets,
         NEW f \in [Wallets -> [UpdateElements -> WalletSyncStates]],
         NEW c \in [Wallets -> [UpdateElements -> Int]], NEW S
  PROVE  LET n == [m EXCEPT !.known = k, !.info = f, !.counter = c] IN
         n \in IsoType /\ n.out = m.out /\ n.info = f /\ n.counter = c /\ n.known = k /\ Grows(m, n, S)
<1> DEFINE n == [m EXCEPT !.known = k, !.info = f, !.counter = c]
<1>1. n \in IsoType /\ n.out = m.out /\ n.info = f /\ n.counter = c /\ n.known = k
  BY DEF IsoType
<1> HIDE DEF n
<1>2. Grows(m, n, S)
  BY <1>1, SameGrows
<1> QED BY <1>1, <1>2 DEF n

\* initWalletUpdateStatus
LEMMA InitGrows ==
  ASSUME NEW m \in IsoType, NEW w \in Wallets, NEW S
  PROVE  Grows(m, IsoInitWalletUpdateStatus(m, w), S) /\ IsoInitWalletUpdateStatus(m, w) \in IsoType
<1> DEFINE f == [m.info EXCEPT ![w] = AllElements("waiting")]
           c == [m.counter EXCEPT ![w] = [e \in UpdateElements |-> 0]]
           n == [m EXCEPT !.known = m.known \cup {w}, !.info = f, !.counter = c]
<1>1. /\ m.known \cup {w} \in SUBSET Wallets /\ f \in [Wallets -> [UpdateElements -> WalletSyncStates]]
      /\ c \in [Wallets -> [UpdateElements -> Int]]
  BY DEF IsoType, AllElements, WalletSyncStates
<1>2. n \in IsoType /\ Grows(m, n, S)
  <2> HIDE DEF f, c
  <2> QED BY <1>1, QuietGrows
<1>3. [m EXCEPT !.known = @ \cup {w}, !.info[w] = AllElements("waiting"),
                !.counter[w] = [e \in UpdateElements |-> 0]] = n
  OBVIOUS
<1> HIDE DEF n
<1>4. IsoInitWalletUpdateStatus(m, w) = m \/ IsoInitWalletUpdateStatus(m, w) = Send(n, InitMsg(w))
  BY <1>3 DEF IsoInitWalletUpdateStatus
<1>5. Grows(n, Send(n, InitMsg(w)), S) /\ Send(n, InitMsg(w)) \in IsoType
  BY <1>2, SendGrows, MsgsKnown, MsgsAbout
<1>6. Grows(m, Send(n, InitMsg(w)), S)
  BY <1>2, <1>5, GrowsOn
<1> QED BY <1>4, <1>5, <1>6, SameGrows

\* addWalletSyncState
LEMMA SyncGrows ==
  ASSUME NEW m \in IsoType, NEW w \in Wallets, NEW e \in UpdateElements, NEW S
  PROVE  Grows(m, IsoAddWalletSyncState(m, w, e), S) /\ IsoAddWalletSyncState(m, w, e) \in IsoType
<1> DEFINE f == [m.info EXCEPT ![w] = [m.info[w] EXCEPT ![e] = "syncing"]]
           c == [m.counter EXCEPT ![w] = [m.counter[w] EXCEPT ![e] = m.counter[w][e] + 1]]
           n == [m EXCEPT !.known = m.known, !.info = f, !.counter = c]
<1>1. /\ m.known \in SUBSET Wallets /\ f \in [Wallets -> [UpdateElements -> WalletSyncStates]]
      /\ c \in [Wallets -> [UpdateElements -> Int]]
  BY DEF IsoType, WalletSyncStates
<1>2. n \in IsoType /\ Grows(m, n, S)
  <2> HIDE DEF f, c
  <2> QED BY <1>1, QuietGrows
<1>3. [IncrementCounter(m, w, e) EXCEPT !.info[w][e] = "syncing"] = n
  <2> DEFINE d == [m EXCEPT !.counter = c]
  <2>1. IncrementCounter(m, w, e) = d
    BY DEF IncrementCounter
  <2>2. d.info = m.info /\ n = [d EXCEPT !.info = f]
    <3> HIDE DEF c, f
    <3> QED BY DEF IsoType
  <2> HIDE DEF d, n
  <2>3. [d EXCEPT !.info[w][e] = "syncing"] = [d EXCEPT !.info = f]
    BY <2>2
  <2> QED BY <2>1, <2>2, <2>3
<1> HIDE DEF n
<1>4. \/ IsoAddWalletSyncState(m, w, e) = n
      \/ IsoAddWalletSyncState(m, w, e) = Send(n, SyncMsg(w, e))
  BY <1>3 DEF IsoAddWalletSyncState
<1>5. Grows(n, Send(n, SyncMsg(w, e)), S) /\ Send(n, SyncMsg(w, e)) \in IsoType
  BY <1>2, SendGrows, MsgsKnown, MsgsAbout
<1>6. Grows(m, Send(n, SyncMsg(w, e)), S)
  BY <1>2, <1>5, GrowsOn
<1> QED BY <1>2, <1>4, <1>5, <1>6

\* addWalletCompletedState may complete its wallet, and no other.
LEMMA CompletedGrows ==
  ASSUME NEW m \in IsoType, NEW w \in Wallets, NEW e \in UpdateElements
  PROVE  /\ Grows(m, IsoAddWalletCompletedState(m, w, e), {w})
         /\ IsoAddWalletCompletedState(m, w, e) \in IsoType
<1> DEFINE c == [m.counter EXCEPT ![w] = [m.counter[w] EXCEPT ![e] = m.counter[w][e] - 1]]
           f == [m.info EXCEPT ![w] = [m.info[w] EXCEPT ![e] = "completed"]]
           k == [m EXCEPT !.known = m.known, !.info = m.info, !.counter = c]
           n == [m EXCEPT !.known = m.known, !.info = f, !.counter = c]
           x == CompletedMsg(w, e)
<1>1. /\ m.known \in SUBSET Wallets /\ f \in [Wallets -> [UpdateElements -> WalletSyncStates]]
      /\ c \in [Wallets -> [UpdateElements -> Int]]
      /\ m.info \in [Wallets -> [UpdateElements -> WalletSyncStates]]
  BY DEF IsoType, WalletSyncStates
<1>2. n \in IsoType /\ Grows(m, n, {w}) /\ k \in IsoType /\ Grows(m, k, {w})
  <2> HIDE DEF f, c
  <2> QED BY <1>1, QuietGrows
<1>3. DecrementCounter(m, w, e) = k /\ [k EXCEPT !.info[w][e] = "completed"] = n
  BY DEF IsoType, DecrementCounter
<1> HIDE DEF n, k, x
<1>4. \/ IsoAddWalletCompletedState(m, w, e) = k
      \/ IsoAddWalletCompletedState(m, w, e) = Send(n, x)
  BY <1>3 DEF IsoAddWalletCompletedState, x
<1>5. x \in Msgs /\ \A v \in Wallets : ~OfQueue(x, v) /\ (Completing(x, v) => v \in {w})
  BY MsgsKnown, MsgsAbout DEF x
<1>6. Grows(n, Send(n, x), {w}) /\ Send(n, x) \in IsoType
  BY <1>2, <1>5, SendGrows
<1>7. Grows(m, Send(n, x), {w})
  BY <1>2, <1>6, GrowsOn
<1> QED BY <1>2, <1>4, <1>6, <1>7

\* The wallets of a list are reset and announced, none is completed.
LEMMA InitWalletsGrows ==
  ASSUME NEW m \in IsoType, NEW k \in Nat, NEW order \in [1 .. k -> Wallets], NEW S
  PROVE  Grows(m, InitWallets(m, order), S) /\ InitWallets(m, order) \in IsoType
<1> DEFINE f == [w \in Wallets |-> IF w \in Range(order) THEN AllElements("waiting") ELSE m.info[w]]
           c == [w \in Wallets |-> IF w \in Range(order) THEN [e \in UpdateElements |-> 0]
                                   ELSE m.counter[w]]
           q == [i \in 1 .. k |-> InitMsg(order[i])]
           o == m.out \o q
<1>1. Range(order) \subseteq Wallets
  BY DEF Range
<1>2. /\ m.known \cup Range(order) \in SUBSET Wallets
      /\ f \in [Wallets -> [UpdateElements -> WalletSyncStates]]
      /\ c \in [Wallets -> [UpdateElements -> Int]]
  BY <1>1 DEF IsoType, AllElements, WalletSyncStates
<1>3. /\ q \in Seq(Msgs) /\ Len(q) = k
      /\ \A i \in 1 .. k : q[i] = InitMsg(order[i])
  <2>1. \A i \in 1 .. k : InitMsg(order[i]) \in Msgs
    BY MsgsKnown
  <2> QED BY <2>1
<1>4. m.out \in Seq(Msgs) /\ Len(m.out) \in Nat
  BY DEF IsoType
<1>5. /\ o \in Seq(Msgs) /\ Len(o) = Len(m.out) + k
      /\ \A i \in 1 .. Len(o) : o[i] = IF i <= Len(m.out) THEN m.out[i] ELSE q[i - Len(m.out)]
  <2> HIDE DEF q
  <2>1. \A r, z \in Seq(Msgs) :
           /\ r \o z \in Seq(Msgs) /\ Len(r \o z) = Len(r) + Len(z)
           /\ \A i \in 1 .. Len(r) + Len(z) : (r \o z)[i] = IF i <= Len(r) THEN r[i] ELSE z[i - Len(r)]
    BY ConcatProperties
  <2>2. /\ o \in Seq(Msgs) /\ Len(o) = Len(m.out) + Len(q)
        /\ \A i \in 1 .. Len(m.out) + Len(q) :
             o[i] = IF i <= Len(m.out) THEN m.out[i] ELSE q[i - Len(m.out)]
    BY <1>3, <1>4, <2>1, Zenon
  <2> HIDE DEF o
  <2> QED BY <2>2, <1>3
<1>6. InitWallets(m, order) = [m EXCEPT !.known = m.known \cup Range(order), !.info = f,
                                        !.counter = c, !.out = o]
  BY DEF InitWallets, IsoType
<1>7. InitWallets(m, order) \in IsoType /\ InitWallets(m, order).out = o
  <2> HIDE DEF f, c, o
  <2> QED BY <1>2, <1>5, <1>6 DEF IsoType
<1>8. ASSUME NEW i \in 1 .. Len(o), i > Len(m.out), NEW w \in Wallets
      PROVE  ~OfQueue(o[i], w) /\ ~Completing(o[i], w)
  <2>1. o[i] = InitMsg(order[i - Len(m.out)])
    <3> HIDE DEF o, q
    <3>1. i - Len(m.out) \in 1 .. k
      BY <1>8, <1>4, <1>5
    <3> QED BY <3>1, <1>8, <1>5, <1>3, <1>4
  <2> QED BY <2>1, MsgsAbout
<1>9. \A i \in 1 .. Len(m.out) : o[i] = m.out[i]
  <2> HIDE DEF o, q
  <2> SUFFICES ASSUME NEW i \in 1 .. Len(m.out) PROVE o[i] = m.out[i]
    OBVIOUS
  <2>1. i \in 1 .. Len(o) /\ i <= Len(m.out)
    BY <1>4, <1>5
  <2> QED BY <2>1, <1>5
<1> HIDE DEF o
<1> QED BY <1>4, <1>5, <1>7, <1>8, <1>9 DEF Grows
-----------------------------------------------------------------------------
(* Address indices and balances. *)

\* A set of natural numbers has a least element.
LEMMA LeastOf ==
  ASSUME NEW S \in SUBSET Nat, S # {}
  PROVE  \E x \in S : \A y \in S : x <= y
<1> DEFINE R == OpToRel(<, Nat)
<1>1. IsWellFoundedOn(R, Nat)
  BY NatLessThanWellFounded
<1>2. PICK x \in S : \A y \in S : ~(<<y, x>> \in R)
  <2> HIDE DEF R
  <2> QED BY <1>1, WFMin
<1>3. \A y \in S : y < x => <<y, x>> \in R
  BY DEF OpToRel
<1> HIDE DEF R
<1>4. \A y \in S : ~(y < x)
  BY <1>2, <1>3
<1>5. \A y \in S : x <= y
  BY <1>4
<1> QED BY <1>5

\* The smallest and the largest of some scripts, or of scripts and an index.
LEMMA MinOf ==
  ASSUME NEW S \in SUBSET Scripts, S # {}
  PROVE  Min(S) \in S
<1>1. S \in SUBSET Nat
  BY ScriptsAssumption, FS_CardinalityType
<1>2. \E x \in S : \A y \in S : x =< y
  BY <1>1, LeastOf
<1> QED BY <1>2 DEF Min

\* The largest used index is one of them.
LEMMA MaxOf ==
  ASSUME NEW S \in SUBSET (Scripts \cup {0}), S # {}
  PROVE  Max(S) \in S
<1> DEFINE n == Cardinality(Scripts)
           U == {k \in Nat : \A x \in S : x <= k}
<1>1. n \in Nat /\ Scripts = 1 .. n
  BY ScriptsAssumption, FS_CardinalityType
<1> HIDE DEF n
<1>2. S \in SUBSET Nat /\ \A x \in S : x <= n
  BY <1>1
<1>3. PICK k \in U : \A l \in U : k <= l
  <2>1. n \in U /\ U \in SUBSET Nat
    BY <1>1, <1>2
  <2> HIDE DEF U
  <2> QED BY <2>1, LeastOf
<1>4. k \in S
  <2> SUFFICES ASSUME k \notin S PROVE FALSE
    OBVIOUS
  <2>1. \A x \in S : x <= k - 1 /\ k - 1 \in Nat
    BY <1>2, <1>3
  <2>2. k - 1 \in U
    BY <2>1
  <2> QED BY <2>2, <1>3
<1>5. \E x \in S : \A y \in S : x >= y
  BY <1>2, <1>3, <1>4
<1> QED BY <1>5 DEF Max

\* The balance of a wallet is one of the balances.
LEMMA BalanceTyped ==
  ASSUME NEW w
  PROVE  WalletBalance(w) \in Balances
<1> DEFINE T == {s \in Scripts : Funded(stored[w][s])}
<1>1. Cardinality(T) \in Nat /\ Cardinality(Scripts) \in Nat /\ Cardinality(T) <= Cardinality(Scripts)
  <2>1. T \subseteq Scripts
    OBVIOUS
  <2> HIDE DEF T
  <2> QED BY <2>1, ScriptsAssumption, FS_Subset, FS_CardinalityType
<1>2. WalletBalance(w) = Cardinality(T)
  BY DEF WalletBalance
<1> HIDE DEF T
<1> QED BY <1>1, <1>2, BalancesAssumption
-----------------------------------------------------------------------------
(* The steps of a task. *)

\* What a step of the running task t does to the queues, the port, the marks and
\* its job.
Works(t) ==
    /\ (phase[t] = "running" /\ UNCHANGED queueVars) \/ Start(t)
    /\ UNCHANGED nodeVars
    /\ Grows(iso, iso', {walletOf[t]})
    /\ job' \in [Tasks -> JobType] /\ Sensible(job'[t]) /\ job'[t].kind = job[t].kind
    /\ \A u \in Tasks : u # t => job'[u] = job[u]
    /\ failedWallets' \in SUBSET Wallets
    /\ failedScripts' \in [Wallets -> SUBSET Scripts] /\ failedBalances' \in [Wallets -> SUBSET Scripts]
    /\ \A v \in Wallets : v # walletOf[t] => /\ failedScripts'[v] = failedScripts[v]
                                            /\ failedBalances'[v] = failedBalances[v]
    /\ UNCHANGED <<loop, resync>>
    /\ Retried(t)'

\* A task that is live is on a wallet and has a job.
LEMMA OnWallet ==
  ASSUME Typed, NEW t \in Tasks, Live(t)
  PROVE  /\ walletOf[t] \in Wallets /\ job[t] \in JobType /\ Sensible(job[t]) /\ job[t].copy \in Tasks
         /\ job[t].kind # "none" /\ iso \in IsoType
  BY MaxTasksAssumption
  DEF Typed, QueueInv, QueueTypeOK, Created, ControlTyped, Jobs, Live, Tasks, Sensible

\* A running task has a wallet, and a job with a copy of its walletItem.
LEMMA AtWallet ==
  ASSUME Typed, NEW t \in Tasks, phase[t] = "running"
  PROVE  /\ walletOf[t] \in Wallets /\ job[t] \in JobType /\ Sensible(job[t]) /\ job[t].copy \in Tasks
         /\ job[t].kind # "none" /\ iso \in IsoType
  BY OnWallet DEF Live

\* Only the job of t changes.
LEMMA JobChanges ==
  ASSUME Typed, NEW t \in Tasks, NEW j \in JobType, job' = [job EXCEPT ![t] = j]
  PROVE  /\ job' \in [Tasks -> JobType] /\ job'[t] = j /\ \A u \in Tasks : u # t => job'[u] = job[u]
  BY DEF Typed, ControlTyped

\* A job that continues at p.
LEMMA JobAt ==
  ASSUME NEW j \in JobType, NEW p \in Pcs
  PROVE  LET k == [j EXCEPT !.pc = p] IN
         k \in JobType /\ k.kind = j.kind /\ k.script = j.script /\ k.copy = j.copy /\ k.pc = p
         /\ k.batch = j.batch /\ k.again = j.again /\ k.ok = j.ok
  BY DEF JobType

\* The empty batch is a batch.
LEMMA NoBatch == <<>> \in Batches /\ <<>> \in Statuses /\ DOMAIN <<>> = {}
<1>1. <<>> \in [{} -> Versions \cup {Alias}] /\ <<>> \in [{} -> Versions]
  OBVIOUS
<1> QED BY <1>1 DEF Batches, Statuses

\* A job that has ended.
LEMMA JobEnds ==
  ASSUME NEW j \in JobType, NEW ok \in BOOLEAN
  PROVE  LET k == [NoJob EXCEPT !.kind = j.kind, !.copy = j.copy, !.pc = "end", !.ok = ok] IN
         k \in JobType /\ k.kind = j.kind /\ k.copy = j.copy /\ k.pc = "end" /\ k.ok = ok
<1>1. <<>> \in Batches /\ <<>> \in Statuses
  BY NoBatch
<1>2. /\ j.kind \in Kinds /\ j.copy \in Tasks \cup {NoCopy} /\ "end" \in Pcs /\ {} \in SUBSET Scripts
      /\ 0 \in Scripts \cup {0} /\ FALSE \in BOOLEAN
  BY DEF JobType, Pcs, SubscribePcs
<1> QED BY <1>1, <1>2 DEF JobType, NoJob

\* Of the job of the task: it goes on at p.
LEMMA GotoEffect ==
  ASSUME Typed, NEW t \in Tasks, phase[t] = "running", NEW p \in Pcs, NEW m, Goto(t, p, m)
  PROVE  /\ UNCHANGED <<queueVars, nodeVars, loop, resync>> /\ iso' = m
         /\ job' \in [Tasks -> JobType] /\ \A u \in Tasks : u # t => job'[u] = job[u]
         /\ job'[t].kind = job[t].kind /\ job'[t].pc = p /\ job'[t].script = job[t].script
         /\ job'[t].batch = job[t].batch /\ job'[t].again = job[t].again /\ job'[t].ok = job[t].ok
         /\ job'[t].copy = job[t].copy
<1>1. job[t] \in JobType /\ job' = [job EXCEPT ![t] = [job[t] EXCEPT !.pc = p]]
  BY AtWallet DEF Goto, Typed, ControlTyped
<1>2. job'[t] = [job[t] EXCEPT !.pc = p] /\ job' \in [Tasks -> JobType]
      /\ \A u \in Tasks : u # t => job'[u] = job[u]
  BY <1>1, JobAt, JobChanges
<1>3. /\ job'[t].kind = job[t].kind /\ job'[t].pc = p /\ job'[t].script = job[t].script
      /\ job'[t].batch = job[t].batch /\ job'[t].again = job[t].again /\ job'[t].ok = job[t].ok
      /\ job'[t].copy = job[t].copy
  BY <1>1, <1>2, JobAt
<1> QED BY <1>2, <1>3 DEF Goto, cmdVars

\* Of the job of the task: it ends.
LEMMA ReturnEffect ==
  ASSUME Typed, NEW t \in Tasks, phase[t] = "running", NEW ok \in BOOLEAN, NEW m, Return(t, ok, m)
  PROVE  /\ UNCHANGED <<queueVars, nodeVars, loop, resync>> /\ iso' = m
         /\ job' \in [Tasks -> JobType] /\ \A u \in Tasks : u # t => job'[u] = job[u]
         /\ job'[t].kind = job[t].kind /\ job'[t].pc = "end" /\ job'[t].ok = ok
         /\ job'[t].copy = job[t].copy /\ Sensible(job'[t])
<1> DEFINE k == [NoJob EXCEPT !.kind = job[t].kind, !.copy = job[t].copy, !.pc = "end", !.ok = ok]
<1>1. job[t] \in JobType /\ job' = [job EXCEPT ![t] = k]
  BY AtWallet DEF Return
<1>2. k \in JobType /\ k.kind = job[t].kind /\ k.copy = job[t].copy /\ k.pc = "end" /\ k.ok = ok
  BY <1>1, JobEnds
<1> HIDE DEF k
<1>3. job'[t] = k /\ job' \in [Tasks -> JobType] /\ \A u \in Tasks : u # t => job'[u] = job[u]
  BY <1>1, <1>2, JobChanges
<1>4. Sensible(k)
  BY <1>2, AtWallet DEF Sensible, SubscribePcs
<1> QED BY <1>2, <1>3, <1>4 DEF Return, cmdVars

\* At most the marks of w change.
MarksOf(w) ==
    /\ failedWallets' \in SUBSET Wallets
    /\ \E S \in SUBSET Scripts : failedScripts' = [failedScripts EXCEPT ![w] = S]
    /\ \E S \in SUBSET Scripts : failedBalances' = [failedBalances EXCEPT ![w] = S]

\* A step of a task that is no subscription is covered by what happens to its job.
LEMMA ElseWorks ==
  ASSUME Typed, NEW t \in Tasks,
         (phase[t] = "running" /\ UNCHANGED queueVars) \/ Start(t),
         UNCHANGED <<nodeVars, loop, resync>>,
         Grows(iso, iso', {walletOf[t]}),
         job' \in [Tasks -> JobType], Sensible(job'[t]), job'[t].kind = job[t].kind,
         \A u \in Tasks : u # t => job'[u] = job[u],
         job[t].kind # "subscribe",
         MarksOf(walletOf[t])
  PROVE  Works(t)
<1>1. /\ failedScripts' \in [Wallets -> SUBSET Scripts] /\ failedBalances' \in [Wallets -> SUBSET Scripts]
      /\ \A v \in Wallets : v # walletOf[t] => /\ failedScripts'[v] = failedScripts[v]
                                              /\ failedBalances'[v] = failedBalances[v]
  BY DEF Typed, ControlTyped, MarksOf
<1>2. Retried(t)'
  BY DEF Retried
<1> QED BY <1>1, <1>2 DEF Works, MarksOf

\* Marks that stay are marks of the wallet that stay.
LEMMA MarksSame ==
  ASSUME Typed, NEW w \in Wallets
  PROVE  /\ failedScripts' = failedScripts =>
              \E S \in SUBSET Scripts : failedScripts' = [failedScripts EXCEPT ![w] = S]
         /\ failedBalances' = failedBalances =>
              \E S \in SUBSET Scripts : failedBalances' = [failedBalances EXCEPT ![w] = S]
         /\ failedWallets' = failedWallets => failedWallets' \in SUBSET Wallets
<1>1. failedScripts[w] \in SUBSET Scripts /\ failedBalances[w] \in SUBSET Scripts
  BY DEF Typed, ControlTyped
<1>2. /\ failedScripts = [failedScripts EXCEPT ![w] = failedScripts[w]]
      /\ failedBalances = [failedBalances EXCEPT ![w] = failedBalances[w]]
  BY DEF Typed, ControlTyped
<1> QED BY <1>1, <1>2 DEF Typed, ControlTyped

\* The processing of a script goes on at p.
LEMMA EventGoes ==
  ASSUME Typed, NEW t \in Tasks, phase[t] = "running", job[t].kind \in {"event", "dormant"},
         job[t].script \in Scripts, NEW p \in Pcs, NEW m, Goto(t, p, m),
         Grows(iso, m, {walletOf[t]}), MarksOf(walletOf[t])
  PROVE  Works(t)
<1>1. /\ UNCHANGED <<queueVars, nodeVars, loop, resync>> /\ iso' = m
      /\ job' \in [Tasks -> JobType] /\ \A u \in Tasks : u # t => job'[u] = job[u]
      /\ job'[t].kind = job[t].kind /\ job'[t].script = job[t].script /\ job'[t].copy = job[t].copy
  BY GotoEffect
<1>2. Sensible(job'[t])
  BY <1>1, AtWallet DEF Sensible
<1> QED BY <1>1, <1>2, ElseWorks

\* A task that is no subscription ends.
LEMMA ElseReturns ==
  ASSUME Typed, NEW t \in Tasks, phase[t] = "running", job[t].kind # "subscribe", NEW ok \in BOOLEAN,
         NEW m, Return(t, ok, m), Grows(iso, m, {walletOf[t]}), MarksOf(walletOf[t])
  PROVE  Works(t)
  BY ReturnEffect, ElseWorks

\* Where a script is processed there is a script, and the task is no subscription.
LEMMA EventPlaces ==
  ASSUME Typed, NEW t \in Tasks, phase[t] = "running",
         job[t].pc \in {"delay", "extended", "failed", "e.balance", "e.tx", "e.utxo", "e.unsub",
                        "e.cospent", "e.counsub"}
  PROVE  job[t].kind \in {"event", "dormant"} /\ job[t].script \in Scripts
  BY AtWallet DEF Sensible, JobType, Kinds, SubscribePcs

\* A step that ends an event, well or not, keeps what a step of a task must keep.
LEMMA EventEndsWorks ==
  ASSUME Typed, NEW t \in Tasks, phase[t] = "running", job[t].kind \in {"event", "dormant"},
         job[t].script \in Scripts, NEW m, EventEnds(t, m),
         Grows(iso, m, {walletOf[t]}), MarksOf(walletOf[t])
  PROVE  Works(t)
<1>1. "d.next" \in Pcs
  BY DEF Pcs
<1> QED BY <1>1, EventGoes, ElseReturns DEF EventEnds

\* Marks that stay.
LEMMA MarksStay ==
  ASSUME Typed, NEW w \in Wallets, UNCHANGED markVars
  PROVE  MarksOf(w)
  BY MarksSame DEF MarksOf, markVars

\* The places the steps go to, and the counters they move.
LEMMA ProcessWords ==
  /\ {"scan", "delay", "extended", "failed", "e.balance", "e.tx", "e.utxo", "e.unsub", "e.cospent",
      "e.counsub", "d.balance", "d.next", "d.sub", "reset", "end", "compare", "b.balance", "b.tx",
      "b.unsub", "b.utxo", "save"} \subseteq Pcs
  /\ {"subscription", "balance", "transaction", "utxo"} \subseteq UpdateElements
  BY DEF Pcs, SubscribePcs, UpdateElements

\* subscription completed, fetchScriptBalance begun
LEMMA SubscriptionDoneGrows ==
  ASSUME NEW m \in IsoType, NEW w \in Wallets
  PROVE  Grows(m, SubscriptionDone(m, w), {w}) /\ SubscriptionDone(m, w) \in IsoType
<1> DEFINE n == IsoAddWalletCompletedState(m, w, "subscription")
<1>1. Grows(m, n, {w}) /\ n \in IsoType
  BY CompletedGrows, ProcessWords
<1> HIDE DEF n
<1>2. Grows(n, IsoAddWalletSyncState(n, w, "balance"), {w}) /\ IsoAddWalletSyncState(n, w, "balance") \in IsoType
  BY <1>1, SyncGrows, ProcessWords
<1>3. Grows(m, IsoAddWalletSyncState(n, w, "balance"), {w})
  BY <1>1, <1>2, GrowsOn
<1> QED BY <1>2, <1>3 DEF SubscriptionDone, n

\* From the completion of one element to the start of another.
LEMMA NextElementGrows ==
  ASSUME NEW m \in IsoType, NEW w \in Wallets, NEW e \in UpdateElements, NEW d \in UpdateElements
  PROVE  LET n == IsoAddWalletSyncState(IsoAddWalletCompletedState(m, w, e), w, d) IN
         Grows(m, n, {w}) /\ n \in IsoType
<1> DEFINE k == IsoAddWalletCompletedState(m, w, e)
<1>1. Grows(m, k, {w}) /\ k \in IsoType
  BY CompletedGrows
<1> HIDE DEF k
<1>2. Grows(k, IsoAddWalletSyncState(k, w, d), {w}) /\ IsoAddWalletSyncState(k, w, d) \in IsoType
  BY <1>1, SyncGrows
<1>3. Grows(m, IsoAddWalletSyncState(k, w, d), {w})
  BY <1>1, <1>2, GrowsOn
<1> QED BY <1>2, <1>3 DEF k

\* The delay is over: isUsed and the used index are committed, and the gap extended or not.
LEMMA ProcessBeginWorks ==
  ASSUME Typed, NEW t \in Tasks, ProcessBegin(t)
  PROVE  Works(t)
<1> DEFINE w == walletOf[t]
           m == IsoInitWalletUpdateStatus(iso, w)
<1>1. /\ phase[t] = "running" /\ job[t].kind \in {"event", "dormant"} /\ job[t].script \in Scripts
      /\ w \in Wallets /\ iso \in IsoType
  BY EventPlaces, AtWallet DEF ProcessBegin, At
<1>2. MarksOf(w)
  BY <1>1, MarksStay DEF ProcessBegin
<1>3. Grows(iso, m, {w}) /\ m \in IsoType
  BY <1>1, InitGrows
<1>4. \/ Goto(t, "scan", IsoAddWalletSyncState(m, w, "subscription"))
      \/ Goto(t, "e.balance", SubscriptionDone(m, w))
  BY DEF ProcessBegin
<1> HIDE DEF m
<1>5. Grows(m, IsoAddWalletSyncState(m, w, "subscription"), {w}) /\ Grows(m, SubscriptionDone(m, w), {w})
  BY <1>1, <1>3, SyncGrows, SubscriptionDoneGrows, ProcessWords
<1>6. /\ Grows(iso, IsoAddWalletSyncState(m, w, "subscription"), {w})
      /\ Grows(iso, SubscriptionDone(m, w), {w})
  BY <1>1, <1>3, <1>5, GrowsOn
<1> QED BY <1>1, <1>2, <1>4, <1>6, EventGoes, ProcessWords

\* After an extension of the gap the event goes on with the balance.
LEMMA ExtendedWorks ==
  ASSUME Typed, NEW t \in Tasks, Extended(t)
  PROVE  Works(t)
<1>1. /\ phase[t] = "running" /\ job[t].kind \in {"event", "dormant"} /\ job[t].script \in Scripts
      /\ walletOf[t] \in Wallets /\ iso \in IsoType
  BY EventPlaces, AtWallet DEF Extended, At
<1>2. MarksOf(walletOf[t])
  BY <1>1, MarksStay DEF Extended
<1>3. Grows(iso, SubscriptionDone(iso, walletOf[t]), {walletOf[t]})
  BY <1>1, SubscriptionDoneGrows
<1> QED BY <1>1, <1>2, <1>3, EventGoes, ProcessWords DEF Extended

\* A failed event marks its script and drains.
LEMMA EventFailedWorks ==
  ASSUME Typed, NEW t \in Tasks, EventFailed(t)
  PROVE  Works(t)
<1>1. /\ phase[t] = "running" /\ job[t].kind \in {"event", "dormant"} /\ job[t].script \in Scripts
      /\ walletOf[t] \in Wallets /\ iso \in IsoType
  BY EventPlaces, AtWallet DEF EventFailed, At
<1>2. MarksOf(walletOf[t])
  <2>1. failedScripts[walletOf[t]] \cup {job[t].script} \in SUBSET Scripts
    BY <1>1 DEF Typed, ControlTyped
  <2>2. failedScripts' = [failedScripts EXCEPT ![walletOf[t]] = failedScripts[walletOf[t]] \cup {job[t].script}]
    BY <1>1 DEF EventFailed, Typed, ControlTyped
  <2> QED BY <1>1, <2>1, <2>2, MarksSame DEF MarksOf, EventFailed
<1>3. Grows(iso, Send(iso, NodeCompletedMsg), {walletOf[t]})
  BY <1>1, SendGrows, MsgsKnown, MsgsAbout
<1> QED BY <1>1, <1>2, <1>3, EventEndsWorks DEF EventFailed

\* A balance that is stored or fails changes the balance marks of its wallet.
LEMMA AddressBalanceMarks ==
  ASSUME Typed, NEW w \in Wallets, NEW s \in Scripts, NEW ok \in BOOLEAN, AddressBalance(w, s, ok),
         UNCHANGED failedScripts, failedWallets' \in SUBSET Wallets
  PROVE  MarksOf(w)
<1>1. /\ failedBalances[w] \ {s} \in SUBSET Scripts /\ failedBalances[w] \cup {s} \in SUBSET Scripts
  BY DEF Typed, ControlTyped
<1>2. \/ failedBalances' = [failedBalances EXCEPT ![w] = failedBalances[w] \ {s}]
      \/ failedBalances' = [failedBalances EXCEPT ![w] = failedBalances[w] \cup {s}]
  BY DEF AddressBalance, Typed, ControlTyped
<1> QED BY <1>1, <1>2, MarksSame DEF MarksOf

\* The balance of an event: stored, or marked as failed.
LEMMA EventBalanceWorks ==
  ASSUME Typed, NEW t \in Tasks, NEW ok \in BOOLEAN, EventBalance(t, ok)
  PROVE  Works(t)
<1> DEFINE w == walletOf[t]
           m == IsoAddWalletSyncState(IsoAddWalletCompletedState(iso, w, "balance"), w, "transaction")
<1>1. /\ phase[t] = "running" /\ job[t].kind \in {"event", "dormant"} /\ job[t].script \in Scripts
      /\ w \in Wallets /\ iso \in IsoType
  BY EventPlaces, AtWallet DEF EventBalance, At
<1>2. MarksOf(w)
  <2>1. failedWallets' \in SUBSET Wallets /\ UNCHANGED failedScripts /\ AddressBalance(w, job[t].script, ok)
    BY DEF EventBalance, Typed, ControlTyped
  <2> QED BY <1>1, <2>1, AddressBalanceMarks
<1>3. Grows(iso, m, {w}) /\ Grows(iso, iso, {w})
  BY <1>1, NextElementGrows, SameGrows, ProcessWords
<1>4. Goto(t, "e.tx", m) \/ Goto(t, "failed", iso)
  BY DEF EventBalance
<1> HIDE DEF m
<1> QED BY <1>1, <1>2, <1>3, <1>4, EventGoes, ProcessWords

\* The transaction step of an event.
LEMMA EventTransactionsWorks ==
  ASSUME Typed, NEW t \in Tasks, EventTransactions(t)
  PROVE  Works(t)
<1> DEFINE w == walletOf[t]
           m == IsoAddWalletCompletedState(iso, w, "transaction")
           n == IsoAddWalletCompletedState(m, w, "utxo")
<1>1. /\ phase[t] = "running" /\ job[t].kind \in {"event", "dormant"} /\ job[t].script \in Scripts
      /\ w \in Wallets /\ iso \in IsoType /\ job[t] \in JobType /\ job[t].copy \in Tasks
  BY EventPlaces, AtWallet DEF EventTransactions, At
<1>2. MarksOf(w)
  BY <1>1, MarksStay DEF EventTransactions
<1>3. CASE Goto(t, "failed", iso)
  <2>1. Grows(iso, iso, {w})
    BY <1>1, SameGrows
  <2> QED BY <1>1, <1>2, <1>3, <2>1, EventGoes, ProcessWords
<1>4. CASE \E empty \in BOOLEAN, co \in SUBSET (used[w] \ {job[t].script}) :
              /\ job' = [job EXCEPT ![t].pc = "e.utxo", ![t].co = co]
              /\ iso' = IsoAddWalletSyncState(IF empty THEN n ELSE m, w, "utxo")
              /\ UNCHANGED <<queueVars, nodeVars, cmdVars>>
  <2>1. PICK empty \in BOOLEAN, co \in SUBSET (used[w] \ {job[t].script}) :
              /\ job' = [job EXCEPT ![t].pc = "e.utxo", ![t].co = co]
              /\ iso' = IsoAddWalletSyncState(IF empty THEN n ELSE m, w, "utxo")
              /\ UNCHANGED <<queueVars, nodeVars, cmdVars>>
    BY <1>4
  <2>2. Grows(iso, m, {w}) /\ m \in IsoType
    BY <1>1, CompletedGrows, ProcessWords
  <2>3. Grows(m, n, {w}) /\ n \in IsoType
    <3> HIDE DEF m
    <3> QED BY <1>1, <2>2, CompletedGrows, ProcessWords
  <2> HIDE DEF m, n
  <2>4. Grows(iso, n, {w})
    BY <1>1, <2>2, <2>3, GrowsOn
  <2>5. \E k \in IsoType : Grows(iso, k, {w}) /\ iso' = IsoAddWalletSyncState(k, w, "utxo")
    BY <2>1, <2>2, <2>3, <2>4
  <2>6. PICK k \in IsoType : Grows(iso, k, {w}) /\ iso' = IsoAddWalletSyncState(k, w, "utxo")
    BY <2>5
  <2>7. Grows(k, iso', {w})
    BY <1>1, <2>6, SyncGrows, ProcessWords
  <2>8. Grows(iso, iso', {w})
    BY <1>1, <2>6, <2>7, GrowsOn
  <2>9. co \in SUBSET Scripts /\ "e.utxo" \in Pcs
    BY <1>1, ProcessWords DEF Typed, DataTyped
  <2> DEFINE j == [job[t] EXCEPT !.pc = "e.utxo", !.co = co]
  <2>10. j \in JobType /\ j.kind = job[t].kind /\ j.script = job[t].script /\ j.copy = job[t].copy
    BY <1>1, <2>9 DEF JobType
  <2>11. job' = [job EXCEPT ![t] = j]
    BY <2>1 DEF Typed, ControlTyped
  <2> HIDE DEF j
  <2>12. job' \in [Tasks -> JobType] /\ job'[t] = j /\ \A u \in Tasks : u # t => job'[u] = job[u]
    BY <2>10, <2>11, JobChanges
  <2>13. Sensible(job'[t])
    BY <1>1, <2>10, <2>12 DEF Sensible
  <2>14. UNCHANGED <<nodeVars, loop, resync>> /\ job'[t].kind = job[t].kind
    BY <2>1, <2>10, <2>12 DEF cmdVars
  <2> QED BY <1>1, <1>2, <2>1, <2>8, <2>12, <2>13, <2>14, ElseWorks
<1> QED BY <1>3, <1>4 DEF EventTransactions

\* The UTXO step of an event.
LEMMA EventUtxosWorks ==
  ASSUME Typed, NEW t \in Tasks, EventUtxos(t)
  PROVE  Works(t)
<1> DEFINE p == IF Unwatch(t, job[t].script) THEN "e.unsub" ELSE "e.cospent"
           m == IsoAddWalletCompletedState(iso, walletOf[t], "utxo")
<1>1. /\ phase[t] = "running" /\ job[t].kind \in {"event", "dormant"} /\ job[t].script \in Scripts
      /\ walletOf[t] \in Wallets /\ iso \in IsoType
  BY EventPlaces, AtWallet DEF EventUtxos, At
<1>2. MarksOf(walletOf[t])
  BY <1>1, MarksStay DEF EventUtxos
<1>3. Grows(iso, m, {walletOf[t]}) /\ p \in Pcs
  BY <1>1, CompletedGrows, ProcessWords
<1>4. Goto(t, p, m)
  BY DEF EventUtxos
<1> HIDE DEF p, m
<1> QED BY <1>1, <1>2, <1>3, <1>4, EventGoes

\* The event of a dormant address gives up its subscription.
LEMMA EventUnsubscribeWorks ==
  ASSUME Typed, NEW t \in Tasks, EventUnsubscribe(t)
  PROVE  Works(t)
<1>1. /\ phase[t] = "running" /\ job[t].kind \in {"event", "dormant"} /\ job[t].script \in Scripts
      /\ walletOf[t] \in Wallets /\ iso \in IsoType
  BY EventPlaces, AtWallet DEF EventUnsubscribe, At
<1>2. MarksOf(walletOf[t])
  BY <1>1, MarksStay DEF EventUnsubscribe
<1>3. Grows(iso, iso, {walletOf[t]})
  BY <1>1, SameGrows
<1>4. Goto(t, "e.cospent", iso) \/ Goto(t, "failed", iso)
  BY DEF EventUnsubscribe
<1> QED BY <1>1, <1>2, <1>3, <1>4, EventGoes, ProcessWords

\* The balance of a co-spent script.
LEMMA CoSpentWorks ==
  ASSUME Typed, NEW t \in Tasks, NEW s \in Scripts, NEW ok \in BOOLEAN, CoSpent(t, s, ok)
  PROVE  Works(t)
<1> DEFINE w == walletOf[t]
           p == IF ok THEN "e.counsub" ELSE "e.cospent"
           j == [job[t] EXCEPT !.co = job[t].co \ {s}, !.peer = s, !.pc = p]
<1>1. /\ phase[t] = "running" /\ job[t].kind \in {"event", "dormant"} /\ job[t].script \in Scripts
      /\ w \in Wallets /\ iso \in IsoType /\ job[t] \in JobType /\ job[t].copy \in Tasks
  BY EventPlaces, AtWallet DEF CoSpent, At
<1>2. MarksOf(w)
  <2>1. failedWallets' \in SUBSET Wallets /\ UNCHANGED failedScripts /\ AddressBalance(w, s, ok)
    BY <1>1 DEF CoSpent, Typed, ControlTyped
  <2> QED BY <1>1, <2>1, AddressBalanceMarks
<1>3. Grows(iso, iso', {w}) /\ iso' = iso
  BY <1>1, SameGrows DEF CoSpent
<1>4. p \in Pcs /\ job[t].co \ {s} \in SUBSET Scripts /\ s \in Scripts \cup {0}
  BY <1>1, ProcessWords DEF JobType
<1>5. job' = [job EXCEPT ![t] = j]
  BY DEF CoSpent, Typed, ControlTyped
<1>6. j \in JobType /\ j.kind = job[t].kind /\ j.script = job[t].script /\ j.copy = job[t].copy
  <2> HIDE DEF p
  <2> QED BY <1>1, <1>4 DEF JobType
<1> HIDE DEF j
<1>7. job' \in [Tasks -> JobType] /\ job'[t] = j /\ \A u \in Tasks : u # t => job'[u] = job[u]
  BY <1>5, <1>6, JobChanges
<1>8. Sensible(job'[t]) /\ job'[t].kind = job[t].kind
  BY <1>1, <1>6, <1>7 DEF Sensible
<1>9. UNCHANGED <<nodeVars, loop, resync>> /\ UNCHANGED queueVars
  BY DEF CoSpent, cmdVars
<1> QED BY <1>1, <1>2, <1>3, <1>7, <1>8, <1>9, ElseWorks

\* A co-spent script that became dormant gives up its subscription.
LEMMA CoSpentUnsubscribeWorks ==
  ASSUME Typed, NEW t \in Tasks, CoSpentUnsubscribe(t)
  PROVE  Works(t)
<1>1. /\ phase[t] = "running" /\ job[t].kind \in {"event", "dormant"} /\ job[t].script \in Scripts
      /\ walletOf[t] \in Wallets /\ iso \in IsoType
  BY EventPlaces, AtWallet DEF CoSpentUnsubscribe, At
<1>2. MarksOf(walletOf[t])
  <2>1. failedWallets' \in SUBSET Wallets
    BY <1>1 DEF CoSpentUnsubscribe, Typed, ControlTyped
  <2> QED BY <1>1, <2>1, MarksSame DEF MarksOf, CoSpentUnsubscribe
<1>3. Grows(iso, iso, {walletOf[t]})
  BY <1>1, SameGrows
<1> QED BY <1>1, <1>2, <1>3, EventGoes, ProcessWords DEF CoSpentUnsubscribe

\* An event that ends well drops the mark of its script.
LEMMA EventDoneWorks ==
  ASSUME Typed, NEW t \in Tasks, EventDone(t)
  PROVE  Works(t)
<1>1. /\ phase[t] = "running" /\ job[t].kind \in {"event", "dormant"} /\ job[t].script \in Scripts
      /\ walletOf[t] \in Wallets /\ iso \in IsoType
  BY EventPlaces, AtWallet DEF EventDone, At
<1>2. MarksOf(walletOf[t])
  <2>1. failedScripts[walletOf[t]] \ {job[t].script} \in SUBSET Scripts
    BY <1>1 DEF Typed, ControlTyped
  <2>2. failedScripts' = [failedScripts EXCEPT ![walletOf[t]] = failedScripts[walletOf[t]] \ {job[t].script}]
    BY <1>1 DEF EventDone, Typed, ControlTyped
  <2> QED BY <1>1, <2>1, <2>2, MarksSame DEF MarksOf, EventDone
<1>3. Grows(iso, iso, {walletOf[t]})
  BY <1>1, SameGrows
<1> QED BY <1>1, <1>2, <1>3, EventEndsWorks DEF EventDone

\* A task that starts is on a wallet and has a job.
LEMMA StartsOn ==
  ASSUME Typed, NEW t \in Tasks, Start(t)
  PROVE  /\ walletOf[t] \in Wallets /\ job[t] \in JobType /\ Sensible(job[t]) /\ job[t].copy \in Tasks
         /\ job[t].kind # "none" /\ iso \in IsoType
  BY OnWallet DEF Live, Start

\* A task that is no subscription starts at p.
LEMMA BeginWorks ==
  ASSUME Typed, NEW t \in Tasks, Start(t), NEW p \in Pcs, job' = [job EXCEPT ![t].pc = p],
         (job[t].kind = "event" /\ p = "delay") \/ (job[t].kind = "reset" /\ p = "reset"),
         UNCHANGED <<nodeVars, iso, markVars, cmdVars>>, job[t].pc = "new"
  PROVE  Works(t)
<1>1. /\ walletOf[t] \in Wallets /\ job[t] \in JobType /\ Sensible(job[t]) /\ job[t].copy \in Tasks
      /\ iso \in IsoType
  BY StartsOn
<1>2. MarksOf(walletOf[t]) /\ Grows(iso, iso', {walletOf[t]})
  BY <1>1, MarksStay, SameGrows
<1> DEFINE j == [job[t] EXCEPT !.pc = p]
<1>3. /\ j \in JobType /\ j.kind = job[t].kind /\ j.script = job[t].script /\ j.copy = job[t].copy
      /\ j.pc = p
  BY <1>1, JobAt
<1>4. job' = [job EXCEPT ![t] = j]
  BY DEF Typed, ControlTyped
<1> HIDE DEF j
<1>5. job' \in [Tasks -> JobType] /\ job'[t] = j /\ \A u \in Tasks : u # t => job'[u] = job[u]
  BY <1>3, <1>4, JobChanges
<1>6. Sensible(job'[t]) /\ job'[t].kind = job[t].kind
  BY <1>1, <1>3, <1>5 DEF Sensible
<1>7. UNCHANGED <<nodeVars, loop, resync>>
  BY DEF cmdVars
<1> QED BY <1>1, <1>2, <1>5, <1>6, <1>7, ElseWorks

\* An event or a reset starts.
LEMMA BeginEventWorks ==
  ASSUME Typed, NEW t \in Tasks, BeginEvent(t) \/ BeginReset(t)
  PROVE  Works(t)
<1>1. CASE BeginEvent(t)
  <2>1. /\ Start(t) /\ job' = [job EXCEPT ![t].pc = "delay"] /\ job[t].kind = "event"
        /\ job[t].pc = "new" /\ UNCHANGED <<nodeVars, iso, markVars, cmdVars>>
    BY <1>1 DEF BeginEvent
  <2>2. "delay" \in Pcs
    BY ProcessWords
  <2> QED BY <2>1, <2>2, BeginWorks
<1>2. CASE BeginReset(t)
  BY <1>2, BeginWorks, ProcessWords DEF BeginReset
<1> QED BY <1>1, <1>2

\* The data of a wallet is wiped.
LEMMA ResetWorks ==
  ASSUME Typed, NEW t \in Tasks, Reset(t)
  PROVE  Works(t)
<1>1. phase[t] = "running" /\ job[t].pc = "reset" /\ UNCHANGED markVars
      /\ (Return(t, TRUE, iso) \/ Return(t, FALSE, iso))
  BY DEF Reset, At
<1>2. walletOf[t] \in Wallets /\ iso \in IsoType /\ job[t].kind # "subscribe"
  BY <1>1, AtWallet DEF Sensible, SubscribePcs
<1>3. MarksOf(walletOf[t]) /\ Grows(iso, iso, {walletOf[t]})
  BY <1>1, <1>2, MarksStay, SameGrows
<1> QED BY <1>1, <1>2, <1>3, ElseReturns

\* The synchronisation of the dormant addresses starts.
LEMMA BeginDormantWorks ==
  ASSUME Typed, NEW t \in Tasks, BeginDormant(t)
  PROVE  Works(t)
<1> DEFINE w == walletOf[t]
<1>1. /\ w \in Wallets /\ job[t] \in JobType /\ Sensible(job[t]) /\ job[t].copy \in Tasks
      /\ iso \in IsoType /\ Start(t) /\ job[t].kind = "dormant"
  BY StartsOn DEF BeginDormant
<1>2. MarksOf(w) /\ UNCHANGED <<nodeVars, loop, resync>>
  BY <1>1, MarksStay DEF BeginDormant
<1>3. ASSUME NEW j \in JobType, job' = [job EXCEPT ![t] = j], j.kind = job[t].kind,
             j.copy = job[t].copy, j.pc \in {"end", "d.balance"}, Grows(iso, iso', {w})
      PROVE  Works(t)
  <2>1. job' \in [Tasks -> JobType] /\ job'[t] = j /\ \A u \in Tasks : u # t => job'[u] = job[u]
    BY <1>3, JobChanges
  <2>2. Sensible(job'[t]) /\ job'[t].kind = job[t].kind
    BY <1>1, <1>3, <2>1 DEF Sensible
  <2> QED BY <1>1, <1>2, <1>3, <2>1, <2>2, ElseWorks
<1>4. ASSUME NEW ok \in BOOLEAN, job' = [job EXCEPT ![t].pc = "end", ![t].ok = ok], UNCHANGED iso
      PROVE  Works(t)
  <2> DEFINE j == [job[t] EXCEPT !.pc = "end", !.ok = ok]
  <2>1. /\ j \in JobType /\ j.kind = job[t].kind /\ j.copy = job[t].copy /\ j.pc = "end"
    BY <1>1, <1>4, ProcessWords DEF JobType
  <2>2. job' = [job EXCEPT ![t] = j] /\ Grows(iso, iso', {w})
    BY <1>1, <1>4, SameGrows DEF Typed, ControlTyped
  <2> HIDE DEF j
  <2> QED BY <1>3, <2>1, <2>2
<1>5. ASSUME job' = [job EXCEPT ![t].pc = "d.balance", ![t].todo = DormantScripts(w)],
             iso' = IsoAddWalletSyncState(iso, w, "balance")
      PROVE  Works(t)
  <2> DEFINE j == [job[t] EXCEPT !.pc = "d.balance", !.todo = DormantScripts(w)]
  <2>0. DormantScripts(w) \in SUBSET Scripts
    BY DEF DormantScripts
  <2>1. /\ j \in JobType /\ j.kind = job[t].kind /\ j.copy = job[t].copy /\ j.pc = "d.balance"
    BY <1>1, <2>0, ProcessWords DEF JobType
  <2>2. job' = [job EXCEPT ![t] = j]
    BY <1>5 DEF Typed, ControlTyped
  <2>3. Grows(iso, iso', {w})
    BY <1>1, <1>5, SyncGrows, ProcessWords
  <2> HIDE DEF j
  <2> QED BY <1>3, <2>1, <2>2, <2>3
<1> QED BY <1>4, <1>5 DEF BeginDormant

\* It fetches their balances in one request.
LEMMA DormantBalanceWorks ==
  ASSUME Typed, NEW t \in Tasks, NEW F \in SUBSET Scripts, DormantBalance(t, F)
  PROVE  Works(t)
<1> DEFINE w == walletOf[t]
           m == IsoAddWalletCompletedState(iso, w, "balance")
           B == (failedBalances[w] \cup F) \ (job[t].todo \ F)
<1>1. /\ phase[t] = "running" /\ job[t].pc = "d.balance" /\ Goto(t, "d.next", m)
      /\ UNCHANGED <<failedWallets, failedScripts>>
  BY DEF DormantBalance, At
<1>2. w \in Wallets /\ iso \in IsoType /\ job[t].kind # "subscribe" /\ Sensible(job[t])
      /\ job[t].kind # "none" /\ job[t].kind # "reset"
  BY <1>1, AtWallet DEF Sensible, SubscribePcs
<1>3. MarksOf(w)
  <2>1. B \in SUBSET Scripts
    BY <1>2 DEF Typed, ControlTyped
  <2>2. failedBalances' = [failedBalances EXCEPT ![w] = B]
    BY <1>2 DEF DormantBalance, Typed, ControlTyped
  <2> QED BY <1>1, <1>2, <2>1, <2>2, MarksSame DEF MarksOf
<1>4. Grows(iso, m, {w})
  BY <1>2, CompletedGrows, ProcessWords
<1> HIDE DEF m
<1>5. /\ UNCHANGED <<queueVars, nodeVars, loop, resync>> /\ iso' = m
      /\ job' \in [Tasks -> JobType] /\ \A u \in Tasks : u # t => job'[u] = job[u]
      /\ job'[t].kind = job[t].kind /\ job'[t].pc = "d.next" /\ job'[t].script = job[t].script
      /\ job'[t].copy = job[t].copy
  BY <1>1, GotoEffect, ProcessWords
<1>6. Sensible(job'[t])
  BY <1>1, <1>2, <1>5 DEF Sensible
<1> QED BY <1>1, <1>2, <1>3, <1>4, <1>5, <1>6, ElseWorks

\* It goes to the next address that is dormant no more, or ends.
LEMMA DormantNextWorks ==
  ASSUME Typed, NEW t \in Tasks, DormantNext(t)
  PROVE  Works(t)
<1> DEFINE w == walletOf[t]
           A == {s \in job[t].todo : ~Dormant(w, s)}
           T == {s \in job[t].todo : s > Min(A)}
           j == [job[t] EXCEPT !.pc = "d.sub", !.script = Min(A), !.todo = T]
<1>1. phase[t] = "running" /\ job[t].pc = "d.next" /\ UNCHANGED markVars
  BY DEF DormantNext, At
<1>2. /\ w \in Wallets /\ iso \in IsoType /\ job[t] \in JobType /\ job[t].kind # "subscribe"
      /\ Sensible(job[t]) /\ job[t].kind \in {"event", "dormant"} /\ job[t].copy \in Tasks
  BY <1>1, AtWallet DEF Sensible, SubscribePcs, JobType, Kinds
<1>3. MarksOf(w) /\ Grows(iso, iso, {w})
  BY <1>1, <1>2, MarksStay, SameGrows
<1>4. CASE A = {}
  BY <1>1, <1>2, <1>3, <1>4, ElseReturns DEF DormantNext
<1>5. CASE A # {}
  <2>1. A \in SUBSET Scripts /\ T \in SUBSET Scripts
    BY <1>2 DEF JobType
  <2>2. Min(A) \in Scripts
    <3> HIDE DEF A
    <3> QED BY <2>1, <1>5, MinOf
  <2>3. job' = [job EXCEPT ![t] = j] /\ UNCHANGED <<queueVars, nodeVars, iso, cmdVars>>
    BY <1>5 DEF DormantNext, Typed, ControlTyped
  <2>4. /\ j \in JobType /\ j.kind = job[t].kind /\ j.copy = job[t].copy /\ j.script = Min(A)
    <3> HIDE DEF A, T
    <3> QED BY <1>2, <2>1, <2>2, ProcessWords DEF JobType
  <2> HIDE DEF j, A
  <2>5. job' \in [Tasks -> JobType] /\ job'[t] = j /\ \A u \in Tasks : u # t => job'[u] = job[u]
    BY <2>3, <2>4, JobChanges
  <2>6. Sensible(job'[t]) /\ job'[t].kind = job[t].kind
    BY <1>2, <2>2, <2>4, <2>5 DEF Sensible
  <2>7. UNCHANGED <<nodeVars, loop, resync>> /\ Grows(iso, iso', {w})
    BY <1>3, <2>3 DEF cmdVars
  <2> QED BY <1>1, <1>2, <1>3, <2>3, <2>5, <2>6, <2>7, ElseWorks
<1> QED BY <1>4, <1>5

\* It subscribes to that address again.
LEMMA DormantSubscribeWorks ==
  ASSUME Typed, NEW t \in Tasks, DormantSubscribe(t)
  PROVE  Works(t)
<1>1. /\ phase[t] = "running" /\ job[t].pc = "d.sub" /\ UNCHANGED markVars
      /\ Goto(t, "delay", iso) \/ Return(t, FALSE, iso)
  BY DEF DormantSubscribe, At
<1>2. /\ walletOf[t] \in Wallets /\ iso \in IsoType /\ job[t].kind \in {"event", "dormant"}
      /\ job[t].script \in Scripts
  BY <1>1, AtWallet DEF Sensible, SubscribePcs, JobType, Kinds
<1>3. MarksOf(walletOf[t]) /\ Grows(iso, iso, {walletOf[t]})
  BY <1>1, <1>2, MarksStay, SameGrows
<1> QED BY <1>1, <1>2, <1>3, EventGoes, ElseReturns, ProcessWords

\* A step of any task.
LEMMA RetryWorks ==
  ASSUME Typed, NEW t \in Tasks, walletOf[t] \in Wallets,
         (phase[t] = "running" /\ UNCHANGED queueVars) \/ Start(t),
         UNCHANGED <<nodeVars, loop, resync>>,
         Grows(iso, iso', {walletOf[t]}),
         job' \in [Tasks -> JobType], Sensible(job'[t]), job'[t].kind = job[t].kind,
         \A u \in Tasks : u # t => job'[u] = job[u],
         MarksOf(walletOf[t]), Retried(t)'
  PROVE  Works(t)
<1>1. /\ failedScripts' \in [Wallets -> SUBSET Scripts] /\ failedBalances' \in [Wallets -> SUBSET Scripts]
      /\ \A v \in Wallets : v # walletOf[t] => /\ failedScripts'[v] = failedScripts[v]
                                              /\ failedBalances'[v] = failedBalances[v]
  BY DEF Typed, ControlTyped, MarksOf
<1> QED BY <1>1 DEF Works, MarksOf

\* Where a subscription runs, for itself or to extend the window of an event.
SubscriptionAt(t) ==
    /\ phase[t] = "running"
    /\ job[t].pc \in {"scan", "compare", "b.balance", "b.tx", "b.unsub", "b.utxo", "save"}

\* Who runs the steps of a subscription: a subscription, or an extension of the gap in an event.
LEMMA SubscriptionPlaces ==
  ASSUME Typed, NEW t \in Tasks, SubscriptionAt(t)
  PROVE  /\ job[t].kind = "subscribe" \/ (job[t].kind \in {"event", "dormant"} /\ job[t].script \in Scripts)
         /\ walletOf[t] \in Wallets /\ job[t] \in JobType /\ job[t].copy \in Tasks /\ iso \in IsoType
         /\ phase[t] = "running" /\ Live(t)
  BY AtWallet DEF SubscriptionAt, Sensible, JobType, Kinds, Live

\* It goes on at p.
LEMMA SubscriptionGoes ==
  ASSUME Typed, NEW t \in Tasks, SubscriptionAt(t), NEW p \in {"b.tx", "b.unsub", "b.utxo", "save"},
         NEW m, Goto(t, p, m), Grows(iso, m, {walletOf[t]}), MarksOf(walletOf[t]),
         job[t].kind = "subscribe" =>
            failedScripts'[walletOf[t]] \subseteq (IF p = "save" THEN {} ELSE Batch(t))
  PROVE  Works(t)
<1>1. p \in Pcs /\ p \in SubscribePcs
  BY DEF Pcs, SubscribePcs
<1>2. /\ UNCHANGED <<queueVars, nodeVars, loop, resync>> /\ iso' = m
      /\ job' \in [Tasks -> JobType] /\ \A u \in Tasks : u # t => job'[u] = job[u]
      /\ job'[t].kind = job[t].kind /\ job'[t].pc = p /\ job'[t].script = job[t].script
      /\ job'[t].batch = job[t].batch /\ job'[t].again = job[t].again
      /\ job'[t].copy = job[t].copy
  BY <1>1, GotoEffect, SubscriptionPlaces
<1>3. Sensible(job'[t])
  BY <1>1, <1>2, SubscriptionPlaces DEF Sensible
<1>4. Retried(t)'
  BY <1>2 DEF Retried, Batch, queueVars
<1> QED BY <1>2, <1>3, <1>4, SubscriptionPlaces, RetryWorks

\* It returns to the queue, or to the event.
LEMMA SubscriptionReturns ==
  ASSUME Typed, NEW t \in Tasks, SubscriptionAt(t), NEW ok \in BOOLEAN,
         NEW m, SubscribeReturns(t, ok, m), Grows(iso, m, {walletOf[t]}), MarksOf(walletOf[t]),
         job[t].kind = "subscribe" /\ ok => failedScripts'[walletOf[t]] = {}
  PROVE  Works(t)
<1>1. CASE job[t].kind = "subscribe"
  <2>1. /\ UNCHANGED <<queueVars, nodeVars, loop, resync>> /\ iso' = m
        /\ job' \in [Tasks -> JobType] /\ \A u \in Tasks : u # t => job'[u] = job[u]
        /\ job'[t].kind = job[t].kind /\ job'[t].pc = "end" /\ job'[t].ok = ok /\ Sensible(job'[t])
    BY <1>1, ReturnEffect, SubscriptionPlaces DEF SubscribeReturns
  <2>2. Retried(t)'
    BY <1>1, <2>1 DEF Retried, queueVars
  <2> QED BY <2>1, <2>2, SubscriptionPlaces, RetryWorks
<1>2. CASE job[t].kind # "subscribe"
  <2> DEFINE p == IF ok THEN "extended" ELSE "failed"
             j == [job[t] EXCEPT !.pc = p, !.batch = <<>>, !.again = <<>>]
  <2>1. p \in Pcs /\ <<>> \in Batches /\ <<>> \in Statuses /\ job[t] \in JobType
    BY ProcessWords, NoBatch, SubscriptionPlaces
  <2>2. job' = [job EXCEPT ![t] = j] /\ iso' = m /\ UNCHANGED <<queueVars, nodeVars, loop, resync>>
    BY <1>2 DEF SubscribeReturns, Typed, ControlTyped, cmdVars
  <2>3. j \in JobType /\ j.kind = job[t].kind /\ j.script = job[t].script /\ j.copy = job[t].copy
    <3> HIDE DEF p
    <3> QED BY <2>1 DEF JobType
  <2> HIDE DEF j
  <2>4. job' \in [Tasks -> JobType] /\ job'[t] = j /\ \A u \in Tasks : u # t => job'[u] = job[u]
    BY <2>2, <2>3, JobChanges
  <2>5. Sensible(job'[t]) /\ job'[t].kind = job[t].kind
    BY <1>2, <2>3, <2>4, SubscriptionPlaces DEF Sensible
  <2> QED BY <1>2, <2>2, <2>4, <2>5, SubscriptionPlaces, ElseWorks
<1> QED BY <1>1, <1>2

\* A batch that fails marks its scripts.
LEMMA BatchFailsWorks ==
  ASSUME Typed, NEW t \in Tasks, SubscriptionAt(t), NEW m, Grows(iso, m, {walletOf[t]}),
         BatchFails(t, m), failedWallets' = failedWallets,
         \E S \in SUBSET Scripts : failedBalances' = [failedBalances EXCEPT ![walletOf[t]] = S]
  PROVE  Works(t)
<1> DEFINE w == walletOf[t]
           k == IsoInitWalletUpdateStatus(m, w)
           n == Send(k, NodeCompletedMsg)
<1>1. w \in Wallets /\ job[t] \in JobType /\ iso \in IsoType /\ m \in IsoType
  BY SubscriptionPlaces DEF Grows
<1>2. Grows(m, k, {w}) /\ k \in IsoType
  BY <1>1, InitGrows
<1>3. Grows(iso, k, {w})
  <2> HIDE DEF k
  <2> QED BY <1>1, <1>2, GrowsOn
<1>4. Grows(k, n, {w}) /\ n \in IsoType
  <2> HIDE DEF k
  <2> QED BY <1>2, SendGrows, MsgsKnown, MsgsAbout
<1>5. Grows(iso, n, {w})
  <2> HIDE DEF k, n
  <2> QED BY <1>1, <1>3, <1>4, GrowsOn
<1>6. Batch(t) \in SUBSET Scripts
  BY <1>1 DEF Batch, JobType, Batches, Statuses
<1>7. MarksOf(w)
  <2>1. failedScripts[w] \cup Batch(t) \in SUBSET Scripts
    BY <1>1, <1>6 DEF Typed, ControlTyped
  <2>2. failedScripts' = [failedScripts EXCEPT ![w] = failedScripts[w] \cup Batch(t)]
    BY <1>1 DEF BatchFails, Typed, ControlTyped
  <2> QED BY <1>1, <2>1, <2>2, MarksSame DEF MarksOf
<1>8. SubscribeReturns(t, FALSE, n)
  BY DEF BatchFails
<1> HIDE DEF n
<1> QED BY <1>5, <1>7, <1>8, SubscriptionReturns

\* A subscription starts.
LEMMA BeginSubscribeWorks ==
  ASSUME Typed, NEW t \in Tasks, BeginSubscribe(t)
  PROVE  Works(t)
<1> DEFINE w == walletOf[t]
           j == [job[t] EXCEPT !.pc = "scan"]
<1>1. /\ w \in Wallets /\ job[t] \in JobType /\ Sensible(job[t]) /\ job[t].copy \in Tasks
      /\ iso \in IsoType /\ Start(t) /\ job[t].kind = "subscribe"
      /\ iso' = IsoAddWalletSyncState(iso, w, "subscription")
      /\ UNCHANGED <<nodeVars, markVars, cmdVars>>
  BY StartsOn DEF BeginSubscribe
<1>2. MarksOf(w) /\ Grows(iso, iso', {w})
  BY <1>1, MarksStay, SyncGrows, ProcessWords
<1>3. "scan" \in Pcs
  BY ProcessWords
<1>4. j \in JobType /\ j.kind = job[t].kind /\ j.copy = job[t].copy /\ j.pc = "scan"
  BY <1>1, <1>3, JobAt
<1>5. job' = [job EXCEPT ![t] = j]
  BY DEF BeginSubscribe, Typed, ControlTyped
<1> HIDE DEF j
<1>6. job' \in [Tasks -> JobType] /\ job'[t] = j /\ \A u \in Tasks : u # t => job'[u] = job[u]
  BY <1>4, <1>5, JobChanges
<1>7. Sensible(job'[t]) /\ job'[t].kind = job[t].kind
  BY <1>1, <1>4, <1>6 DEF Sensible, SubscribePcs
<1>8. Retried(t)'
  BY <1>4, <1>6 DEF Retried
<1>9. UNCHANGED <<nodeVars, loop, resync>>
  BY <1>1 DEF cmdVars
<1> QED BY <1>1, <1>2, <1>6, <1>7, <1>8, <1>9, RetryWorks

\* The scan finds the scripts that failed.
LEMMA ScanWorks ==
  ASSUME Typed, NEW t \in Tasks, Scan(t)
  PROVE  Works(t)
<1> DEFINE w == walletOf[t]
           c == job[t].copy
           R == ScanRange(w, c)
           A == SubscribedTwice(w, c)
           b == [s \in R |-> IF s \in R \ inMap[c] THEN Alias ELSE status[c][s]]
           a == [s \in A |-> IF s \in R \ inMap[c] THEN server[w][s] ELSE status[c][s]]
           j == [job[t] EXCEPT !.batch = b, !.again = a, !.pc = "compare"]
<1>1. SubscriptionAt(t) /\ UNCHANGED <<queueVars, nodeVars, iso, markVars, cmdVars>>
  BY DEF Scan, At, SubscriptionAt
<1>2. /\ job[t].kind = "subscribe" \/ (job[t].kind \in {"event", "dormant"} /\ job[t].script \in Scripts)
      /\ w \in Wallets /\ job[t] \in JobType /\ c \in Tasks /\ iso \in IsoType /\ phase[t] = "running"
  BY <1>1, SubscriptionPlaces
<1>3. MarksOf(w) /\ Grows(iso, iso', {w}) /\ failedScripts' = failedScripts
  BY <1>1, <1>2, MarksStay, SameGrows DEF markVars
<1>4. R \in SUBSET Scripts /\ A \in SUBSET Scripts /\ failedScripts[w] \subseteq R
  BY <1>2 DEF ScanRange, SubscribedTwice, Typed, ControlTyped
<1>5. /\ b \in [R -> Versions \cup {Alias}] /\ a \in [A -> Versions]
  <2>1. \A s \in Scripts : server[w][s] \in Versions /\ status[c][s] \in Versions
    BY <1>2 DEF Typed, DataTyped
  <2> HIDE DEF R, A
  <2> QED BY <1>4, <2>1
<1>6. b \in Batches /\ a \in Statuses /\ DOMAIN b = R
  <2> HIDE DEF R, A, a, b
  <2> QED BY <1>4, <1>5 DEF Batches, Statuses
<1>7. job' = [job EXCEPT ![t] = j]
  BY <1>2 DEF Scan, Typed, ControlTyped
<1> HIDE DEF a, b, R
<1>8. /\ j \in JobType /\ j.kind = job[t].kind /\ j.script = job[t].script /\ j.copy = c
      /\ j.pc = "compare" /\ j.batch = b
  BY <1>2, <1>6, ProcessWords DEF JobType
<1> HIDE DEF j
<1>9. job' \in [Tasks -> JobType] /\ job'[t] = j /\ \A u \in Tasks : u # t => job'[u] = job[u]
  BY <1>7, <1>8, JobChanges
<1>10. Sensible(job'[t]) /\ job'[t].kind = job[t].kind
  BY <1>2, <1>8, <1>9 DEF Sensible, SubscribePcs
<1>11. Retried(t)'
  <2>1. walletOf' = walletOf
    BY <1>1 DEF queueVars
  <2> QED BY <2>1, <1>3, <1>4, <1>6, <1>8, <1>9 DEF Retried
<1>12. UNCHANGED <<nodeVars, loop, resync>> /\ UNCHANGED queueVars
  BY <1>1 DEF cmdVars
<1> QED BY <1>2, <1>3, <1>9, <1>10, <1>11, <1>12, RetryWorks

\* The scan of a subscription fails.
LEMMA ScanFailsWorks ==
  ASSUME Typed, NEW t \in Tasks, ScanFails(t)
  PROVE  Works(t)
<1>1. SubscriptionAt(t) /\ SubscribeReturns(t, FALSE, iso) /\ UNCHANGED markVars
  BY DEF ScanFails, At, SubscriptionAt
<1>2. MarksOf(walletOf[t]) /\ Grows(iso, iso, {walletOf[t]})
  BY <1>1, SubscriptionPlaces, MarksStay, SameGrows
<1> QED BY <1>1, <1>2, SubscriptionReturns

\* The scripts that failed are compared as if their status had changed.
LEMMA CompareWorks ==
  ASSUME Typed, NEW t \in Tasks, Retried(t), Compare(t)
  PROVE  Works(t)
<1> DEFINE w == walletOf[t]
           f == [s \in DOMAIN job[t].batch |-> StatusOf(t, s)]
           U == UpdatedScripts(w, f, job[t].again)
           X == Changed(w, job[t].again)
<1>1. SubscriptionAt(t) /\ UNCHANGED markVars /\ job[t].pc = "compare"
  BY DEF Compare, At, SubscriptionAt
<1>2. /\ job[t].kind = "subscribe" \/ (job[t].kind \in {"event", "dormant"} /\ job[t].script \in Scripts)
      /\ w \in Wallets /\ job[t] \in JobType /\ job[t].copy \in Tasks /\ iso \in IsoType
      /\ phase[t] = "running"
  BY <1>1, SubscriptionPlaces
<1>3. MarksOf(w) /\ failedScripts' = failedScripts
  BY <1>1, <1>2, MarksStay DEF markVars
<1>4. job[t].kind = "subscribe" => failedScripts[w] \subseteq DOMAIN job[t].batch
  BY <1>1, <1>2 DEF Retried
<1>5. /\ U \subseteq DOMAIN job[t].batch /\ X \subseteq DOMAIN job[t].again
      /\ failedScripts[w] \cap DOMAIN job[t].batch \subseteq U \cup X
  BY DEF UpdatedScripts, Changed
<1> HIDE DEF U, X
<1>6. CASE U \cup X = {}
  <2>1. SubscribeReturns(t, TRUE, Send(iso, CompletedAllMsg(w)))
    BY <1>6 DEF Compare, U, X
  <2>2. CompletedAllMsg(w) \in Msgs /\ \A v \in Wallets :
           ~OfQueue(CompletedAllMsg(w), v) /\ (Completing(CompletedAllMsg(w), v) => v \in {w})
    BY <1>2, MsgsKnown, MsgsAbout
  <2>3. Grows(iso, Send(iso, CompletedAllMsg(w)), {w})
    BY <1>2, <2>2, SendGrows
  <2>4. job[t].kind = "subscribe" => failedScripts'[w] = {}
    BY <1>3, <1>4, <1>5, <1>6
  <2> QED BY <1>1, <1>3, <2>1, <2>3, <2>4, SubscriptionReturns
<1>7. CASE U \cup X # {}
  <2> DEFINE b == Restrict(job[t].batch, U)
             a == Restrict(job[t].again, X)
             j == [job[t] EXCEPT !.batch = b, !.again = a, !.pc = "b.balance"]
  <2>1. /\ job' = [job EXCEPT ![t] = j] /\ UNCHANGED <<queueVars, nodeVars, cmdVars>>
        /\ iso' = IsoAddWalletSyncState(IsoAddWalletCompletedState(iso, w, "subscription"), w, "balance")
    BY <1>7 DEF Compare, Typed, ControlTyped, U, X
  <2>2. Grows(iso, iso', {w})
    BY <1>2, <2>1, NextElementGrows, ProcessWords
  <2>3. b \in Batches /\ a \in Statuses /\ DOMAIN b = U /\ DOMAIN a = X
    <3>1. PICK S \in SUBSET Scripts : job[t].batch \in [S -> Versions \cup {Alias}]
      BY <1>2 DEF JobType, Batches
    <3>2. PICK T \in SUBSET Scripts : job[t].again \in [T -> Versions]
      BY <1>2 DEF JobType, Statuses
    <3>3. b \in [U -> Versions \cup {Alias}] /\ U \in SUBSET Scripts
      BY <1>5, <3>1 DEF Restrict
    <3>4. a \in [X -> Versions] /\ X \in SUBSET Scripts
      BY <1>5, <3>2 DEF Restrict
    <3> HIDE DEF a, b
    <3> QED BY <3>3, <3>4 DEF Batches, Statuses
  <2> HIDE DEF a, b
  <2>4. /\ j \in JobType /\ j.kind = job[t].kind /\ j.script = job[t].script /\ j.copy = job[t].copy
        /\ j.pc = "b.balance" /\ j.batch = b /\ j.again = a
    BY <1>2, <2>3, ProcessWords DEF JobType
  <2> HIDE DEF j
  <2>5. job' \in [Tasks -> JobType] /\ job'[t] = j /\ \A u \in Tasks : u # t => job'[u] = job[u]
    BY <2>1, <2>4, JobChanges
  <2>6. Sensible(job'[t]) /\ job'[t].kind = job[t].kind
    BY <1>2, <2>4, <2>5 DEF Sensible, SubscribePcs
  <2>7. Retried(t)'
    <3>1. walletOf' = walletOf
      BY <2>1 DEF queueVars
    <3>2. Batch(t)' = U \cup X
      BY <2>3, <2>4, <2>5 DEF Batch
    <3>3. job[t].kind = "subscribe" => failedScripts'[w] \subseteq U \cup X
      BY <1>3, <1>4, <1>5
    <3> QED BY <3>1, <3>2, <3>3, <2>4, <2>5 DEF Retried
  <2>8. UNCHANGED <<nodeVars, loop, resync>> /\ UNCHANGED queueVars
    BY <2>1 DEF cmdVars
  <2> QED BY <1>2, <1>3, <2>2, <2>5, <2>6, <2>7, <2>8, RetryWorks
<1> QED BY <1>6, <1>7

\* The balances of the batch.
LEMMA BatchBalanceWorks ==
  ASSUME Typed, NEW t \in Tasks, NEW F \in SUBSET Scripts, Retried(t), BatchBalance(t, F)
  PROVE  Works(t)
<1> DEFINE w == walletOf[t]
           m == IsoAddWalletCompletedState(iso, w, "balance")
           B == (failedBalances[w] \cup F) \ (Batch(t) \ F)
           n == IsoAddWalletSyncState(m, w, "transaction")
<1>1. SubscriptionAt(t) /\ UNCHANGED failedWallets /\ job[t].pc = "b.balance"
  BY DEF BatchBalance, At, SubscriptionAt
<1>2. w \in Wallets /\ iso \in IsoType /\ phase[t] = "running"
  BY <1>1, SubscriptionPlaces
<1>3. failedBalances' = [failedBalances EXCEPT ![w] = B] /\ B \in SUBSET Scripts
  BY <1>2 DEF BatchBalance, Typed, ControlTyped
<1>4. Grows(iso, m, {w}) /\ Grows(iso, n, {w})
  BY <1>2, CompletedGrows, NextElementGrows, ProcessWords
<1>5. BatchFails(t, m) \/ (Goto(t, "b.tx", n) /\ UNCHANGED failedScripts)
  BY DEF BatchBalance
<1> HIDE DEF m, n, B
<1>6. CASE BatchFails(t, m)
  BY <1>1, <1>3, <1>4, <1>6, BatchFailsWorks
<1>7. CASE Goto(t, "b.tx", n) /\ UNCHANGED failedScripts
  <2>1. MarksOf(w)
    BY <1>1, <1>2, <1>3, <1>7, MarksSame DEF MarksOf
  <2>2. job[t].kind = "subscribe" => failedScripts'[w] \subseteq Batch(t)
    BY <1>1, <1>2, <1>7 DEF Retried
  <2> QED BY <1>1, <1>4, <1>7, <2>1, <2>2, SubscriptionGoes
<1> QED BY <1>5, <1>6, <1>7

\* The transactions of the batch.
LEMMA BatchTransactionsWorks ==
  ASSUME Typed, NEW t \in Tasks, Retried(t), BatchTransactions(t)
  PROVE  Works(t)
<1> DEFINE w == walletOf[t]
           m == IsoAddWalletCompletedState(iso, w, "transaction")
           n == IsoAddWalletSyncState(m, w, "utxo")
<1>1. SubscriptionAt(t) /\ UNCHANGED <<failedWallets, failedBalances>> /\ job[t].pc = "b.tx"
  BY DEF BatchTransactions, At, SubscriptionAt
<1>2. w \in Wallets /\ iso \in IsoType /\ phase[t] = "running"
  BY <1>1, SubscriptionPlaces
<1>3. \E S \in SUBSET Scripts : failedBalances' = [failedBalances EXCEPT ![w] = S]
  BY <1>1, <1>2, MarksSame
<1>4. Grows(iso, m, {w}) /\ Grows(iso, n, {w}) /\ Grows(iso, iso, {w})
  BY <1>2, CompletedGrows, NextElementGrows, SameGrows, ProcessWords
<1>5. \/ BatchFails(t, iso)
      \/ Goto(t, "b.utxo", n) /\ UNCHANGED failedScripts
      \/ Goto(t, "b.unsub", m) /\ UNCHANGED failedScripts
  BY DEF BatchTransactions
<1> HIDE DEF m, n
<1>6. CASE BatchFails(t, iso)
  BY <1>1, <1>3, <1>4, <1>6, BatchFailsWorks
<1>7. ASSUME UNCHANGED failedScripts
      PROVE  MarksOf(w) /\ (job[t].kind = "subscribe" => failedScripts'[w] \subseteq Batch(t))
  BY <1>1, <1>2, <1>3, <1>7, MarksSame DEF MarksOf, Retried
<1>8. CASE Goto(t, "b.utxo", n) /\ UNCHANGED failedScripts
  BY <1>1, <1>4, <1>7, <1>8, SubscriptionGoes
<1>9. CASE Goto(t, "b.unsub", m) /\ UNCHANGED failedScripts
  BY <1>1, <1>4, <1>7, <1>9, SubscriptionGoes
<1> QED BY <1>5, <1>6, <1>8, <1>9

\* The batch gives up its dormant scripts.
LEMMA BatchUnsubscribeWorks ==
  ASSUME Typed, NEW t \in Tasks, NEW R \in SUBSET Scripts, Retried(t), BatchUnsubscribe(t, R)
  PROVE  Works(t)
<1> DEFINE w == walletOf[t]
           n == IsoAddWalletSyncState(iso, w, "utxo")
<1>1. SubscriptionAt(t) /\ UNCHANGED <<failedWallets, failedBalances>> /\ job[t].pc = "b.unsub"
  BY DEF BatchUnsubscribe, At, SubscriptionAt
<1>2. w \in Wallets /\ iso \in IsoType /\ phase[t] = "running"
  BY <1>1, SubscriptionPlaces
<1>3. \E S \in SUBSET Scripts : failedBalances' = [failedBalances EXCEPT ![w] = S]
  BY <1>1, <1>2, MarksSame
<1>4. Grows(iso, n, {w}) /\ Grows(iso, iso, {w})
  BY <1>2, SyncGrows, SameGrows, ProcessWords
<1>5. BatchFails(t, iso) \/ (Goto(t, "b.utxo", n) /\ UNCHANGED failedScripts)
  BY DEF BatchUnsubscribe
<1> HIDE DEF n
<1>6. CASE BatchFails(t, iso)
  BY <1>1, <1>3, <1>4, <1>6, BatchFailsWorks
<1>7. CASE Goto(t, "b.utxo", n) /\ UNCHANGED failedScripts
  <2>1. MarksOf(w)
    BY <1>1, <1>2, <1>3, <1>7, MarksSame DEF MarksOf
  <2>2. job[t].kind = "subscribe" => failedScripts'[w] \subseteq Batch(t)
    BY <1>1, <1>2, <1>7 DEF Retried
  <2> QED BY <1>1, <1>4, <1>7, <2>1, <2>2, SubscriptionGoes
<1> QED BY <1>5, <1>6, <1>7

\* The batch was synchronised: no failed script is left.
LEMMA BatchUtxosWorks ==
  ASSUME Typed, NEW t \in Tasks, Retried(t), BatchUtxos(t)
  PROVE  Works(t)
<1> DEFINE w == walletOf[t]
           m == IsoAddWalletCompletedState(iso, w, "utxo")
<1>1. SubscriptionAt(t) /\ UNCHANGED failedBalances /\ job[t].pc = "b.utxo" /\ Goto(t, "save", m)
  BY DEF BatchUtxos, At, SubscriptionAt
<1>2. w \in Wallets /\ iso \in IsoType /\ phase[t] = "running"
  BY <1>1, SubscriptionPlaces
<1>3. failedScripts' = [failedScripts EXCEPT ![w] = failedScripts[w] \ Batch(t)]
      /\ failedScripts[w] \ Batch(t) \in SUBSET Scripts /\ failedWallets' \in SUBSET Wallets
  BY <1>2 DEF BatchUtxos, Typed, ControlTyped
<1>4. MarksOf(w)
  BY <1>1, <1>2, <1>3, MarksSame DEF MarksOf
<1>5. Grows(iso, m, {w})
  BY <1>2, CompletedGrows, ProcessWords
<1>6. job[t].kind = "subscribe" => failedScripts'[w] \subseteq {}
  <2>1. job[t].kind = "subscribe" => failedScripts[w] \subseteq Batch(t)
    BY <1>1, <1>2 DEF Retried
  <2>2. failedScripts'[w] = failedScripts[w] \ Batch(t)
    BY <1>2, <1>3 DEF Typed, ControlTyped
  <2> QED BY <2>1, <2>2
<1> HIDE DEF m
<1> QED BY <1>1, <1>4, <1>5, <1>6, SubscriptionGoes

\* The statuses of a subscription are saved, and it ends.
LEMMA SaveStatusesWorks ==
  ASSUME Typed, NEW t \in Tasks, Retried(t), SaveStatuses(t)
  PROVE  Works(t)
<1>1. /\ SubscriptionAt(t) /\ UNCHANGED markVars /\ job[t].pc = "save"
      /\ SubscribeReturns(t, TRUE, iso) \/ SubscribeReturns(t, FALSE, iso)
  BY DEF SaveStatuses, At, SubscriptionAt
<1>2. walletOf[t] \in Wallets /\ iso \in IsoType /\ phase[t] = "running"
  BY <1>1, SubscriptionPlaces
<1>3. MarksOf(walletOf[t]) /\ Grows(iso, iso, {walletOf[t]})
  BY <1>1, <1>2, MarksStay, SameGrows
<1>4. job[t].kind = "subscribe" => failedScripts'[walletOf[t]] = {}
  BY <1>1, <1>2 DEF Retried, markVars
<1> QED BY <1>1, <1>3, <1>4, SubscriptionReturns

\* Every step of a task between its start and its end.
THEOREM TaskStepWorks ==
  ASSUME Typed, NEW t \in Tasks, Retried(t), TaskStep(t)
  PROVE  Works(t) \/ Finish(t) \/ QueueCleanup(t)
<1>1. ASSUME NEW F \in SUBSET Scripts, BatchBalance(t, F) \/ DormantBalance(t, F) \/ BatchUnsubscribe(t, F)
      PROVE  Works(t)
  BY <1>1, BatchBalanceWorks, DormantBalanceWorks, BatchUnsubscribeWorks
<1>2. ASSUME NEW ok \in BOOLEAN, EventBalance(t, ok) \/ \E s \in Scripts : CoSpent(t, s, ok)
      PROVE  Works(t)
  BY <1>2, EventBalanceWorks, CoSpentWorks
<1>3. CASE BeginSubscribe(t) \/ Scan(t) \/ ScanFails(t) \/ Compare(t)
  BY <1>3, BeginSubscribeWorks, ScanWorks, ScanFailsWorks, CompareWorks
<1>4. CASE BatchTransactions(t) \/ BatchUtxos(t) \/ SaveStatuses(t)
  BY <1>4, BatchTransactionsWorks, BatchUtxosWorks, SaveStatusesWorks
<1>5. CASE BeginEvent(t) \/ ProcessBegin(t) \/ Extended(t) \/ EventFailed(t) \/ BeginReset(t) \/ Reset(t)
  BY <1>5, BeginEventWorks, ProcessBeginWorks, ExtendedWorks, EventFailedWorks, ResetWorks
<1>6. CASE EventTransactions(t) \/ EventUtxos(t) \/ EventUnsubscribe(t)
  BY <1>6, EventTransactionsWorks, EventUtxosWorks, EventUnsubscribeWorks
<1>7. CASE CoSpentUnsubscribe(t) \/ EventDone(t) \/ BeginDormant(t) \/ DormantNext(t) \/ DormantSubscribe(t)
  BY <1>7, CoSpentUnsubscribeWorks, EventDoneWorks, BeginDormantWorks, DormantNextWorks,
     DormantSubscribeWorks
<1> QED BY <1>1, <1>2, <1>3, <1>4, <1>5, <1>6, <1>7 DEF TaskStep
=============================================================================
