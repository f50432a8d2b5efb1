--------------------------- MODULE SyncQueueFifo ---------------------------
(***************************************************************************)
(* The refinement mapping from the promise chain of runQueued to           *)
(* WalletFifo: a line per wallet.                                          *)
(***************************************************************************)
EXTENDS SyncQueue, FiniteSets, Sequences

\* The tasks of S with i - 1 older ones, and S from the oldest to the youngest.
Older(S, t) == {u \in S : u < t}
Ranked(S, i) == {t \in S : Cardinality(Older(S, t)) = i - 1}
ByAge(S) == [i \in 1 .. Cardinality(S) |-> CHOOSE t \in Ranked(S, i) : TRUE]

\* The line of a wallet: its live tasks, by creation order.
LiveOf(w) == {t \in Tasks : walletOf[t] = w /\ Live(t)}
LineOf(w) == ByAge(LiveOf(w))

ServedOf(w) == \E t \in Tasks : walletOf[t] = w /\ phase[t] \in {"running", "settled"}

Fifo == INSTANCE WalletFifo WITH
            submitted <- nTasks,
            line <- [w \in Wallets |-> LineOf(w)],
            served <- [w \in Wallets |-> ServedOf(w)]

\* The promise chain of runQueued implements a FIFO line per wallet.
ImplementsFifo == Fifo!Spec

\* The same without its fairness.
ImplementsLine == Fifo!Init /\ [][Fifo!Next]_Fifo!vars
=============================================================================
