------------------------ MODULE IsolateStateManager ------------------------
(***************************************************************************)
(* IsolateStateManager and WalletUpdateCounter: the sync isolate counts    *)
(* the operations in progress per wallet and element, and sends a state    *)
(* message to the main isolate only when the element's state changes.      *)
(*                                                                         *)
(* The manager is a record, and a method an operator from the record before *)
(* the call to the record after it, because a step of the isolate between  *)
(* two awaits calls several methods in a row.  out is the message port to  *)
(* the main isolate.                                                       *)
(***************************************************************************)
EXTENDS Integers, Sequences, NodeStateManager

IsoInit == [known   |-> {},
            info    |-> [w \in Wallets |-> AllElements("waiting")],
            counter |-> [w \in Wallets |-> [e \in UpdateElements |-> 0]],
            out     |-> <<>>]

\* _sendStateUpdateToMain
Send(m, msg) == [m EXCEPT !.out = Append(@, msg)]

\* _isWalletAnySyncing
IsWalletAnySyncing(m, w) == \E e \in UpdateElements : m.info[w][e] = "syncing"

IsoInitWalletUpdateStatus(m, w) ==
    IF IsWalletAnySyncing(m, w) THEN m
    ELSE Send([m EXCEPT !.known = @ \cup {w},
                        !.info[w] = AllElements("waiting"),
                        !.counter[w] = [e \in UpdateElements |-> 0]], InitMsg(w))

IncrementCounter(m, w, e) == [m EXCEPT !.counter[w][e] = @ + 1]

\* It does not stop at zero.
DecrementCounter(m, w, e) == [m EXCEPT !.counter[w][e] = @ - 1]

IsoAddWalletSyncState(m, w, e) ==
    LET n == [IncrementCounter(m, w, e) EXCEPT !.info[w][e] = "syncing"] IN
    IF m.info[w][e] = "syncing" THEN n ELSE Send(n, SyncMsg(w, e))

\* decrementCounter returns true at zero and below.
IsoAddWalletCompletedState(m, w, e) ==
    LET n == DecrementCounter(m, w, e) IN
    IF n.counter[w][e] > 0 \/ m.info[w][e] = "completed" THEN n
    ELSE Send([n EXCEPT !.info[w][e] = "completed"], CompletedMsg(w, e))
=============================================================================
