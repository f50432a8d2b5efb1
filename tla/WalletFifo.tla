---------------------------- MODULE WalletFifo ----------------------------
(***************************************************************************)
(* What the per-wallet sync queue promises, without futures: each wallet   *)
(* has a line of tasks, only the task at the head of a line is served, and *)
(* a task leaves its line by being finished.  Lines of different wallets   *)
(* never wait for each other.                                              *)
(***************************************************************************)
EXTENDS Integers, Sequences

CONSTANTS Wallets, MaxTasks

VARIABLES
    submitted,  \* number of tasks handed in
    line,       \* wallet -> its tasks, oldest first
    served      \* wallet -> the head of its line has been started

Init ==
    /\ submitted = 0
    /\ line = [w \in Wallets |-> <<>>]
    /\ served = [w \in Wallets |-> FALSE]

Submit(w) ==
    /\ submitted < MaxTasks
    /\ submitted' = submitted + 1
    /\ line' = [line EXCEPT ![w] = Append(@, submitted')]
    /\ UNCHANGED served

Begin(w) ==
    /\ line[w] # <<>>
    /\ ~served[w]
    /\ served' = [served EXCEPT ![w] = TRUE]
    /\ UNCHANGED <<submitted, line>>

Finish(w) ==
    /\ served[w]
    /\ line' = [line EXCEPT ![w] = Tail(@)]
    /\ served' = [served EXCEPT ![w] = FALSE]
    /\ UNCHANGED submitted

vars == <<submitted, line, served>>

Next == \E w \in Wallets : Submit(w) \/ Begin(w) \/ Finish(w)

Spec ==
    /\ Init /\ [][Next]_vars
    /\ \A w \in Wallets : WF_vars(Begin(w)) /\ WF_vars(Finish(w))
===========================================================================
