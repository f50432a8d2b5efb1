------------------------------ MODULE SeqTools ------------------------------
(***************************************************************************)
(* Sums, orders and selections on the vectors of the coin selection.  An     *)
(* order is a set of pairs, so that what sorting does can be proved once for  *)
(* every order.                                                              *)
(***************************************************************************)
EXTENDS Integers, Sequences, FiniteSets

\* The sum of a sequence of numbers.
SumOf(s) == LET sum[i \in 0..Len(s)] == IF i = 0 THEN 0 ELSE sum[i - 1] + s[i]
            IN  sum[Len(s)]

\* The members of S before i in the order, and S as the order sorts it.
Before(S, order, i) == {j \in S : <<j, i>> \in order}
Sorted(S, order) ==
    [k \in 1..Cardinality(S) |-> CHOOSE i \in S : Cardinality(Before(S, order, i)) = k - 1]

\* A stable sort of positions by a key, the least first.
ByKey(S, key) ==
    Sorted(S, {p \in S \X S : \/ key[p[1]] < key[p[2]]
                              \/ key[p[1]] = key[p[2]] /\ p[1] < p[2]})
InOrder(S) == Sorted(S, {p \in S \X S : p[1] < p[2]})

\* The members of s at the positions q, in the order of q.
Take(s, q) == [k \in DOMAIN q |-> s[q[k]]]
Indices(s) == {s[k] : k \in DOMAIN s}

\* Every order of a set of positions.
Shuffles(S) == {p \in [S -> S] : \A i \in S : \E k \in S : p[k] = i}
=============================================================================
