--------------------------- MODULE MCTrezorBridge ----------------------------
(* The bridge on a small instance: two previous transactions, and PSBTs that  *)
(* differ in what the previous transactions are needed for.                   *)
EXTENDS TrezorBridge, TLC

MCTxInputs == [tx \in {"a", "b"} |-> 1]
MCTxOutputs == [tx \in {"a", "b"} |-> 1]

\* A short push is pushed as it was, a long one is not.
MCRepushed == [s3 |-> "s3", s4 |-> "s5"]

Input(prev, taproot, utxo) == [prev |-> prev, taproot |-> taproot, utxo |-> utxo]
Output(kind, amount, script) == [kind |-> kind, amount |-> amount, script |-> script]

\* A payment with change from one input.
Single == [inputs |-> <<Input("a", FALSE, NoTx)>>,
           outputs |-> <<Output("address", 900, "s1"), Output("change", 100, "s2")>>]

\* A payment from two inputs: the PSBT brings the transaction of the first along,
\* the second is taproot.
Double == [inputs |-> <<Input("b", FALSE, "b"), Input("a", TRUE, NoTx)>>,
           outputs |-> <<Output("address", 900, "s1"), Output("opReturn", 0, "s4")>>]

\* Below the dust limit.
Dusty == [inputs |-> <<Input("a", FALSE, "a")>>, 
          outputs |-> <<Output("address", 500, "s1"), Output("opReturn", 0, "s3")>>]

MCPayments == {Single, Double}
MCPsbts == {Single, Double, Dusty}
=============================================================================
