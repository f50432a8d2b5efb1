--------------------------- MODULE SignTransaction ---------------------------
(***************************************************************************)
(* What trezor_sign_transaction computes between two calls of the device    *)
(* (trezor-bridge/src/lib.rs, trezor-connect-rs: psbt.rs, tx_verify.rs and   *)
(* the signing part of connected_device.rs).                                *)
(*                                                                          *)
(* A PSBT has inputs [prev, vout, taproot, utxo] and outputs [kind, amount,  *)
(* script].  prev is the id of the previous transaction; a raw transaction    *)
(* is named by the id its contents hash to.  utxo is the NON_WITNESS_UTXO    *)
(* the PSBT carries; every input carries a WITNESS_UTXO, as the wallet's     *)
(* PSBTs do.  Indices count from 1.                                          *)
(*                                                                          *)
(* The device serialises a transaction in parts; the many it sends are two    *)
(* here, the one with the inputs and the one with the outputs.               *)
(***************************************************************************)
EXTENDS Integers, Sequences, FiniteSetsExt

CONSTANTS
    TxInputs,    \* transaction id -> the number of its inputs
    TxOutputs,   \* transaction id -> the number of its outputs
    Repushed     \* OP_RETURN script -> OP_RETURN and one push of what follows its second byte

NoTx == "noTx"
NoScript == "noScript"
DustLimit == 546
-----------------------------------------------------------------------------
(* From the PSBT to the parameters of the device. *)

\* inject_prev_txs_into_psbt: an entry of the store with no input to go to is
\* an error, one for an input that has its transaction is skipped.
InjectRefuses(store, psbt) == \E i \in DOMAIN store : i > Len(psbt.inputs)

Injected(store, psbt) ==
    [psbt EXCEPT !.inputs = [i \in DOMAIN @ |->
        IF @[i].utxo = NoTx /\ i \in DOMAIN store
          THEN [@[i] EXCEPT !.utxo = store[i]] ELSE @[i]]]

\* psbt_to_sign_tx_params files the transaction of an input under the id the
\* input spends; the first input of an id decides.
PrevTxs(psbt) ==
    LET In == psbt.inputs
        Ids == {In[i].prev : i \in {j \in DOMAIN In : In[j].utxo # NoTx}}
        First(h) == CHOOSE i \in DOMAIN In :
                      /\ In[i].prev = h /\ In[i].utxo # NoTx
                      /\ \A j \in 1..i - 1 : In[j].prev # h \/ In[j].utxo = NoTx
    IN [h \in Ids |-> In[First(h)].utxo]

\* ... and turns an output into a path (change), data or an address.  The script
\* of a path is not known until the device has told its key.  Of an OP_RETURN
\* script the data is what follows its second byte, to be pushed anew: the same
\* script for one short push, another one for a push with a longer prefix; its
\* amount is always 0.
SignOutputs(psbt) ==
    [i \in DOMAIN psbt.outputs |->
        LET o == psbt.outputs[i] IN
        CASE o.kind = "change"   -> [o EXCEPT !.script = NoScript]
          [] o.kind = "opReturn" -> [o EXCEPT !.script = Repushed[@], !.amount = 0]
          [] OTHER -> o]

\* Mutant: the contents of a previous transaction are taken on trust.
ValidateTrusts(psbt) ==
    IF \A i \in DOMAIN psbt.inputs :
         psbt.inputs[i].taproot \/ psbt.inputs[i].prev \in DOMAIN PrevTxs(psbt)
      THEN "ok" ELSE "missing"

\* spendable and total of validate_sign_tx_params: the outputs that are not data.
Payments(psbt) == {i \in DOMAIN psbt.outputs : psbt.outputs[i].kind # "opReturn"}
PaymentsTotal(psbt) == MapThenSumSet(LAMBDA i : SignOutputs(psbt)[i].amount, Payments(psbt))

\* validate_sign_tx_params: the payments together are above the dust limit, every
\* input but a taproot one has its previous transaction, and every previous
\* transaction hashes to the id it is filed under.
Validate(psbt) ==
    LET prev == PrevTxs(psbt) IN
    CASE Payments(psbt) # {} /\ PaymentsTotal(psbt) < DustLimit -> "dust"
      [] \E i \in DOMAIN psbt.inputs :
           ~psbt.inputs[i].taproot /\ psbt.inputs[i].prev \notin DOMAIN prev
           -> "missing"
      [] \E h \in DOMAIN prev : prev[h] # h -> "mismatch"
      [] OTHER -> "ok"

\* derive_output_scripts asks the device for the key of every change output, in
\* turn: the outputs it has yet to ask for.
ToDerive(outs) == {i \in DOMAIN outs : outs[i].kind = "change" /\ outs[i].script = NoScript}
-----------------------------------------------------------------------------
(* The requests of the device in the signing loop.  hash is NoTx in a request *)
(* about the transaction that is signed.                                     *)

Request(ty, hash, idx) == [ty |-> ty, hash |-> hash, idx |-> idx]

\* find_prev_tx and the bounds of the two requests that name an index: an own
\* input or output, or one of a previous transaction.
InBounds(q, own, ofPrev, prev) ==
    IF q.hash = NoTx THEN q.idx <= own
                     ELSE q.hash \in DOMAIN prev /\ q.idx <= ofPrev[prev[q.hash]]

\* Whether the loop has an answer to the request.  A PSBT names no original
\* transactions (Txoriginput, Txorigoutput) and no payment requests.
Answerable(q, psbt) ==
    LET prev == PrevTxs(psbt) IN
    CASE q.ty = "input"  -> InBounds(q, Len(psbt.inputs), TxInputs, prev)
      [] q.ty = "output" -> InBounds(q, Len(psbt.outputs), TxOutputs, prev)
      [] q.ty \in {"meta", "extraData"} -> q.hash \in DOMAIN prev
      [] OTHER -> FALSE

\* The transaction whose data the acknowledgement carries.
AckSource(q, psbt) == IF q.hash = NoTx THEN NoTx ELSE PrevTxs(psbt)[q.hash]

\* consensus::deserialize of the parts the device has sent, one after the other:
\* one whole transaction and no byte more.
Deserializes(ser) == Len(ser) = 2 /\ ser[1].part = "inputs" /\ ser[2].part = "outputs"

\* verify_signed_tx: the transaction has the inputs and the amounts asked for and,
\* where one is expected, the script.
VerifySignedTx(ser, ins, outs) ==
    /\ Deserializes(ser)
    /\ ser[1].ins = ins
    /\ Len(ser[2].outs) = Len(outs)
    /\ \A i \in DOMAIN outs : /\ ser[2].outs[i].amount = outs[i].amount
                             /\ outs[i].script \in {NoScript, ser[2].outs[i].script}

\* apply_signatures_to_psbt: the inputs signed; one without a signature is skipped.
Applied(sigs, psbt) == sigs \cap DOMAIN psbt.inputs
=============================================================================
