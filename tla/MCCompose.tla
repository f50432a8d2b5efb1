------------------------------ MODULE MCCompose ------------------------------
(***************************************************************************)
(* Requests for Compose: amounts around the dust limit, around the cost of   *)
(* an input and around an exact match.                                       *)
(***************************************************************************)
EXTENDS Compose

Coin(id, amount, type, conf, own) ==
    [id |-> id, amount |-> amount, type |-> type, confirmations |-> conf, own |-> own,
     coinbase |-> FALSE, required |-> FALSE]

\* Cheap, worthless, legacy, unconfirmed, required and coinbase UTXOs.
Utxos == {Coin(5, 1000, "SpendWitness", 6, TRUE),
          Coin(4, 2110, "SpendTaproot", 0, TRUE),
          Coin(3, 1768, "SpendWitness", 3, FALSE),
          Coin(2, 300, "SpendAddress", 100, TRUE),
          [Coin(1, 1300, "SpendAddress", 0, FALSE) EXCEPT !.required = TRUE],
          [Coin(6, 2500, "SpendWitness", 99, TRUE) EXCEPT !.coinbase = TRUE]}

Output(kind, amount) ==
    [kind |-> kind, amount |-> amount, type |-> "SpendWitness", bytes |-> 20,
     parses |-> TRUE, script |-> 1]

Wishes == {<<>>,
           <<Output("payment", 900)>>,
           <<Output("payment", 1700), Output("opReturn", 0)>>,
           <<[Output("payment", 546) EXCEPT !.type = "SpendTaproot", !.script = 2],
             [Output("payment", 900) EXCEPT !.parses = FALSE]>>,
           <<Output("paymentNoAddress", 900)>>,
           <<Output("sendMax", 0), Output("payment", 600)>>,
           <<Output("sendMaxNoAddress", 0)>>}

InputLists == UNION {{s \in [1..n -> Utxos] : \A i, j \in 1..n : i # j => s[i] # s[j]} : n \in 0..3}

MCRequests ==
    [inputs : InputLists, outputs : Wishes, rate : {4}, baseFee : {0},
     purpose : {84}, change : {<<3, 0>>}, sorting : {"none", "bip69", "random"}]
    \cup [inputs : InputLists, outputs : Wishes, rate : {0, 6, 20}, baseFee : {0, 150},
          purpose : {86}, change : {<<>>}, sorting : {"none"}]

\* The least requests with a coinbase UTXO that sorting moves.
CoinbaseRequests ==
    [inputs : InputLists, outputs : {<<Output("payment", 900)>>}, rate : {4}, baseFee : {0},
     purpose : {84}, change : {<<0>>}, sorting : {"bip69"}]
=============================================================================
