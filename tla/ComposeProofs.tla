---------------------------- MODULE ComposeProofs ----------------------------
(***************************************************************************)
(* The composed transaction, for requests of any size.                      *)
(***************************************************************************)
EXTENDS Compose, CoinWeightsProofs, SequenceTheorems

-----------------------------------------------------------------------------
(* Types of the operators.  A request that is composed has a positive rate.  *)

Accepted == req \in Request /\ req.rate > 0
Coins == DOMAIN req.inputs

\* Weights and the dust limit are numbers, and the limit is at least 546.
LEMMA WeightTypes ==
  /\ \A t \in ScriptTypes : InputWeight[t] \in Nat /\ OutputWeight[t] \in Nat
  /\ \A t \in ScriptTypes : DustAmount(t) \in Nat /\ DustAmount(t) >= 546
  /\ ChangeType \in ScriptTypes
  /\ \A n \in Nat : VarintWeight(n) \in Nat
<1>1. \A t \in ScriptTypes : InputWeight[t] \in Nat /\ OutputWeight[t] \in Nat
  BY DEF ScriptTypes, InputWeight, OutputWeight
<1>2. ASSUME NEW t \in ScriptTypes PROVE DustAmount(t) \in Nat /\ DustAmount(t) >= 546
  <2>1. WeightToVbytes(InputWeight[t]) \in Nat
    BY <1>1, VbytesRoundUp
  <2> QED BY <2>1 DEF DustAmount
<1>3. ChangeType \in ScriptTypes
  BY DEF ChangeType, ScriptTypes
<1>4. \A n \in Nat : VarintWeight(n) \in Nat
  BY SMTT(30) DEF VarintWeight
<1> QED BY <1>1, <1>2, <1>3, <1>4

\* The parts of a request.
LEMMA RequestTypes ==
  ASSUME req \in Request
  PROVE  /\ Len(req.inputs) \in Nat /\ Coins = 1..Len(req.inputs)
         /\ Len(req.outputs) \in Nat /\ DOMAIN req.outputs = 1..Len(req.outputs)
         /\ \A i \in Coins : /\ req.inputs[i] \in Utxo
                             /\ req.inputs[i].amount \in Nat
                             /\ req.inputs[i].type \in ScriptTypes
                             /\ req.inputs[i].confirmations \in Nat
                             /\ req.inputs[i].id \in Int
         /\ \A i \in DOMAIN req.outputs : /\ req.outputs[i] \in Wish
                                          /\ req.outputs[i].amount \in Nat
                                          /\ req.outputs[i].type \in ScriptTypes
                                          /\ req.outputs[i].bytes \in Nat
                                          /\ req.outputs[i].script \in Int
                                          /\ req.outputs[i].kind \in OutputKinds
         /\ req.baseFee \in Nat /\ req.rate \in Int
         /\ req.sorting \in {"none", "bip69", "random"}
<1>1. req.inputs \in Seq(Utxo) /\ req.outputs \in Seq(Wish)
  BY DEF Request
<1>2. /\ Len(req.inputs) \in Nat /\ Coins = 1..Len(req.inputs)
      /\ Len(req.outputs) \in Nat /\ DOMAIN req.outputs = 1..Len(req.outputs)
  BY <1>1 DEF Coins
<1>3. \A i \in Coins : req.inputs[i] \in Utxo
  BY <1>1, <1>2
<1>4. \A i \in DOMAIN req.outputs : req.outputs[i] \in Wish
  BY <1>1, <1>2
<1>5. req.baseFee \in Nat /\ req.rate \in Int /\ req.sorting \in {"none", "bip69", "random"}
  BY DEF Request
<1> QED BY <1>2, <1>3, <1>4, <1>5 DEF Utxo, Wish

\* Amounts and weights of the wished outputs.
LEMMA OutputTypes ==
  ASSUME req \in Request
  PROVE  /\ \A i \in DOMAIN req.outputs : /\ CsAmount(req.outputs[i]) \in Nat
                                          /\ CsWeight(req.outputs[i]) \in Nat
         /\ CsWeights \in [1..Len(req.outputs) -> Nat]
         /\ CsOutputSum \in Nat
         /\ SumOf(CsWeights) \in Nat
<1>1. ASSUME NEW i \in DOMAIN req.outputs PROVE CsAmount(req.outputs[i]) \in Nat
  BY RequestTypes DEF CsAmount
<1>2. ASSUME NEW i \in DOMAIN req.outputs PROVE CsWeight(req.outputs[i]) \in Nat
  <2>1. /\ req.outputs[i].type \in ScriptTypes /\ req.outputs[i].bytes \in Nat
    BY RequestTypes
  <2>2. /\ OutputWeight[req.outputs[i].type] \in Nat /\ OutputWeight[ChangeType] \in Nat
        /\ OpReturnOutputWeight(req.outputs[i].bytes) \in Nat
    BY <2>1, WeightTypes DEF OpReturnOutputWeight
  <2> QED BY <2>2 DEF CsWeight
<1>3. CsWeights \in [1..Len(req.outputs) -> Nat]
  BY <1>2, RequestTypes DEF CsWeights
<1> DEFINE a == [i \in DOMAIN req.outputs |-> CsAmount(req.outputs[i])]
<1>4. a \in [1..Len(req.outputs) -> Nat]
  BY <1>1, RequestTypes
<1>5. \A s \in [1..Len(req.outputs) -> Nat] : SumOf(s) \in Nat
  <2> SUFFICES ASSUME NEW s \in [1..Len(req.outputs) -> Nat] PROVE SumOf(s) \in Nat
    OBVIOUS
  <2>1. s \in [1..Len(req.outputs) -> Int] /\ \A i \in 1..Len(req.outputs) : s[i] >= 0
    OBVIOUS
  <2>2. Len(req.outputs) \in Nat
    BY RequestTypes
  <2>3. SumOf(s) \in Int /\ SumOf(s) >= 0
    BY <2>1, <2>2, SumType, SumNat
  <2> QED BY <2>3
<1>6. CsOutputSum \in Nat
  BY <1>4, <1>5 DEF CsOutputSum
<1> QED BY <1>1, <1>2, <1>3, <1>5, <1>6

\* What a list of UTXOs is, seen as a vector.
LEMMA ListTypes ==
  ASSUME req \in Request, NEW S \in SUBSET Coins, NEW s, Enumerates(s, S)
  PROVE  /\ IsFiniteSet(S) /\ Cardinality(S) \in Nat
         /\ s \in [1..Cardinality(S) -> S] /\ s \in Seq(Coins)
         /\ Len(s) = Cardinality(S) /\ DOMAIN s = 1..Cardinality(S)
         /\ Indices(s) = S
         /\ (s = <<>>) <=> (S = {})
<1>1. IsFiniteSet(Coins)
  <2>1. Coins = 1..Len(req.inputs) /\ Len(req.inputs) \in Nat
    BY RequestTypes
  <2> QED BY <2>1, FS_Interval
<1>2. IsFiniteSet(S) /\ Cardinality(S) \in Nat
  BY <1>1, FS_Subset, FS_CardinalityType
<1> DEFINE n == Cardinality(S)
<1> HIDE DEF n
<1>3. s \in [1..n -> S] /\ \A x \in S : \E i \in 1..n : s[i] = x
  BY DEF Enumerates, n
<1>4. n \in Nat /\ (n = 0 <=> S = {})
  BY <1>2, FS_EmptySet DEF n
<1>5. s \in [1..n -> Coins]
  BY <1>3
<1>6. s \in Seq(Coins) /\ Len(s) = n
  BY <1>4, <1>5, VectorLen
<1>7. Indices(s) = S
  BY <1>3 DEF Indices
<1>8. (s = <<>>) <=> (n = 0)
  BY <1>6
<1> QED BY <1>2, <1>3, <1>4, <1>6, <1>7, <1>8 DEF n

\* A sum over the listed UTXOs does not depend on the order of the list.
LEMMA ListSum ==
  ASSUME req \in Request, NEW S \in SUBSET Coins, NEW g \in [Coins -> Int],
         NEW p, Enumerates(p, S), NEW q, Enumerates(q, S)
  PROVE  /\ SumOf(Take(g, p)) = SumOf(Take(g, q))
         /\ Take(g, p) \in [1..Cardinality(S) -> Int]
         /\ SumOf(Take(g, p)) \in Int
<1> DEFINE h == [i \in S |-> g[i]]
<1>1. h \in [S -> Int] /\ IsFiniteSet(S) /\ Cardinality(S) \in Nat
  BY ListTypes
<1>2. Take(g, p) = Take(h, p) /\ Take(g, q) = Take(h, q)
  <2>1. /\ \A k \in DOMAIN p : p[k] \in S
        /\ \A k \in DOMAIN q : q[k] \in S
    <3>1. p \in [1..Cardinality(S) -> S] /\ q \in [1..Cardinality(S) -> S]
      BY ListTypes
    <3> QED BY <3>1
  <2>2. \A i \in S : h[i] = g[i]
    OBVIOUS
  <2> HIDE DEF h
  <2> QED BY <2>1, <2>2 DEF Take
<1>3. Take(g, p) \in [1..Cardinality(S) -> Int]
  BY ListTypes DEF Take
<1> HIDE DEF h
<1>4. SumOf(Take(h, p)) = SumOf(Take(h, q))
  BY <1>1, SumEnumerated
<1>5. SumOf(Take(g, p)) \in Int
  BY <1>1, <1>3, SumType
<1> QED BY <1>2, <1>3, <1>4, <1>5

\* The amount, the weight of the inputs and the number of empty witnesses.
AmountsOfCoins == [i \in Coins |-> req.inputs[i].amount]
WeightsOfCoins == [i \in Coins |-> InputWeight[req.inputs[i].type]]
LegacyCoins == {i \in Coins : req.inputs[i].type \notin SegwitTypes}
WitnessesOfCoins == [i \in Coins |-> IF i \in LegacyCoins THEN 1 ELSE 0]

\* AmountOf and transaction_weight, as sums over the list.
LEMMA ListWeight ==
  ASSUME req \in Request, NEW S \in SUBSET Coins, NEW s, Enumerates(s, S), NEW ws
  PROVE  /\ AmountOf(s) = SumOf(Take(AmountsOfCoins, s))
         /\ TransactionWeight(TypesOf(s), ws) =
              LET plain == 32 + VarintWeight(Cardinality(S)) + VarintWeight(Len(ws))
                             + SumOf(Take(WeightsOfCoins, s)) + SumOf(ws)
              IN  IF S \subseteq LegacyCoins THEN plain
                  ELSE plain + 2 + SumOf(Take(WitnessesOfCoins, s))
<1> DEFINE n == Cardinality(S)
           types == TypesOf(s)
           legacy == {i \in DOMAIN types : types[i] \notin SegwitTypes}
<1>1. /\ n \in Nat /\ s \in [1..n -> S] /\ DOMAIN s = 1..n
      /\ \A x \in S : \E i \in 1..n : s[i] = x
  BY ListTypes DEF Enumerates
<1> HIDE DEF n
<1>2. \A i \in 1..n : s[i] \in Coins
  BY <1>1
<1>3. DOMAIN types = 1..n /\ \A i \in 1..n : types[i] = req.inputs[s[i]].type
  BY <1>1 DEF TypesOf
<1>4. Len(types) = n
  <2>1. types \in [1..n -> ScriptTypes]
    <3>1. \A i \in 1..n : req.inputs[s[i]].type \in ScriptTypes
      BY <1>2, RequestTypes
    <3> QED BY <1>1, <3>1 DEF TypesOf
  <2> HIDE DEF types
  <2> QED BY <1>1, <2>1, VectorLen
<1>5. [i \in DOMAIN types |-> InputWeight[types[i]]] = Take(WeightsOfCoins, s)
  <2> HIDE DEF types
  <2> QED BY <1>1, <1>2, <1>3 DEF Take, WeightsOfCoins
<1>6. \A i \in 1..n : i \in legacy <=> s[i] \in LegacyCoins
  <2> HIDE DEF types
  <2> QED BY <1>1, <1>2, <1>3 DEF LegacyCoins
<1>7. [i \in DOMAIN types |-> IF i \in legacy THEN 1 ELSE 0] = Take(WitnessesOfCoins, s)
  <2>1. \A i \in 1..n : Take(WitnessesOfCoins, s)[i] = IF s[i] \in LegacyCoins THEN 1 ELSE 0
    BY <1>1, <1>2 DEF Take, WitnessesOfCoins
  <2>2. Take(WitnessesOfCoins, s) = [i \in 1..n |-> Take(WitnessesOfCoins, s)[i]]
    BY <1>1 DEF Take
  <2> HIDE DEF types, legacy
  <2> QED BY <1>3, <1>6, <2>1, <2>2
<1>8. legacy = DOMAIN types <=> S \subseteq LegacyCoins
  <2>1. legacy \subseteq DOMAIN types
    OBVIOUS
  <2> HIDE DEF types, legacy
  <2> QED BY <1>1, <1>3, <1>6, <2>1
<1>9. AmountOf(s) = SumOf(Take(AmountsOfCoins, s))
  <2>1. [i \in DOMAIN s |-> req.inputs[s[i]].amount] = Take(AmountsOfCoins, s)
    BY <1>1, <1>2 DEF Take, AmountsOfCoins
  <2> QED BY <2>1 DEF AmountOf
<1> DEFINE plain == 32 + VarintWeight(n) + VarintWeight(Len(ws))
                      + SumOf(Take(WeightsOfCoins, s)) + SumOf(ws)
<1>10. TransactionWeight(types, ws) =
         IF legacy = DOMAIN types
           THEN 32 + VarintWeight(Len(types)) + VarintWeight(Len(ws))
                  + SumOf([i \in DOMAIN types |-> InputWeight[types[i]]]) + SumOf(ws)
           ELSE 32 + VarintWeight(Len(types)) + VarintWeight(Len(ws))
                  + SumOf([i \in DOMAIN types |-> InputWeight[types[i]]]) + SumOf(ws)
                  + 2 + SumOf([i \in DOMAIN types |-> IF i \in legacy THEN 1 ELSE 0])
  BY DEF TransactionWeight
<1> HIDE DEF legacy
<1>11. TransactionWeight(types, ws) =
         IF S \subseteq LegacyCoins THEN plain ELSE plain + 2 + SumOf(Take(WitnessesOfCoins, s))
  BY <1>4, <1>5, <1>7, <1>8, <1>10, Zenon
<1> QED BY <1>9, <1>11 DEF n

\* The amounts, weights and witness bytes of the UTXOs are vectors of naturals.
LEMMA CoinVectors ==
  ASSUME req \in Request
  PROVE  /\ AmountsOfCoins \in [Coins -> Int] /\ WeightsOfCoins \in [Coins -> Int]
         /\ WitnessesOfCoins \in [Coins -> Int]
         /\ \A i \in Coins : /\ AmountsOfCoins[i] >= 0 /\ WeightsOfCoins[i] >= 0
                             /\ WitnessesOfCoins[i] >= 0
<1>1. AmountsOfCoins \in [Coins -> Int] /\ \A i \in Coins : AmountsOfCoins[i] >= 0
  BY RequestTypes DEF AmountsOfCoins
<1>2. WeightsOfCoins \in [Coins -> Int] /\ \A i \in Coins : WeightsOfCoins[i] >= 0
  <2>1. \A i \in Coins : InputWeight[req.inputs[i].type] \in Nat
    BY RequestTypes, WeightTypes
  <2> QED BY <2>1 DEF WeightsOfCoins
<1>3. WitnessesOfCoins \in [Coins -> Int] /\ \A i \in Coins : WitnessesOfCoins[i] >= 0
  BY DEF WitnessesOfCoins
<1> QED BY <1>1, <1>2, <1>3

\* Sums over lists of UTXOs are natural numbers.
LEMMA ListNat ==
  ASSUME req \in Request, NEW S \in SUBSET Coins, NEW g \in [Coins -> Int],
         \A i \in Coins : g[i] >= 0, NEW s, Enumerates(s, S)
  PROVE  SumOf(Take(g, s)) \in Nat
<1>1. Take(g, s) \in [1..Cardinality(S) -> Int] /\ SumOf(Take(g, s)) \in Int
  BY ListSum
<1>2. Cardinality(S) \in Nat /\ \A k \in 1..Cardinality(S) : Take(g, s)[k] >= 0
  BY ListTypes DEF Take
<1>3. SumOf(Take(g, s)) >= 0
  BY <1>1, <1>2, SumNat
<1> QED BY <1>1, <1>3

\* The amount and the weight of a selection depend on the set of UTXOs only.
LEMMA OrderIrrelevant ==
  ASSUME req \in Request, NEW S \in SUBSET Coins, NEW ws,
         NEW p, Enumerates(p, S), NEW q, Enumerates(q, S)
  PROVE  /\ AmountOf(p) = AmountOf(q)
         /\ TransactionWeight(TypesOf(p), ws) = TransactionWeight(TypesOf(q), ws)
<1>1. /\ SumOf(Take(AmountsOfCoins, p)) = SumOf(Take(AmountsOfCoins, q))
      /\ SumOf(Take(WeightsOfCoins, p)) = SumOf(Take(WeightsOfCoins, q))
      /\ SumOf(Take(WitnessesOfCoins, p)) = SumOf(Take(WitnessesOfCoins, q))
  <2>1. /\ AmountsOfCoins \in [Coins -> Int] /\ WeightsOfCoins \in [Coins -> Int]
        /\ WitnessesOfCoins \in [Coins -> Int]
    BY CoinVectors
  <2>2. ASSUME NEW g \in [Coins -> Int] PROVE SumOf(Take(g, p)) = SumOf(Take(g, q))
    BY ListSum
  <2> QED BY <2>1, <2>2
<1>2. AmountOf(p) = AmountOf(q)
  BY <1>1, ListWeight
<1>3. TransactionWeight(TypesOf(p), ws) = TransactionWeight(TypesOf(q), ws)
  <2> DEFINE W(s) == LET plain == 32 + VarintWeight(Cardinality(S)) + VarintWeight(Len(ws))
                             + SumOf(Take(WeightsOfCoins, s)) + SumOf(ws)
                     IN  IF S \subseteq LegacyCoins THEN plain
                         ELSE plain + 2 + SumOf(Take(WitnessesOfCoins, s))
  <2>1. TransactionWeight(TypesOf(p), ws) = W(p) /\ TransactionWeight(TypesOf(q), ws) = W(q)
    BY ListWeight
  <2>2. W(p) = W(q)
    BY <1>1
  <2> QED BY <2>1, <2>2
<1> QED BY <1>2, <1>3

\* The weight of a transaction is a number, for outputs of any number and weight.
LEMMA WeightIsNat ==
  ASSUME req \in Request, NEW S \in SUBSET Coins, NEW s, Enumerates(s, S),
         NEW ws, Len(ws) \in Nat, SumOf(ws) \in Nat
  PROVE  TransactionWeight(TypesOf(s), ws) \in Nat
<1>1. /\ SumOf(Take(WeightsOfCoins, s)) \in Nat /\ SumOf(Take(WitnessesOfCoins, s)) \in Nat
  BY CoinVectors, ListNat
<1>2. VarintWeight(Cardinality(S)) \in Nat /\ VarintWeight(Len(ws)) \in Nat
  BY ListTypes, WeightTypes
<1> DEFINE plain == 32 + VarintWeight(Cardinality(S)) + VarintWeight(Len(ws))
                       + SumOf(Take(WeightsOfCoins, s)) + SumOf(ws)
<1>3. plain \in Nat /\ plain + 2 + SumOf(Take(WitnessesOfCoins, s)) \in Nat
  BY <1>1, <1>2, SMTT(30)
<1>4. TransactionWeight(TypesOf(s), ws) =
        IF S \subseteq LegacyCoins THEN plain ELSE plain + 2 + SumOf(Take(WitnessesOfCoins, s))
  BY ListWeight
<1> HIDE DEF plain
<1> QED BY <1>3, <1>4

\* The outputs with one for the change.
LEMMA ChangeWeights ==
  ASSUME req \in Request, NEW w \in Nat
  PROVE  /\ Len(CsWeights) = Len(req.outputs)
         /\ Append(CsWeights, w) \in [1..(Len(req.outputs) + 1) -> Nat]
         /\ Len(Append(CsWeights, w)) = Len(req.outputs) + 1
         /\ SumOf(Append(CsWeights, w)) = SumOf(CsWeights) + w
<1> DEFINE n == Len(req.outputs)
           c == Append(CsWeights, w)
<1>1. n \in Nat /\ CsWeights \in [1..n -> Nat]
  BY RequestTypes, OutputTypes
<1> HIDE DEF n
<1>2. CsWeights \in Seq(Nat) /\ Len(CsWeights) = n
  BY <1>1, VectorLen
<1>3. /\ c \in Seq(Nat) /\ Len(c) = n + 1 /\ c[n + 1] = w
      /\ \A i \in 1..n : c[i] = CsWeights[i]
  BY <1>1, <1>2
<1>4. c \in [1..(n + 1) -> Nat]
  <2>1. c \in Seq(Nat) /\ Len(c) = n + 1
    BY <1>3
  <2> HIDE DEF c
  <2> QED BY <2>1
<1> HIDE DEF c
<1>5. c \in [1..(n + 1) -> Int] /\ CsWeights \in [1..n -> Int]
  BY <1>1, <1>4
<1>6. SumOf(c) = SumOf(CsWeights) + c[n + 1]
  BY <1>1, <1>3, <1>5, SumStep
<1> QED BY <1>2, <1>3, <1>4, <1>6 DEF n, c

-----------------------------------------------------------------------------
(* finalize on a list of UTXOs. *)

\* The fee of a transaction that spends s and has outputs of the weights ws.
FeeOf(s, ws) == CalculateFee(req.rate, TransactionWeight(TypesOf(s), ws)) + req.baseFee
WithChange == Append(CsWeights, OutputWeight[ChangeType])

\* The weights of the outputs, without and with change, add up to numbers.
LEMMA WeightVectors ==
  ASSUME req \in Request
  PROVE  /\ Len(CsWeights) \in Nat /\ SumOf(CsWeights) \in Nat
         /\ Len(WithChange) \in Nat /\ SumOf(WithChange) \in Nat
<1>1. Len(CsWeights) \in Nat /\ SumOf(CsWeights) \in Nat
  BY RequestTypes, OutputTypes, ChangeWeights
<1>2. OutputWeight[ChangeType] \in Nat /\ Len(req.outputs) \in Nat
  BY RequestTypes, WeightTypes
<1>3. /\ Len(WithChange) = Len(req.outputs) + 1
      /\ SumOf(WithChange) = SumOf(CsWeights) + OutputWeight[ChangeType]
  BY <1>2, ChangeWeights DEF WithChange
<1> QED BY <1>1, <1>2, <1>3

\* Fees and amounts are natural numbers.
LEMMA FeeTypes ==
  ASSUME Accepted, NEW S \in SUBSET Coins, NEW s, Enumerates(s, S)
  PROVE  /\ FeeOf(s, CsWeights) \in Nat /\ FeeOf(s, WithChange) \in Nat
         /\ AmountOf(s) \in Nat
<1>1. req \in Request /\ req.rate \in Nat /\ req.baseFee \in Nat
  BY RequestTypes DEF Accepted
<1>2. ASSUME NEW ws, Len(ws) \in Nat, SumOf(ws) \in Nat PROVE FeeOf(s, ws) \in Nat
  <2>1. TransactionWeight(TypesOf(s), ws) \in Nat
    BY <1>1, <1>2, WeightIsNat
  <2>2. CalculateFee(req.rate, TransactionWeight(TypesOf(s), ws)) \in Nat
    BY <1>1, <2>1, FeeRoundsUp
  <2> QED BY <1>1, <2>2 DEF FeeOf
<1>3. /\ Len(CsWeights) \in Nat /\ SumOf(CsWeights) \in Nat
      /\ Len(WithChange) \in Nat /\ SumOf(WithChange) \in Nat
  BY <1>1, WeightVectors
<1>4. AmountOf(s) \in Nat
  <2>1. SumOf(Take(AmountsOfCoins, s)) \in Nat
    BY <1>1, CoinVectors, ListNat
  <2> QED BY <1>1, <2>1, ListWeight
<1> QED BY <1>2, <1>3, <1>4

\* finalize as the weight and the amount of the list decide it.
LEMMA FinalizeIs ==
  ASSUME NEW s
  PROVE  FinalizeWith(s) = Finalize(AmountOf(s), CsOutputSum, FeeOf(s, CsWeights),
                                    FeeOf(s, WithChange), DustAmount(ChangeType))
  BY DEF FinalizeWith, FeeOf, WithChange

\* An accepted list pays for outputs and fee, and change is above the limit.
LEMMA FinalizeList ==
  ASSUME Accepted, NEW S \in SUBSET Coins, NEW s, Enumerates(s, S), FinalizeWith(s).ok
  PROVE  Sound(FinalizeWith(s), AmountOf(s), CsOutputSum, FeeOf(s, CsWeights),
               FeeOf(s, WithChange), DustAmount(ChangeType))
<1>1. /\ FeeOf(s, CsWeights) \in Nat /\ FeeOf(s, WithChange) \in Nat /\ AmountOf(s) \in Nat
  BY FeeTypes
<1>2. CsOutputSum \in Nat
  BY OutputTypes DEF Accepted
<1>3. DustAmount(ChangeType) \in Nat \ {0}
  BY WeightTypes
<1> QED BY <1>1, <1>2, <1>3, FinalizeIs, FinalizeSound

\* finalize does not depend on the order of the list.
LEMMA FinalizeSame ==
  ASSUME req \in Request, NEW S \in SUBSET Coins,
         NEW p, Enumerates(p, S), NEW q, Enumerates(q, S)
  PROVE  FinalizeWith(p) = FinalizeWith(q)
<1>1. AmountOf(p) = AmountOf(q)
  BY OrderIrrelevant
<1>2. FeeOf(p, CsWeights) = FeeOf(q, CsWeights) /\ FeeOf(p, WithChange) = FeeOf(q, WithChange)
  BY OrderIrrelevant DEF FeeOf
<1> QED BY <1>1, <1>2, FinalizeIs

\* A set of UTXOs covers the payment if a list of it finalises.
LEMMA CoversList ==
  ASSUME req \in Request, NEW S \in SUBSET Coins, NEW s, Enumerates(s, S)
  PROVE  Covers(S) <=> (s # <<>> /\ FinalizeWith(s).ok)
<1>1. IsFiniteSet(S) /\ (s = <<>> <=> S = {})
  BY ListTypes
<1>2. S \in SUBSET Int
  BY RequestTypes
<1>3. Enumerates(InOrder(S), S)
  BY <1>1, <1>2, InOrderEnumerates
<1>4. FinalizeWith(InOrder(S)) = FinalizeWith(s)
  BY <1>3, FinalizeSame
<1> QED BY <1>1, <1>4 DEF Covers

\* A step that keeps the request keeps what is computed from it.
LEMMA RequestFrame ==
  ASSUME req' = req, NEW s
  PROVE  /\ FinalizeWith(s)' = FinalizeWith(s) /\ Success(s)' = Success(s)
         /\ AmountOf(s)' = AmountOf(s) /\ InputFee(s)' = InputFee(s)
         /\ Covers(s)' = Covers(s)
         /\ HasSendMax' = HasSendMax /\ ChangeType' = ChangeType
         /\ CsOutputSum' = CsOutputSum /\ CsWeights' = CsWeights
         /\ FeeOf(s, CsWeights)' = FeeOf(s, CsWeights)
<1>1. ChangeType' = ChangeType
  BY DEF ChangeType
<1>2. HasSendMax' = HasSendMax
  BY DEF HasSendMax
<1>3. CsOutputSum' = CsOutputSum
  BY DEF CsOutputSum
<1>4. CsWeights' = CsWeights
  BY <1>1 DEF CsWeights, CsWeight
<1>5. /\ AmountOf(s)' = AmountOf(s) /\ TypesOf(s)' = TypesOf(s) /\ InputFee(s)' = InputFee(s)
  BY DEF AmountOf, TypesOf, InputFee
<1>6. FinalizeWith(s)' = FinalizeWith(s)
  BY <1>1, <1>3, <1>4, <1>5 DEF FinalizeWith
<1>7. Success(s)' = Success(s)
  BY <1>6 DEF Success
<1>8. Covers(s)' = Covers(s)
  <2>1. AmountOf(InOrder(s))' = AmountOf(InOrder(s)) /\ TypesOf(InOrder(s))' = TypesOf(InOrder(s))
    BY DEF AmountOf, TypesOf
  <2>2. FinalizeWith(InOrder(s))' = FinalizeWith(InOrder(s))
    BY <1>1, <1>3, <1>4, <2>1 DEF FinalizeWith
  <2> QED BY <2>2 DEF Covers
<1>9. FeeOf(s, CsWeights)' = FeeOf(s, CsWeights)
  BY <1>4, <1>5 DEF FeeOf
<1> QED BY <1>1, <1>2, <1>3, <1>4, <1>5, <1>6, <1>7, <1>8, <1>9

-----------------------------------------------------------------------------
(* The search.  f lists candidates; only their values matter.               *)

Fits(f) == /\ Len(f) \in Nat /\ DOMAIN f = 1..Len(f)
           /\ \A k \in 1..Len(f) : f[k].value \in Nat

\* What the candidates at the positions in S are worth.
Worth(f, S) == SumOf([k \in DOMAIN f |-> IF k \in S THEN f[k].value ELSE 0])

\* The worth of a set of candidates is a natural that grows by what is added.
LEMMA WorthFacts ==
  ASSUME NEW f, Fits(f), NEW S
  PROVE  /\ Worth(f, S) \in Nat
         /\ S = {} => Worth(f, S) = 0
         /\ \A d \in 1..Len(f) : d \notin S => Worth(f, S \cup {d}) = Worth(f, S) + f[d].value
<1> DEFINE n == Len(f)
           V(T) == [k \in DOMAIN f |-> IF k \in T THEN f[k].value ELSE 0]
<1>1. n \in Nat /\ DOMAIN f = 1..n /\ \A k \in 1..n : f[k].value \in Nat
  BY DEF Fits
<1> HIDE DEF n
<1>2. ASSUME NEW T
      PROVE  /\ V(T) \in [1..n -> Int] /\ \A k \in 1..n : V(T)[k] >= 0
             /\ \A k \in 1..n : V(T)[k] = IF k \in T THEN f[k].value ELSE 0
  BY <1>1
<1>3. Worth(f, S) = SumOf(V(S))
  BY DEF Worth
<1>4. \A d : Worth(f, S \cup {d}) = SumOf(V(S \cup {d}))
  BY DEF Worth
<1> HIDE DEF V
<1>5. Worth(f, S) \in Nat
  <2>1. SumOf(V(S)) \in Int /\ SumOf(V(S)) >= 0
    BY <1>1, <1>2, SumType, SumNat
  <2> QED BY <2>1, <1>3
<1>6. S = {} => Worth(f, S) = 0
  BY <1>1, <1>2, <1>3, SumZeros
<1>7. ASSUME NEW d \in 1..n, d \notin S
      PROVE  Worth(f, S \cup {d}) = Worth(f, S) + f[d].value
  <2> DEFINE a == V(S)
             b == V(S \cup {d})
  <2>1. a \in [1..n -> Int] /\ b \in [1..n -> Int] /\ a[d] = 0 /\ b[d] = f[d].value
    BY <1>2, <1>7
  <2>2. \A i \in 1..n : i # d => b[i] = a[i]
    BY <1>2
  <2> HIDE DEF a, b
  <2>3. SumOf(b) = SumOf(a) + (b[d] - a[d])
    BY <1>1, <2>1, <2>2, SumUpdate
  <2>4. SumOf(b) = SumOf(a) + f[d].value
    BY <2>1, <2>3, <1>1
  <2> QED BY <2>4, <1>3, <1>4 DEF a, b
<1> QED BY <1>5, <1>6, <1>7 DEF n

\* suffix_sums, from the last position on.
LEMMA RestFacts ==
  ASSUME NEW f, Fits(f)
  PROVE  /\ RestWorth(f, Len(f) + 1) = 0
         /\ \A d \in 1..Len(f) : RestWorth(f, d) = f[d].value + RestWorth(f, d + 1)
         /\ \A d \in 1..(Len(f) + 1) : RestWorth(f, d) \in Nat
<1> DEFINE n == Len(f)
           R(d) == [i \in 1..(n - d + 1) |-> f[d + i - 1].value]
<1>1. n \in Nat /\ DOMAIN f = 1..n /\ \A k \in 1..n : f[k].value \in Nat
  BY DEF Fits
<1>2. \A d : RestWorth(f, d) = SumOf(R(d))
  BY DEF RestWorth
<1> HIDE DEF n
<1>3. ASSUME NEW d \in 1..(n + 1)
      PROVE  /\ n - d + 1 \in Nat /\ R(d) \in [1..(n - d + 1) -> Int]
             /\ \A i \in 1..(n - d + 1) : R(d)[i] = f[d + i - 1].value /\ R(d)[i] >= 0
  <2>1. \A i \in 1..(n - d + 1) : d + i - 1 \in 1..n
    BY <1>1
  <2>2. \A i \in 1..(n - d + 1) : f[d + i - 1].value \in Nat
    BY <2>1, <1>1
  <2> QED BY <2>2, <1>1
<1> HIDE DEF R
<1>4. RestWorth(f, n + 1) = 0
  <2>1. n + 1 \in 1..(n + 1) /\ n - (n + 1) + 1 = 0
    BY <1>1
  <2>2. R(n + 1) \in [1..0 -> Int]
    BY <2>1, <1>3
  <2> QED BY <2>2, <1>2, SumEmpty
<1>5. ASSUME NEW d \in 1..(n + 1) PROVE RestWorth(f, d) \in Nat
  <2>1. SumOf(R(d)) \in Int /\ SumOf(R(d)) >= 0
    BY <1>3, SumType, SumNat
  <2> QED BY <2>1, <1>2
<1>6. ASSUME NEW d \in 1..n PROVE RestWorth(f, d) = f[d].value + RestWorth(f, d + 1)
  <2>1. /\ d \in 1..(n + 1) /\ d + 1 \in 1..(n + 1) /\ n - (d + 1) + 1 = n - d
        /\ (n - d) \in Nat /\ n - d + 1 = (n - d) + 1 /\ d + 1 - 1 = d
    BY <1>1
  <2>2. R(d) \in [1..((n - d) + 1) -> Int] /\ R(d + 1) \in [1..(n - d) -> Int]
    BY <2>1, <1>3
  <2>3. \A i \in 1..(n - d) : R(d + 1)[i] = R(d)[i + 1]
    <3> SUFFICES ASSUME NEW i \in 1..(n - d) PROVE R(d + 1)[i] = R(d)[i + 1]
      OBVIOUS
    <3>1. R(d + 1)[i] = f[(d + 1) + i - 1].value
      BY <1>3, <2>1
    <3>2. R(d)[i + 1] = f[d + (i + 1) - 1].value
      <4>1. i + 1 \in 1..(n - d + 1)
        BY <2>1
      <4> QED BY <4>1, <1>3, <2>1
    <3>3. (d + 1) + i - 1 = d + (i + 1) - 1
      BY <1>1
    <3> QED BY <3>1, <3>2, <3>3
  <2>4. R(d)[1] = f[d].value
    <3>1. 1 \in 1..(n - d + 1)
      BY <2>1
    <3>2. R(d)[1] = f[d + 1 - 1].value
      BY <3>1, <1>3, <2>1
    <3> QED BY <3>2, <2>1
  <2>5. SumOf(R(d)) = R(d)[1] + SumOf(R(d + 1))
    BY <2>1, <2>2, <2>3, SumHead
  <2> QED BY <2>4, <2>5, <1>2
<1> QED BY <1>4, <1>5, <1>6 DEF n

\* No choice from depth d on is worth more than the suffix sum.
LEMMA RestBounds ==
  ASSUME NEW f, Fits(f), NEW d \in 1..(Len(f) + 1), NEW S \in SUBSET (d..Len(f))
  PROVE  Worth(f, S) <= RestWorth(f, d)
<1> DEFINE n == Len(f)
           Q(c) == \A T \in SUBSET (c..n) : Worth(f, T) <= RestWorth(f, c)
           J == {j \in Nat : j <= n => Q(n + 1 - j)}
<1>1. n \in Nat /\ \A k \in 1..n : f[k].value \in Nat
  BY DEF Fits
<1>2. 0 \in J
  <2>1. \A T \in SUBSET ((n + 1)..n) : T = {}
    BY <1>1
  <2>2. Worth(f, {}) = 0 /\ RestWorth(f, n + 1) = 0
    BY WorthFacts, RestFacts
  <2>3. Q(n + 1)
    <3>1. ASSUME NEW T \in SUBSET ((n + 1)..n) PROVE Worth(f, T) <= RestWorth(f, n + 1)
      <4>1. T = {}
        BY <2>1
      <4>2. Worth(f, T) = 0
        BY <4>1, <2>2
      <4> QED BY <4>2, <2>2
    <3> QED BY <3>1
  <2> HIDE DEF Q
  <2>4. n + 1 - 0 = n + 1
    BY <1>1
  <2> QED BY <2>3, <2>4
<1>3. ASSUME NEW j \in Nat, j \in J PROVE j + 1 \in J
  <2> SUFFICES ASSUME j + 1 <= n PROVE Q(n + 1 - (j + 1))
    OBVIOUS
  <2>1. PICK c \in 1..n : c = n + 1 - (j + 1) /\ c + 1 = n + 1 - j
    BY <1>1
  <2>2. Q(c + 1)
    <3> HIDE DEF Q
    <3> QED BY <1>1, <1>3, <2>1
  <2>3. ASSUME NEW T \in SUBSET (c..n) PROVE Worth(f, T) <= RestWorth(f, c)
    <3> DEFINE U == T \ {c}
    <3>1. U \in SUBSET ((c + 1)..n) /\ c \notin U
      BY <1>1
    <3>2. Worth(f, U) <= RestWorth(f, c + 1)
      <4> HIDE DEF U, n
      <4> QED BY <3>1, <2>2
    <3>3. Worth(f, T) \in {Worth(f, U), Worth(f, U) + f[c].value}
      <4>1. T = U \/ T = U \cup {c}
        OBVIOUS
      <4> HIDE DEF U
      <4>2. Worth(f, U \cup {c}) = Worth(f, U) + f[c].value
        BY <3>1, WorthFacts
      <4> QED BY <4>1, <4>2
    <3>4. Worth(f, U) \in Nat /\ f[c].value \in Nat
      BY <1>1, WorthFacts
    <3>5. RestWorth(f, c) = f[c].value + RestWorth(f, c + 1) /\ RestWorth(f, c + 1) \in Nat
      <4>1. c + 1 \in 1..(n + 1)
        BY <1>1
      <4> QED BY <4>1, RestFacts
    <3> HIDE DEF U, n
    <3> QED BY <3>2, <3>3, <3>4, <3>5
  <2> QED BY <2>1, <2>3
<1>4. \A j \in Nat : j \in J
  <2> HIDE DEF J
  <2> QED BY <1>2, <1>3, SetInduction
<1>5. Q(d)
  <2>1. PICK j \in Nat : j <= n /\ n + 1 - j = d
    <3>1. n + 1 - d \in Nat /\ n + 1 - d <= n /\ n + 1 - (n + 1 - d) = d
      BY <1>1
    <3> QED BY <3>1
  <2> HIDE DEF Q
  <2> QED BY <2>1, <1>4
<1> QED BY <1>5

\* The window of branch and bound, and what a call at depth d with the sum x
\* promises of its answer r: a match lies in the window, a call that comes back
\* without one has ruled out every choice from d on, and one that stops the
\* search without a match has used up the limit of calls.
InWindow(v) == Target <= v /\ v <= Target + CostOfChange
Good(f, r, d, x) ==
    /\ r \in [stop : BOOLEAN, found : BOOLEAN, picks : SUBSET (d..Len(f)), tries : Nat]
    /\ r.found => r.stop /\ InWindow(x + Worth(f, r.picks))
    /\ ~r.stop => \A S \in SUBSET (d..Len(f)) : ~InWindow(x + Worth(f, S))
    /\ (r.stop /\ ~r.found) => r.tries >= MaxTries

\* An answer without picks; the answer with the UTXO at hand; and the two reasons
\* not to go deeper.
Answer(stop, found, tries) == [stop |-> stop, found |-> found, picks |-> {}, tries |-> tries]
With(f, b, d, x, k) == b[<<d + 1, x + f[d].value, k + 1>>]
Hopeless(f, d, x) == d > Len(f) \/ x + RestWorth(f, d) < Target

\* The branches of a call, one implication each.
CallSpec(f, b, d, x, k) ==
    /\ k >= MaxTries => Call(f, b, <<d, x, k>>) = Answer(TRUE, FALSE, k)
    /\ (k < MaxTries /\ x > Target + CostOfChange)
         => Call(f, b, <<d, x, k>>) = Answer(FALSE, FALSE, k + 1)
    /\ (k < MaxTries /\ InWindow(x))
         => Call(f, b, <<d, x, k>>) = Answer(TRUE, TRUE, k + 1)
    /\ (k < MaxTries /\ x < Target /\ Hopeless(f, d, x))
         => Call(f, b, <<d, x, k>>) = Answer(FALSE, FALSE, k + 1)
    /\ (k < MaxTries /\ x < Target /\ ~Hopeless(f, d, x) /\ With(f, b, d, x, k).stop)
         => Call(f, b, <<d, x, k>>) =
              [With(f, b, d, x, k) EXCEPT !.picks = @ \cup {d}]
    /\ (k < MaxTries /\ x < Target /\ ~Hopeless(f, d, x) /\ ~With(f, b, d, x, k).stop)
         => Call(f, b, <<d, x, k>>) = b[<<d + 1, x, With(f, b, d, x, k).tries>>]

\* bnb_search takes exactly one of them.
LEMMA CallIs ==
  ASSUME NEW f, NEW b, NEW d \in Nat, NEW x \in Nat, NEW k \in Nat,
         Target \in Nat, CostOfChange \in Nat, Len(f) \in Nat, RestWorth(f, d) \in Nat
  PROVE  CallSpec(f, b, d, x, k)
<1>1. MaxTries \in Nat
  BY MaxTriesAssumption
<1>2. InWindow(x) <=> x \in Target..(Target + CostOfChange)
  BY DEF InWindow
<1>3. <<d, x, k>>[1] = d /\ <<d, x, k>>[2] = x /\ <<d, x, k>>[3] = k
  OBVIOUS
<1>4. CASE k >= MaxTries
  BY <1>1, <1>2, <1>3, <1>4 DEF CallSpec, Call, Answer, With, Hopeless
<1>5. CASE k < MaxTries /\ x > Target + CostOfChange
  BY <1>1, <1>2, <1>3, <1>5 DEF CallSpec, Call, Answer, With, Hopeless
<1>6. CASE k < MaxTries /\ InWindow(x)
  BY <1>1, <1>2, <1>3, <1>6 DEF CallSpec, Call, Answer, With, Hopeless
<1>7. CASE k < MaxTries /\ x < Target
  BY <1>1, <1>2, <1>3, <1>7, SMTT(30) DEF CallSpec, Call, Answer, With, Hopeless
<1> QED BY <1>1, <1>4, <1>5, <1>6, <1>7 DEF InWindow

\* A call is as good as the calls it makes.
LEMMA CallGood ==
  ASSUME NEW f, Fits(f), Target \in Nat, CostOfChange \in Nat,
         NEW b, NEW d \in 1..(Len(f) + 1), NEW x \in Nat, NEW k \in Nat,
         d <= Len(f) => \A y, m \in Nat : Good(f, b[<<d + 1, y, m>>], d + 1, y)
  PROVE  Good(f, Call(f, b, <<d, x, k>>), d, x)
<1> DEFINE n == Len(f)
           c == Call(f, b, <<d, x, k>>)
           with == With(f, b, d, x, k)
           deep == Hopeless(f, d, x)
<1>1. /\ n \in Nat /\ \A i \in 1..n : f[i].value \in Nat
      /\ RestWorth(f, d) \in Nat /\ Worth(f, {}) = 0 /\ MaxTries \in Nat
      /\ \A S : Worth(f, S) \in Nat
  BY WorthFacts, RestFacts, MaxTriesAssumption DEF Fits
<1>2. /\ k >= MaxTries => c = Answer(TRUE, FALSE, k)
      /\ (k < MaxTries /\ x > Target + CostOfChange) => c = Answer(FALSE, FALSE, k + 1)
      /\ (k < MaxTries /\ InWindow(x)) => c = Answer(TRUE, TRUE, k + 1)
      /\ (k < MaxTries /\ x < Target /\ deep) => c = Answer(FALSE, FALSE, k + 1)
      /\ (k < MaxTries /\ x < Target /\ ~deep /\ with.stop)
           => c = [with EXCEPT !.picks = @ \cup {d}]
      /\ (k < MaxTries /\ x < Target /\ ~deep /\ ~with.stop)
           => c = b[<<d + 1, x, with.tries>>]
  <2>1. d \in Nat /\ Len(f) \in Nat /\ RestWorth(f, d) \in Nat
    BY <1>1
  <2>2. CallSpec(f, b, d, x, k)
    BY <2>1, CallIs
  <2> HIDE DEF n
  <2> QED BY <2>2 DEF CallSpec
<1> HIDE DEF c
<1>10. ASSUME NEW t \in Nat, NEW stop \in BOOLEAN, NEW found \in BOOLEAN,
              c = Answer(stop, found, t)
       PROVE  /\ c \in [stop : BOOLEAN, found : BOOLEAN, picks : SUBSET (d..n), tries : Nat]
              /\ c.stop = stop /\ c.found = found /\ c.picks = {} /\ c.tries = t
  BY <1>10 DEF Answer
<1>3. CASE k >= MaxTries
  <2>1. c = Answer(TRUE, FALSE, k)
    BY <1>2, <1>3
  <2>2. c \in [stop : BOOLEAN, found : BOOLEAN, picks : SUBSET (d..n), tries : Nat] /\ c.stop = TRUE /\ c.found = FALSE /\ c.tries = k
    BY <2>1, <1>10, k + 1 \in Nat
  <2> QED BY <2>2, <1>3 DEF Good, c
<1>4. CASE k < MaxTries /\ x > Target + CostOfChange
  <2>1. c = Answer(FALSE, FALSE, k + 1)
    BY <1>2, <1>4
  <2>2. ASSUME NEW S \in SUBSET (d..n) PROVE ~InWindow(x + Worth(f, S))
    BY <1>1, <1>4 DEF InWindow
  <2>3. c \in [stop : BOOLEAN, found : BOOLEAN, picks : SUBSET (d..n), tries : Nat] /\ c.stop = FALSE /\ c.found = FALSE
    BY <2>1, <1>10, k + 1 \in Nat
  <2> QED BY <2>2, <2>3 DEF Good, c
<1>5. CASE k < MaxTries /\ InWindow(x)
  <2>1. c = Answer(TRUE, TRUE, k + 1)
    BY <1>2, <1>5
  <2>2. x + Worth(f, {}) = x
    BY <1>1
  <2>3. c \in [stop : BOOLEAN, found : BOOLEAN, picks : SUBSET (d..n), tries : Nat] /\ c.stop = TRUE /\ c.found = TRUE /\ c.picks = {}
    BY <2>1, <1>10, k + 1 \in Nat
  <2> QED BY <2>2, <2>3, <1>5 DEF Good, c
<1>6. CASE k < MaxTries /\ x < Target /\ deep
  <2>1. c = Answer(FALSE, FALSE, k + 1)
    BY <1>2, <1>6
  <2>2. x + RestWorth(f, d) < Target
    <3>0. d > n \/ x + RestWorth(f, d) < Target
      BY <1>6 DEF Hopeless
    <3>1. CASE d > n
      <4>1. d = n + 1
        BY <1>1, <3>1
      <4>2. RestWorth(f, d) = 0
        BY <4>1, RestFacts
      <4> QED BY <4>2, <1>6
    <3> QED BY <3>0, <3>1
  <2>3. ASSUME NEW S \in SUBSET (d..n) PROVE ~InWindow(x + Worth(f, S))
    <3>1. Worth(f, S) <= RestWorth(f, d)
      BY RestBounds
    <3> QED BY <3>1, <2>2, <1>1 DEF InWindow
  <2>4. c \in [stop : BOOLEAN, found : BOOLEAN, picks : SUBSET (d..n), tries : Nat] /\ c.stop = FALSE /\ c.found = FALSE
    BY <2>1, <1>10, k + 1 \in Nat
  <2> QED BY <2>3, <2>4 DEF Good, c
<1>7. CASE k < MaxTries /\ x < Target /\ ~deep
  <2>1. d \in 1..n /\ f[d].value \in Nat /\ x + f[d].value \in Nat /\ k + 1 \in Nat
    BY <1>1, <1>7 DEF Hopeless
  <2>2. Good(f, with, d + 1, x + f[d].value)
    <3>1. \A y, m \in Nat : Good(f, b[<<d + 1, y, m>>], d + 1, y)
      BY <2>1, <1>1
    <3> QED BY <3>1, <2>1 DEF With
  <2> HIDE DEF with
  <2>3. ASSUME NEW S \in SUBSET ((d + 1)..n)
        PROVE  /\ S \cup {d} \in SUBSET (d..n) /\ S \in SUBSET (d..n)
               /\ x + Worth(f, S \cup {d}) = (x + f[d].value) + Worth(f, S)
    <3>1. S \cup {d} \in SUBSET (d..n) /\ d \notin S /\ S \in SUBSET (d..n)
      BY <1>1, <2>1
    <3>2. Worth(f, S \cup {d}) = Worth(f, S) + f[d].value
      BY <2>1, <3>1, WorthFacts
    <3> QED BY <1>1, <2>1, <3>1, <3>2, SMTT(30)
  <2>4. CASE with.stop
    <3>1. c = [with EXCEPT !.picks = @ \cup {d}]
      BY <1>2, <1>7, <2>4
    <3>2. /\ with \in [stop : BOOLEAN, found : BOOLEAN, picks : SUBSET ((d + 1)..n), tries : Nat]
          /\ with.found => InWindow((x + f[d].value) + Worth(f, with.picks))
          /\ ~with.found => with.tries >= MaxTries
      BY <2>2, <2>4 DEF Good
    <3>3. with.picks \in SUBSET ((d + 1)..n)
      BY <3>2
    <3>4. /\ with.picks \cup {d} \in SUBSET (d..n)
          /\ x + Worth(f, with.picks \cup {d}) = (x + f[d].value) + Worth(f, with.picks)
      BY <2>3, <3>3
    <3>5. /\ c \in [stop : BOOLEAN, found : BOOLEAN, picks : SUBSET (d..n), tries : Nat]
          /\ c.stop = with.stop /\ c.found = with.found /\ c.tries = with.tries
          /\ c.picks = with.picks \cup {d}
      BY <3>1, <3>2, <3>4
    <3>6. c.found => c.stop /\ InWindow(x + Worth(f, c.picks))
      BY <3>5, <3>2, <3>4, <2>4
    <3>7. (c.stop /\ ~c.found) => c.tries >= MaxTries
      BY <3>5, <3>2
    <3> QED BY <3>5, <3>6, <3>7, <2>4 DEF Good, c
  <2>5. CASE ~with.stop
    <3>1. c = b[<<d + 1, x, with.tries>>]
      BY <1>2, <1>7, <2>5
    <3>2. with.tries \in Nat
      BY <2>2 DEF Good
    <3>3. Good(f, c, d + 1, x)
      <4>1. \A y, m \in Nat : Good(f, b[<<d + 1, y, m>>], d + 1, y)
        BY <2>1, <1>1
      <4> QED BY <4>1, <3>1, <3>2
    <3>4. \A S \in SUBSET ((d + 1)..n) : ~InWindow((x + f[d].value) + Worth(f, S))
      BY <2>2, <2>5 DEF Good
    <3>5. c \in [stop : BOOLEAN, found : BOOLEAN, picks : SUBSET (d..n), tries : Nat]
      <4>1. c \in [stop : BOOLEAN, found : BOOLEAN, picks : SUBSET ((d + 1)..n), tries : Nat]
        BY <3>3 DEF Good
      <4>2. c.picks \in SUBSET (d..n)
        BY <4>1, <2>3
      <4> QED BY <4>1, <4>2
    <3>6. ASSUME ~c.stop, NEW S \in SUBSET (d..n) PROVE ~InWindow(x + Worth(f, S))
      <4>1. \A T \in SUBSET ((d + 1)..n) : ~InWindow(x + Worth(f, T))
        BY <3>3, <3>6 DEF Good
      <4>2. S \ {d} \in SUBSET ((d + 1)..n)
        <5>1. d \in Int /\ n \in Int
          BY <1>1, <2>1
        <5>2. ASSUME NEW i \in S \ {d} PROVE i \in (d + 1)..n
          <6>1. i \in d..n /\ i # d
            OBVIOUS
          <6> QED BY <5>1, <6>1
        <5> QED BY <5>2
      <4>3. S = S \ {d} \/ S = (S \ {d}) \cup {d}
        OBVIOUS
      <4>4. x + Worth(f, (S \ {d}) \cup {d}) = (x + f[d].value) + Worth(f, S \ {d})
        BY <4>2, <2>3
      <4>5. ~InWindow(x + Worth(f, (S \ {d}) \cup {d}))
        BY <4>2, <4>4, <3>4
      <4> QED BY <4>1, <4>2, <4>3, <4>5
    <3>7. /\ c.found => c.stop /\ InWindow(x + Worth(f, c.picks))
          /\ (c.stop /\ ~c.found) => c.tries >= MaxTries
      BY <3>3 DEF Good
    <3> QED BY <3>5, <3>6, <3>7 DEF Good, c
  <2> QED BY <2>4, <2>5
<1> QED BY <1>1, <1>3, <1>4, <1>5, <1>6, <1>7 DEF InWindow

\* The calls from depth c on, and a table of their answers.
Calls(f, c) == (c..(Len(f) + 1)) \X Nat \X Nat
Solves(f, c, b) == b = [at \in Calls(f, c) |-> Call(f, b, at)]

\* Calls are triples.
LEMMA CallsAre ==
  ASSUME NEW f, NEW c
  PROVE  /\ \A d \in c..(Len(f) + 1), x \in Nat, k \in Nat : <<d, x, k>> \in Calls(f, c)
         /\ \A at \in Calls(f, c) : \E d \in c..(Len(f) + 1), x \in Nat, k \in Nat :
                                        at = <<d, x, k>>
  BY DEF Calls

\* A table of answers is good: what a call says only rests on deeper calls.
LEMMA SolutionGood ==
  ASSUME NEW f, Fits(f), Target \in Nat, CostOfChange \in Nat,
         NEW c \in 1..(Len(f) + 1), NEW b, Solves(f, c, b)
  PROVE  \A d \in c..(Len(f) + 1), x \in Nat, k \in Nat : Good(f, b[<<d, x, k>>], d, x)
<1> DEFINE n == Len(f)
           Q(d) == \A x \in Nat, k \in Nat : Good(f, b[<<d, x, k>>], d, x)
           J == {j \in Nat : \A d \in c..(n + 1) : d = n + 1 - j => Q(d)}
<1>1. n \in Nat /\ c \in 1..(n + 1)
  BY DEF Fits
<1>2. ASSUME NEW d \in c..(n + 1), NEW x \in Nat, NEW k \in Nat
      PROVE  b[<<d, x, k>>] = Call(f, b, <<d, x, k>>)
  <2>1. <<d, x, k>> \in Calls(f, c)
    BY CallsAre
  <2> QED BY <2>1 DEF Solves
<1>3. ASSUME NEW d \in c..(n + 1), d <= n => Q(d + 1)
      PROVE  Q(d)
  <2> SUFFICES ASSUME NEW x \in Nat, NEW k \in Nat PROVE Good(f, b[<<d, x, k>>], d, x)
    OBVIOUS
  <2>1. d \in 1..(n + 1)
    BY <1>1
  <2>2. d <= n => \A y, m \in Nat : Good(f, b[<<d + 1, y, m>>], d + 1, y)
    BY <1>3
  <2>3. Good(f, Call(f, b, <<d, x, k>>), d, x)
    BY <2>1, <2>2, CallGood
  <2> QED BY <2>3, <1>2
<1> HIDE DEF Q
<1>4. 0 \in J
  <2> SUFFICES ASSUME NEW d \in c..(n + 1), d = n + 1 - 0 PROVE Q(d)
    OBVIOUS
  <2>1. ~(d <= n)
    BY <1>1
  <2> QED BY <2>1, <1>3
<1>5. ASSUME NEW j \in Nat, j \in J PROVE j + 1 \in J
  <2> SUFFICES ASSUME NEW d \in c..(n + 1), d = n + 1 - (j + 1) PROVE Q(d)
    OBVIOUS
  <2>1. d + 1 \in c..(n + 1) /\ d + 1 = n + 1 - j
    BY <1>1
  <2>2. Q(d + 1)
    BY <2>1, <1>5
  <2> QED BY <2>2, <1>3
<1>6. \A j \in Nat : j \in J
  <2> HIDE DEF J
  <2> QED BY <1>4, <1>5, SetInduction
<1>7. ASSUME NEW d \in c..(n + 1) PROVE Q(d)
  <2>1. n + 1 - d \in Nat /\ d = n + 1 - (n + 1 - d)
    BY <1>1
  <2>2. n + 1 - d \in J
    BY <2>1, <1>6
  <2> QED BY <2>1, <2>2
<1> QED BY <1>7 DEF Q

\* Two tables agree on what a call at depth d may read.
Agree(f, d, g, h) ==
    d <= Len(f) => \A y, m \in Nat : /\ g[<<d + 1, y, m>>] = h[<<d + 1, y, m>>]
                                     /\ h[<<d + 1, y, m>>].tries \in Nat

\* A call only reads the answers one level deeper.
LEMMA CallSame ==
  ASSUME NEW f, Fits(f), Target \in Nat, CostOfChange \in Nat,
         NEW d \in 1..(Len(f) + 1), NEW x \in Nat, NEW k \in Nat, NEW g, NEW h,
         Agree(f, d, g, h)
  PROVE  Call(f, g, <<d, x, k>>) = Call(f, h, <<d, x, k>>)
<1>1. d \in Nat /\ Len(f) \in Nat /\ RestWorth(f, d) \in Nat /\ MaxTries \in Nat
  BY RestFacts, MaxTriesAssumption DEF Fits
<1>2. CallSpec(f, g, d, x, k) /\ CallSpec(f, h, d, x, k)
  BY <1>1, CallIs
<1>3. CASE k >= MaxTries
  BY <1>2, <1>3 DEF CallSpec
<1>4. CASE k < MaxTries /\ x > Target + CostOfChange
  BY <1>2, <1>4 DEF CallSpec
<1>5. CASE k < MaxTries /\ InWindow(x)
  BY <1>2, <1>5 DEF CallSpec
<1>6. CASE k < MaxTries /\ x < Target /\ Hopeless(f, d, x)
  BY <1>2, <1>6 DEF CallSpec
<1>7. CASE k < MaxTries /\ x < Target /\ ~Hopeless(f, d, x)
  <2>1. d \in 1..Len(f) /\ d <= Len(f)
    BY <1>1, <1>7 DEF Hopeless
  <2>2. x + f[d].value \in Nat /\ k + 1 \in Nat
    BY <2>1 DEF Fits
  <2>3. /\ With(f, g, d, x, k) = With(f, h, d, x, k)
        /\ With(f, h, d, x, k).tries \in Nat
    BY <2>1, <2>2 DEF With, Agree
  <2>4. g[<<d + 1, x, With(f, h, d, x, k).tries>>] = h[<<d + 1, x, With(f, h, d, x, k).tries>>]
    BY <2>1, <2>3 DEF Agree
  <2>5. CASE With(f, h, d, x, k).stop
    BY <1>2, <1>7, <2>3, <2>5 DEF CallSpec
  <2>6. CASE ~With(f, h, d, x, k).stop
    BY <1>2, <1>7, <2>3, <2>4, <2>6 DEF CallSpec
  <2> QED BY <2>5, <2>6
<1> QED BY <1>1, <1>3, <1>4, <1>5, <1>6, <1>7 DEF InWindow

\* One level more.
LEMMA SolutionStep ==
  ASSUME NEW f, Fits(f), Target \in Nat, CostOfChange \in Nat, NEW c \in 1..(Len(f) + 1),
         NEW h, c <= Len(f) => Solves(f, c + 1, h)
  PROVE  \E g : Solves(f, c, g)
<1> DEFINE n == Len(f)
           g == [at \in Calls(f, c) |-> Call(f, h, at)]
<1>1. n \in Nat /\ c \in 1..(n + 1)
  BY DEF Fits
<1>2. ASSUME NEW d \in c..(n + 1), NEW x \in Nat, NEW k \in Nat
      PROVE  Call(f, g, <<d, x, k>>) = Call(f, h, <<d, x, k>>)
  <2>1. ASSUME d <= n, NEW y \in Nat, NEW m \in Nat
        PROVE  /\ g[<<d + 1, y, m>>] = h[<<d + 1, y, m>>]
               /\ h[<<d + 1, y, m>>].tries \in Nat
    <3>1. d + 1 \in c..(n + 1) /\ d + 1 \in (c + 1)..(n + 1) /\ c <= n /\ c + 1 \in 1..(n + 1)
      BY <1>1, <2>1
    <3>2. <<d + 1, y, m>> \in Calls(f, c) /\ <<d + 1, y, m>> \in Calls(f, c + 1)
      BY <3>1, CallsAre
    <3>3. Solves(f, c + 1, h)
      BY <3>1
    <3>4. h[<<d + 1, y, m>>] = Call(f, h, <<d + 1, y, m>>)
      BY <3>2, <3>3 DEF Solves
    <3>5. g[<<d + 1, y, m>>] = Call(f, h, <<d + 1, y, m>>)
      BY <3>2
    <3>6. Good(f, h[<<d + 1, y, m>>], d + 1, y)
      BY <3>1, <3>3, SolutionGood
    <3> QED BY <3>4, <3>5, <3>6 DEF Good
  <2>2. d \in 1..(n + 1)
    BY <1>1
  <2>3. Agree(f, d, g, h)
    <3> HIDE DEF g
    <3> QED BY <2>1 DEF Agree
  <2> HIDE DEF g, n
  <2>4. d \in 1..(Len(f) + 1)
    BY <2>2 DEF n
  <2> QED BY <2>3, <2>4, CallSame
<1>3. \A at \in Calls(f, c) : Call(f, g, at) = Call(f, h, at)
  <2> HIDE DEF g
  <2> QED BY <1>2, CallsAre
<1>4. Solves(f, c, g)
  BY <1>3 DEF Solves
<1> QED BY <1>4

\* bnb_search returns: its calls go one level deeper each, to the last candidate.
LEMMA SolutionExists ==
  ASSUME NEW f, Fits(f), Target \in Nat, CostOfChange \in Nat
  PROVE  \E b : Solves(f, 1, b)
<1> DEFINE n == Len(f)
           J == {j \in Nat : j <= n => \E b : Solves(f, n + 1 - j, b)}
<1>1. n \in Nat
  BY DEF Fits
<1>2. 0 \in J
  <2>1. n + 1 \in 1..(n + 1) /\ ~(n + 1 <= n) /\ n + 1 - 0 = n + 1
    BY <1>1
  <2>2. \E b : Solves(f, n + 1, b)
    BY <2>1, SolutionStep
  <2> QED BY <2>1, <2>2
<1>3. ASSUME NEW j \in Nat, j \in J PROVE j + 1 \in J
  <2> SUFFICES ASSUME j + 1 <= n PROVE \E b : Solves(f, n + 1 - (j + 1), b)
    OBVIOUS
  <2>1. PICK c \in 1..(n + 1) : c = n + 1 - (j + 1) /\ c + 1 = n + 1 - j /\ j <= n
    BY <1>1
  <2>2. PICK h : Solves(f, c + 1, h)
    BY <1>3, <2>1
  <2>3. \E b : Solves(f, c, b)
    BY <2>2, SolutionStep
  <2> QED BY <2>1, <2>3
<1>4. \A j \in Nat : j \in J
  <2> HIDE DEF J
  <2> QED BY <1>2, <1>3, SetInduction
<1>5. n \in J /\ n + 1 - n = 1 /\ n <= n
  <2> HIDE DEF J
  <2> QED BY <1>1, <1>4
<1> QED BY <1>5

\* bnb_search: what the search as a whole promises.
LEMMA SearchGood ==
  ASSUME NEW f, Fits(f), Target \in Nat, CostOfChange \in Nat
  PROVE  Good(f, Search(f), 1, 0)
<1> DEFINE b == CHOOSE g : g = [at \in (1..(Len(f) + 1)) \X Nat \X Nat |-> Call(f, g, at)]
<1>1. Search(f) = b[<<1, 0, 0>>]
  BY DEF Search
<1>2. Solves(f, 1, b)
  <2>1. \E g : Solves(f, 1, g)
    BY SolutionExists
  <2> QED BY <2>1, Zenon DEF Solves, Calls
<1> HIDE DEF b
<1>3. 1 \in 1..(Len(f) + 1)
  BY DEF Fits
<1>4. Good(f, b[<<1, 0, 0>>], 1, 0)
  BY <1>2, <1>3, SolutionGood
<1> QED BY <1>1, <1>4

-----------------------------------------------------------------------------
(* The candidates, and the match as a list of UTXOs.                         *)

\* The window has room for change, and an amount of nothing is below it.
LEMMA TargetFacts ==
  ASSUME Accepted
  PROVE  Target \in Nat /\ Target > 0 /\ CostOfChange \in Nat
<1>1. req \in Request /\ req.rate \in Nat /\ req.rate >= 1 /\ req.baseFee \in Nat
  BY RequestTypes DEF Accepted
<1>2. Enumerates(<<>>, {}) /\ {} \in SUBSET Coins
  BY FS_EmptySet DEF Enumerates
<1>3. TypesOf(<<>>) = <<>>
  BY DEF TypesOf
<1> DEFINE w == TransactionWeight(<<>>, CsWeights)
<1>4. w \in Nat /\ w > 0
  <2>1. TransactionWeight(TypesOf(<<>>), CsWeights) =
          LET plain == 32 + VarintWeight(Cardinality({})) + VarintWeight(Len(CsWeights))
                         + SumOf(Take(WeightsOfCoins, <<>>)) + SumOf(CsWeights)
          IN  IF {} \subseteq LegacyCoins THEN plain
              ELSE plain + 2 + SumOf(Take(WitnessesOfCoins, <<>>))
    BY <1>1, <1>2, ListWeight
  <2>2. /\ VarintWeight(Cardinality({})) \in Nat /\ VarintWeight(Len(CsWeights)) \in Nat
        /\ SumOf(CsWeights) \in Nat
    <3>1. Cardinality({}) = 0 /\ Len(CsWeights) \in Nat /\ SumOf(CsWeights) \in Nat
      BY <1>1, FS_EmptySet, RequestTypes, OutputTypes, ChangeWeights
    <3> QED BY <3>1, WeightTypes
  <2>3. SumOf(Take(WeightsOfCoins, <<>>)) \in Nat
    <3>1. WeightsOfCoins \in [Coins -> Int] /\ \A i \in Coins : WeightsOfCoins[i] >= 0
      BY <1>1, CoinVectors
    <3> QED BY <1>1, <1>2, <3>1, ListNat
  <2>4. {} \subseteq LegacyCoins
    OBVIOUS
  <2>5. w = 32 + VarintWeight(Cardinality({})) + VarintWeight(Len(CsWeights))
                 + SumOf(Take(WeightsOfCoins, <<>>)) + SumOf(CsWeights)
    BY <2>1, <2>4, <1>3
  <2> HIDE DEF w
  <2> QED BY <2>2, <2>3, <2>5
<1> HIDE DEF w
<1>5. CalculateFee(req.rate, w) \in Nat /\ CalculateFee(req.rate, w) > 0
  <2>1. WeightToVbytes(w) \in Nat /\ WeightToVbytes(w) >= 1
    BY <1>4, VbytesRoundUp
  <2> DEFINE v == WeightToVbytes(w)
             r == req.rate
  <2>2. CalculateFee(r, w) \in Nat /\ 4 * CalculateFee(r, w) >= r * v
    BY <1>1, <1>4, FeeRoundsUp
  <2>3. r * v >= 1
    <3>1. v \in Nat /\ v >= 1 /\ r \in Nat /\ r >= 1
      BY <1>1, <2>1
    <3> HIDE DEF v, r
    <3> QED BY <3>1
  <2>4. r * v \in Nat
    BY <1>1, <2>1
  <2> HIDE DEF v, r
  <2>5. CalculateFee(r, w) > 0
    BY <2>2, <2>3, <2>4
  <2> QED BY <2>2, <2>5 DEF r
<1>6. CsOutputSum \in Nat
  BY <1>1, OutputTypes
<1>7. Target \in Nat /\ Target > 0
  BY <1>1, <1>5, <1>6 DEF Target, w
<1>8. CostOfChange \in Nat
  <2>1. OutputWeight[ChangeType] \in Nat /\ DustAmount(ChangeType) \in Nat
    BY WeightTypes
  <2>2. CalculateFee(req.rate, OutputWeight[ChangeType]) \in Nat
    BY <1>1, <2>1, FeeRoundsUp
  <2> QED BY <2>1, <2>2 DEF CostOfChange
<1> QED BY <1>7, <1>8

\* What an input costs is a number.
LEMMA InputFees ==
  ASSUME Accepted
  PROVE  \A i \in Coins : InputFee(i) \in Nat
<1> SUFFICES ASSUME NEW i \in Coins PROVE InputFee(i) \in Nat
  OBVIOUS
<1>1. req.rate \in Nat
  BY RequestTypes DEF Accepted
<1>2. InputWeight[req.inputs[i].type] \in Nat
  BY RequestTypes, WeightTypes DEF Accepted
<1> QED BY <1>1, <1>2, FeeRoundsUp DEF InputFee

\* The candidates are different usable UTXOs.
LEMMA CandidateFacts ==
  ASSUME Accepted, NEW U \in SUBSET Coins, Enumerates(usable, U)
  PROVE  /\ Fits(Candidates)
         /\ \A k \in DOMAIN Candidates : Candidates[k].index \in U
         /\ \A j, k \in DOMAIN Candidates : Candidates[j].index = Candidates[k].index => j = k
<1> DEFINE worth == {i \in DOMAIN usable : req.inputs[usable[i]].amount > InputFee(usable[i])}
           value == [i \in worth |-> req.inputs[usable[i]].amount - InputFee(usable[i])]
           key == [i \in worth |-> -value[i]]
           sorted == ByKey(worth, key)
           m == Cardinality(worth)
<1>1. req \in Request
  BY DEF Accepted
<1>2. /\ Cardinality(U) \in Nat /\ DOMAIN usable = 1..Cardinality(U)
      /\ usable \in [1..Cardinality(U) -> U]
      /\ \A i, j \in DOMAIN usable : usable[i] = usable[j] => i = j
  BY <1>1, ListTypes DEF Enumerates
<1>3. worth \in SUBSET DOMAIN usable /\ worth \in SUBSET Int /\ IsFiniteSet(worth)
  <2>1. worth \in SUBSET (1..Cardinality(U)) /\ worth \in SUBSET Int
    BY <1>2
  <2> HIDE DEF worth
  <2> QED BY <2>1, <1>2, FinitePositions
<1>4. \A i \in worth : value[i] \in Nat
  <2> SUFFICES ASSUME NEW i \in worth PROVE value[i] \in Nat
    OBVIOUS
  <2>1. usable[i] \in Coins
    BY <1>2
  <2>2. req.inputs[usable[i]].amount \in Nat /\ InputFee(usable[i]) \in Nat
    BY <1>1, <2>1, RequestTypes, InputFees
  <2>3. req.inputs[usable[i]].amount > InputFee(usable[i])
    OBVIOUS
  <2> QED BY <2>2, <2>3
<1>5. key \in [worth -> Int]
  <2> HIDE DEF worth, value
  <2> QED BY <1>4
<1>6. Enumerates(sorted, worth)
  <2> HIDE DEF worth, key
  <2> QED BY <1>3, <1>5, ByKeyEnumerates
<1>7. m \in Nat /\ sorted \in [1..m -> worth] /\ \A i, j \in 1..m : sorted[i] = sorted[j] => i = j
  <2> HIDE DEF worth
  <2> QED BY <1>3, <1>6, FS_CardinalityType DEF Enumerates
<1>8. Candidates = [k \in DOMAIN sorted |-> [index |-> usable[sorted[k]],
                                             value |-> value[sorted[k]]]]
  BY DEF Candidates
<1> HIDE DEF worth, value, sorted, m
<1>9. /\ DOMAIN Candidates = 1..m
      /\ \A k \in 1..m : /\ Candidates[k].index = usable[sorted[k]]
                         /\ Candidates[k].value = value[sorted[k]]
  BY <1>7, <1>8
<1>10. Candidates \in [1..m -> [index : U, value : Nat]]
  <2>1. \A k \in 1..m : usable[sorted[k]] \in U /\ value[sorted[k]] \in Nat
    BY <1>2, <1>3, <1>4, <1>7
  <2> QED BY <1>7, <1>8, <2>1
<1>11. Len(Candidates) = m
  BY <1>7, <1>10, VectorLen
<1>12. \A j, k \in 1..m : Candidates[j].index = Candidates[k].index => j = k
  BY <1>2, <1>3, <1>7, <1>9
<1> QED BY <1>7, <1>9, <1>10, <1>11, <1>12 DEF Fits

\* The candidates that fit are candidates, in the same order.
LEMMA FittingFacts ==
  ASSUME Accepted, NEW U \in SUBSET Coins, Enumerates(usable, U)
  PROVE  /\ Fits(Fitting)
         /\ \A k \in DOMAIN Fitting : Fitting[k].index \in U
         /\ \A j, k \in DOMAIN Fitting : Fitting[j].index = Fitting[k].index => j = k
<1> DEFINE c == Candidates
           n == Len(c)
           P == {k \in DOMAIN c : c[k].value <= Target + CostOfChange}
           q == InOrder(P)
           m == Cardinality(P)
<1>1. /\ n \in Nat /\ DOMAIN c = 1..n /\ \A k \in 1..n : c[k].value \in Nat
      /\ \A k \in DOMAIN c : c[k].index \in U
      /\ \A j, k \in DOMAIN c : c[j].index = c[k].index => j = k
  BY CandidateFacts DEF Fits
<1>2. Fitting = Take(c, q)
  BY DEF Fitting
<1>3. P \in SUBSET (1..n) /\ P \in SUBSET Int /\ IsFiniteSet(P)
  <2>1. P \in SUBSET (1..n) /\ P \in SUBSET Int
    BY <1>1
  <2> HIDE DEF P, n
  <2> QED BY <2>1, <1>1, FinitePositions
<1> HIDE DEF P
<1>4. m \in Nat /\ q \in [1..m -> P] /\ \A i, j \in 1..m : q[i] = q[j] => i = j
  BY <1>3, InOrderEnumerates, FS_CardinalityType DEF Enumerates
<1> HIDE DEF c, q, m, n
<1>5. DOMAIN Fitting = 1..m /\ \A k \in 1..m : Fitting[k] = c[q[k]] /\ q[k] \in 1..n
  BY <1>2, <1>3, <1>4 DEF Take
<1>6. Len(Fitting) = m
  <2> DEFINE C == {c[k] : k \in 1..n}
  <2>1. \A k \in 1..m : c[q[k]] \in C
    BY <1>5
  <2> HIDE DEF C
  <2>2. Fitting \in [1..m -> C]
    BY <1>2, <1>4, <2>1 DEF Take
  <2> QED BY <1>4, <2>2, VectorLen
<1> QED BY <1>1, <1>4, <1>5, <1>6 DEF Fits

\* branch_and_bound: a match is a list of different usable UTXOs that finalises.
LEMMA MatchFacts ==
  ASSUME Accepted, NEW U \in SUBSET Coins, Enumerates(usable, U), Match # <<>>
  PROVE  \E M \in SUBSET U : Enumerates(Match, M) /\ FinalizeWith(Match).ok
<1> DEFINE f == Fitting
           found == Search(f)
           picks == InOrder(found.picks)
           s == [k \in DOMAIN picks |-> f[picks[k]].index]
           P == found.picks
           g == [k \in DOMAIN f |-> f[k].index]
           M == Named(g, P)
<1>1. Match = s /\ FinalizeWith(s).ok
  BY DEF Match
<1>2. /\ Fits(f) /\ \A k \in DOMAIN f : f[k].index \in U
      /\ \A j, k \in DOMAIN f : f[j].index = f[k].index => j = k
  BY FittingFacts
<1>3. Good(f, found, 1, 0)
  <2> HIDE DEF f
  <2> QED BY <1>2, TargetFacts, SearchGood
<1>4. P \in SUBSET (1..Len(f)) /\ Len(f) \in Nat /\ DOMAIN f = 1..Len(f)
  <2> HIDE DEF f, found
  <2> QED BY <1>2, <1>3 DEF Good, Fits
<1> HIDE DEF f, found, P
<1>5. P \in SUBSET Int /\ IsFiniteSet(P)
  BY <1>4, FinitePositions
<1>6. Enumerates(picks, P)
  BY <1>5, InOrderEnumerates DEF P
<1>7. \A i, j \in P : g[i] = g[j] => i = j
  BY <1>2, <1>4
<1>8. Enumerates(Take(g, picks), M)
  <2> HIDE DEF g, picks
  <2> QED BY <1>5, <1>6, <1>7, MapEnumerates
<1>9. s = Take(g, picks)
  <2>1. \A k \in DOMAIN picks : picks[k] \in DOMAIN f
    BY <1>4, <1>6 DEF Enumerates
  <2> HIDE DEF picks
  <2> QED BY <2>1 DEF Take
<1>10. M \in SUBSET U
  BY <1>2, <1>4 DEF Named
<1> HIDE DEF s, M
<1> QED BY <1>1, <1>8, <1>9, <1>10

-----------------------------------------------------------------------------
(* The inductive invariant. *)

Stages == {"start", "trial", "branch", "required", "optional", "split", "compose", "done"}
Selecting == pc \in {"branch", "required", "optional"}

\* The positions a filter admits, the UTXOs at them, and those accumulative
\* means to spend of them.
Admitted(j) == {k \in DOMAIN order : Passes(k, Trials[j])}
UtxosAt(j) == Named(order, Admitted(j))
Spends(j) == {i \in UtxosAt(j) : req.inputs[i].required \/ req.inputs[i].amount >= InputFee(i)}

\* What accumulative has picked before it looks at the optional UTXO p.
Picked(p) ==
    {i \in Indices(usable) : req.inputs[i].required}
      \cup {Optional[k] : k \in {q \in DOMAIN Optional :
                q < p /\ req.inputs[Optional[q]].amount >= InputFee(Optional[q])}}

StageInv == /\ req \in Request /\ pc \in Stages /\ trial \in 1..9
            /\ pc \notin {"start", "done"} => Refusal = "none"
            /\ pc = "split" => HasSendMax
            /\ (pc = "trial" \/ Selecting) => ~HasSendMax

\* The selection runs over all the UTXOs, each once.
OrderInv == (pc # "start" /\ Refusal = "none") =>
              /\ IsPerm(order, Len(req.inputs))
              /\ req.sorting = "none" => \A k \in DOMAIN order : order[k] = k

\* The filters left behind did not cover the payment.
Lacks(T) == \E S \in {T} : ~Covers(S)
TrialInv == \A j \in 1..8 : j < trial => Lacks(Spends(j))

\* prev_usable_count is the number of UTXOs of an earlier filter.
CountInv == /\ pc = "trial" => \/ count = 0
                               \/ \E j \in 1..8 : j < trial /\ count = Cardinality(UtxosAt(j))
            /\ pc = "start" => count = 0 /\ trial = 1
            /\ pc = "split" => trial = 1
            /\ Selecting => /\ trial \in 1..8
                            /\ count = Cardinality(UtxosAt(trial))
                            /\ Enumerates(usable, UtxosAt(trial))

\* accumulative: what is picked so far is not enough.
PickedInv == pc = "optional" =>
               /\ pos \in 1..(Len(Optional) + 1)
               /\ Lacks(Picked(pos))
               /\ pos <= Len(Optional) => Enumerates(picked, Picked(pos))

\* The three outcomes of the selection.
Short == chosen = Insufficient /\ (HasSendMax \/ trial = 9)
Paid == /\ ~HasSendMax /\ trial \in 1..8
        /\ \E s \in {chosen.inputs}, S \in SUBSET UtxosAt(trial) :
              /\ Enumerates(s, S)
              /\ \A i \in Coins : req.inputs[i].required => i \in S
              /\ FinalizeWith(s).ok /\ chosen = Success(s)
Emptied == /\ HasSendMax
           /\ \E s \in {chosen.inputs}, S \in SUBSET Coins :
                 /\ Enumerates(s, S)
                 /\ chosen = [kind |-> "sendMax", inputs |-> s, fee |-> FeeOf(s, CsWeights),
                              amount |-> AmountOf(s) - CsOutputSum - FeeOf(s, CsWeights)]
                 /\ chosen.amount >= DustAmount(ChangeType)
ChosenInv == (pc \in {"compose", "done"} /\ Refusal = "none") => Short \/ Paid \/ Emptied

\* The result is the selection, in an order of sort_transaction.
Ordered == \E p \in InputOrders, q \in OutputOrders :
              result = [kind |-> "final", fee |-> chosen.fee,
                        inputs |-> Take(chosen.inputs, p),
                        outputs |-> Addressed(Take(ComposedOutputs, q))]
ResultInv == /\ pc # "done" => result = [kind |-> "none"]
             /\ IsFinal => /\ Refusal = "none" /\ IsComplete
                           /\ chosen.kind # "insufficient" /\ Ordered
             /\ result = Error("NotEnoughFunds") =>
                           Refusal = "none" /\ chosen.kind = "insufficient"

IInv == StageInv /\ OrderInv /\ TrialInv /\ CountInv /\ PickedInv /\ ChosenInv /\ ResultInv

-----------------------------------------------------------------------------
(* Facts about the filters. *)

\* generate_trials: eight filters, each admitting what the one before does.
LEMMA TrialsAre ==
  /\ DOMAIN Trials = 1..8
  /\ \A j \in 1..6 : Trials[j] = [own |-> 1, other |-> 7 - j]
  /\ Trials[7] = [own |-> 0, other |-> 1] /\ Trials[8] = [own |-> 0, other |-> 0]
  /\ \A j \in 1..8 : Trials[j].own \in 0..1 /\ Trials[j].other \in 0..6
  /\ \A j, k \in 1..8 : j <= k => /\ Trials[k].own <= Trials[j].own
                                  /\ Trials[k].other <= Trials[j].other
<1> DEFINE F == [own : Nat, other : Nat]
           a == [k \in 1..6 |-> [own |-> 1, other |-> 7 - k]]
           b == <<[own |-> 0, other |-> 1], [own |-> 0, other |-> 0]>>
<1>1. a \in [1..6 -> F] /\ \A k \in 1..6 : a[k] = [own |-> 1, other |-> 7 - k]
  OBVIOUS
<1>2. b \in Seq(F) /\ Len(b) = 2 /\ b[1] = [own |-> 0, other |-> 1] /\ b[2] = [own |-> 0, other |-> 0]
  OBVIOUS
<1>3. Trials = a \o b
  BY DEF Trials
<1> HIDE DEF a, b, F
<1>4. a \in Seq(F) /\ Len(a) = 6
  BY <1>1, VectorLen
<1>5. /\ DOMAIN Trials = 1..8
      /\ \A j \in 1..6 : Trials[j] = [own |-> 1, other |-> 7 - j]
      /\ Trials[7] = [own |-> 0, other |-> 1] /\ Trials[8] = [own |-> 0, other |-> 0]
  <2>0. a \in Seq(F) /\ b \in Seq(F) /\ Len(a) = 6 /\ Len(b) = 2
    BY <1>2, <1>4
  <2>1. a \o b \in Seq(F) /\ Len(a \o b) = 8
    <3>1. a \o b \in Seq(F) /\ Len(a \o b) = Len(a) + Len(b)
      BY <2>0, ConcatProperties
    <3> QED BY <3>1, <2>0
  <2>2. DOMAIN Trials = 1..8
    BY <2>1, <1>3
  <2>3. \A j \in 1..8 : Trials[j] = IF j <= 6 THEN a[j] ELSE b[j - 6]
    <3> SUFFICES ASSUME NEW j \in 1..8 PROVE (a \o b)[j] = IF j <= 6 THEN a[j] ELSE b[j - 6]
      BY <1>3
    <3>1. j \in 1..(Len(a) + Len(b))
      BY <2>0
    <3>2. (a \o b)[j] = IF j <= Len(a) THEN a[j] ELSE b[j - Len(a)]
      BY <2>0, <3>1, ConcatProperties
    <3> QED BY <3>2, <2>0
  <2>4. Trials[7] = b[1] /\ Trials[8] = b[2]
    BY <2>3
  <2>5. \A j \in 1..6 : Trials[j] = a[j]
    BY <2>3
  <2> QED BY <2>2, <2>4, <2>5, <1>1, <1>2
<1>6. \A j \in 1..8 : /\ Trials[j].own = IF j <= 6 THEN 1 ELSE 0
                      /\ Trials[j].other = IF j <= 6 THEN 7 - j ELSE 8 - j
  <2>1. \A j \in 1..8 : j \in 1..6 \/ j = 7 \/ j = 8
    OBVIOUS
  <2>2. \A j \in 1..6 : Trials[j].own = 1 /\ Trials[j].other = 7 - j
    BY <1>5
  <2>3. Trials[7].own = 0 /\ Trials[7].other = 1 /\ Trials[8].own = 0 /\ Trials[8].other = 0
    BY <1>5
  <2> QED BY <2>1, <2>2, <2>3
<1>7. \A j \in 1..8 : Trials[j].own \in 0..1 /\ Trials[j].other \in 0..6
  BY <1>6
<1>8. ASSUME NEW j \in 1..8, NEW k \in 1..8, j <= k
      PROVE  Trials[k].own <= Trials[j].own /\ Trials[k].other <= Trials[j].other
  BY <1>6, <1>8
<1> QED BY <1>5, <1>7, <1>8

\* The UTXOs a filter admits: among all, the required ones always, and more and
\* more of them.
LEMMA FilterFacts ==
  ASSUME req \in Request, IsPerm(order, Len(req.inputs))
  PROVE  /\ DOMAIN order = Coins /\ IsFiniteSet(Coins)
         /\ \A P \in SUBSET Coins : /\ Enumerates(Positions(P), Named(order, P))
                                    /\ Named(order, P) \in SUBSET Coins
         /\ \A j : Admitted(j) \in SUBSET Coins /\ UtxosAt(j) \in SUBSET Coins
                     /\ Enumerates(Positions(Admitted(j)), UtxosAt(j))
         /\ \A j : \A i \in Coins : req.inputs[i].required => i \in UtxosAt(j)
         /\ \A j, k \in 1..8 : j <= k => UtxosAt(j) \subseteq UtxosAt(k)
<1> DEFINE n == Len(req.inputs)
<1>1. n \in Nat /\ Coins = 1..n
  BY RequestTypes
<1>2. order \in [1..n -> 1..n] /\ DOMAIN order = Coins
  BY <1>1 DEF IsPerm
<1>3. Enumerates(order, Coins) /\ IsFiniteSet(Coins)
  <2> HIDE DEF n
  <2>1. Enumerates(order, 1..n)
    BY <1>1, PermEnumerates DEF n
  <2> QED BY <1>1, <2>1, FS_Interval
<1> HIDE DEF n
<1>4. \A i \in Coins : \E k \in Coins : order[k] = i
  <2>1. Cardinality(1..n) = n
    BY <1>1, FS_Interval
  <2> QED BY <1>1, <1>3, <2>1 DEF Enumerates
<1>5. ASSUME NEW P \in SUBSET Coins
      PROVE  /\ Enumerates(Positions(P), Named(order, P))
             /\ Named(order, P) \in SUBSET Coins
  <2>1. Enumerates(Take(order, InOrder(P)), Named(order, P))
    BY <1>2, <1>3, TakeEnumerates
  <2>2. Named(order, P) \in SUBSET Coins
    BY <1>1, <1>2 DEF Named
  <2> QED BY <2>1, <2>2 DEF Positions
<1>6. \A j : Admitted(j) \in SUBSET Coins
  BY <1>2 DEF Admitted
<1>7. \A j : UtxosAt(j) \in SUBSET Coins /\ Enumerates(Positions(Admitted(j)), UtxosAt(j))
  BY <1>5, <1>6 DEF UtxosAt
<1>8. ASSUME NEW j, NEW i \in Coins, req.inputs[i].required PROVE i \in UtxosAt(j)
  <2>1. PICK k \in Coins : order[k] = i
    BY <1>4
  <2>2. k \in Admitted(j)
    BY <2>1, <1>2, <1>8 DEF Admitted, Passes
  <2> QED BY <2>1, <2>2 DEF UtxosAt, Named
<1>9. ASSUME NEW j \in 1..8, NEW k \in 1..8, j <= k PROVE UtxosAt(j) \subseteq UtxosAt(k)
  <2>1. /\ Trials[j].own \in Int /\ Trials[j].other \in Int
        /\ Trials[k].own \in Int /\ Trials[k].other \in Int
        /\ Trials[k].own <= Trials[j].own /\ Trials[k].other <= Trials[j].other
    BY <1>9, TrialsAre
  <2>2. ASSUME NEW i \in Admitted(j) PROVE i \in Admitted(k)
    <3>1. i \in Coins /\ i \in DOMAIN order /\ req.inputs[i].confirmations \in Int
      BY <1>2, <1>6, RequestTypes
    <3>2. Passes(i, Trials[j])
      BY DEF Admitted
    <3>3. Passes(i, Trials[k])
      BY <2>1, <3>1, <3>2 DEF Passes
    <3> QED BY <3>1, <3>3 DEF Admitted
  <2> QED BY <2>2 DEF UtxosAt, Named
<1> QED BY <1>2, <1>3, <1>5, <1>6, <1>7, <1>8, <1>9

\* The request decides what is refused.
LEMMA RefusalFacts ==
  ASSUME req \in Request, Refusal = "none"
  PROVE  Accepted /\ req.outputs # <<>> /\ req.inputs # <<>>
<1>1. req.rate \in Int
  BY DEF Request
<1> QED BY <1>1 DEF Refusal, Accepted

-----------------------------------------------------------------------------
(* What a step leaves as it is. *)

\* What is read from the request stays as it is while the request does.
LEMMA StageFrame ==
  ASSUME req' = req
  PROVE  /\ Refusal' = Refusal /\ IsComplete' = IsComplete /\ HasSendMax' = HasSendMax
         /\ Coins' = Coins /\ DustAmount(ChangeType)' = DustAmount(ChangeType)
<1>1. Refusal' = Refusal
  BY DEF Refusal
<1>2. IsComplete' = IsComplete
  BY DEF IsComplete
<1>3. HasSendMax' = HasSendMax /\ ChangeType' = ChangeType
  BY DEF HasSendMax, ChangeType
<1>4. Coins' = Coins
  BY DEF Coins
<1>5. DustAmount(ChangeType)' = DustAmount(ChangeType)
  BY <1>3 DEF DustAmount
<1> QED BY <1>1, <1>2, <1>3, <1>4, <1>5

\* The filters, for the same request and order.
LEMMA FilterFrame ==
  ASSUME req' = req, order' = order, NEW j
  PROVE  /\ UtxosAt(j)' = UtxosAt(j)
         /\ Spends(j)' = Spends(j)
         /\ Lacks(Spends(j))' <=> Lacks(Spends(j))
<1>1. Admitted(j)' = Admitted(j)
  BY DEF Admitted, Passes, Trials, Immature
<1>2. UtxosAt(j)' = UtxosAt(j)
  BY <1>1 DEF UtxosAt, Named
<1>3. \A i : InputFee(i)' = InputFee(i)
  BY DEF InputFee
<1>4. Spends(j)' = Spends(j)
  BY <1>2, <1>3 DEF Spends
<1>5. \A S : Covers(S)' = Covers(S)
  BY RequestFrame
<1>6. Lacks(Spends(j))' <=> Lacks(Spends(j))
  BY <1>4, <1>5 DEF Lacks
<1> QED BY <1>2, <1>4, <1>6

\* The filter at hand.
LEMMA TrialFrame ==
  ASSUME req' = req, order' = order, trial' = trial
  PROVE  UtxosAt(trial)' = UtxosAt(trial)
<1>1. PICK j : j = trial /\ j = trial'
  OBVIOUS
<1>2. UtxosAt(j)' = UtxosAt(j)
  BY FilterFrame
<1> QED BY <1>1, <1>2 DEF UtxosAt, Admitted, Passes, Trials

\* accumulative's lists, for the same usable UTXOs.
LEMMA UsableFrame ==
  ASSUME req' = req, usable' = usable
  PROVE  Optional' = Optional /\ \A p : Picked(p)' = Picked(p)
<1>1. Optional' = Optional
  BY DEF Optional
<1>2. ASSUME NEW p PROVE Picked(p)' = Picked(p)
  <2>1. \A i : InputFee(i)' = InputFee(i)
    BY DEF InputFee
  <2> QED BY <1>1, <2>1 DEF Picked
<1> QED BY <1>1, <1>2

\* The parts of the invariant a step does not touch.
LEMMA OrderKept ==
  ASSUME OrderInv, req' = req, order' = order, pc # "start"
  PROVE  OrderInv'
<1>1. Refusal' = Refusal
  BY StageFrame
<1> QED BY <1>1 DEF OrderInv

\* What the earlier trials were short of, while the trial stays the same.
LEMMA TrialKept ==
  ASSUME TrialInv, req' = req, order' = order, trial' = trial
  PROVE  TrialInv'
  BY FilterFrame DEF TrialInv

\* A trial that was short is one of the earlier trials of the next.
LEMMA TrialStep ==
  ASSUME TrialInv, req' = req, order' = order, trial \in 1..8, trial' = trial + 1,
         Lacks(Spends(trial))
  PROVE  TrialInv'
<1> SUFFICES ASSUME NEW j \in 1..8, j < trial' PROVE Lacks(Spends(j))'
  BY DEF TrialInv
<1>1. j < trial \/ j = trial
  OBVIOUS
<1>2. Lacks(Spends(j))
  BY <1>1 DEF TrialInv
<1> QED BY <1>2, FilterFrame

\* A result is only there at the end.
LEMMA NoResultKept ==
  ASSUME ResultInv, pc # "done", pc' # "done", result' = result
  PROVE  ResultInv'
<1>1. result' = [kind |-> "none"]
  BY DEF ResultInv
<1>2. result'.kind = "none"
  BY <1>1
<1>3. ~IsFinal' /\ result' # Error("NotEnoughFunds")
  BY <1>2 DEF IsFinal, Error
<1> QED BY <1>1, <1>3 DEF ResultInv

\* The invariant holds before anything was validated.
LEMMA InitIInv == Init => IInv
<1> SUFFICES ASSUME Init PROVE IInv
  OBVIOUS
<1>1. StageInv
  BY RequestsAssumption DEF Init, StageInv, Stages, Selecting
<1>2. OrderInv /\ PickedInv /\ CountInv /\ ChosenInv
  BY DEF Init, OrderInv, PickedInv, CountInv, ChosenInv, Selecting
<1>3. TrialInv
  BY DEF Init, TrialInv
<1>4. ResultInv
  <2>1. result = [kind |-> "none"] /\ result.kind = "none"
    BY DEF Init
  <2>2. ~IsFinal /\ result # Error("NotEnoughFunds")
    BY <2>1 DEF IsFinal, Error
  <2> QED BY <2>1, <2>2 DEF ResultInv
<1> QED BY <1>1, <1>2, <1>3, <1>4 DEF IInv

\* The order of the selection is a permutation of the UTXOs.
LEMMA CsOrderFacts ==
  ASSUME Accepted
  PROVE  /\ IsPerm(CsOrder, Len(req.inputs))
         /\ req.sorting = "none" => \A k \in DOMAIN CsOrder : CsOrder[k] = k
<1> DEFINE n == Len(req.inputs)
           key == [i \in DOMAIN req.inputs |-> InputFee(i) - req.inputs[i].amount]
<1>1. n \in Nat /\ DOMAIN req.inputs = 1..n
  BY RequestTypes DEF Accepted, Coins
<1>2. CASE req.sorting = "none"
  <2>1. CsOrder = [i \in 1..n |-> i]
    BY <1>1, <1>2 DEF CsOrder
  <2> HIDE DEF n
  <2> QED BY <2>1 DEF IsPerm, n
<1>3. CASE req.sorting # "none"
  <2>1. key \in [1..n -> Int]
    <3>1. \A i \in 1..n : InputFee(i) \in Nat /\ req.inputs[i].amount \in Nat
      BY <1>1, InputFees, RequestTypes DEF Accepted, Coins
    <3> QED BY <1>1, <3>1
  <2>2. CsOrder = ByKey(1..n, key)
    BY <1>1, <1>3 DEF CsOrder
  <2> HIDE DEF n, key
  <2>3. 1..n \in SUBSET Int /\ IsFiniteSet(1..n)
    <3>1. 1..n \in SUBSET (1..n)
      OBVIOUS
    <3> QED BY <1>1, <3>1, FinitePositions
  <2>4. Enumerates(CsOrder, 1..n)
    BY <2>1, <2>2, <2>3, ByKeyEnumerates
  <2>5. IsPerm(CsOrder, n)
    BY <1>1, <2>4, EnumeratesPerm
  <2> QED BY <1>3, <2>5 DEF n
<1> QED BY <1>2, <1>3

\* compose_tx: validation, and the order of the selection.
LEMMA ValidateKeeps ==
  ASSUME IInv, Validate
  PROVE  IInv'
<1>1. /\ req \in Request /\ trial = 1 /\ count = 0 /\ pc = "start"
      /\ req' = req /\ trial' = trial /\ count' = count
      /\ result = [kind |-> "none"]
  BY DEF IInv, StageInv, CountInv, ResultInv, Validate
<1>2. Refusal' = Refusal /\ HasSendMax' = HasSendMax
  BY <1>1, StageFrame
<1>3. TrialInv'
  BY <1>1 DEF TrialInv
<1>4. CASE Refusal # "none"
  <2>1. result' = Error(Refusal) /\ pc' = "done"
    BY <1>4 DEF Validate
  <2>2. StageInv'
    BY <1>1, <2>1 DEF StageInv, Stages, Selecting
  <2>3. OrderInv' /\ CountInv' /\ PickedInv' /\ ChosenInv'
    BY <1>2, <1>4, <2>1 DEF OrderInv, CountInv, PickedInv, ChosenInv, Selecting
  <2>4. ResultInv'
    <3>1. result'.kind = "error" /\ result'.error = Refusal
      BY <2>1 DEF Error
    <3>2. Refusal # "NotEnoughFunds"
      BY DEF Refusal
    <3>3. ~IsFinal'
      BY <3>1 DEF IsFinal
    <3>4. result' # Error("NotEnoughFunds")
      BY <3>1, <3>2 DEF Error
    <3>5. Error("NotEnoughFunds")' = Error("NotEnoughFunds")
      BY DEF Error
    <3> QED BY <2>1, <3>3, <3>4, <3>5 DEF ResultInv
  <2> QED BY <1>3, <2>2, <2>3, <2>4 DEF IInv
<1>5. CASE Refusal = "none"
  <2>1. /\ order' = CsOrder /\ result' = result /\ pc' \in {"split", "trial"}
        /\ pc' = IF HasSendMax THEN "split" ELSE "trial"
    BY <1>5 DEF Validate
  <2>2. Accepted
    BY <1>1, <1>5, RefusalFacts
  <2>3. StageInv'
    BY <1>1, <1>2, <1>5, <2>1 DEF StageInv, Stages, Selecting
  <2>4. OrderInv'
    BY <1>1, <2>1, <2>2, CsOrderFacts DEF OrderInv
  <2>5. CountInv' /\ PickedInv' /\ ChosenInv'
    BY <1>1, <2>1 DEF CountInv, PickedInv, ChosenInv, Selecting
  <2>6. ResultInv'
    BY <1>1, <2>1, NoResultKept DEF IInv
  <2> QED BY <1>3, <2>3, <2>4, <2>5, <2>6 DEF IInv
<1> QED BY <1>4, <1>5

\* What holds while UTXOs are selected.
LEMMA SelectionFacts ==
  ASSUME IInv, pc \notin {"start", "done"}
  PROVE  /\ req \in Request /\ Accepted /\ Refusal = "none" /\ trial \in 1..9
         /\ IsPerm(order, Len(req.inputs)) /\ result = [kind |-> "none"]
<1>1. req \in Request /\ Refusal = "none" /\ trial \in 1..9 /\ result = [kind |-> "none"]
  BY DEF IInv, StageInv, ResultInv
<1>2. Accepted
  BY <1>1, RefusalFacts
<1> QED BY <1>1, <1>2 DEF IInv, OrderInv

\* try_confirmed skips a filter that admits nothing, or nothing new.
LEMMA SkippedLacks ==
  ASSUME IInv, pc = "trial", trial \in 1..8, Cardinality(UtxosAt(trial)) \in {0, count}
  PROVE  Lacks(Spends(trial))
<1>1. req \in Request /\ IsPerm(order, Len(req.inputs))
  BY SelectionFacts
<1>2. /\ IsFiniteSet(Coins) /\ \A j : UtxosAt(j) \in SUBSET Coins
      /\ \A j, k \in 1..8 : j <= k => UtxosAt(j) \subseteq UtxosAt(k)
  BY <1>1, FilterFacts
<1>3. IsFiniteSet(UtxosAt(trial))
  BY <1>2, FS_Subset
<1>4. CASE Cardinality(UtxosAt(trial)) = 0
  <2>1. UtxosAt(trial) = {}
    BY <1>3, <1>4, FS_EmptySet
  <2>2. Spends(trial) = {}
    BY <2>1 DEF Spends
  <2> QED BY <2>2 DEF Lacks, Covers
<1>5. CASE Cardinality(UtxosAt(trial)) # 0
  <2>1. Cardinality(UtxosAt(trial)) = count /\ count # 0
    BY <1>5
  <2>2. PICK j \in 1..8 : j < trial /\ count = Cardinality(UtxosAt(j))
    BY <2>1 DEF IInv, CountInv
  <2>3. UtxosAt(j) \in SUBSET UtxosAt(trial)
    BY <1>2, <2>2
  <2>4. UtxosAt(j) = UtxosAt(trial)
    BY <1>3, <2>1, <2>2, <2>3, FS_Subset
  <2>5. Spends(j) = Spends(trial)
    BY <2>4 DEF Spends
  <2>6. Lacks(Spends(j))
    BY <2>2 DEF IInv, TrialInv
  <2> QED BY <2>5, <2>6 DEF Lacks
<1> QED BY <1>4, <1>5

\* try_confirmed: a filter is skipped, or its UTXOs are handed to the selection.
LEMMA FilterKeeps ==
  ASSUME IInv, Filter
  PROVE  IInv'
<1>1. /\ pc = "trial" /\ trial \in 1..8 /\ req' = req /\ order' = order /\ result' = result
      /\ usable' = Positions(Admitted(trial))
  BY TrialsAre DEF Filter, Admitted
<1>2. /\ req \in Request /\ Refusal = "none" /\ ~HasSendMax
      /\ IsPerm(order, Len(req.inputs))
  BY <1>1, SelectionFacts DEF IInv, StageInv
<1>3. Refusal' = Refusal /\ HasSendMax' = HasSendMax
  BY <1>1, StageFrame
<1>4. Enumerates(usable', UtxosAt(trial)) /\ UtxosAt(trial) \in SUBSET Coins
  BY <1>1, <1>2, FilterFacts
<1>5. Len(usable') = Cardinality(UtxosAt(trial))
  <2> DEFINE s == Positions(Admitted(trial))
  <2>1. Enumerates(s, UtxosAt(trial))
    BY <1>1, <1>4
  <2> HIDE DEF s
  <2>2. Len(s) = Cardinality(UtxosAt(trial))
    BY <1>2, <1>4, <2>1, ListTypes
  <2> QED BY <2>2, <1>1 DEF s
<1>6. OrderInv'
  BY <1>1, OrderKept DEF IInv
<1>7. CASE Len(usable') \in {0, count}
  <2>1. trial' = trial + 1 /\ count' = count /\ pc' = "trial"
    BY <1>1, <1>7 DEF Filter
  <2>2. StageInv'
    BY <1>1, <1>2, <1>3, <2>1 DEF StageInv, Stages, Selecting
  <2>3. TrialInv'
    BY <1>1, <1>5, <1>7, <2>1, SkippedLacks, TrialStep DEF IInv
  <2>4. CountInv'
    <3>1. count = 0 \/ \E j \in 1..8 : j < trial /\ count = Cardinality(UtxosAt(j))
      BY <1>1 DEF IInv, CountInv
    <3>2. \A j : UtxosAt(j)' = UtxosAt(j)
      BY <1>1, FilterFrame
    <3>3. count' = 0 \/ \E j \in 1..8 : j < trial' /\ count' = Cardinality(UtxosAt(j)')
      BY <3>1, <3>2, <2>1, <1>1
    <3> QED BY <3>3, <2>1 DEF CountInv, Selecting
  <2>5. PickedInv' /\ ChosenInv'
    BY <2>1 DEF PickedInv, ChosenInv
  <2>6. ResultInv'
    BY <1>1, <2>1, NoResultKept DEF IInv
  <2> QED BY <1>6, <2>2, <2>3, <2>4, <2>5, <2>6 DEF IInv
<1>8. CASE Len(usable') \notin {0, count}
  <2>1. trial' = trial /\ count' = Len(usable') /\ pc' = "branch"
    BY <1>1, <1>8 DEF Filter
  <2>2. StageInv'
    BY <1>1, <1>2, <1>3, <2>1 DEF StageInv, Stages, Selecting
  <2>3. TrialInv'
    BY <1>1, <2>1, TrialKept DEF IInv
  <2>4. CountInv'
    <3>1. UtxosAt(trial)' = UtxosAt(trial)
      BY <1>1, <2>1, TrialFrame
    <3> QED BY <3>1, <1>1, <1>4, <1>5, <2>1 DEF CountInv, Selecting
  <2>5. PickedInv' /\ ChosenInv'
    BY <2>1 DEF PickedInv, ChosenInv
  <2>6. ResultInv'
    BY <1>1, <2>1, NoResultKept DEF IInv
  <2> QED BY <1>6, <2>2, <2>3, <2>4, <2>5, <2>6 DEF IInv
<1> QED BY <1>7, <1>8

\* try_confirmed: after the last trial every trial was short.
LEMMA ExhaustedKeeps ==
  ASSUME IInv, Exhausted
  PROVE  IInv'
<1>1. /\ pc = "trial" /\ pc' = "compose" /\ chosen' = Insufficient
      /\ req' = req /\ order' = order /\ trial' = trial /\ result' = result
      /\ trial \notin 1..8
  BY TrialsAre DEF Exhausted
<1>2. req \in Request /\ Refusal = "none" /\ trial = 9
  BY <1>1, SelectionFacts
<1>3. Refusal' = Refusal
  BY <1>1, StageFrame
<1>4. StageInv'
  BY <1>1, <1>2, <1>3 DEF StageInv, Stages, Selecting
<1>5. OrderInv' /\ TrialInv'
  BY <1>1, OrderKept, TrialKept DEF IInv
<1>6. CountInv' /\ PickedInv'
  BY <1>1 DEF CountInv, PickedInv, Selecting
<1>7. ChosenInv'
  <2>1. Insufficient' = Insufficient
    BY DEF Insufficient
  <2> QED BY <1>1, <1>2, <2>1 DEF ChosenInv, Short
<1>8. ResultInv'
  BY <1>1, NoResultKept DEF IInv
<1> QED BY <1>4, <1>5, <1>6, <1>7, <1>8 DEF IInv

\* split: every mature UTXO, and the rest for the send-max output.
LEMMA SplitKeeps ==
  ASSUME IInv, Split
  PROVE  IInv'
<1> DEFINE P == {k \in DOMAIN order : ~Immature(req.inputs[k])}
           s0 == Positions(P)
           S0 == Named(order, P)
<1>1. /\ pc = "split" /\ pc' = "compose"
      /\ req' = req /\ order' = order /\ trial' = trial /\ result' = result
  BY DEF Split
<1>2. /\ req \in Request /\ Refusal = "none" /\ HasSendMax /\ trial = 1
      /\ IsPerm(order, Len(req.inputs))
  BY <1>1, SelectionFacts DEF IInv, StageInv, CountInv
<1>3. Refusal' = Refusal /\ HasSendMax' = HasSendMax /\ Coins' = Coins
      /\ DustAmount(ChangeType)' = DustAmount(ChangeType)
  BY <1>1, StageFrame
<1>4. P \in SUBSET Coins
  BY <1>2, FilterFacts
<1>5. Enumerates(s0, S0) /\ S0 \in SUBSET Coins
  <2> HIDE DEF P
  <2> QED BY <1>2, <1>4, FilterFacts
<1>6. PICK s, S : s = s0 /\ S = S0
  OBVIOUS
<1>7. chosen' = IF s = <<>> \/ AmountOf(s) - CsOutputSum - FeeOf(s, CsWeights) < DustAmount(ChangeType)
                  THEN Insufficient
                  ELSE [kind |-> "sendMax", inputs |-> s, fee |-> FeeOf(s, CsWeights),
                        amount |-> AmountOf(s) - CsOutputSum - FeeOf(s, CsWeights)]
  BY <1>6 DEF Split, FeeOf
<1>8. StageInv'
  BY <1>1, <1>2, <1>3 DEF StageInv, Stages, Selecting
<1>9. OrderInv' /\ TrialInv'
  BY <1>1, OrderKept, TrialKept DEF IInv
<1>10. CountInv' /\ PickedInv'
  BY <1>1 DEF CountInv, PickedInv, Selecting
<1>11. Enumerates(s, S) /\ S \in SUBSET Coins
  BY <1>5, <1>6
<1> HIDE DEF P, s0, S0
<1>12. ChosenInv'
  <2> DEFINE a == AmountOf(s) - CsOutputSum - FeeOf(s, CsWeights)
             r == [kind |-> "sendMax", inputs |-> s, fee |-> FeeOf(s, CsWeights), amount |-> a]
  <2>1. Insufficient' = Insufficient
    BY DEF Insufficient
  <2>2. CASE s = <<>> \/ a < DustAmount(ChangeType)
    <3>1. chosen' = Insufficient
      BY <1>7, <2>2
    <3> QED BY <1>2, <1>3, <2>1, <3>1 DEF ChosenInv, Short
  <2>3. CASE ~(s = <<>> \/ a < DustAmount(ChangeType))
    <3>1. chosen' = r
      BY <1>7, <2>3
    <3>2. /\ FeeOf(s, CsWeights)' = FeeOf(s, CsWeights) /\ AmountOf(s)' = AmountOf(s)
          /\ CsOutputSum' = CsOutputSum
      BY <1>1, RequestFrame
    <3>3. a >= DustAmount(ChangeType)
      <4>1. Accepted
        BY <1>1, SelectionFacts
      <4>2. AmountOf(s) \in Int /\ CsOutputSum \in Int /\ FeeOf(s, CsWeights) \in Int
        BY <4>1, <1>2, <1>11, FeeTypes, OutputTypes
      <4>3. DustAmount(ChangeType) \in Int
        BY WeightTypes
      <4> QED BY <2>3, <4>2, <4>3
    <3>4. s \in {chosen'.inputs} /\ chosen'.amount = a
      BY <3>1
    <3>5. S \in SUBSET Coins'
      BY <1>3, <1>11
    <3>6. Emptied'
      <4> HIDE DEF a
      <4>1. chosen' = [kind |-> "sendMax", inputs |-> s, fee |-> FeeOf(s, CsWeights)', amount |-> a]
        BY <3>1, <3>2
      <4>2. a = AmountOf(s)' - CsOutputSum' - FeeOf(s, CsWeights)'
        BY <3>2 DEF a
      <4>3. chosen'.amount >= DustAmount(ChangeType)'
        BY <3>3, <3>4, <1>3
      <4> QED BY <1>2, <1>3, <1>11, <3>4, <3>5, <4>1, <4>2, <4>3 DEF Emptied
    <3> QED BY <3>6 DEF ChosenInv
  <2> QED BY <2>2, <2>3
<1>13. ResultInv'
  BY <1>1, NoResultKept DEF IInv
<1> QED BY <1>8, <1>9, <1>10, <1>12, <1>13 DEF IInv

-----------------------------------------------------------------------------
(* branch_and_bound and accumulative. *)

\* One more UTXO at the end of a list.
LEMMA AppendEnumerates ==
  ASSUME req \in Request, NEW S \in SUBSET Coins, NEW s, Enumerates(s, S),
         NEW x \in Coins, x \notin S
  PROVE  Enumerates(Append(s, x), S \cup {x})
<1> DEFINE n == Cardinality(S)
           T == S \cup {x}
           a == Append(s, x)
<1>1. IsFiniteSet(S) /\ n \in Nat /\ s \in Seq(Coins) /\ Len(s) = n
  BY ListTypes
<1>2. /\ s \in [1..n -> S] /\ \A i, j \in 1..n : s[i] = s[j] => i = j
      /\ \A y \in S : \E i \in 1..n : s[i] = y
  BY DEF Enumerates
<1>3. Cardinality(T) = n + 1
  BY <1>1, FS_AddElement
<1> HIDE DEF n
<1>4. /\ a \in Seq(Coins) /\ Len(a) = n + 1 /\ a[n + 1] = x
      /\ \A i \in 1..n : a[i] = s[i]
  BY <1>1
<1> HIDE DEF a
<1>5. a \in [1..(n + 1) -> Coins]
  BY <1>4
<1>6. \A i \in 1..(n + 1) : i \in 1..n \/ i = n + 1
  BY <1>1
<1>7. a \in [1..(n + 1) -> T]
  <2>1. \A i \in 1..(n + 1) : a[i] \in T
    BY <1>2, <1>4, <1>6
  <2> HIDE DEF T
  <2> QED BY <1>5, <2>1
<1>8. \A i, j \in 1..(n + 1) : a[i] = a[j] => i = j
  <2> SUFFICES ASSUME NEW i \in 1..(n + 1), NEW j \in 1..(n + 1), a[i] = a[j] PROVE i = j
    OBVIOUS
  <2>1. \A k \in 1..n : a[k] \in S
    BY <1>2, <1>4
  <2> QED BY <2>1, <1>2, <1>4, <1>6
<1>9. \A y \in T : \E i \in 1..(n + 1) : a[i] = y
  <2> SUFFICES ASSUME NEW y \in T PROVE \E i \in 1..(n + 1) : a[i] = y
    OBVIOUS
  <2>1. CASE y = x
    <3>1. n + 1 \in 1..(n + 1)
      BY <1>1
    <3> QED BY <2>1, <3>1, <1>4
  <2>2. CASE y \in S
    <3>1. PICK i \in 1..n : s[i] = y
      BY <1>2, <2>2
    <3>2. i \in 1..(n + 1)
      BY <1>1
    <3> QED BY <3>1, <3>2, <1>4
  <2> QED BY <2>1, <2>2
<1> HIDE DEF T
<1> QED BY <1>3, <1>7, <1>8, <1>9 DEF Enumerates, T, a

\* The usable UTXOs are those of the filter; the required and the optional ones
\* are listed in their order.
LEMMA UsableFacts ==
  ASSUME req \in Request, NEW U \in SUBSET Coins, Enumerates(usable, U)
  PROVE  /\ Indices(usable) = U
         /\ Enumerates(Take(usable, InOrder({k \in DOMAIN usable : req.inputs[usable[k]].required})),
                       {i \in U : req.inputs[i].required})
         /\ Enumerates(Optional, {i \in U : ~req.inputs[i].required})
         /\ Len(Optional) \in Nat /\ DOMAIN Optional = 1..Len(Optional)
         /\ \A k \in DOMAIN Optional : Optional[k] \in U /\ ~req.inputs[Optional[k]].required
         /\ \A j, k \in DOMAIN Optional : Optional[j] = Optional[k] => j = k
         /\ \A i \in U : ~req.inputs[i].required => \E k \in DOMAIN Optional : Optional[k] = i
<1> DEFINE P == {k \in DOMAIN usable : req.inputs[usable[k]].required}
           N == {k \in DOMAIN usable : ~req.inputs[usable[k]].required}
           R == {i \in U : req.inputs[i].required}
           F == {i \in U : ~req.inputs[i].required}
<1>1. /\ IsFiniteSet(U) /\ Indices(usable) = U /\ DOMAIN usable = 1..Cardinality(U)
      /\ usable \in [1..Cardinality(U) -> U]
      /\ \A i \in U : \E k \in DOMAIN usable : usable[k] = i
  BY ListTypes DEF Enumerates
<1>2. Named(usable, P) = R /\ Named(usable, N) = F
  BY <1>1 DEF Named
<1>3. P \in SUBSET DOMAIN usable /\ N \in SUBSET DOMAIN usable
  OBVIOUS
<1>4. Optional = Take(usable, InOrder(N))
  BY DEF Optional
<1>5. Enumerates(Take(usable, InOrder(P)), R) /\ Enumerates(Take(usable, InOrder(N)), F)
  <2> HIDE DEF P, N, R, F
  <2> QED BY <1>1, <1>2, <1>3, TakeEnumerates
<1>6. Enumerates(Optional, F) /\ F \in SUBSET Coins
  BY <1>4, <1>5
<1> HIDE DEF F
<1>7. /\ Cardinality(F) \in Nat /\ Len(Optional) = Cardinality(F) /\ DOMAIN Optional = 1..Cardinality(F)
      /\ Optional \in [1..Cardinality(F) -> F]
  BY <1>6, ListTypes
<1>8. /\ \A j, k \in 1..Cardinality(F) : Optional[j] = Optional[k] => j = k
      /\ \A i \in F : \E k \in 1..Cardinality(F) : Optional[k] = i
  BY <1>6 DEF Enumerates
<1>9. \A k \in DOMAIN Optional : Optional[k] \in F
  BY <1>7
<1>10. \A k \in DOMAIN Optional : Optional[k] \in U /\ ~req.inputs[Optional[k]].required
  BY <1>9 DEF F
<1>11. \A i \in U : ~req.inputs[i].required => \E k \in DOMAIN Optional : Optional[k] = i
  BY <1>7, <1>8 DEF F
<1> QED BY <1>1, <1>5, <1>6, <1>7, <1>8, <1>10, <1>11 DEF F

\* What holds in a turn of the selection.
LEMMA TurnFacts ==
  ASSUME IInv, Selecting
  PROVE  /\ pc \notin {"start", "done"} /\ req \in Request /\ Accepted /\ Refusal = "none"
         /\ trial \in 1..8 /\ ~HasSendMax /\ IsPerm(order, Len(req.inputs))
         /\ UtxosAt(trial) \in SUBSET Coins /\ Enumerates(usable, UtxosAt(trial))
         /\ \A i \in Coins : req.inputs[i].required => i \in UtxosAt(trial)
<1>1. pc \notin {"start", "done"}
  BY DEF Selecting
<1>2. /\ req \in Request /\ Accepted /\ Refusal = "none" /\ IsPerm(order, Len(req.inputs))
  BY <1>1, SelectionFacts
<1>3. trial \in 1..8 /\ ~HasSendMax /\ Enumerates(usable, UtxosAt(trial))
  BY DEF IInv, StageInv, CountInv
<1> QED BY <1>1, <1>2, <1>3, FilterFacts

\* A list that finalises becomes the selection.
LEMMA PaidStep ==
  ASSUME IInv, Selecting, req' = req, order' = order, trial' = trial, result' = result,
         pc' = "compose", NEW s, NEW S \in SUBSET UtxosAt(trial), Enumerates(s, S),
         \A i \in Coins : req.inputs[i].required => i \in S,
         FinalizeWith(s).ok, chosen' = Success(s)
  PROVE  IInv'
<1>1. /\ pc \notin {"start", "done"} /\ req \in Request /\ Refusal = "none"
      /\ trial \in 1..8 /\ ~HasSendMax
  BY TurnFacts
<1>2. Refusal' = Refusal /\ HasSendMax' = HasSendMax /\ Coins' = Coins
  BY StageFrame
<1>3. StageInv'
  BY <1>1, <1>2 DEF StageInv, Stages, Selecting
<1>4. OrderInv' /\ TrialInv'
  BY <1>1, OrderKept, TrialKept DEF IInv
<1>5. CountInv' /\ PickedInv'
  BY DEF CountInv, PickedInv, Selecting
<1>6. ChosenInv'
  <2>1. FinalizeWith(s)' = FinalizeWith(s) /\ Success(s)' = Success(s)
    BY RequestFrame
  <2>2. s \in {chosen'.inputs}
    BY DEF Success
  <2>3. UtxosAt(trial)' = UtxosAt(trial)
    BY TrialFrame
  <2>4. S \in SUBSET UtxosAt(trial)'
    BY <2>3
  <2>5. Paid'
    BY <1>1, <1>2, <2>1, <2>2, <2>4 DEF Paid
  <2> QED BY <2>5 DEF ChosenInv
<1>7. ResultInv'
  BY <1>1, NoResultKept DEF IInv
<1> QED BY <1>3, <1>4, <1>5, <1>6, <1>7 DEF IInv

\* A turn that goes on: only the invariant of accumulative is left to show.
LEMMA TurnStep ==
  ASSUME IInv, Selecting, req' = req, order' = order, trial' = trial, result' = result,
         count' = count, usable' = usable, pc' \in {"required", "optional"}, PickedInv'
  PROVE  IInv'
<1>1. /\ pc \notin {"start", "done"} /\ req \in Request /\ Refusal = "none"
      /\ trial \in 1..8 /\ ~HasSendMax
  BY TurnFacts
<1>2. Refusal' = Refusal /\ HasSendMax' = HasSendMax
  BY StageFrame
<1>3. StageInv'
  BY <1>1, <1>2 DEF StageInv, Stages, Selecting
<1>4. OrderInv' /\ TrialInv'
  BY <1>1, OrderKept, TrialKept DEF IInv
<1>5. UtxosAt(trial)' = UtxosAt(trial)
  BY TrialFrame
<1>6. CountInv'
  BY <1>5 DEF IInv, CountInv, Selecting
<1>7. ChosenInv'
  BY DEF ChosenInv
<1>8. ResultInv'
  BY <1>1, NoResultKept DEF IInv
<1> QED BY <1>3, <1>4, <1>6, <1>7, <1>8 DEF IInv

\* coinselect: the match of branch and bound, or accumulation.
LEMMA BranchKeeps ==
  ASSUME IInv, Branch
  PROVE  IInv'
<1>1. /\ pc = "branch" /\ Selecting /\ req' = req /\ order' = order /\ trial' = trial
      /\ result' = result /\ count' = count /\ usable' = usable
  BY DEF Branch, Selecting
<1> DEFINE U == UtxosAt(trial)
           some == \E i \in DOMAIN usable : req.inputs[usable[i]].required
           match == IF some THEN <<>> ELSE Match
<1>2. \/ match # <<>> /\ chosen' = Success(match) /\ pc' = "compose"
      \/ match = <<>> /\ pc' = "required"
  BY DEF Branch
<1>3. CASE match = <<>>
  <2>1. pc' = "required"
    BY <1>2, <1>3
  <2>2. PickedInv'
    BY <2>1 DEF PickedInv
  <2> QED BY <1>1, <2>1, <2>2, TurnStep
<1>4. CASE match # <<>>
  <2>1. ~some /\ Match # <<>> /\ chosen' = Success(Match) /\ pc' = "compose"
    BY <1>2, <1>4
  <2>2. /\ req \in Request /\ Accepted /\ U \in SUBSET Coins /\ Enumerates(usable, U)
        /\ \A i \in Coins : req.inputs[i].required => i \in U
    BY <1>1, TurnFacts
  <2> HIDE DEF U
  <2>3. PICK M \in SUBSET U : Enumerates(Match, M) /\ FinalizeWith(Match).ok
    BY <2>1, <2>2, MatchFacts
  <2>4. \A i \in Coins : ~req.inputs[i].required
    <3>1. \A i \in U : ~req.inputs[i].required
      BY <2>1, <2>2 DEF Enumerates
    <3> QED BY <3>1, <2>2
  <2>5. M \in SUBSET UtxosAt(trial)
    BY <2>3 DEF U
  <2>6. PICK s : s = Match
    OBVIOUS
  <2> QED BY <1>1, <2>1, <2>3, <2>4, <2>5, <2>6, PaidStep
<1> QED BY <1>3, <1>4

\* accumulative's picks, one optional UTXO after the other.
LEMMA PickedFacts ==
  ASSUME Accepted, NEW U \in SUBSET Coins, Enumerates(usable, U)
  PROVE  /\ Picked(1) = {i \in U : req.inputs[i].required}
         /\ \A p : /\ Picked(p) \in SUBSET U
                   /\ \A i \in U : req.inputs[i].required => i \in Picked(p)
         /\ \A p \in DOMAIN Optional :
               /\ Optional[p] \in U /\ Optional[p] \notin Picked(p)
               /\ req.inputs[Optional[p]].amount >= InputFee(Optional[p])
                    => Picked(p + 1) = Picked(p) \cup {Optional[p]}
               /\ req.inputs[Optional[p]].amount < InputFee(Optional[p])
                    => Picked(p + 1) = Picked(p)
         /\ Picked(Len(Optional) + 1) =
              {i \in U : req.inputs[i].required \/ req.inputs[i].amount >= InputFee(i)}
<1>1. /\ Indices(usable) = U
      /\ Len(Optional) \in Nat /\ DOMAIN Optional = 1..Len(Optional)
      /\ \A k \in DOMAIN Optional : Optional[k] \in U /\ ~req.inputs[Optional[k]].required
      /\ \A j, k \in DOMAIN Optional : Optional[j] = Optional[k] => j = k
      /\ \A i \in U : ~req.inputs[i].required => \E k \in DOMAIN Optional : Optional[k] = i
  BY UsableFacts DEF Accepted
<1> DEFINE Pays(i) == req.inputs[i].amount >= InputFee(i)
           R == {i \in U : req.inputs[i].required}
           A(p) == {q \in DOMAIN Optional : q < p /\ Pays(Optional[q])}
<1>2. \A p : Picked(p) = R \cup {Optional[k] : k \in A(p)}
  BY <1>1 DEF Picked
<1>3. Picked(1) = R
  <2>1. A(1) = {}
    BY <1>1
  <2> QED BY <2>1, <1>2
<1>4. ASSUME NEW p
      PROVE  /\ Picked(p) \in SUBSET U
             /\ \A i \in U : req.inputs[i].required => i \in Picked(p)
  BY <1>1, <1>2
<1>5. ASSUME NEW p \in DOMAIN Optional
      PROVE  /\ Optional[p] \in U /\ Optional[p] \notin Picked(p)
             /\ req.inputs[Optional[p]].amount >= InputFee(Optional[p])
                  => Picked(p + 1) = Picked(p) \cup {Optional[p]}
             /\ req.inputs[Optional[p]].amount < InputFee(Optional[p])
                  => Picked(p + 1) = Picked(p)
  <2>1. Optional[p] \in U /\ ~req.inputs[Optional[p]].required /\ p \in 1..Len(Optional)
    BY <1>1
  <2>2. \A q \in A(p) : q \in DOMAIN Optional /\ q # p
    BY <1>1
  <2>3. Optional[p] \notin Picked(p)
    <3>1. \A q \in A(p) : Optional[q] # Optional[p]
      BY <1>1, <2>2
    <3> HIDE DEF A
    <3> QED BY <1>2, <2>1, <3>1
  <2>4. Pays(Optional[p]) => A(p + 1) = A(p) \cup {p}
    <3>1. \A q \in DOMAIN Optional : q < p + 1 <=> (q < p \/ q = p)
      BY <1>1
    <3> HIDE DEF Pays
    <3> QED BY <3>1
  <2>5. ~Pays(Optional[p]) => A(p + 1) = A(p)
    <3>1. \A q \in DOMAIN Optional : q < p + 1 <=> (q < p \/ q = p)
      BY <1>1
    <3> HIDE DEF Pays
    <3> QED BY <3>1
  <2>6. req.inputs[Optional[p]].amount \in Int /\ InputFee(Optional[p]) \in Int
    <3>1. Optional[p] \in Coins
      BY <2>1
    <3> QED BY <3>1, RequestTypes, InputFees DEF Accepted
  <2> HIDE DEF A
  <2>7. Pays(Optional[p]) => Picked(p + 1) = Picked(p) \cup {Optional[p]}
    BY <1>2, <2>4
  <2>8. ~Pays(Optional[p]) => Picked(p + 1) = Picked(p)
    BY <1>2, <2>5
  <2> QED BY <2>1, <2>3, <2>6, <2>7, <2>8
<1>6. Picked(Len(Optional) + 1) = {i \in U : req.inputs[i].required \/ Pays(i)}
  <2>1. A(Len(Optional) + 1) = {q \in DOMAIN Optional : Pays(Optional[q])}
    <3>1. \A q \in DOMAIN Optional : q < Len(Optional) + 1
      BY <1>1
    <3> HIDE DEF Pays
    <3> QED BY <3>1
  <2> HIDE DEF A, Pays
  <2>2. Picked(Len(Optional) + 1) = R \cup {Optional[k] : k \in {q \in DOMAIN Optional : Pays(Optional[q])}}
    BY <1>2, <2>1
  <2> QED BY <2>2, <1>1
<1> QED BY <1>3, <1>4, <1>5, <1>6

\* accumulative: the required UTXOs.
LEMMA RequiredKeeps ==
  ASSUME IInv, Required
  PROVE  IInv'
<1> DEFINE s0 == Take(usable, InOrder({k \in DOMAIN usable : req.inputs[usable[k]].required}))
           U == UtxosAt(trial)
           R == {i \in U : req.inputs[i].required}
<1>1. /\ pc = "required" /\ Selecting /\ req' = req /\ order' = order /\ trial' = trial
      /\ result' = result /\ count' = count /\ usable' = usable
      /\ picked' = s0 /\ pos' = 1
      /\ IF s0 # <<>> /\ FinalizeWith(s0).ok
           THEN chosen' = Success(s0) /\ pc' = "compose"
           ELSE pc' = "optional"
  BY DEF Required, Selecting
<1>2. /\ req \in Request /\ Accepted /\ U \in SUBSET Coins /\ Enumerates(usable, U)
      /\ \A i \in Coins : req.inputs[i].required => i \in U
  BY <1>1, TurnFacts
<1>3. Enumerates(s0, R) /\ Len(Optional) \in Nat
  <2> HIDE DEF U
  <2> QED BY <1>2, UsableFacts
<1>4. PICK s, S : s = s0 /\ S = R
  OBVIOUS
<1>5. /\ Enumerates(s, S) /\ S \in SUBSET U /\ S \in SUBSET Coins
      /\ \A i \in Coins : req.inputs[i].required => i \in S
      /\ S = Picked(1)
  <2>1. Picked(1) = R
    <3> HIDE DEF U
    <3> QED BY <1>2, PickedFacts
  <2> QED BY <1>2, <1>3, <1>4, <2>1
<1> HIDE DEF s0, R
<1>6. CASE s # <<>> /\ FinalizeWith(s).ok
  <2>1. chosen' = Success(s) /\ pc' = "compose"
    BY <1>1, <1>4, <1>6
  <2> QED BY <1>1, <1>5, <1>6, <2>1, PaidStep
<1>7. CASE ~(s # <<>> /\ FinalizeWith(s).ok)
  <2>1. pc' = "optional" /\ picked' = s /\ pos' = 1
    BY <1>1, <1>4, <1>7
  <2>2. ~Covers(S)
    BY <1>2, <1>5, <1>7, CoversList
  <2>3. Optional' = Optional /\ Picked(1)' = Picked(1) /\ Covers(S)' = Covers(S)
    BY <1>1, UsableFrame, RequestFrame
  <2>4. Picked(pos)' = S
    <3>1. PICK p : p = 1 /\ p = pos'
      BY <2>1
    <3>2. Picked(p)' = S
      BY <3>1, <2>3, <1>5
    <3> QED BY <3>1, <3>2 DEF Picked, Optional
  <2>5. Lacks(Picked(pos))'
    BY <2>2, <2>3, <2>4 DEF Lacks
  <2>6. PickedInv'
    <3>1. pos' \in 1..(Len(Optional') + 1)
      BY <1>3, <2>1, <2>3
    <3> QED BY <3>1, <2>1, <2>4, <2>5, <1>5 DEF PickedInv
  <2> QED BY <1>1, <2>1, <2>6, TurnStep
<1> QED BY <1>6, <1>7

\* accumulative: one more UTXO.
LEMMA AccumulateKeeps ==
  ASSUME IInv, Accumulate
  PROVE  IInv'
<1> DEFINE U == UtxosAt(trial)
<1>1. /\ pc = "optional" /\ Selecting /\ req' = req /\ order' = order /\ trial' = trial
      /\ result' = result /\ count' = count /\ usable' = usable
      /\ pos \in DOMAIN Optional /\ pos' = pos + 1
  BY DEF Accumulate, Selecting
<1>2. PICK i, s, p : i = Optional[pos] /\ s = Append(picked, i) /\ p = pos
  OBVIOUS
<1>3. IF req.inputs[i].amount < InputFee(i) /\ pos # Len(Optional)
        THEN picked' = picked /\ chosen' = chosen /\ pc' = pc
        ELSE /\ picked' = s
             /\ IF FinalizeWith(s).ok
                  THEN chosen' = Success(s) /\ pc' = "compose"
                  ELSE chosen' = chosen /\ pc' = pc
  BY <1>2 DEF Accumulate
<1>4. /\ req \in Request /\ Accepted /\ U \in SUBSET Coins /\ Enumerates(usable, U)
      /\ \A c \in Coins : req.inputs[c].required => c \in U
  BY <1>1, TurnFacts
<1> HIDE DEF U
<1>5. Len(Optional) \in Nat /\ DOMAIN Optional = 1..Len(Optional) /\ p \in 1..Len(Optional)
  BY <1>1, <1>2, <1>4, UsableFacts
<1>6. /\ i \in U /\ i \in Coins /\ i \notin Picked(p) /\ Picked(p) \in SUBSET U
      /\ Picked(p) \in SUBSET Coins
      /\ \A c \in U : req.inputs[c].required => c \in Picked(p)
      /\ req.inputs[i].amount >= InputFee(i) => Picked(p + 1) = Picked(p) \cup {i}
      /\ req.inputs[i].amount < InputFee(i) => Picked(p + 1) = Picked(p)
  BY <1>1, <1>2, <1>4, PickedFacts
<1>7. Enumerates(picked, Picked(p)) /\ Lacks(Picked(p))
  BY <1>1, <1>2, <1>5 DEF IInv, PickedInv
<1>8. req.inputs[i].amount \in Int /\ InputFee(i) \in Int
  BY <1>4, <1>6, RequestTypes, InputFees
<1>9. PICK T : T = Picked(p) \cup {i}
  OBVIOUS
<1>10. /\ Enumerates(s, T) /\ T \in SUBSET U /\ T \in SUBSET Coins
       /\ \A c \in Coins : req.inputs[c].required => c \in T
  <2>1. Enumerates(Append(picked, i), Picked(p) \cup {i})
    BY <1>4, <1>6, <1>7, AppendEnumerates
  <2> QED BY <2>1, <1>2, <1>4, <1>6, <1>9
<1>11. Optional' = Optional /\ \A q : Picked(q)' = Picked(q)
  BY <1>1, UsableFrame
<1>12. Picked(pos)' = Picked(p + 1)
  <2>1. PICK q : q = p + 1 /\ q = pos'
    BY <1>1, <1>2
  <2>2. Picked(q)' = Picked(q)
    BY <1>11
  <2>3. Picked(q)' = Picked(pos)'
    BY <2>1 DEF Picked, Optional
  <2> QED BY <2>1, <2>2, <2>3
<1>13. pos' \in 1..(Len(Optional') + 1) /\ (pos' <= Len(Optional') => p # Len(Optional))
  BY <1>1, <1>2, <1>5, <1>11
<1>14. ASSUME Lacks(Picked(p + 1)) PROVE Lacks(Picked(pos))'
  <2>1. PICK S : S = Picked(p + 1)
    OBVIOUS
  <2>2. ~Covers(S) /\ Covers(S)' = Covers(S)
    BY <1>1, <1>14, <2>1, RequestFrame DEF Lacks
  <2> QED BY <2>1, <2>2, <1>12 DEF Lacks
<1>15. CASE req.inputs[i].amount < InputFee(i) /\ pos # Len(Optional)
  <2>1. picked' = picked /\ pc' = "optional" /\ Picked(p + 1) = Picked(p)
    BY <1>1, <1>3, <1>6, <1>15
  <2>2. PickedInv'
    BY <1>7, <1>12, <1>13, <1>14, <2>1 DEF PickedInv
  <2> QED BY <1>1, <2>1, <2>2, TurnStep
<1>16. CASE /\ ~(req.inputs[i].amount < InputFee(i) /\ pos # Len(Optional))
            /\ FinalizeWith(s).ok
  <2>1. chosen' = Success(s) /\ pc' = "compose"
    BY <1>3, <1>16
  <2>2. T \in SUBSET UtxosAt(trial)
    BY <1>10 DEF U
  <2> QED BY <1>1, <1>10, <1>16, <2>1, <2>2, PaidStep
<1>17. CASE /\ ~(req.inputs[i].amount < InputFee(i) /\ pos # Len(Optional))
            /\ ~FinalizeWith(s).ok
  <2>1. picked' = s /\ pc' = "optional"
    BY <1>1, <1>3, <1>17
  <2>2. ~Covers(T)
    BY <1>4, <1>10, <1>17, CoversList
  <2>3. CASE req.inputs[i].amount >= InputFee(i)
    <3>1. Picked(p + 1) = T
      BY <1>6, <1>9, <2>3
    <3>2. Lacks(Picked(p + 1))
      BY <2>2, <3>1 DEF Lacks
    <3>3. PickedInv'
      BY <1>10, <1>12, <1>13, <1>14, <2>1, <3>1, <3>2 DEF PickedInv
    <3> QED BY <1>1, <2>1, <3>3, TurnStep
  <2>4. CASE req.inputs[i].amount < InputFee(i)
    <3>1. p = Len(Optional) /\ Picked(p + 1) = Picked(p)
      BY <1>2, <1>6, <1>17, <2>4
    <3>2. Lacks(Picked(p + 1))
      BY <1>7, <3>1
    <3>3. PickedInv'
      BY <1>13, <1>14, <2>1, <3>1, <3>2 DEF PickedInv
    <3> QED BY <1>1, <2>1, <3>3, TurnStep
  <2> QED BY <1>8, <2>3, <2>4
<1> QED BY <1>15, <1>16, <1>17

\* accumulative: the end of the optional UTXOs shows the trial to be short.
LEMMA GiveUpKeeps ==
  ASSUME IInv, GiveUp
  PROVE  IInv'
<1> DEFINE U == UtxosAt(trial)
<1>1. /\ pc = "optional" /\ Selecting /\ pc' = "trial" /\ req' = req /\ order' = order
      /\ trial' = trial + 1 /\ result' = result /\ count' = count
      /\ pos \notin DOMAIN Optional
  BY DEF GiveUp, Selecting
<1>2. /\ req \in Request /\ Accepted /\ U \in SUBSET Coins /\ Enumerates(usable, U)
      /\ Refusal = "none" /\ ~HasSendMax /\ trial \in 1..8
  BY <1>1, TurnFacts
<1>3. Refusal' = Refusal /\ HasSendMax' = HasSendMax
  BY <1>1, StageFrame
<1>4. StageInv'
  BY <1>1, <1>2, <1>3 DEF StageInv, Stages, Selecting
<1>5. OrderInv'
  BY <1>1, OrderKept DEF IInv
<1>6. TrialInv'
  <2>1. Picked(Len(Optional) + 1) = Spends(trial)
    <3> HIDE DEF U
    <3>1. Picked(Len(Optional) + 1) =
            {i \in U : req.inputs[i].required \/ req.inputs[i].amount >= InputFee(i)}
      BY <1>2, PickedFacts
    <3> QED BY <3>1 DEF Spends, U
  <2>2. pos = Len(Optional) + 1
    <3>1. Len(Optional) \in Nat /\ DOMAIN Optional = 1..Len(Optional)
      <4> HIDE DEF U
      <4> QED BY <1>2, UsableFacts
    <3>2. pos \in 1..(Len(Optional) + 1)
      BY <1>1 DEF IInv, PickedInv
    <3> QED BY <1>1, <3>1, <3>2
  <2>3. Lacks(Spends(trial))
    BY <1>1, <2>1, <2>2 DEF IInv, PickedInv
  <2> QED BY <1>1, <1>2, <2>3, TrialStep DEF IInv
<1>7. CountInv'
  <2>1. PICK j \in 1..8 : j = trial
    BY <1>2
  <2>2. count = Cardinality(UtxosAt(j))
    BY <1>1, <2>1 DEF IInv, CountInv
  <2>3. UtxosAt(j)' = UtxosAt(j)
    BY <1>1, FilterFrame
  <2>4. j < trial' /\ count' = Cardinality(UtxosAt(j)')
    BY <1>1, <2>1, <2>2, <2>3
  <2> QED BY <1>1, <2>4 DEF CountInv, Selecting
<1>8. PickedInv' /\ ChosenInv'
  BY <1>1 DEF PickedInv, ChosenInv
<1>9. ResultInv'
  BY <1>1, NoResultKept DEF IInv
<1> QED BY <1>4, <1>5, <1>6, <1>7, <1>8, <1>9 DEF IInv

-----------------------------------------------------------------------------
(* The end, and steps that change nothing. *)

\* The transaction, for the same request and selection.
LEMMA ResultFrame ==
  ASSUME req' = req, chosen' = chosen
  PROVE  /\ InputOrders' = InputOrders /\ OutputOrders' = OutputOrders
         /\ ComposedOutputs' = ComposedOutputs
         /\ \A q : Addressed(Take(ComposedOutputs, q))' = Addressed(Take(ComposedOutputs, q))
<1>1. ChangeType' = ChangeType
  BY DEF ChangeType
<1>2. ComposedOutputs' = ComposedOutputs
  BY <1>1 DEF ComposedOutputs, CsWeight, CsAmount
<1>3. InputOrders' = InputOrders
  BY DEF InputOrders
<1>4. OutputOrders' = OutputOrders
  BY <1>2 DEF OutputOrders
<1>5. ChangeAddress' = ChangeAddress
  BY DEF ChangeAddress
<1>6. \A q : Addressed(Take(ComposedOutputs, q))' = Addressed(Take(ComposedOutputs, q))
  BY <1>2, <1>5 DEF Addressed
<1> QED BY <1>2, <1>3, <1>4, <1>6

\* The choice stays a choice while the request and the trial do.
LEMMA ChosenKept ==
  ASSUME Short \/ Paid \/ Emptied, req' = req, order' = order, trial' = trial, chosen' = chosen
  PROVE  Short' \/ Paid' \/ Emptied'
<1>1. HasSendMax' = HasSendMax /\ Coins' = Coins /\ Insufficient' = Insufficient
      /\ DustAmount(ChangeType)' = DustAmount(ChangeType)
  BY StageFrame DEF Insufficient
<1>2. \A s : /\ FinalizeWith(s)' = FinalizeWith(s) /\ Success(s)' = Success(s)
             /\ AmountOf(s)' = AmountOf(s) /\ FeeOf(s, CsWeights)' = FeeOf(s, CsWeights)
             /\ CsOutputSum' = CsOutputSum
  BY RequestFrame
<1>3. UtxosAt(trial)' = UtxosAt(trial)
  BY TrialFrame
<1>4. Short => Short'
  BY <1>1 DEF Short
<1>5. Paid => Paid'
  BY <1>1, <1>2, <1>3 DEF Paid
<1>6. Emptied => Emptied'
  BY <1>1, <1>2 DEF Emptied
<1> QED BY <1>4, <1>5, <1>6

\* compose_tx: the result of the choice.
LEMMA ConcludeKeeps ==
  ASSUME IInv, Conclude
  PROVE  IInv'
<1>1. /\ pc = "compose" /\ pc' = "done" /\ req' = req /\ order' = order /\ trial' = trial
      /\ chosen' = chosen
  BY DEF Conclude
<1>2. req \in Request /\ Refusal = "none" /\ trial \in 1..9
  BY <1>1, SelectionFacts
<1>3. Refusal' = Refusal /\ IsComplete' = IsComplete
  BY <1>1, StageFrame
<1>4. StageInv'
  BY <1>1, <1>2 DEF StageInv, Stages, Selecting
<1>5. OrderInv' /\ TrialInv'
  BY <1>1, OrderKept, TrialKept DEF IInv
<1>6. CountInv' /\ PickedInv'
  BY <1>1 DEF CountInv, PickedInv, Selecting
<1>7. ChosenInv'
  <2>1. Short \/ Paid \/ Emptied
    BY <1>1, <1>2 DEF IInv, ChosenInv
  <2> QED BY <1>1, <2>1, ChosenKept DEF ChosenInv
<1>8. ResultInv'
  <2>1. CASE chosen.kind = "insufficient"
    <3>1. result' = Error("NotEnoughFunds")
      BY <2>1 DEF Conclude
    <3>2. result'.kind = "error"
      BY <3>1 DEF Error
    <3>3. ~IsFinal'
      BY <3>2 DEF IsFinal
    <3> QED BY <1>1, <1>2, <1>3, <2>1, <3>3 DEF ResultInv
  <2>2. CASE chosen.kind # "insufficient" /\ ~IsComplete
    <3>1. result'.kind = "nonFinal"
      BY <2>2 DEF Conclude
    <3>2. ~IsFinal' /\ result' # Error("NotEnoughFunds")
      BY <3>1 DEF IsFinal, Error
    <3> QED BY <1>1, <3>2 DEF ResultInv
  <2>3. CASE chosen.kind # "insufficient" /\ IsComplete
    <3>1. PICK p \in InputOrders, q \in OutputOrders :
             result' = [kind |-> "final", fee |-> chosen.fee,
                        inputs |-> Take(chosen.inputs, p),
                        outputs |-> Addressed(Take(ComposedOutputs, q))]
      BY <2>3 DEF Conclude
    <3>2. p \in InputOrders' /\ q \in OutputOrders'
      BY <1>1, ResultFrame
    <3>3. Addressed(Take(ComposedOutputs, q))' = Addressed(Take(ComposedOutputs, q))
      BY <1>1, ResultFrame
    <3>4. Ordered'
      BY <1>1, <3>1, <3>2, <3>3 DEF Ordered
    <3>5. result'.kind = "final"
      BY <3>1
    <3>6. result' # Error("NotEnoughFunds")
      BY <3>5 DEF Error
    <3> QED BY <1>1, <1>2, <1>3, <2>3, <3>4, <3>6 DEF ResultInv
  <2> QED BY <2>1, <2>2, <2>3
<1> QED BY <1>4, <1>5, <1>6, <1>7, <1>8 DEF IInv

\* Nothing happens.
LEMMA StutterKeeps ==
  ASSUME IInv, UNCHANGED vars
  PROVE  IInv'
<1>1. /\ req' = req /\ pc' = pc /\ order' = order /\ trial' = trial /\ count' = count
      /\ usable' = usable /\ picked' = picked /\ pos' = pos /\ chosen' = chosen
      /\ result' = result
  BY DEF vars
<1>2. Refusal' = Refusal /\ IsComplete' = IsComplete /\ HasSendMax' = HasSendMax
  BY <1>1, StageFrame
<1>3. StageInv'
  BY <1>1, <1>2 DEF IInv, StageInv, Selecting
<1>4. OrderInv'
  BY <1>1, <1>2 DEF IInv, OrderInv
<1>5. TrialInv'
  BY <1>1, TrialKept DEF IInv
<1>6. CountInv'
  <2>1. UtxosAt(trial)' = UtxosAt(trial) /\ \A j : UtxosAt(j)' = UtxosAt(j)
    BY <1>1, TrialFrame, FilterFrame
  <2> QED BY <1>1, <2>1 DEF IInv, CountInv, Selecting
<1>7. PickedInv'
  <2>1. Optional' = Optional /\ \A p : Picked(p)' = Picked(p)
    BY <1>1, UsableFrame
  <2>2. Picked(pos)' = Picked(pos)
    <3>1. PICK p : p = pos /\ p = pos'
      BY <1>1
    <3>2. Picked(p)' = Picked(pos)'
      BY <3>1 DEF Picked, Optional
    <3> QED BY <3>1, <3>2, <2>1
  <2>3. \A S : Covers(S)' = Covers(S)
    BY <1>1, RequestFrame
  <2> QED BY <1>1, <2>1, <2>2, <2>3 DEF IInv, PickedInv, Lacks
<1>8. ChosenInv'
  BY <1>1, <1>2, ChosenKept DEF IInv, ChosenInv
<1>9. ResultInv'
  <2>1. Ordered' <=> Ordered
    BY <1>1, ResultFrame DEF Ordered
  <2>2. IsFinal' <=> IsFinal
    BY <1>1 DEF IsFinal
  <2>3. Error("NotEnoughFunds")' = Error("NotEnoughFunds")
    BY DEF Error
  <2> QED BY <1>1, <1>2, <2>1, <2>2, <2>3 DEF IInv, ResultInv
<1> QED BY <1>3, <1>4, <1>5, <1>6, <1>7, <1>8, <1>9 DEF IInv

\* The invariant is inductive.
THEOREM IInvHolds == Spec => []IInv
<1>1. Init => IInv
  BY InitIInv
<1>2. IInv /\ [Next]_vars => IInv'
  <2> SUFFICES ASSUME IInv, [Next]_vars PROVE IInv'
    OBVIOUS
  <2>1. CASE Validate
    BY <2>1, ValidateKeeps
  <2>2. CASE Filter
    BY <2>2, FilterKeeps
  <2>3. CASE Exhausted
    BY <2>3, ExhaustedKeeps
  <2>4. CASE Branch
    BY <2>4, BranchKeeps
  <2>5. CASE Required
    BY <2>5, RequiredKeeps
  <2>6. CASE Accumulate
    BY <2>6, AccumulateKeeps
  <2>7. CASE GiveUp
    BY <2>7, GiveUpKeeps
  <2>8. CASE Split
    BY <2>8, SplitKeeps
  <2>9. CASE Conclude
    BY <2>9, ConcludeKeeps
  <2>10. CASE UNCHANGED vars
    BY <2>10, StutterKeeps
  <2> QED BY <2>1, <2>2, <2>3, <2>4, <2>5, <2>6, <2>7, <2>8, <2>9, <2>10 DEF Next
<1> QED BY <1>1, <1>2, PTL DEF Spec

-----------------------------------------------------------------------------
(* What the invariant says of the search and of the selection. *)

\* bnb_search: within its limit of calls it finds a subset in the window exactly
\* when there is one, for any number of candidates.
THEOREM SearchIsExact == Spec => []SearchAgrees
<1>1. IInv => SearchAgrees
  <2> SUFFICES ASSUME IInv, pc = "branch", Search(Fitting).tries < MaxTries
               PROVE  Search(Fitting).found <=>
                        \E S \in (SUBSET DOMAIN Fitting) \ {{}} :
                          SumOf([k \in DOMAIN Fitting |-> IF k \in S THEN Fitting[k].value ELSE 0])
                            \in Target..(Target + CostOfChange)
    BY DEF SearchAgrees
  <2> DEFINE f == Fitting
             s == Search(f)
  <2>1. /\ Accepted /\ UtxosAt(trial) \in SUBSET Coins /\ Enumerates(usable, UtxosAt(trial))
    BY TurnFacts DEF Selecting
  <2>2. Fits(f) /\ Target \in Nat /\ Target > 0 /\ CostOfChange \in Nat
    BY <2>1, FittingFacts, TargetFacts
  <2> HIDE DEF f
  <2>3. Good(f, s, 1, 0)
    BY <2>2, SearchGood
  <2>4. /\ Len(f) \in Nat /\ DOMAIN f = 1..Len(f) /\ Worth(f, {}) = 0
        /\ \A S : Worth(f, S) \in Nat
    BY <2>2, WorthFacts DEF Fits
  <2>5. \A S : 0 + Worth(f, S) = Worth(f, S)
    BY <2>4
  <2>6. \A S : InWindow(Worth(f, S)) <=> Worth(f, S) \in Target..(Target + CostOfChange)
    BY <2>2, <2>4 DEF InWindow
  <2> HIDE DEF s
  <2>7. s.stop \in BOOLEAN /\ s.found \in BOOLEAN /\ s.picks \in SUBSET (1..Len(f)) /\ s.tries \in Nat
    BY <2>3 DEF Good
  <2>8. ASSUME s.found
        PROVE  \E S \in (SUBSET DOMAIN f) \ {{}} : Worth(f, S) \in Target..(Target + CostOfChange)
    <3>1. InWindow(Worth(f, s.picks))
      BY <2>3, <2>5, <2>8 DEF Good
    <3>2. s.picks # {}
      <4>1. ~InWindow(Worth(f, {}))
        BY <2>2, <2>4 DEF InWindow
      <4> QED BY <3>1, <4>1
    <3> QED BY <3>1, <3>2, <2>4, <2>6, <2>7
  <2>9. ASSUME ~s.found, NEW S \in SUBSET DOMAIN f
        PROVE  Worth(f, S) \notin Target..(Target + CostOfChange)
    <3>1. s.tries < MaxTries
      BY DEF s, f
    <3>2. ~s.stop
      <4>1. (s.stop /\ ~s.found) => s.tries >= MaxTries
        BY <2>3 DEF Good
      <4>2. ~(s.tries >= MaxTries)
        BY <2>7, <3>1, MaxTriesAssumption
      <4> QED BY <4>1, <4>2, <2>9
    <3>3. \A T \in SUBSET (1..Len(f)) : ~InWindow(0 + Worth(f, T))
      BY <2>3, <3>2 DEF Good
    <3> QED BY <3>3, <2>4, <2>5, <2>6
  <2> QED BY <2>8, <2>9 DEF s, f, Worth
<1> QED BY <1>1, IInvHolds, PTL

\* A required UTXO passes every filter; and the set of accumulative, read from
\* the request when positions and UTXOs agree.
LEMMA SpendsIs ==
  ASSUME Accepted, IsPerm(order, Len(req.inputs)), NEW j \in 1..8,
         \/ \A k \in DOMAIN order : order[k] = k
         \/ j = 8 /\ \A i \in Coins : ~req.inputs[i].coinbase
  PROVE  Spends(j) = Spendable(Trials[j])
<1>1. req \in Request /\ DOMAIN order = Coins
  BY FilterFacts DEF Accepted
<1>2. \A i \in Coins : req.inputs[i].confirmations \in Nat
  BY <1>1, RequestTypes
<1> DEFINE Seen(i) == ~Immature(req.inputs[i])
                        /\ req.inputs[i].confirmations >=
                             (IF req.inputs[i].own THEN Trials[j].own ELSE Trials[j].other)
<1>3. ASSUME NEW i \in Coins
      PROVE  i \in UtxosAt(j) <=> (req.inputs[i].required \/ Seen(i))
  <2>1. CASE \A k \in DOMAIN order : order[k] = k
    <3>1. UtxosAt(j) = Admitted(j)
      BY <2>1 DEF UtxosAt, Named, Admitted
    <3>2. i \in Admitted(j) <=> Passes(i, Trials[j])
      BY <1>1 DEF Admitted
    <3>3. order[i] = i
      BY <1>1, <2>1
    <3> QED BY <3>1, <3>2, <3>3 DEF Passes
  <2>2. CASE j = 8 /\ \A c \in Coins : ~req.inputs[c].coinbase
    <3>1. Trials[8].own = 0 /\ Trials[8].other = 0
      BY TrialsAre
    <3>2. \A c \in Coins : Seen(c)
      BY <1>2, <2>2, <3>1 DEF Immature
    <3>3. \A k \in Coins : Passes(k, Trials[8])
      BY <3>2, <2>2 DEF Passes
    <3>4. Admitted(8) = Coins
      BY <1>1, <3>3 DEF Admitted
    <3>5. UtxosAt(8) = Named(order, Coins)
      BY <3>4 DEF UtxosAt
    <3>6. i \in Named(order, Coins)
      <4>1. Len(req.inputs) \in Nat /\ Coins = 1..Len(req.inputs)
        BY <1>1, RequestTypes
      <4>2. Enumerates(order, 1..Len(req.inputs)) /\ Cardinality(1..Len(req.inputs)) = Len(req.inputs)
        BY <4>1, PermEnumerates, FS_Interval
      <4> QED BY <4>1, <4>2 DEF Enumerates, Named
    <3> QED BY <2>2, <3>2, <3>5, <3>6
  <2> QED BY <2>1, <2>2
<1>4. UtxosAt(j) \in SUBSET Coins
  BY <1>1, FilterFacts
<1>5. Spends(j) = {i \in Coins : (req.inputs[i].required \/ Seen(i))
                       /\ (req.inputs[i].required \/ req.inputs[i].amount >= InputFee(i))}
  <2> HIDE DEF Seen
  <2> QED BY <1>3, <1>4 DEF Spends
<1>6. Spendable(Trials[j]) = {i \in Coins : req.inputs[i].required
                                 \/ (Seen(i) /\ req.inputs[i].amount >= InputFee(i))}
  BY DEF Spendable, Coins
<1> HIDE DEF Seen
<1> QED BY <1>5, <1>6

\* try_confirmed and accumulative: "Not enough funds" is only said when all the
\* spendable UTXOs together do not cover outputs and fee.
THEOREM ShortIsShort == Spec => []ShortOnlyWhenShort
<1>1. IInv => ShortOnlyWhenShort
  <2> SUFFICES ASSUME IInv, result = Error("NotEnoughFunds"), ~HasSendMax, Aligned
               PROVE  ~Covers(Spendable([own |-> 0, other |-> 0]))
    BY DEF ShortOnlyWhenShort
  <2>1. req \in Request /\ Refusal = "none" /\ chosen.kind = "insufficient" /\ pc = "done"
    <3>1. result.kind = "error"
      BY DEF Error
    <3>2. pc = "done"
      BY <3>1 DEF IInv, ResultInv
    <3> QED BY <3>2 DEF IInv, ResultInv, StageInv
  <2>2. Accepted /\ IsPerm(order, Len(req.inputs))
        /\ (req.sorting = "none" => \A k \in DOMAIN order : order[k] = k)
    BY <2>1, RefusalFacts DEF IInv, OrderInv
  <2>3. trial = 9
    <3>1. ~Paid
      <4>1. \A s : Success(s).kind = "success"
        BY DEF Success
      <4> QED BY <4>1, <2>1 DEF Paid
    <3> QED BY <2>1, <3>1 DEF IInv, ChosenInv, Short, Emptied
  <2>4. Lacks(Spends(8))
    BY <2>3 DEF IInv, TrialInv
  <2>5. Spends(8) = Spendable(Trials[8])
    BY <2>2, SpendsIs DEF Aligned, Coins
  <2>6. Trials[8] = [own |-> 0, other |-> 0]
    BY TrialsAre
  <2> QED BY <2>4, <2>5, <2>6 DEF Lacks
<1> QED BY <1>1, IInvHolds, PTL

-----------------------------------------------------------------------------
(* sort_transaction. *)

\* The orders of the inputs are permutations.
LEMMA InputOrderFacts ==
  ASSUME req \in Request, NEW S \in SUBSET Coins, NEW s, Enumerates(s, S), s = chosen.inputs,
         NEW p \in InputOrders
  PROVE  Enumerates(Take(s, p), S)
<1> DEFINE n == Cardinality(S)
           key == [k \in DOMAIN s |-> req.inputs[s[k]].id]
<1>1. IsFiniteSet(S) /\ n \in Nat /\ DOMAIN s = 1..n /\ s \in [1..n -> S]
  BY ListTypes
<1> HIDE DEF n
<1>2. IsPerm(p, n)
  <2>1. CASE req.sorting = "bip69"
    <3>1. p = ByKey(1..n, key)
      BY <1>1, <2>1 DEF InputOrders
    <3>2. key \in [1..n -> Int]
      <4>1. \A k \in 1..n : req.inputs[s[k]].id \in Int
        BY <1>1, RequestTypes
      <4> QED BY <1>1, <4>1
    <3> HIDE DEF key
    <3>3. 1..n \in SUBSET Int /\ IsFiniteSet(1..n)
      <4>1. 1..n \in SUBSET (1..n)
        OBVIOUS
      <4> QED BY <1>1, <4>1, FinitePositions
    <3>4. Enumerates(p, 1..n)
      BY <3>1, <3>2, <3>3, ByKeyEnumerates
    <3> QED BY <1>1, <3>4, EnumeratesPerm
  <2>2. CASE req.sorting = "random"
    <3>1. p \in Shuffles(1..n)
      BY <1>1, <2>2 DEF InputOrders
    <3>2. p \in [1..n -> 1..n] /\ \A w \in 1..n : \E v \in 1..n : p[v] = w
      BY <3>1 DEF Shuffles
    <3>3. p \in Surjection(1..n, 1..n) /\ IsFiniteSet(1..n)
      BY <1>1, <3>2, FS_Interval DEF Surjection
    <3>4. p \in Injection(1..n, 1..n)
      BY <3>3, FS_Surjection
    <3> QED BY <3>2, <3>4 DEF IsPerm, Injection, IsInjective
  <2>3. CASE req.sorting = "none"
    <3>1. p = [k \in 1..n |-> k]
      BY <1>1, <2>3 DEF InputOrders
    <3> QED BY <3>1 DEF IsPerm
  <2> QED BY <2>1, <2>2, <2>3, RequestTypes
<1> QED BY <1>1, <1>2, TakePerm DEF n

\* The outputs before they are sorted: the wished ones, then the change.
OutputSet == [kind : {"payment", "change"}, weight : Nat, script : Int, index : Nat,
              amount : Nat, to : Nat]
Payment(i) ==
    [kind |-> "payment", weight |-> CsWeight(req.outputs[i]), script |-> req.outputs[i].script,
     index |-> i, amount |-> IF req.outputs[i].kind = "sendMax" THEN chosen.amount
                             ELSE CsAmount(req.outputs[i]), to |-> 0]
Change == [kind |-> "change", weight |-> OutputWeight[ChangeType], script |-> 0,
           index |-> Len(req.outputs) + 1, amount |-> chosen.amount, to |-> 0]
HasChange == chosen.kind = "success" /\ chosen.amount > 0

\* The composed outputs are the wished ones, then the change if there is one.
LEMMA ComposedFacts ==
  ASSUME req \in Request, chosen.amount \in Nat
  PROVE  /\ Len(ComposedOutputs) =
              IF HasChange THEN Len(req.outputs) + 1 ELSE Len(req.outputs)
         /\ ComposedOutputs \in [1..Len(ComposedOutputs) -> OutputSet]
         /\ \A i \in 1..Len(req.outputs) : ComposedOutputs[i] = Payment(i)
         /\ HasChange => ComposedOutputs[Len(req.outputs) + 1] = Change
<1> DEFINE n == Len(req.outputs)
           a == [i \in DOMAIN req.outputs |-> Payment(i)]
           b == IF HasChange THEN <<Change>> ELSE <<>>
<1>1. n \in Nat /\ DOMAIN req.outputs = 1..n
  BY RequestTypes
<1>2. ComposedOutputs = a \o b
  BY DEF ComposedOutputs, Payment, Change, HasChange
<1>3. \A i \in 1..n : Payment(i) \in OutputSet
  <2> SUFFICES ASSUME NEW i \in 1..n PROVE Payment(i) \in OutputSet
    OBVIOUS
  <2>1. /\ CsWeight(req.outputs[i]) \in Nat /\ req.outputs[i].script \in Int
        /\ CsAmount(req.outputs[i]) \in Nat /\ i \in Nat
    BY <1>1, RequestTypes, OutputTypes
  <2> QED BY <2>1 DEF Payment, OutputSet
<1>4. Change \in OutputSet
  <2>1. OutputWeight[ChangeType] \in Nat /\ n + 1 \in Nat
    BY <1>1, WeightTypes, SMTT(30)
  <2> QED BY <2>1 DEF Change, OutputSet
<1> HIDE DEF n
<1>5. a \in [1..n -> OutputSet] /\ \A i \in 1..n : a[i] = Payment(i)
  BY <1>1, <1>3
<1>6. a \in Seq(OutputSet) /\ Len(a) = n
  <2> HIDE DEF a
  <2> QED BY <1>1, <1>5, VectorLen
<1>7. b \in Seq(OutputSet) /\ (HasChange => Len(b) = 1 /\ b[1] = Change) /\ (~HasChange => Len(b) = 0)
  BY <1>4
<1> HIDE DEF a, b
<1>8. /\ a \o b \in Seq(OutputSet) /\ Len(a \o b) = n + Len(b)
      /\ \A i \in 1..(n + Len(b)) : (a \o b)[i] = IF i <= n THEN a[i] ELSE b[i - n]
  <2>1. /\ a \o b \in Seq(OutputSet) /\ Len(a \o b) = Len(a) + Len(b)
        /\ \A i \in 1..(Len(a) + Len(b)) : (a \o b)[i] = IF i <= Len(a) THEN a[i] ELSE b[i - Len(a)]
    BY <1>6, <1>7, ConcatProperties
  <2> QED BY <2>1, <1>6
<1>9. Len(a \o b) = IF HasChange THEN n + 1 ELSE n
  <2>1. CASE HasChange
    BY <1>1, <1>7, <1>8, <2>1
  <2>2. CASE ~HasChange
    <3>1. Len(b) = 0
      BY <1>7, <2>2
    <3> QED BY <1>1, <1>8, <2>2, <3>1
  <2> QED BY <2>1, <2>2
<1>10. \A i \in 1..n : (a \o b)[i] = Payment(i)
  <2> SUFFICES ASSUME NEW i \in 1..n PROVE (a \o b)[i] = Payment(i)
    OBVIOUS
  <2>1. i \in 1..(n + Len(b)) /\ i <= n
    BY <1>1, <1>7
  <2> QED BY <2>1, <1>5, <1>8
<1>11. HasChange => (a \o b)[n + 1] = Change
  <2> SUFFICES ASSUME HasChange PROVE (a \o b)[n + 1] = Change
    OBVIOUS
  <2>1. Len(b) = 1 /\ b[1] = Change
    BY <1>7
  <2>2. n + 1 \in 1..(n + 1) /\ ~(n + 1 <= n) /\ (n + 1) - n = 1
    BY <1>1
  <2>3. (a \o b)[n + 1] = b[(n + 1) - n]
    BY <2>1, <2>2, <1>8
  <2> QED BY <2>1, <2>2, <2>3
<1>12. a \o b \in [1..Len(a \o b) -> OutputSet]
  BY <1>8, LenProperties
<1> QED BY <1>2, <1>9, <1>10, <1>11, <1>12 DEF n

\* Each output carries its position.
LEMMA ComposedIndex ==
  ASSUME req \in Request, chosen.amount \in Nat, NEW i \in 1..Len(ComposedOutputs)
  PROVE  /\ ComposedOutputs[i].index = i /\ ComposedOutputs[i].amount \in Nat
         /\ ComposedOutputs[i].script \in Int
<1>1. Len(req.outputs) \in Nat
  BY RequestTypes
<1>2. ComposedOutputs[i] \in OutputSet
  <2>1. ComposedOutputs \in [1..Len(ComposedOutputs) -> OutputSet]
    BY ComposedFacts
  <2> QED BY <2>1
<1>3. ComposedOutputs[i].index = i
  <2>1. CASE i \in 1..Len(req.outputs)
    <3>1. ComposedOutputs[i] = Payment(i)
      BY <2>1, ComposedFacts
    <3> QED BY <3>1 DEF Payment
  <2>2. CASE i \notin 1..Len(req.outputs)
    <3>0. /\ Len(ComposedOutputs) = IF HasChange THEN Len(req.outputs) + 1 ELSE Len(req.outputs)
          /\ HasChange => ComposedOutputs[Len(req.outputs) + 1] = Change
      BY ComposedFacts
    <3>1. HasChange /\ i = Len(req.outputs) + 1
      BY <1>1, <2>2, <3>0
    <3>2. ComposedOutputs[i] = Change
      BY <3>0, <3>1
    <3> QED BY <3>1, <3>2 DEF Change
  <2> QED BY <2>1, <2>2
<1> QED BY <1>2, <1>3 DEF OutputSet

\* The change may be put at any place.
LEMMA PlaceIsPerm ==
  ASSUME NEW n \in Nat, NEW k \in 1..n
  PROVE  IsPerm([i \in 1..n |-> IF i < k THEN i ELSE IF i = k THEN n ELSE i - 1], n)
<1> DEFINE p == [i \in 1..n |-> IF i < k THEN i ELSE IF i = k THEN n ELSE i - 1]
<1>1. \A i \in 1..n : p[i] = IF i < k THEN i ELSE IF i = k THEN n ELSE i - 1
  OBVIOUS
<1>2. p \in [1..n -> 1..n]
  <2>1. ASSUME NEW i \in 1..n PROVE (IF i < k THEN i ELSE IF i = k THEN n ELSE i - 1) \in 1..n
    <3>1. CASE i < k
      BY <3>1
    <3>2. CASE i = k
      BY <3>2
    <3>3. CASE i > k
      <4>1. i - 1 \in 1..n
        BY <3>3
      <4> QED BY <3>3, <4>1
    <3> QED BY <3>1, <3>2, <3>3
  <2> QED BY <2>1
<1> HIDE DEF p
<1>3. ASSUME NEW i \in 1..n, NEW j \in 1..n, p[i] = p[j], i < j PROVE FALSE
  <2>1. PICK x \in Int, y \in Int :
           /\ p[i] = x /\ p[j] = y
           /\ x = IF i < k THEN i ELSE IF i = k THEN n ELSE i - 1
           /\ y = IF j < k THEN j ELSE IF j = k THEN n ELSE j - 1
    BY <1>1
  <2>2. x = y
    BY <1>3, <2>1
  <2>3. i < j
    BY <1>3
  <2>4. CASE j < k
    BY <2>1, <2>2, <2>3, <2>4
  <2>5. CASE j = k
    BY <2>1, <2>2, <2>3, <2>5
  <2>6. CASE j > k
    BY <2>1, <2>2, <2>3, <2>6
  <2> QED BY <2>4, <2>5, <2>6
<1>4. \A i, j \in 1..n : p[i] = p[j] => i = j
  BY <1>3
<1> QED BY <1>2, <1>4 DEF IsPerm, p

\* The orders of the outputs are permutations.
LEMMA OutputOrderFacts ==
  ASSUME req \in Request, chosen.amount \in Nat, NEW q \in OutputOrders
  PROVE  IsPerm(q, Len(ComposedOutputs)) /\ Len(ComposedOutputs) \in Nat
<1> DEFINE outs == ComposedOutputs
           n == Len(outs)
           Less(a, b) == \/ a.amount < b.amount
                         \/ a.amount = b.amount /\ a.script < b.script
                         \/ a.amount = b.amount /\ a.script = b.script /\ a.index < b.index
           rel == {p \in (1..n) \X (1..n) : Less(outs[p[1]], outs[p[2]])}
<1>1. n \in Nat
  <2>1. Len(req.outputs) \in Nat
    BY RequestTypes
  <2> QED BY <2>1, ComposedFacts
<1>2. \/ q = Sorted(1..n, rel)
      \/ \E k \in 1..n : q = [i \in 1..n |-> IF i < k THEN i ELSE IF i = k THEN n ELSE i - 1]
      \/ q = [i \in 1..n |-> i]
  BY RequestTypes DEF OutputOrders
<1>3. CASE q = Sorted(1..n, rel)
  <2>1. \A i \in 1..n : outs[i].index = i /\ outs[i].amount \in Int /\ outs[i].script \in Int
    BY ComposedIndex
  <2> HIDE DEF outs, n
  <2>2. \A i, j \in 1..n : <<i, j>> \in rel <=>
           (\/ outs[i].amount < outs[j].amount
            \/ (outs[i].amount = outs[j].amount /\ outs[i].script < outs[j].script)
            \/ (outs[i].amount = outs[j].amount /\ outs[i].script = outs[j].script /\ i < j))
    BY <2>1
  <2> HIDE DEF rel
  <2>3. TotalOrder(rel, 1..n)
    BY <1>1, <2>1, <2>2 DEF TotalOrder
  <2>4. IsFiniteSet(1..n)
    BY <1>1, FS_Interval
  <2>5. Enumerates(q, 1..n)
    BY <1>3, <2>3, <2>4, SortedEnumerates
  <2>6. IsPerm(q, n)
    BY <1>1, <2>5, EnumeratesPerm
  <2> QED BY <1>1, <2>6 DEF n, outs
<1>4. CASE \E k \in 1..n : q = [i \in 1..n |-> IF i < k THEN i ELSE IF i = k THEN n ELSE i - 1]
  <2> HIDE DEF n
  <2>1. IsPerm(q, n)
    BY <1>1, <1>4, PlaceIsPerm
  <2> QED BY <1>1, <2>1 DEF n
<1>5. CASE q = [i \in 1..n |-> i]
  <2> HIDE DEF n
  <2>1. IsPerm(q, n)
    BY <1>1, <1>5 DEF IsPerm
  <2> QED BY <1>1, <2>1 DEF n
<1> QED BY <1>2, <1>3, <1>4, <1>5

\* Amounts and weights of the outputs before they are sorted.
Amounts == [i \in DOMAIN ComposedOutputs |-> ComposedOutputs[i].amount]
Weighs == [i \in DOMAIN ComposedOutputs |-> ComposedOutputs[i].weight]

\* Vectors with the same members are the same.
LEMMA SameVector ==
  ASSUME NEW D, NEW a \in [D -> Int], NEW b \in [D -> Int], \A i \in D : a[i] = b[i]
  PROVE  b = a
<1>1. a = [i \in D |-> a[i]] /\ b = [i \in D |-> b[i]]
  OBVIOUS
<1> QED BY <1>1, Zenon

\* The amounts and weights of the composed outputs are vectors of numbers.
LEMMA ComposedVectors ==
  ASSUME req \in Request, chosen.amount \in Nat
  PROVE  /\ Len(ComposedOutputs) \in Nat /\ DOMAIN ComposedOutputs = 1..Len(ComposedOutputs)
         /\ Amounts \in [1..Len(ComposedOutputs) -> Int]
         /\ Weighs \in [1..Len(ComposedOutputs) -> Int]
         /\ \A i \in 1..Len(ComposedOutputs) : /\ Amounts[i] = ComposedOutputs[i].amount
                                               /\ Weighs[i] = ComposedOutputs[i].weight
<1>1. ComposedOutputs \in [1..Len(ComposedOutputs) -> OutputSet]
  BY ComposedFacts
<1>2. Len(ComposedOutputs) \in Nat
  <2>1. Len(req.outputs) \in Nat
    BY RequestTypes
  <2> QED BY <2>1, ComposedFacts
<1>3. \A i \in 1..Len(ComposedOutputs) : ComposedOutputs[i].amount \in Int /\ ComposedOutputs[i].weight \in Int
  BY <1>1 DEF OutputSet
<1> QED BY <1>1, <1>2, <1>3 DEF Amounts, Weighs

\* Every output of outs is one of c.
Retains(outs, c) == \A k \in DOMAIN outs : \E i \in 1..Len(c) :
                       outs[k].kind = c[i].kind /\ outs[k].amount = c[i].amount

\* Sorting and addressing keep the outputs: their kinds, amounts and weights.
LEMMA SortedOutputs ==
  ASSUME req \in Request, chosen.amount \in Nat, NEW q \in OutputOrders,
         NEW outs, outs = Addressed(Take(ComposedOutputs, q))
  PROVE  /\ DOMAIN outs = 1..Len(ComposedOutputs)
         /\ Retains(outs, ComposedOutputs)
         /\ SumOf([k \in DOMAIN outs |-> outs[k].amount]) = SumOf(Amounts)
         /\ SumOf([k \in DOMAIN outs |-> outs[k].weight]) = SumOf(Weighs)
         /\ Len([k \in DOMAIN outs |-> outs[k].weight]) = Len(ComposedOutputs)
<1> DEFINE c == ComposedOutputs
           n == Len(c)
           am == [k \in DOMAIN outs |-> outs[k].amount]
           we == [k \in DOMAIN outs |-> outs[k].weight]
<1>1. n \in Nat /\ DOMAIN c = 1..n /\ c \in [1..n -> OutputSet]
  BY ComposedFacts, ComposedVectors
<1>2. IsPerm(q, n)
  BY OutputOrderFacts
<1>3. /\ Amounts \in [1..n -> Int] /\ Weighs \in [1..n -> Int]
      /\ \A i \in 1..n : Amounts[i] = c[i].amount /\ Weighs[i] = c[i].weight
  BY ComposedVectors
<1>4. outs = [k \in DOMAIN q |-> [c[q[k]] EXCEPT !.to = IF c[q[k]].kind = "change" THEN ChangeAddress ELSE 0]]
  BY DEF Addressed, Take
<1> HIDE DEF c, n
<1>5. q \in [1..n -> 1..n] /\ DOMAIN q = 1..n
  BY <1>2 DEF IsPerm
<1>6. DOMAIN outs = 1..n
  BY <1>4, <1>5
<1>7. ASSUME NEW k \in 1..n
      PROVE  /\ q[k] \in 1..n /\ outs[k].kind = c[q[k]].kind
             /\ outs[k].amount = c[q[k]].amount /\ outs[k].weight = c[q[k]].weight
  <2>1. q[k] \in 1..n /\ c[q[k]] \in OutputSet
    BY <1>1, <1>5
  <2>2. outs[k] = [c[q[k]] EXCEPT !.to = IF c[q[k]].kind = "change" THEN ChangeAddress ELSE 0]
    BY <1>4, <1>5
  <2> QED BY <2>1, <2>2 DEF OutputSet
<1>8. am = Take(Amounts, q) /\ we = Take(Weighs, q)
  <2>1. \A k \in 1..n : outs[k].amount = Amounts[q[k]] /\ outs[k].weight = Weighs[q[k]]
    BY <1>3, <1>7
  <2> QED BY <1>5, <1>6, <2>1 DEF Take
<1>9. we \in [1..n -> Int]
  BY <1>3, <1>6, <1>7
<1> HIDE DEF am, we
<1>10. SumOf(am) = SumOf(Amounts) /\ SumOf(we) = SumOf(Weighs)
  BY <1>1, <1>2, <1>3, <1>8, SumPerm
<1>11. Len(we) = n
  BY <1>1, <1>9, VectorLen
<1>12. Retains(outs, c)
  BY <1>6, <1>7 DEF Retains, n
<1> QED BY <1>6, <1>10, <1>11, <1>12 DEF am, we, n, c

\* The weights are those that finalize and split counted.
LEMMA ComposedWeights ==
  ASSUME req \in Request, chosen.amount \in Nat
  PROVE  /\ HasChange => /\ Len(ComposedOutputs) = Len(WithChange)
                         /\ SumOf(Weighs) = SumOf(WithChange)
         /\ ~HasChange => /\ Len(ComposedOutputs) = Len(CsWeights)
                          /\ SumOf(Weighs) = SumOf(CsWeights)
<1> DEFINE n == Len(req.outputs)
           w == OutputWeight[ChangeType]
<1>1. n \in Nat /\ w \in Nat /\ DOMAIN req.outputs = 1..n
  BY RequestTypes, WeightTypes
<1>2. /\ CsWeights \in [1..n -> Int] /\ \A i \in 1..n : CsWeights[i] = CsWeight(req.outputs[i])
  BY <1>1, OutputTypes DEF CsWeights
<1>3. /\ Len(CsWeights) = n /\ Len(WithChange) = n + 1
      /\ SumOf(WithChange) = SumOf(CsWeights) + w
  BY <1>1, ChangeWeights DEF WithChange
<1>4. \A i \in 1..n : ComposedOutputs[i].weight = CsWeights[i]
  <2>1. \A i \in 1..n : ComposedOutputs[i] = Payment(i)
    BY ComposedFacts
  <2>2. \A i \in 1..n : Payment(i).weight = CsWeight(req.outputs[i])
    BY DEF Payment
  <2> QED BY <1>2, <2>1, <2>2
<1>5. ASSUME HasChange
      PROVE  Len(ComposedOutputs) = Len(WithChange) /\ SumOf(Weighs) = SumOf(WithChange)
  <2>1. Len(ComposedOutputs) = n + 1 /\ ComposedOutputs[n + 1].weight = w
    BY <1>5, ComposedFacts DEF Change
  <2> HIDE DEF n, w
  <2>2. /\ Weighs \in [1..(n + 1) -> Int] /\ \A i \in 1..n : CsWeights[i] = Weighs[i]
        /\ Weighs[n + 1] = w
    BY <1>1, <1>4, <2>1, ComposedVectors
  <2>3. SumOf(Weighs) = SumOf(CsWeights) + Weighs[n + 1]
    BY <1>1, <1>2, <2>2, SumStep
  <2> QED BY <1>3, <2>1, <2>2, <2>3
<1>6. ASSUME ~HasChange
      PROVE  Len(ComposedOutputs) = Len(CsWeights) /\ SumOf(Weighs) = SumOf(CsWeights)
  <2>1. Len(ComposedOutputs) = n
    BY <1>6, ComposedFacts
  <2> HIDE DEF n, w
  <2>0. /\ Weighs \in [1..n -> Int] /\ \A i \in 1..n : Weighs[i] = ComposedOutputs[i].weight
    <3>1. /\ Weighs \in [1..Len(ComposedOutputs) -> Int]
          /\ \A i \in 1..Len(ComposedOutputs) : Weighs[i] = ComposedOutputs[i].weight
      BY ComposedVectors
    <3>2. Len(ComposedOutputs) = n
      BY <2>1
    <3> QED BY <3>1, <3>2, Zenon
  <2>2. /\ Weighs \in [1..n -> Int] /\ \A i \in 1..n : CsWeights[i] = Weighs[i]
    BY <1>4, <2>0
  <2>3. Weighs = CsWeights
    <3> DEFINE D == 1..n
    <3>1. Weighs \in [D -> Int] /\ CsWeights \in [D -> Int] /\ \A i \in D : CsWeights[i] = Weighs[i]
      BY <1>2, <2>2
    <3> HIDE DEF D
    <3> QED BY <3>1, SameVector
  <2> QED BY <1>3, <2>1, <2>3
<1> QED BY <1>5, <1>6

\* The amounts of the wished outputs, as the selection counts them.
Asked == [i \in DOMAIN req.outputs |-> CsAmount(req.outputs[i])]

\* A payment pays what is asked for, and the change.
LEMMA AmountsPaid ==
  ASSUME req \in Request, chosen.amount \in Nat, ~HasSendMax, chosen.kind = "success"
  PROVE  SumOf(Amounts) = CsOutputSum + chosen.amount
<1> DEFINE n == Len(req.outputs)
<1>1. n \in Nat /\ DOMAIN req.outputs = 1..n
  BY RequestTypes
<1>2. Asked \in [1..n -> Int] /\ CsOutputSum = SumOf(Asked) /\ SumOf(Asked) \in Int
  <2>1. Asked \in [1..n -> Int]
    BY <1>1, OutputTypes DEF Asked
  <2> QED BY <1>1, <2>1, SumType DEF CsOutputSum, Asked
<1>3. \A i \in 1..n : ComposedOutputs[i].amount = Asked[i]
  <2> SUFFICES ASSUME NEW i \in 1..n PROVE ComposedOutputs[i].amount = Asked[i]
    OBVIOUS
  <2>1. ComposedOutputs[i] = Payment(i)
    BY ComposedFacts
  <2>2. req.outputs[i].kind # "sendMax"
    BY <1>1 DEF HasSendMax, SendMaxKinds
  <2>3. Payment(i).amount = CsAmount(req.outputs[i])
    BY <2>2 DEF Payment
  <2>4. Asked[i] = CsAmount(req.outputs[i])
    BY <1>1 DEF Asked
  <2> QED BY <2>1, <2>3, <2>4
<1>4. CASE HasChange
  <2>1. Len(ComposedOutputs) = n + 1 /\ ComposedOutputs[n + 1].amount = chosen.amount
    BY <1>4, ComposedFacts DEF Change
  <2> HIDE DEF n
  <2>2. /\ Amounts \in [1..(n + 1) -> Int] /\ \A i \in 1..n : Asked[i] = Amounts[i]
        /\ Amounts[n + 1] = chosen.amount
    BY <1>1, <1>3, <2>1, ComposedVectors
  <2>3. SumOf(Amounts) = SumOf(Asked) + Amounts[n + 1]
    BY <1>1, <1>2, <2>2, SumStep
  <2> QED BY <1>2, <2>2, <2>3
<1>5. CASE ~HasChange
  <2>1. Len(ComposedOutputs) = n /\ chosen.amount = 0
    <3>1. chosen.amount = 0
      BY <1>5 DEF HasChange
    <3> QED BY <1>5, <3>1, ComposedFacts
  <2> HIDE DEF n
  <2>0. Amounts \in [1..n -> Int] /\ \A i \in 1..n : Amounts[i] = ComposedOutputs[i].amount
    <3>1. /\ Amounts \in [1..Len(ComposedOutputs) -> Int]
          /\ \A i \in 1..Len(ComposedOutputs) : Amounts[i] = ComposedOutputs[i].amount
      BY ComposedVectors
    <3>2. Len(ComposedOutputs) = n
      BY <2>1
    <3> QED BY <3>1, <3>2, Zenon
  <2>2. Amounts \in [1..n -> Int] /\ \A i \in 1..n : Asked[i] = Amounts[i]
    BY <1>3, <2>0
  <2>3. Amounts = Asked
    <3> DEFINE D == 1..n
    <3>1. Amounts \in [D -> Int] /\ Asked \in [D -> Int] /\ \A i \in D : Asked[i] = Amounts[i]
      BY <1>2, <2>2
    <3> HIDE DEF D
    <3> QED BY <3>1, SameVector
  <2> QED BY <1>2, <2>1, <2>3
<1> QED BY <1>4, <1>5

\* A send-max transaction pays what is asked for, and the rest to the one output
\* that wants it.
LEMMA AmountsEmptied ==
  ASSUME req \in Request, chosen.amount \in Nat, HasSendMax, IsComplete, OneSendMax,
         chosen.kind = "sendMax"
  PROVE  SumOf(Amounts) = CsOutputSum + chosen.amount
<1> DEFINE n == Len(req.outputs)
<1>1. n \in Nat /\ DOMAIN req.outputs = 1..n
  BY RequestTypes
<1>2. Asked \in [1..n -> Int] /\ CsOutputSum = SumOf(Asked)
  BY <1>1, OutputTypes DEF Asked, CsOutputSum
<1>3. PICK j \in 1..n : req.outputs[j].kind = "sendMax"
  BY <1>1 DEF HasSendMax, IsComplete, SendMaxKinds
<1>4. \A i \in 1..n : i # j => req.outputs[i].kind # "sendMax"
  BY <1>1, <1>3 DEF OneSendMax
<1>5. \A i \in 1..n : i # j => ComposedOutputs[i].amount = Asked[i]
  <2> SUFFICES ASSUME NEW i \in 1..n, i # j PROVE ComposedOutputs[i].amount = Asked[i]
    OBVIOUS
  <2>1. ComposedOutputs[i] = Payment(i)
    BY ComposedFacts
  <2>2. Payment(i).amount = CsAmount(req.outputs[i])
    BY <1>4 DEF Payment
  <2>3. Asked[i] = CsAmount(req.outputs[i])
    BY <1>1 DEF Asked
  <2> QED BY <2>1, <2>2, <2>3
<1>6. ComposedOutputs[j].amount = chosen.amount /\ Asked[j] = 0
  <2>1. ComposedOutputs[j] = Payment(j)
    BY ComposedFacts
  <2>2. Payment(j).amount = chosen.amount
    BY <1>3 DEF Payment
  <2>3. Asked[j] = CsAmount(req.outputs[j]) /\ CsAmount(req.outputs[j]) = 0
    BY <1>1, <1>3 DEF Asked, CsAmount
  <2> QED BY <2>1, <2>2, <2>3
<1>7. Len(ComposedOutputs) = n
  BY ComposedFacts DEF HasChange
<1> HIDE DEF n
<1>8. /\ Amounts \in [1..n -> Int] /\ Amounts[j] = chosen.amount
      /\ \A i \in 1..n : i # j => Amounts[i] = Asked[i]
  BY <1>5, <1>6, <1>7, ComposedVectors
<1>9. SumOf(Amounts) = SumOf(Asked) + (Amounts[j] - Asked[j])
  BY <1>1, <1>2, <1>8, SumUpdate
<1> QED BY <1>2, <1>6, <1>8, <1>9

-----------------------------------------------------------------------------
(* The final transaction. *)

\* The final transaction moves the UTXOs of S: what the selection chose, sorted.
Moves(S) == /\ Enumerates(chosen.inputs, S) /\ Enumerates(result.inputs, S)
            /\ result.fee = chosen.fee /\ chosen.amount \in Nat
            /\ \E q \in OutputOrders : result.outputs = Addressed(Take(ComposedOutputs, q))

\* Either finalize accepted them, or split emptied the account.
Pays(S) == /\ ~HasSendMax /\ trial \in 1..8 /\ S \subseteq UtxosAt(trial)
           /\ \A i \in Coins : req.inputs[i].required => i \in S
           /\ chosen.kind = "success"
           /\ Sound([fee |-> chosen.fee, change |-> chosen.amount], AmountOf(chosen.inputs),
                    CsOutputSum, FeeOf(chosen.inputs, CsWeights),
                    FeeOf(chosen.inputs, WithChange), DustAmount(ChangeType))
Empties == /\ HasSendMax /\ chosen.kind = "sendMax"
           /\ chosen.fee = FeeOf(chosen.inputs, CsWeights)
           /\ AmountOf(chosen.inputs) = CsOutputSum + chosen.fee + chosen.amount

\* What a final result comes from.
LEMMA FinalFacts ==
  ASSUME IInv, IsFinal
  PROVE  /\ Accepted /\ IsComplete /\ IsPerm(order, Len(req.inputs))
         /\ \E S \in SUBSET Coins : Moves(S) /\ (Pays(S) \/ Empties)
<1>1. /\ req \in Request /\ Refusal = "none" /\ IsComplete /\ pc = "done"
      /\ chosen.kind # "insufficient" /\ Ordered
  <2>1. pc = "done"
    BY DEF IInv, ResultInv, IsFinal
  <2> QED BY <2>1 DEF IInv, ResultInv, StageInv
<1>2. Accepted /\ IsPerm(order, Len(req.inputs))
  BY <1>1, RefusalFacts DEF IInv, OrderInv
<1>3. \A j : UtxosAt(j) \in SUBSET Coins
  BY <1>1, <1>2, FilterFacts
<1>4. Paid \/ Emptied
  BY <1>1 DEF IInv, ChosenInv, Short, Insufficient
<1>5. PICK p \in InputOrders, q \in OutputOrders :
         result = [kind |-> "final", fee |-> chosen.fee, inputs |-> Take(chosen.inputs, p),
                   outputs |-> Addressed(Take(ComposedOutputs, q))]
  BY <1>1 DEF Ordered
<1>6. ASSUME NEW S \in SUBSET Coins, Enumerates(chosen.inputs, S), chosen.amount \in Nat
      PROVE  Moves(S)
  <2>1. Enumerates(Take(chosen.inputs, p), S)
    BY <1>1, <1>6, InputOrderFacts
  <2> QED BY <1>5, <1>6, <2>1 DEF Moves
<1>7. CsOutputSum \in Nat /\ DustAmount(ChangeType) \in Nat /\ DustAmount(ChangeType) >= 546
  BY <1>1, OutputTypes, WeightTypes
<1>8. CASE Paid
  <2>1. /\ ~HasSendMax /\ trial \in 1..8
        /\ \E s \in {chosen.inputs}, S \in SUBSET UtxosAt(trial) :
              /\ Enumerates(s, S)
              /\ \A i \in Coins : req.inputs[i].required => i \in S
              /\ FinalizeWith(s).ok /\ chosen = Success(s)
    BY <1>8 DEF Paid
  <2>2. PICK S \in SUBSET UtxosAt(trial) :
           /\ Enumerates(chosen.inputs, S)
           /\ \A i \in Coins : req.inputs[i].required => i \in S
           /\ FinalizeWith(chosen.inputs).ok /\ chosen = Success(chosen.inputs)
    BY <2>1
  <2>3. S \in SUBSET Coins
    BY <1>3
  <2>4. PICK s : s = chosen.inputs
    OBVIOUS
  <2>5. /\ chosen.kind = "success" /\ chosen.fee = FinalizeWith(s).fee
        /\ chosen.amount = FinalizeWith(s).change
    BY <2>2, <2>4 DEF Success
  <2>6. Sound(FinalizeWith(s), AmountOf(s), CsOutputSum, FeeOf(s, CsWeights),
              FeeOf(s, WithChange), DustAmount(ChangeType))
    BY <1>2, <2>2, <2>3, <2>4, FinalizeList
  <2>7. Sound([fee |-> chosen.fee, change |-> chosen.amount], AmountOf(s), CsOutputSum,
              FeeOf(s, CsWeights), FeeOf(s, WithChange), DustAmount(ChangeType))
        /\ chosen.amount \in Nat
    BY <2>5, <2>6 DEF Sound
  <2>8. Pays(S)
    BY <2>1, <2>2, <2>4, <2>5, <2>7 DEF Pays
  <2>9. Moves(S)
    BY <1>6, <2>2, <2>3, <2>7
  <2> QED BY <1>1, <1>2, <2>3, <2>8, <2>9
<1>9. CASE Emptied
  <2>1. /\ HasSendMax /\ chosen.amount >= DustAmount(ChangeType)
        /\ \E s \in {chosen.inputs}, S \in SUBSET Coins :
              /\ Enumerates(s, S)
              /\ chosen = [kind |-> "sendMax", inputs |-> s, fee |-> FeeOf(s, CsWeights),
                           amount |-> AmountOf(s) - CsOutputSum - FeeOf(s, CsWeights)]
    BY <1>9 DEF Emptied
  <2>2. PICK s \in {chosen.inputs}, S \in SUBSET Coins :
           /\ Enumerates(s, S)
           /\ chosen = [kind |-> "sendMax", inputs |-> s, fee |-> FeeOf(s, CsWeights),
                        amount |-> AmountOf(s) - CsOutputSum - FeeOf(s, CsWeights)]
    BY <2>1
  <2>3. AmountOf(s) \in Nat /\ FeeOf(s, CsWeights) \in Nat
    BY <1>2, <2>2, FeeTypes
  <2>4. /\ chosen.kind = "sendMax" /\ chosen.fee = FeeOf(s, CsWeights)
        /\ chosen.amount = AmountOf(s) - CsOutputSum - FeeOf(s, CsWeights)
    BY <2>2
  <2>5. /\ chosen.amount \in Nat
        /\ AmountOf(s) = CsOutputSum + chosen.fee + chosen.amount
    BY <1>7, <2>1, <2>3, <2>4
  <2>6. Empties
    BY <2>1, <2>2, <2>4, <2>5 DEF Empties
  <2>7. Moves(S)
    BY <1>6, <2>2, <2>5
  <2> QED BY <1>1, <1>2, <2>6, <2>7
<1> QED BY <1>4, <1>8, <1>9

\* What finalize and split book is what the sorted transaction moves: no UTXO is
\* spent twice, and every satoshi of the inputs is in an output or in the fee,
\* if no more than one output asks for the rest.
THEOREM BooksBalance == Spec => []ValueConserved
<1>1. IInv => ValueConserved
  <2> SUFFICES ASSUME IInv, IsFinal
               PROVE  /\ Cardinality(Indices(result.inputs)) = Len(result.inputs)
                      /\ OneSendMax => AmountOf(result.inputs) = result.fee + OutputsSum
    BY DEF ValueConserved
  <2>1. Accepted /\ IsComplete /\ req \in Request
    BY FinalFacts DEF Accepted
  <2>2. PICK S \in SUBSET Coins : Moves(S) /\ (Pays(S) \/ Empties)
    BY FinalFacts
  <2>3. /\ Enumerates(chosen.inputs, S) /\ Enumerates(result.inputs, S)
        /\ result.fee = chosen.fee /\ chosen.amount \in Nat
    BY <2>2 DEF Moves
  <2>4. PICK q \in OutputOrders : result.outputs = Addressed(Take(ComposedOutputs, q))
    BY <2>2 DEF Moves
  <2>5. Indices(result.inputs) = S /\ Len(result.inputs) = Cardinality(S)
    BY <2>1, <2>3, ListTypes
  <2>6. AmountOf(result.inputs) = AmountOf(chosen.inputs)
    <3>1. PICK a, b : a = result.inputs /\ b = chosen.inputs
      OBVIOUS
    <3>2. AmountOf(a) = AmountOf(b)
      BY <2>1, <2>3, <3>1, OrderIrrelevant
    <3> QED BY <3>1, <3>2
  <2>7. OutputsSum = SumOf(Amounts)
    <3>1. PICK outs : outs = result.outputs
      OBVIOUS
    <3>2. SumOf([k \in DOMAIN outs |-> outs[k].amount]) = SumOf(Amounts)
      BY <2>1, <2>3, <2>4, <3>1, SortedOutputs
    <3> QED BY <3>1, <3>2 DEF OutputsSum
  <2>8. ASSUME OneSendMax PROVE AmountOf(result.inputs) = result.fee + OutputsSum
    <3>0. CsOutputSum \in Nat
      BY <2>1, OutputTypes
    <3>1. CASE Pays(S)
      <4>1. /\ chosen.fee \in Nat
            /\ AmountOf(chosen.inputs) = CsOutputSum + chosen.fee + chosen.amount
        BY <3>1 DEF Pays, Sound
      <4>2. OutputsSum = CsOutputSum + chosen.amount
        BY <2>1, <2>3, <2>7, <3>1, AmountsPaid DEF Pays
      <4> QED BY <2>3, <2>6, <3>0, <4>1, <4>2
    <3>2. CASE Empties
      <4>1. /\ AmountOf(chosen.inputs) = CsOutputSum + chosen.fee + chosen.amount
            /\ chosen.fee \in Nat
        <5>1. PICK s : s = chosen.inputs
          OBVIOUS
        <5>2. FeeOf(s, CsWeights) \in Nat
          BY <2>1, <2>3, <5>1, FeeTypes
        <5> QED BY <3>2, <5>1, <5>2 DEF Empties
      <4>2. OutputsSum = CsOutputSum + chosen.amount
        BY <2>1, <2>3, <2>7, <2>8, <3>2, AmountsEmptied DEF Empties
      <4> QED BY <2>3, <2>6, <3>0, <4>1, <4>2
    <3> QED BY <2>2, <3>1, <3>2
  <2> QED BY <2>5, <2>8
<1> QED BY <1>1, IInvHolds, PTL

\* calculate_fee: the fee pays for the size of the transaction as it came out,
\* change included, at the rate asked for, and for the base fee on top.
THEOREM FeeIsEnough == Spec => []FeePaysForSize
<1>1. IInv => FeePaysForSize
  <2> SUFFICES ASSUME IInv, IsFinal
               PROVE  result.fee >= req.baseFee + CalculateFee(req.rate,
                          TransactionWeight(TypesOf(result.inputs), OutputsWeigh))
    BY DEF FeePaysForSize
  <2>1. Accepted /\ req \in Request
    BY FinalFacts DEF Accepted
  <2>2. PICK S \in SUBSET Coins : Moves(S) /\ (Pays(S) \/ Empties)
    BY FinalFacts
  <2>3. PICK a, b : a = result.inputs /\ b = chosen.inputs
    OBVIOUS
  <2>4. /\ Enumerates(b, S) /\ Enumerates(a, S) /\ result.fee = chosen.fee /\ chosen.amount \in Nat
    BY <2>2, <2>3 DEF Moves
  <2>5. PICK q \in OutputOrders : result.outputs = Addressed(Take(ComposedOutputs, q))
    BY <2>2 DEF Moves
  <2>6. SumOf(OutputsWeigh) = SumOf(Weighs) /\ Len(OutputsWeigh) = Len(ComposedOutputs)
    <3>1. PICK outs : outs = result.outputs
      OBVIOUS
    <3>2. /\ SumOf([k \in DOMAIN outs |-> outs[k].weight]) = SumOf(Weighs)
          /\ Len([k \in DOMAIN outs |-> outs[k].weight]) = Len(ComposedOutputs)
      BY <2>1, <2>4, <2>5, <3>1, SortedOutputs
    <3> QED BY <3>1, <3>2 DEF OutputsWeigh
  <2>7. ASSUME NEW ws, SumOf(OutputsWeigh) = SumOf(ws), Len(OutputsWeigh) = Len(ws),
               SumOf(ws) \in Nat, Len(ws) \in Nat
        PROVE  FeeOf(b, ws) = req.baseFee + CalculateFee(req.rate,
                   TransactionWeight(TypesOf(result.inputs), OutputsWeigh))
    <3>1. TransactionWeight(TypesOf(a), OutputsWeigh) = TransactionWeight(TypesOf(a), ws)
      BY <2>7 DEF TransactionWeight
    <3>2. TransactionWeight(TypesOf(a), ws) = TransactionWeight(TypesOf(b), ws)
      BY <2>1, <2>4, OrderIrrelevant
    <3>3. req.rate \in Nat /\ req.baseFee \in Nat
      BY <2>1, RequestTypes DEF Accepted
    <3>4. CalculateFee(req.rate, TransactionWeight(TypesOf(b), ws)) \in Nat
      BY <2>1, <2>4, <2>7, <3>3, WeightIsNat, FeeRoundsUp
    <3>5. TransactionWeight(TypesOf(result.inputs), OutputsWeigh) = TransactionWeight(TypesOf(b), ws)
      BY <2>3, <3>1, <3>2
    <3> QED BY <3>3, <3>4, <3>5 DEF FeeOf
  <2>8. FeeOf(b, CsWeights) \in Nat /\ FeeOf(b, WithChange) \in Nat
    BY <2>1, <2>4, FeeTypes
  <2>9. /\ Len(CsWeights) \in Nat /\ SumOf(CsWeights) \in Nat
         /\ Len(WithChange) \in Nat /\ SumOf(WithChange) \in Nat
    BY <2>1, WeightVectors
  <2>10. CASE HasChange
    <3>1. SumOf(OutputsWeigh) = SumOf(WithChange) /\ Len(OutputsWeigh) = Len(WithChange)
      BY <2>1, <2>4, <2>6, <2>10, ComposedWeights
    <3>2. Pays(S) /\ chosen.amount > 0
      BY <2>2, <2>10 DEF HasChange, Empties
    <3>3. chosen.fee = FeeOf(b, WithChange)
      BY <2>3, <3>2 DEF Pays, Sound
    <3> QED BY <2>4, <2>7, <2>8, <3>1, <3>3, <2>9
  <2>11. CASE ~HasChange
    <3>1. SumOf(OutputsWeigh) = SumOf(CsWeights) /\ Len(OutputsWeigh) = Len(CsWeights)
      BY <2>1, <2>4, <2>6, <2>11, ComposedWeights
    <3>2. chosen.fee >= FeeOf(b, CsWeights)
      <4>1. CASE Pays(S)
        <5>1. chosen.amount = 0
          BY <2>4, <2>11, <4>1 DEF HasChange, Pays
        <5> QED BY <2>3, <4>1, <5>1 DEF Pays, Sound
      <4>2. CASE Empties
        BY <2>3, <2>8, <4>2 DEF Empties
      <4> QED BY <2>2, <4>1, <4>2
    <3> QED BY <2>4, <2>7, <2>8, <3>1, <3>2, <2>9
  <2> QED BY <2>10, <2>11
<1> QED BY <1>1, IInvHolds, PTL

\* finalize: a change output is never below the relay threshold of 546.
THEOREM NoDust == Spec => []ChangeIsNoDust
<1>1. IInv => ChangeIsNoDust
  <2> SUFFICES ASSUME IInv, IsFinal, NEW k \in DOMAIN result.outputs,
                      result.outputs[k].kind = "change"
               PROVE  result.outputs[k].amount >= 546
    BY DEF ChangeIsNoDust
  <2>1. req \in Request
    BY FinalFacts DEF Accepted
  <2>2. PICK S \in SUBSET Coins : Moves(S) /\ (Pays(S) \/ Empties)
    BY FinalFacts
  <2>3. chosen.amount \in Nat
    BY <2>2 DEF Moves
  <2>4. PICK q \in OutputOrders : result.outputs = Addressed(Take(ComposedOutputs, q))
    BY <2>2 DEF Moves
  <2>5. PICK i \in 1..Len(ComposedOutputs) :
           /\ result.outputs[k].kind = ComposedOutputs[i].kind
           /\ result.outputs[k].amount = ComposedOutputs[i].amount
    <3>1. PICK outs : outs = result.outputs
      OBVIOUS
    <3>2. outs = Addressed(Take(ComposedOutputs, q))
      BY <2>4, <3>1
    <3>3. Retains(outs, ComposedOutputs)
      BY <2>1, <2>3, <3>2, SortedOutputs
    <3> QED BY <3>1, <3>3 DEF Retains
  <2>6. HasChange /\ ComposedOutputs[i].amount = chosen.amount
    <3>1. /\ Len(req.outputs) \in Nat
          /\ Len(ComposedOutputs) = IF HasChange THEN Len(req.outputs) + 1 ELSE Len(req.outputs)
          /\ \A h \in 1..Len(req.outputs) : ComposedOutputs[h] = Payment(h)
          /\ HasChange => ComposedOutputs[Len(req.outputs) + 1] = Change
      BY <2>1, <2>3, RequestTypes, ComposedFacts
    <3>2. \A h : Payment(h).kind = "payment"
      BY DEF Payment
    <3>3. i \notin 1..Len(req.outputs)
      BY <2>5, <3>1, <3>2
    <3>4. HasChange /\ i = Len(req.outputs) + 1
      BY <3>1, <3>3
    <3>5. ComposedOutputs[i] = Change
      BY <3>1, <3>4
    <3> QED BY <3>4, <3>5 DEF Change
  <2>7. Pays(S) /\ chosen.amount > 0
    BY <2>2, <2>6 DEF HasChange, Empties
  <2>8. chosen.amount >= DustAmount(ChangeType)
    BY <2>7 DEF Pays, Sound
  <2>9. DustAmount(ChangeType) \in Nat /\ DustAmount(ChangeType) >= 546
    BY WeightTypes
  <2> QED BY <2>3, <2>5, <2>6, <2>8, <2>9
<1> QED BY <1>1, IInvHolds, PTL

\* A payment spends every UTXO the caller marked as required.
THEOREM RequiredAreSpent == Spec => []RequiredSpent
<1>1. IInv => RequiredSpent
  <2> SUFFICES ASSUME IInv, IsFinal, ~HasSendMax,
                      NEW i \in DOMAIN req.inputs, req.inputs[i].required
               PROVE  i \in Indices(result.inputs)
    BY DEF RequiredSpent
  <2>1. req \in Request
    BY FinalFacts DEF Accepted
  <2>2. PICK S \in SUBSET Coins : Moves(S) /\ (Pays(S) \/ Empties)
    BY FinalFacts
  <2>3. i \in S
    BY <2>2 DEF Pays, Empties, Coins
  <2>4. Enumerates(result.inputs, S)
    BY <2>2 DEF Moves
  <2>5. Indices(result.inputs) = S
    BY <2>1, <2>4, ListTypes
  <2> QED BY <2>3, <2>5
<1> QED BY <1>1, IInvHolds, PTL

\* The filters that the property ranges over are those of generate_trials.
LEMMA EveryFilter ==
  ASSUME NEW filter \in [own : {1}, other : 1..6] \cup [own : {0}, other : 0..1]
  PROVE  \E j \in 1..8 : Trials[j] = filter
<1>1. CASE filter \in [own : {1}, other : 1..6]
  <2>1. PICK o \in 1..6 : filter = [own |-> 1, other |-> o]
    BY <1>1
  <2>2. 7 - o \in 1..6 /\ 7 - o \in 1..8 /\ 7 - (7 - o) = o
    OBVIOUS
  <2>3. Trials[7 - o] = [own |-> 1, other |-> 7 - (7 - o)]
    BY <2>2, TrialsAre
  <2> QED BY <2>1, <2>2, <2>3
<1>2. CASE filter \in [own : {0}, other : 0..1]
  <2>1. filter = [own |-> 0, other |-> 0] \/ filter = [own |-> 0, other |-> 1]
    BY <1>2
  <2> QED BY <2>1, TrialsAre
<1> QED BY <1>1, <1>2

\* try_confirmed: a UTXO with few confirmations is only spent when those with
\* more do not cover the payment.
THEOREM ConfirmedAreFirst == Spec => []ConfirmedFirst
<1>1. IInv => ConfirmedFirst
  <2> SUFFICES ASSUME IInv, IsFinal, ~HasSendMax, req.sorting = "none",
                      NEW filter \in [own : {1}, other : 1..6] \cup [own : {0}, other : 0..1],
                      NEW i \in Indices(result.inputs),
                      i \notin Spendable(filter), req.inputs[i].amount >= InputFee(i)
               PROVE  ~Covers(Spendable(filter))
    BY DEF ConfirmedFirst
  <2>1. Accepted /\ req \in Request /\ IsPerm(order, Len(req.inputs))
    BY FinalFacts DEF Accepted
  <2>2. PICK S \in SUBSET Coins : Moves(S) /\ (Pays(S) \/ Empties)
    BY FinalFacts
  <2>3. Enumerates(result.inputs, S) /\ S \subseteq UtxosAt(trial) /\ trial \in 1..8
    BY <2>2 DEF Moves, Pays, Empties
  <2>4. i \in UtxosAt(trial)
    <3>1. Indices(result.inputs) = S
      BY <2>1, <2>3, ListTypes
    <3> QED BY <2>3, <3>1
  <2>5. PICK j \in 1..8 : Trials[j] = filter
    BY EveryFilter
  <2>6. \A k \in DOMAIN order : order[k] = k
    <3>1. pc = "done" /\ Refusal = "none"
      BY DEF IInv, ResultInv, IsFinal
    <3> QED BY <3>1 DEF IInv, OrderInv
  <2>7. Spends(j) = Spendable(filter)
    BY <2>1, <2>5, <2>6, SpendsIs
  <2>8. j < trial
    <3> SUFFICES ASSUME ~(j < trial) PROVE FALSE
      OBVIOUS
    <3>1. trial <= j
      BY <2>3
    <3>2. UtxosAt(trial) \subseteq UtxosAt(j)
      BY <2>1, <2>3, <3>1, FilterFacts
    <3>3. i \in Spends(j)
      BY <2>4, <3>2 DEF Spends
    <3> QED BY <2>7, <3>3
  <2>9. Lacks(Spends(j))
    BY <2>8 DEF IInv, TrialInv
  <2> QED BY <2>7, <2>9 DEF Lacks
<1> QED BY <1>1, IInvHolds, PTL
=============================================================================
