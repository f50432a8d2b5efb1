----------------------------- MODULE CoinWeights -----------------------------
(***************************************************************************)
(* Sizes, fees and the decision about change (compose/weight.rs, dust.rs,    *)
(* coinselect/finalize.rs of trezor-connect-rs).  A fee rate is given in     *)
(* quarters of a satoshi per virtual byte, which the code's f64 holds        *)
(* exactly; amounts are unbounded here.                                      *)
(***************************************************************************)
EXTENDS SeqTools

ScriptTypes == {"SpendAddress", "SpendP2SHWitness", "SpendWitness", "SpendTaproot",
                "SpendMultisig", "External"}

InputWeight ==
    [SpendAddress |-> 592, SpendP2SHWitness |-> 364, SpendWitness |-> 272,
     SpendTaproot |-> 230, SpendMultisig |-> 592, External |-> 272]

OutputWeight ==
    [SpendAddress |-> 136, SpendP2SHWitness |-> 128, SpendWitness |-> 124,
     SpendTaproot |-> 172, SpendMultisig |-> 128, External |-> 124]

OpReturnOutputWeight(bytes) == 4 * (8 + 1 + 1 + 1 + bytes)

VarintWeight(n) == 4 * (CASE n < 253 -> 1 [] n \in 253..65535 -> 3 [] OTHER -> 5)

SegwitTypes == {"SpendWitness", "SpendP2SHWitness", "SpendTaproot"}

\* A transaction with a segwit input has a marker and one empty witness for
\* each of its other inputs.
TransactionWeight(types, outputWeights) ==
    LET legacy == {i \in DOMAIN types : types[i] \notin SegwitTypes}
        plain  == 32 + VarintWeight(Len(types)) + VarintWeight(Len(outputWeights))
                     + SumOf([i \in DOMAIN types |-> InputWeight[types[i]]])
                     + SumOf(outputWeights)
    IN  IF legacy = DOMAIN types
          THEN plain
          ELSE plain + 2 + SumOf([i \in DOMAIN types |-> IF i \in legacy THEN 1 ELSE 0])

WeightToVbytes(weight) == (weight + 3) \div 4

\* (fee_rate * vbytes).ceil()
CalculateFee(rate, weight) == (rate * WeightToVbytes(weight) + 3) \div 4

\* At least 546 satoshis, and what spending the output costs at 3 sat/vB.
DustAmount(type) ==
    LET cost == 3 * WeightToVbytes(InputWeight[type])
    IN  IF cost > 546 THEN cost ELSE 546

-----------------------------------------------------------------------------
(* finalize, from the fees of the transaction without and with change.     *)

NotFinal == [ok |-> FALSE, fee |-> 0, change |-> 0]

\* The change counts even if it is dust.
FinalizeKeepsDust(inSum, outSum, feeWithout, feeWith, dust) ==
    IF inSum < outSum + feeWithout THEN NotFinal
    ELSE IF inSum < outSum + feeWith
      THEN [ok |-> TRUE, fee |-> inSum - outSum, change |-> 0]
      ELSE [ok |-> TRUE, fee |-> feeWith, change |-> inSum - outSum - feeWith]

\* The change output is not paid for.
FinalizeUndercharges(inSum, outSum, feeWithout, feeWith, dust) ==
    IF inSum < outSum + feeWithout THEN NotFinal
    ELSE IF inSum - outSum - feeWithout >= dust
      THEN [ok |-> TRUE, fee |-> feeWithout, change |-> inSum - outSum - feeWithout]
      ELSE [ok |-> TRUE, fee |-> inSum - outSum, change |-> 0]

\* Dust disappears from the books.
FinalizeLosesDust(inSum, outSum, feeWithout, feeWith, dust) ==
    IF inSum < outSum + feeWithout THEN NotFinal
    ELSE IF inSum - outSum - feeWith >= dust
      THEN [ok |-> TRUE, fee |-> feeWith, change |-> inSum - outSum - feeWith]
      ELSE [ok |-> TRUE, fee |-> feeWithout, change |-> 0]

Finalize(inSum, outSum, feeWithout, feeWith, dust) ==
    IF inSum < outSum + feeWithout THEN NotFinal
    ELSE IF inSum < outSum + feeWith \/ inSum - outSum - feeWith < dust
      THEN [ok |-> TRUE, fee |-> inSum - outSum, change |-> 0]
      ELSE [ok |-> TRUE, fee |-> feeWith, change |-> inSum - outSum - feeWith]
=============================================================================
