------------------------------- MODULE Compose -------------------------------
(***************************************************************************)
(* precompose and compose_tx: from UTXOs and wished outputs to a             *)
(* transaction.  One action is one stage: the validation, a turn of          *)
(* try_confirmed's loop, branch and bound, a turn of accumulative's loop,    *)
(* the send-max split, and the sorting of the result.  The sequences of the  *)
(* code are sequences here, because what goes wrong is in their positions.   *)
(***************************************************************************)
EXTENDS CoinWeights

CONSTANTS Requests,   \* what precompose may be asked for
          MaxTries    \* MAX_TRIES of branch and bound, 1 000 000 in the code

\* A UTXO, a wished output and a request: one fee level of PrecomposeParams.
Utxo == [id : Int, amount : Nat, type : ScriptTypes, confirmations : Nat,
         own : BOOLEAN, coinbase : BOOLEAN, required : BOOLEAN]
OutputKinds == {"payment", "paymentNoAddress", "sendMax", "sendMaxNoAddress", "opReturn"}
Wish == [kind : OutputKinds, amount : Nat, type : ScriptTypes, bytes : Nat,
         parses : BOOLEAN, script : Int]
Request == [inputs : Seq(Utxo), outputs : Seq(Wish), rate : Int, baseFee : Nat,
            purpose : Nat, change : Seq(Nat), sorting : {"none", "bip69", "random"}]

ASSUME RequestsAssumption == Requests \subseteq Request
ASSUME MaxTriesAssumption == MaxTries \in Nat

VARIABLES
    req,      \* the request: one fee level of it
    pc,       \* the stage
    order,    \* cs_inputs: the UTXOs' indices in the order of the selection
    trial,    \* position in the list of confirmation filters
    count,    \* prev_usable_count
    usable,   \* the UTXOs that pass the filter
    picked,   \* accumulative's selected
    pos,      \* accumulative's position among the optional ones
    chosen,   \* CoinSelectResult
    result    \* PrecomposedResult

vars == <<req, pc, order, trial, count, usable, picked, pos, chosen, result>>
-----------------------------------------------------------------------------
(* The request. *)

\* infer_change_script_type
ChangeType ==
    CASE req.purpose = 44 -> "SpendAddress"
      [] req.purpose = 49 -> "SpendP2SHWitness"
      [] req.purpose = 86 -> "SpendTaproot"
      [] OTHER -> "SpendWitness"

\* The change address: the first without transfers, else the first; 0, the
\* empty path, when the account lists none.
ChangeAddress ==
    LET fresh == {i \in DOMAIN req.change : req.change[i] = 0}
    IN  CASE fresh # {} -> CHOOSE i \in fresh : \A j \in fresh : i <= j
          [] fresh = {} /\ req.change # <<>> -> 1
          [] OTHER -> 0

SendMaxKinds == {"sendMax", "sendMaxNoAddress"}
HasSendMax == \E i \in DOMAIN req.outputs : req.outputs[i].kind \in SendMaxKinds
IsComplete == \A i \in DOMAIN req.outputs :
                 req.outputs[i].kind \in {"payment", "sendMax", "opReturn"}

\* cs_outputs: an amount that does not parse counts as 0, an output without
\* address weighs as much as change.
CsAmount(o) == IF o.kind \in {"payment", "paymentNoAddress"} /\ o.parses THEN o.amount ELSE 0
CsWeight(o) ==
    CASE o.kind \in {"payment", "sendMax"} -> OutputWeight[o.type]
      [] o.kind = "opReturn" -> OpReturnOutputWeight(o.bytes)
      [] OTHER -> OutputWeight[ChangeType]
CsOutputSum == SumOf([i \in DOMAIN req.outputs |-> CsAmount(req.outputs[i])])
CsWeights == [i \in DOMAIN req.outputs |-> CsWeight(req.outputs[i])]

InputFee(i) == CalculateFee(req.rate, InputWeight[req.inputs[i].type])
AmountOf(s) == SumOf([i \in DOMAIN s |-> req.inputs[s[i]].amount])
TypesOf(s) == [i \in DOMAIN s |-> req.inputs[s[i]].type]

\* The order of the selection: by amount less input fee unless the caller
\* wants no sorting.
CsOrder ==
    IF req.sorting = "none"
      THEN [i \in DOMAIN req.inputs |-> i]
      ELSE ByKey(DOMAIN req.inputs,
                 [i \in DOMAIN req.inputs |-> InputFee(i) - req.inputs[i].amount])

\* What precompose and compose_tx refuse.
Refusal ==
    CASE req.rate <= 0 -> "IncorrectFeeRate"
      [] req.rate > 0 /\ req.inputs = <<>> -> "MissingUtxos"
      [] req.rate > 0 /\ req.inputs # <<>> /\ req.outputs = <<>> -> "MissingOutputs"
      [] OTHER -> "none"

\* finalize for the UTXOs of s.
FinalizeWith(s) ==
    LET Fee(ws) == CalculateFee(req.rate, TransactionWeight(TypesOf(s), ws)) + req.baseFee
    IN  Finalize(AmountOf(s), CsOutputSum, Fee(CsWeights),
                 Fee(Append(CsWeights, OutputWeight[ChangeType])), DustAmount(ChangeType))

Success(s) ==
    LET f == FinalizeWith(s)
    IN  [kind |-> "success", inputs |-> s, fee |-> f.fee, amount |-> f.change]
Insufficient == [kind |-> "insufficient", inputs |-> <<>>, fee |-> 0, amount |-> 0]
-----------------------------------------------------------------------------
(* Branch and bound. *)

\* The UTXOs worth more than their input costs, the most valuable first.
Candidates ==
    LET worth == {i \in DOMAIN usable : req.inputs[usable[i]].amount > InputFee(usable[i])}
        value == [i \in worth |-> req.inputs[usable[i]].amount - InputFee(usable[i])]
        sorted == ByKey(worth, [i \in worth |-> -value[i]])
    IN  [k \in DOMAIN sorted |-> [index |-> usable[sorted[k]], value |-> value[sorted[k]]]]

Target == CsOutputSum + CalculateFee(req.rate, TransactionWeight(<<>>, CsWeights)) + req.baseFee
CostOfChange == CalculateFee(req.rate, OutputWeight[ChangeType]) + DustAmount(ChangeType)

\* ... none of which exceeds the window by itself.
Fitting ==
    LET c == Candidates
    IN  Take(c, InOrder({k \in DOMAIN c : c[k].value <= Target + CostOfChange}))

\* The bound forgets the UTXO at hand.
RestWorthLess(f, d) == SumOf([i \in 1..(Len(f) - d) |-> f[d + i].value])

\* suffix_sums: what is left from depth d on.
RestWorth(f, d) == SumOf([i \in 1..(Len(f) - d + 1) |-> f[d + i - 1].value])

\* A call of bnb_search at depth at[1] with the sum at[2] after at[3] calls: depth
\* first, with the UTXO before without it.
Call(f, bnb, at) ==
    LET d == at[1]  sum == at[2]  tries == at[3] + 1
        Stops(stop, found, calls) ==
            [stop |-> stop, found |-> found, picks |-> {}, tries |-> calls]
    IN  CASE at[3] >= MaxTries -> Stops(TRUE, FALSE, at[3])
          [] at[3] < MaxTries /\ sum > Target + CostOfChange -> Stops(FALSE, FALSE, tries)
          [] at[3] < MaxTries /\ sum \in Target..(Target + CostOfChange) ->
               Stops(TRUE, TRUE, tries)
          [] at[3] < MaxTries /\ sum < Target
               /\ (d > Len(f) \/ sum + RestWorth(f, d) < Target) -> Stops(FALSE, FALSE, tries)
          [] OTHER -> LET with == bnb[<<d + 1, sum + f[d].value, tries>>]
                      IN  IF with.stop THEN [with EXCEPT !.picks = @ \cup {d}]
                                       ELSE bnb[<<d + 1, sum, with.tries>>]

Search(f) ==
    LET bnb[at \in (1..(Len(f) + 1)) \X Nat \X Nat] == Call(f, bnb, at)
    IN  bnb[<<1, 0, 0>>]

\* The UTXOs of the match, if there is one and it finalises.
Match ==
    LET f == Fitting
        found == Search(f)
        picks == InOrder(found.picks)
        s == [k \in DOMAIN picks |-> f[picks[k]].index]
    IN  IF found.found /\ FinalizeWith(s).ok THEN s ELSE <<>>

\* Required UTXOs are searched like the others.
BranchSearchesAlways ==
    /\ pc = "branch"
    /\ \/ Match # <<>> /\ chosen' = Success(Match) /\ pc' = "compose"
       \/ Match = <<>> /\ pc' = "required" /\ UNCHANGED chosen
    /\ UNCHANGED <<req, order, trial, count, usable, picked, pos, result>>

\* branch_and_bound leaves everything to accumulative when a UTXO is required.
Branch ==
    /\ pc = "branch"
    /\ LET match == IF \E i \in DOMAIN usable : req.inputs[usable[i]].required
                      THEN <<>> ELSE Match
       IN  \/ match # <<>> /\ chosen' = Success(match) /\ pc' = "compose"
           \/ match = <<>> /\ pc' = "required" /\ UNCHANGED chosen
    /\ UNCHANGED <<req, order, trial, count, usable, picked, pos, result>>
-----------------------------------------------------------------------------
(* accumulative. *)

\* The required UTXOs first; they may be enough.
Required ==
    /\ pc = "required"
    /\ LET s == Take(usable, InOrder({k \in DOMAIN usable : req.inputs[usable[k]].required})) IN
       /\ picked' = s
       /\ pos' = 1
       /\ IF s # <<>> /\ FinalizeWith(s).ok
            THEN chosen' = Success(s) /\ pc' = "compose"
            ELSE pc' = "optional" /\ UNCHANGED chosen
    /\ UNCHANGED <<req, order, trial, count, usable, result>>

Optional == Take(usable, InOrder({k \in DOMAIN usable : ~req.inputs[usable[k]].required}))

\* One more UTXO, unless it costs more than it brings; the last one is tried
\* all the same.
Accumulate ==
    /\ pc = "optional"
    /\ pos \in DOMAIN Optional
    /\ LET i == Optional[pos]
           s == Append(picked, i)
       IN  IF req.inputs[i].amount < InputFee(i) /\ pos # Len(Optional)
             THEN UNCHANGED <<picked, chosen, pc>>
             ELSE /\ picked' = s
                  /\ IF FinalizeWith(s).ok
                       THEN chosen' = Success(s) /\ pc' = "compose"
                       ELSE UNCHANGED <<chosen, pc>>
    /\ pos' = pos + 1
    /\ UNCHANGED <<req, order, trial, count, usable, result>>

\* Not enough: try_confirmed goes on to its next filter.
GiveUp ==
    /\ pc = "optional"
    /\ pos \notin DOMAIN Optional
    /\ pc' = "trial"
    /\ trial' = trial + 1
    /\ UNCHANGED <<req, order, count, usable, picked, pos, chosen, result>>
-----------------------------------------------------------------------------
(* try_confirmed and split. *)

\* Everything may be used at once.
TrialsOpen == <<[own |-> 0, other |-> 0]>>

\* Nothing unconfirmed is ever used.
TrialsConfirmedOnly == <<[own |-> 1, other |-> 6], [own |-> 1, other |-> 1]>>

\* generate_trials(1, 6)
Trials ==
    [k \in 1..6 |-> [own |-> 1, other |-> 7 - k]]
        \o <<[own |-> 0, other |-> 1], [own |-> 0, other |-> 0]>>

\* An immature coinbase output; the flags are looked up by position.
Immature(u) == u.coinbase /\ u.confirmations < 100

Passes(k, filter) ==
    LET u == req.inputs[k]
    IN  \/ req.inputs[order[k]].required
        \/ ~Immature(u) /\ u.confirmations >= (IF u.own THEN filter.own ELSE filter.other)

\* The UTXOs of cs_inputs at the positions in P, in order.
Positions(P) == Take(order, InOrder(P))

\* A turn of the loop: a filter that admits nothing new is skipped.
Filter ==
    /\ pc = "trial"
    /\ trial \in DOMAIN Trials
    /\ usable' = Positions({k \in DOMAIN order : Passes(k, Trials[trial])})
    /\ IF Len(usable') \in {0, count}
         THEN trial' = trial + 1 /\ UNCHANGED <<count, pc>>
         ELSE count' = Len(usable') /\ pc' = "branch" /\ UNCHANGED trial
    /\ UNCHANGED <<req, order, picked, pos, chosen, result>>

Exhausted ==
    /\ pc = "trial"
    /\ trial \notin DOMAIN Trials
    /\ chosen' = Insufficient
    /\ pc' = "compose"
    /\ UNCHANGED <<req, order, trial, count, usable, picked, pos, result>>

\* split: every eligible UTXO, and the rest for the send-max output.
Split ==
    /\ pc = "split"
    /\ LET s    == Positions({k \in DOMAIN order : ~Immature(req.inputs[k])})
           fee  == CalculateFee(req.rate, TransactionWeight(TypesOf(s), CsWeights)) + req.baseFee
           rest == AmountOf(s) - CsOutputSum - fee
       IN  chosen' = IF s = <<>> \/ rest < DustAmount(ChangeType)
                       THEN Insufficient
                       ELSE [kind |-> "sendMax", inputs |-> s, fee |-> fee, amount |-> rest]
    /\ pc' = "compose"
    /\ UNCHANGED <<req, order, trial, count, usable, picked, pos, result>>
-----------------------------------------------------------------------------
(* The result. *)

Error(e) == [kind |-> "error", error |-> e]

\* The outputs before they are sorted; the script of the change is not known
\* yet and sorts first.
ComposedOutputs ==
    [i \in DOMAIN req.outputs |->
        LET o == req.outputs[i] IN
        [kind |-> "payment", weight |-> CsWeight(o), script |-> o.script, index |-> i,
         amount |-> IF o.kind = "sendMax" THEN chosen.amount ELSE CsAmount(o), to |-> 0]]
    \o (IF chosen.kind = "success" /\ chosen.amount > 0
          THEN <<[kind |-> "change", weight |-> OutputWeight[ChangeType], script |-> 0,
                  index |-> Len(req.outputs) + 1, amount |-> chosen.amount, to |-> 0]>>
          ELSE <<>>)

\* sort_transaction, as orders of positions: BIP 69, with a stable sort; a random
\* order of the inputs, and a random place for the change; or none.
InputOrders ==
    LET s == chosen.inputs IN
    CASE req.sorting = "bip69" -> {ByKey(DOMAIN s, [k \in DOMAIN s |-> req.inputs[s[k]].id])}
      [] req.sorting = "random" -> Shuffles(DOMAIN s)
      [] OTHER -> {[k \in DOMAIN s |-> k]}

OutputOrders ==
    LET outs == ComposedOutputs
        n == Len(outs)
        Less(a, b) == \/ a.amount < b.amount
                      \/ a.amount = b.amount /\ a.script < b.script
                      \/ a.amount = b.amount /\ a.script = b.script /\ a.index < b.index
        ChangeAt(k) == [i \in 1..n |-> IF i < k THEN i ELSE IF i = k THEN n ELSE i - 1]
    IN  CASE req.sorting = "bip69" ->
               {Sorted(1..n, {p \in (1..n) \X (1..n) : Less(outs[p[1]], outs[p[2]])})}
          [] req.sorting = "random" /\ outs[n].kind = "change" -> {ChangeAt(k) : k \in 1..n}
          [] OTHER -> {[i \in 1..n |-> i]}

\* precompose fills in the change address.
Addressed(outs) ==
    [k \in DOMAIN outs |->
        [outs[k] EXCEPT !.to = IF outs[k].kind = "change" THEN ChangeAddress ELSE 0]]

Validate ==
    /\ pc = "start"
    /\ \/ /\ Refusal # "none"
          /\ result' = Error(Refusal) /\ pc' = "done"
          /\ UNCHANGED order
       \/ /\ Refusal = "none"
          /\ order' = CsOrder
          /\ pc' = IF HasSendMax THEN "split" ELSE "trial"
          /\ UNCHANGED result
    /\ UNCHANGED <<req, trial, count, usable, picked, pos, chosen>>

Conclude ==
    /\ pc = "compose"
    /\ pc' = "done"
    /\ \/ /\ chosen.kind = "insufficient"
          /\ result' = Error("NotEnoughFunds")
       \/ /\ chosen.kind # "insufficient" /\ ~IsComplete
          /\ result' = [kind |-> "nonFinal", fee |-> chosen.fee,
                        max |-> IF chosen.kind = "sendMax" THEN chosen.amount ELSE 0]
       \/ /\ chosen.kind # "insufficient" /\ IsComplete
          /\ \E p \in InputOrders, q \in OutputOrders :
               result' = [kind |-> "final", fee |-> chosen.fee,
                          inputs |-> Take(chosen.inputs, p),
                          outputs |-> Addressed(Take(ComposedOutputs, q))]
    /\ UNCHANGED <<req, order, trial, count, usable, picked, pos, chosen>>

Init ==
    /\ req \in Requests
    /\ pc = "start"
    /\ order = <<>> /\ usable = <<>> /\ picked = <<>>
    /\ trial = 1 /\ count = 0 /\ pos = 1
    /\ chosen = Insufficient
    /\ result = [kind |-> "none"]

Next == Validate \/ Filter \/ Exhausted \/ Branch \/ Required \/ Accumulate \/ GiveUp
          \/ Split \/ Conclude

Spec == Init /\ [][Next]_vars
-----------------------------------------------------------------------------
IsFinal == result.kind = "final"
OutputsWeigh == [k \in DOMAIN result.outputs |-> result.outputs[k].weight]

OutputsSum == SumOf([k \in DOMAIN result.outputs |-> result.outputs[k].amount])
OneSendMax == \A i, j \in DOMAIN req.outputs :
                 req.outputs[i].kind = "sendMax" /\ req.outputs[j].kind = "sendMax" => i = j

\* What finalize and split book is what the sorted transaction moves: no UTXO is
\* spent twice, and every satoshi of the inputs is in an output or in the fee,
\* if no more than one output asks for the rest.
ValueConserved ==
    IsFinal => /\ Cardinality(Indices(result.inputs)) = Len(result.inputs)
               /\ OneSendMax => AmountOf(result.inputs) = result.fee + OutputsSum

\* calculate_fee: the fee pays for the size of the transaction as it came out,
\* change included, at the rate asked for, and for the base fee on top.
FeePaysForSize ==
    IsFinal => result.fee >= req.baseFee
        + CalculateFee(req.rate, TransactionWeight(TypesOf(result.inputs), OutputsWeigh))

\* finalize: a change output is never below the relay threshold of 546.
ChangeIsNoDust ==
    IsFinal => \A k \in DOMAIN result.outputs :
                  result.outputs[k].kind = "change" => result.outputs[k].amount >= 546

\* A payment spends every UTXO the caller marked as required.
RequiredSpent ==
    IsFinal /\ ~HasSendMax =>
        \A i \in DOMAIN req.inputs :
            req.inputs[i].required => i \in Indices(result.inputs)

\* The UTXOs that a filter admits and that are worth spending, by the request
\* and not by positions.
Spendable(filter) ==
    {i \in DOMAIN req.inputs :
        LET u == req.inputs[i] IN
        \/ u.required
        \/ /\ ~Immature(u) /\ u.amount >= InputFee(i)
           /\ u.confirmations >= (IF u.own THEN filter.own ELSE filter.other)}
Covers(S) == S # {} /\ FinalizeWith(InOrder(S)).ok

\* The positions of cs_inputs and of the flags agree.
Aligned == req.sorting = "none" \/ \A i \in DOMAIN req.inputs : ~req.inputs[i].coinbase

\* try_confirmed and accumulative: "Not enough funds" is only said when all the
\* spendable UTXOs together do not cover outputs and fee.
ShortOnlyWhenShort ==
    result = Error("NotEnoughFunds") /\ ~HasSendMax /\ Aligned =>
        ~Covers(Spendable([own |-> 0, other |-> 0]))

\* try_confirmed: a UTXO with few confirmations is only spent when those with
\* more do not cover the payment.
ConfirmedFirst ==
    IsFinal /\ ~HasSendMax /\ req.sorting = "none" =>
        \A filter \in [own : {1}, other : 1..6] \cup [own : {0}, other : 0..1] :
            LET S == Spendable(filter) IN
            (\E i \in Indices(result.inputs) :
                 i \notin S /\ req.inputs[i].amount >= InputFee(i)) => ~Covers(S)

\* bnb_search against its reference: within its limit of calls it finds a
\* subset in the window exactly when there is one.
SearchAgrees ==
    pc = "branch" =>
        LET f == Fitting
            s == Search(f)
        IN  s.tries < MaxTries =>
              (s.found <=> \E S \in (SUBSET DOMAIN f) \ {{}} :
                  SumOf([k \in DOMAIN f |-> IF k \in S THEN f[k].value ELSE 0])
                      \in Target..(Target + CostOfChange))

\* tryconfirmed.rs: "Coinbase UTXOs always require 100 confirmations."
CoinbaseIsMature ==
    IsFinal => \A i \in Indices(result.inputs) :
                  req.inputs[i].required \/ ~Immature(req.inputs[i])
=============================================================================
