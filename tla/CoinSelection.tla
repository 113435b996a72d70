---------------------------- MODULE CoinSelection ----------------------------
(***************************************************************************)
(* utils/coinSelections: the UTXOS a transaction spends and the fee it is  *)
(* estimated to need.                                                      *)
(*                                                                         *)
(* Amounts are satoshis.  The strategy is the default one: it sorts by     *)
(* "-satoshis", which a UTXO does not have, by transaction and by output   *)
(* index.  (The other one sorts by "txid", which a UTXO does not have      *)
(* either, so that it takes lower output indexes first, and larger UTXOS   *)
(* among equal ones, as getUTXOS lists them.)                              *)
(***************************************************************************)
EXTENDS Integers, FiniteSets

CONSTANTS
    Outpoint,
    Worth,          \* satoshis in a set of outpoints
    Before          \* Before[o]: the outpoints that are sorted before o

ASSUME WorthAssumption ==
    /\ Worth \in [SUBSET Outpoint -> Nat]
    /\ \A S, T \in SUBSET Outpoint :
           S \cap T = {} => Worth[S \cup T] = Worth[S] + Worth[T]

\* No two outputs of the finite chain have the same transaction and index.
ASSUME OrderAssumption ==
    /\ IsFiniteSet(Outpoint)
    /\ Before \in [Outpoint -> SUBSET Outpoint]
    /\ \A o, p \in Outpoint : (p \in Before[o]) <=> (o # p /\ o \notin Before[p])
    /\ \A o, p \in Outpoint : p \in Before[o] => Before[p] \subseteq Before[o]

\* coinSelection throws unless the UTXOS cover the outputs; the fee is not asked for.
Selectable(utxos, amount) == utxos # {} /\ Worth[utxos] >= amount

\* Mutated form: up to more than the amount
AccumulatedPast(utxos, amount) == {o \in utxos : Worth[utxos \cap Before[o]] <= amount}
\* simplyAccumulateUtxos: each is taken until those taken cover the outputs.
Accumulated(utxos, amount) == {o \in utxos : Worth[utxos \cap Before[o]] < amount}

\* An input is its outpoint, a script of 100 bytes and a sequence number, an
\* output its value and its script; there are less than 253, so that their number
\* takes one byte.
InputsSize(inputs) == 1 + (36 + 4 + 1 + 100 + 4) * Cardinality(inputs)
OutputsSize(outputs) == 1 + (8 + 1 + 25) * outputs
Size(inputs, outputs) == 4 + InputsSize(inputs) + OutputsSize(outputs) + 16 + 4

\* estimateFees: 1000 satoshis for 1000 bytes, or 10000 for an input
EstimatedFee(inputs, outputs, feeCategory) ==
    IF feeCategory = "instant" THEN 10000 * Cardinality(inputs) ELSE Size(inputs, outputs)

\* With deductFee, what the inputs lack for the fee is taken from the first output.
Deducted(inputs, amount, fee) ==
    IF Worth[inputs] < amount + fee THEN Worth[inputs] - fee ELSE amount

-----------------------------------------------------------------------------
\* What the strategies promise of the UTXOS they are given: the inputs cover the
\* outputs, those before the last would not have, and once the fee is deducted
\* from the outputs the inputs cover both.
Fits(inputs, amount) ==
    LET worth == Worth[inputs]
    IN  /\ worth >= amount
        /\ \E last \in inputs :
               inputs \ {last} \subseteq Before[last] /\ Worth[inputs \ {last}] < amount
        /\ \A feeCategory \in {"normal", "instant"} :
               LET fee == EstimatedFee(inputs, 1, feeCategory)
               IN  Deducted(inputs, amount, fee) + fee <= worth
=============================================================================
