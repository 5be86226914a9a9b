------------------------- MODULE MCTransactionBuilder -------------------------
(* Values for model-checking TransactionBuilder: two coins, two calls, sizes  *)
(* and limits as in packages/cashscript/src/constants.ts, with an input of    *)
(* 150 bytes.                                                                 *)
EXTENDS TransactionBuilder

CONSTANTS k1, k2, c2

MCCoins == {k1, k2}
MCValue == [k \in MCCoins |-> IF k = k1 THEN 9000 ELSE 2000]

Defaults == [feePerByte |-> 1, hardcodedFee |-> Unset, minChange |-> DUST_LIMIT,
             verify |-> TRUE]
Changed  == {field \in DOMAIN Defaults : settings[field] # Defaults[field]}

\* bounds for the disciplined application: any settings while the inputs are left to
\* the builder, one changed setting with one given input and none with two; of two
\* given outputs the first goes to the payee.  Then three reductions that lose
\* nothing: with given inputs the wallet is never read, calls that do not overlap may
\* share the name c1, and of two that do c1 may be the name of the first.
Disciplines ==
    /\ asked.inputs # <<>> => Cardinality(Changed) + Len(asked.inputs) <= 2
    /\ Len(asked.outputs) = 2 => asked.outputs[1].to = "payee"
    /\ asked.inputs # <<>> => wallet = MCCoins
    /\ asked.inputs = <<>> \/ started < 2 => pc[c2] = "idle" /\ result[c2] = "none"

\* bounds for the other one: change is neither forbidden nor suppressed, the
\* wallet holds every coin from the start, and calls start once there are outputs
Narrow ==
    /\ settings.minChange = DUST_LIMIT
    /\ wallet = MCCoins
    /\ started > 0 => outputs # <<>>

Symmetry == Permutations(Calls)
=============================================================================
