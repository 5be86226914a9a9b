-------------------------- MODULE TransactionBuilder --------------------------
(***************************************************************************)
(* packages/cashscript/src/Transaction.ts: one Transaction object, the     *)
(* builder methods that configure it, and the asynchronous calls build(),  *)
(* preflight() and send() that share its inputs and outputs.               *)
(*                                                                         *)
(* An action is a builder method, or the synchronous run of a call between *)
(* two awaits.  pc[c] names the await call c is suspended in:              *)
(*   "height"     provider.getBlockHeight()                                *)
(*   "utxos"      provider.getUtxos(), inside setInputsAndOutputs          *)
(*   "set"        setInputsAndOutputs(), which has returned                *)
(*   "secp"       instantiateSecp256k1()                                   *)
(*   "prevouts"   the source transactions, inside verifyPrevouts           *)
(*   "verified"   verifyPrevouts(), which has returned                     *)
(*   "built"      build(), which has returned to preflight() or send()     *)
(*   "mempool"    provider.testMempoolAccept(), inside preflight           *)
(*   "checked"    preflight(), which has returned to send()                *)
(*   "broadcast"  provider.sendRawTransaction()                            *)
(*   "poll"       one round of the loop in getTxDetails                    *)
(* An await of a promise that has already settled suspends the call too.   *)
(* Amounts and sizes are whole satoshis and bytes.  A coin stands for a    *)
(* UTXO, an output for its destination and amount.                         *)
(***************************************************************************)
EXTENDS Integers, Sequences, FiniteSets, SequencesExt, Sums

CONSTANTS
    Calls,            \* names for calls in progress
    Coins,            \* the UTXOs of the contract's address
    Value,            \* [Coins -> Nat]: the satoshis the provider reports
    Forged,           \* coins whose source transaction says otherwise
    Amounts,          \* amounts the application pays
    FeeRates,         \* arguments of withFeePerByte
    HardcodedFees,    \* arguments of withHardcodedFee
    MinChanges,       \* arguments of withMinChange
    SighashSingle,    \* does a signature of this contract use SIGHASH_SINGLE?
    CanTestMempool,   \* does the provider implement testMempoolAccept?
    Disciplined,      \* the application configures before its first call, and awaits
                      \* every call before the next unless it gave the inputs itself
    DUST_LIMIT, P2PKH_OUTPUT_SIZE, P2SH_OUTPUT_SIZE,
    INPUT_SIZE,       \* inputSize of setInputsAndOutputs
    BASE_SIZE,        \* version, locktime and counts
    MAX_FEE_SATOSHIS, MAX_INPUT_COUNT, MAX_OUTPUT_COUNT, MAX_TRANSACTION_SIZE,
    PREFLIGHT_FEE_PER_BYTE_MAX,
    NO_CHANGE,        \* Number.MAX_VALUE
    MaxPolls,         \* maxRetries of getTxDetails
    MaxInputs,        \* bound: inputs the application adds
    MaxOutputs,       \* bound: outputs the application adds
    MaxStarts         \* bound: calls the application starts

ASSUME BuilderAssumption ==
    /\ IsFiniteSet(Coins)
    /\ Value \in [Coins -> Nat]
    /\ Forged \subseteq Coins
    /\ {SighashSingle, CanTestMempool, Disciplined} \subseteq BOOLEAN
    /\ Amounts \cup FeeRates \cup HardcodedFees \cup MinChanges \subseteq Nat
    /\ {DUST_LIMIT, P2PKH_OUTPUT_SIZE, P2SH_OUTPUT_SIZE, INPUT_SIZE, BASE_SIZE,
        MAX_FEE_SATOSHIS, MAX_INPUT_COUNT, MAX_OUTPUT_COUNT, MAX_TRANSACTION_SIZE,
        PREFLIGHT_FEE_PER_BYTE_MAX, NO_CHANGE, MaxPolls, MaxInputs, MaxOutputs,
        MaxStarts} \subseteq Nat
    /\ DUST_LIMIT > 0
    /\ P2SH_OUTPUT_SIZE <= P2PKH_OUTPUT_SIZE

VARIABLES
    inputs, outputs, \* the fields this.inputs and this.outputs
    settings,        \* the other fields of the builder
    wallet,          \* coins provider.getUtxos() reports
    pc, kind,        \* per call: its await, and the method called
    needed,          \* per call: amount, fee and useHardcodedFee as of before getUtxos()
    fetched,         \* per call: coins whose source transactions it fetched
    polls,           \* per call: rounds of getTxDetails
    tx,              \* per call: the transaction it built, with the settings of then
    passes,          \* per call: its preflight has found no error
    result,          \* per call: how its last run ended
    started,         \* calls started so far
    asked            \* history: inputs and outputs the application itself gave

config == <<inputs, outputs, settings, asked>>
call   == <<pc, kind, needed, fetched, polls, tx, passes, result>>
vars   == <<config, wallet, call, started>>

Destinations == {"payee", "contract"} \* a P2PKH address; the contract's own P2SH
Output       == [to : Destinations, amount : Nat]
Settings     == [feePerByte : FeeRates \cup {1}, hardcodedFee : HardcodedFees \cup {-1},
                 minChange : MinChanges \cup {DUST_LIMIT, NO_CHANGE}, verify : BOOLEAN,
                 locktime : BOOLEAN, asserted : Seq(Output), allowChange : BOOLEAN]
Unset        == -1    \* hardcodedFee === undefined
NoTx         == <<>>  \* no transaction built yet
Transactions == [inputs : Seq(Coins), outputs : Seq(Output), settings : Settings]
Kinds        == {"build", "preflight", "send", "sendPreflight"}
Awaits       == {"idle", "height", "utxos", "set", "secp", "prevouts", "verified", "built",
                 "mempool", "checked", "broadcast", "poll"}
Results      == {"none", "ok", "rejected", "insufficient", "error"}

TypeOK ==
    /\ inputs \in Seq(Coins)
    /\ outputs \in Seq(Output)
    /\ settings \in Settings
    /\ wallet \subseteq Coins
    /\ pc \in [Calls -> Awaits]
    /\ kind \in [Calls -> Kinds]
    /\ needed \in [Calls -> [amount : Nat, fee : Nat, hard : BOOLEAN]]
    /\ fetched \in [Calls -> SUBSET Coins]
    /\ polls \in [Calls -> 0 .. MaxPolls]
    /\ tx \in [Calls -> {NoTx} \cup Transactions]
    /\ passes \in [Calls -> BOOLEAN]
    /\ result \in [Calls -> Results]
    /\ started \in 0 .. MaxStarts
    /\ asked \in [inputs : Seq(Coins), outputs : Seq(Output)]

Init ==
    /\ inputs = <<>> /\ outputs = <<>>
    /\ settings = [feePerByte |-> 1, hardcodedFee |-> Unset, minChange |-> DUST_LIMIT,
                   verify |-> TRUE, locktime |-> FALSE, asserted |-> <<>>, allowChange |-> TRUE]
    /\ wallet \in SUBSET Coins
    /\ pc = [c \in Calls |-> "idle"]
    /\ kind = [c \in Calls |-> "build"]
    /\ needed = [c \in Calls |-> [amount |-> 0, fee |-> 0, hard |-> FALSE]]
    /\ fetched = [c \in Calls |-> {}]
    /\ polls = [c \in Calls |-> 0]
    /\ tx = [c \in Calls |-> NoTx]
    /\ passes = [c \in Calls |-> FALSE]
    /\ result = [c \in Calls |-> "none"]
    /\ started = 0
    /\ asked = [inputs |-> <<>>, outputs |-> <<>>]

-----------------------------------------------------------------------------
(* The builder methods.                                                    *)

\* A disciplined application finishes configuring before its first call.
Configure == (Disciplined => started = 0) /\ UNCHANGED <<wallet, call, started>>

From(coin) ==
    /\ Configure
    /\ Len(asked.inputs) < MaxInputs
    /\ inputs' = Append(inputs, coin)
    /\ asked' = [asked EXCEPT !.inputs = Append(@, coin)]
    /\ UNCHANGED <<outputs, settings>>

To(output) ==
    /\ Configure
    /\ Len(asked.outputs) < MaxOutputs
    /\ outputs' = Append(outputs, output)
    /\ asked' = [asked EXCEPT !.outputs = Append(@, output)]
    /\ UNCHANGED <<inputs, settings>>

\* Replaces the outputs and declares them; forbidding change also suppresses it.
WithExactOutputs(declared, allowChange) ==
    /\ Configure
    /\ declared # <<>>
    /\ outputs' = declared
    /\ asked' = [asked EXCEPT !.outputs = declared]
    /\ settings' = [settings EXCEPT !.asserted = declared,
                                    !.allowChange = allowChange,
                                    !.minChange = IF allowChange THEN @ ELSE NO_CHANGE]
    /\ UNCHANGED inputs

\* withFeePerByte, withHardcodedFee, withMinChange, withoutChange, withTime and
\* withoutPrevoutVerification assign one field.
Assign(new) ==
    /\ Configure
    /\ settings' = new
    /\ UNCHANGED <<inputs, outputs, asked>>

WithFeePerByte(rate)   == Assign([settings EXCEPT !.feePerByte = rate])
WithHardcodedFee(fee)  == fee <= MAX_FEE_SATOSHIS /\ Assign([settings EXCEPT !.hardcodedFee = fee])
WithMinChange(minimum) == Assign([settings EXCEPT !.minChange = minimum])
WithoutChange          == WithMinChange(NO_CHANGE)
WithTime               == Assign([settings EXCEPT !.locktime = TRUE])
WithoutPrevoutVerification == Assign([settings EXCEPT !.verify = FALSE])

-----------------------------------------------------------------------------
(* setInputsAndOutputs.                                                    *)

Total(coins) == SumOf([i \in 1 .. Len(coins) |-> Value[coins[i]]])
Paid(outs)   == SumOf([i \in 1 .. Len(outs) |-> outs[i].amount])

\* getTxSizeWithoutInputs counts every address output as a P2PKH one.
FeeWithoutInputs ==
    IF settings.hardcodedFee # Unset
      THEN settings.hardcodedFee
      ELSE (BASE_SIZE + Len(outputs) * P2PKH_OUTPUT_SIZE) * settings.feePerByte

\* amount, fee and useHardcodedFee as setInputsAndOutputs first computes them
Quote == [amount |-> Paid(outputs), fee |-> FeeWithoutInputs,
          hard |-> settings.hardcodedFee # Unset]

\* the fee with n inputs
Fee(quote, n) ==
    quote.fee + (IF quote.hard THEN 0 ELSE n * INPUT_SIZE * settings.feePerByte)

\* The reported coins in an order of the sort: the largest first, coins of the same
\* value as the provider happened to report them.
SortedOrders ==
    {sorted \in [1 .. Cardinality(wallet) -> wallet] :
       /\ IsInjective(sorted)
       /\ \A i, j \in DOMAIN sorted : i < j => Value[sorted[i]] >= Value[sorted[j]]}

\* The loop pushes coins until those pushed exceed the amount and their fee.
LoopEnds(sorted, n, quote) ==
    LET enough(m) == Total(SubSeq(sorted, 1, m)) > quote.amount + Fee(quote, m)
    IN  /\ n = Len(sorted) \/ (n > 0 /\ enough(n))
        /\ \A m \in 1 .. n - 1 : ~enough(m)

Selections(quote) ==
    UNION {{SubSeq(sorted, 1, n) : n \in {m \in 0 .. Len(sorted) : LoopEnds(sorted, m, quote)}} :
             sorted \in SortedOrders}

\* What the counted coins leave over, and what is left of it for a change output.
Surplus(coins, quote) == Total(coins) - quote.amount - Fee(quote, Len(coins))

\* the fee of the change output is not deducted
MutChangeOf(coins, quote) == Surplus(coins, quote)

ChangeOf(coins, quote) ==
    Surplus(coins, quote)
      - (IF quote.hard THEN 0 ELSE P2SH_OUTPUT_SIZE * settings.feePerByte)

\* change goes in front
MutWithChange(change) ==
    IF change >= DUST_LIMIT /\ change >= settings.minChange
      THEN <<[to |-> "contract", amount |-> change]>> \o outputs
      ELSE outputs

\* change of any amount is added
MutWithAnyChange(change) ==
    IF change >= 0
      THEN Append(outputs, [to |-> "contract", amount |-> change])
      ELSE outputs

WithChange(change) ==
    IF change >= DUST_LIMIT /\ change >= settings.minChange
      THEN Append(outputs, [to |-> "contract", amount |-> change])
      ELSE outputs

-----------------------------------------------------------------------------
(* The parts of build() that follow.                                       *)

\* assertOutputsMatchTemplate
MatchesTemplate(built) ==
    LET declared == settings.asserted
        extra    == Len(built) - Len(declared)
    IN  declared # <<>> =>
          /\ extra \in {0, 1}
          /\ extra = 1 => settings.allowChange
          /\ SubSeq(built, 1, Len(declared)) = declared
          /\ extra = 1 => Last(built).to = "contract"

WithinCounts(ins, outs) == Len(ins) <= MAX_INPUT_COUNT /\ Len(outs) <= MAX_OUTPUT_COUNT

\* Call c ends; the fields of the builder stay as the call left them.
End(c, how) ==
    /\ pc' = [pc EXCEPT ![c] = "idle"]
    /\ result' = [result EXCEPT ![c] = how]

Suspend(c, await) ==
    /\ pc' = [pc EXCEPT ![c] = await]
    /\ UNCHANGED result

\* setInputsAndOutputs from its computation of the change on; counted are the coins
\* satsAvailable sums up.  New inputs and an appended change output stay even when the
\* call then fails.
Fund(c, counted, quote) ==
    IF Surplus(counted, quote) < 0
      THEN UNCHANGED outputs /\ End(c, "insufficient")
      ELSE outputs' = WithChange(ChangeOf(counted, quote)) /\ Suspend(c, "set")

\* coins are selected on every build
MutBeginFunding(c) ==
    /\ outputs # <<>>
    /\ needed' = [needed EXCEPT ![c] = Quote]
    /\ Suspend(c, "utxos")
    /\ UNCHANGED <<inputs, outputs>>

\* setInputsAndOutputs up to its await, if it has one: coins already in
\* this.inputs are used as they are, whoever put them there.
BeginFunding(c) ==
    /\ UNCHANGED inputs
    /\ \/ /\ outputs = <<>>
          /\ End(c, "error")
          /\ UNCHANGED <<needed, outputs>>
       \/ /\ outputs # <<>> /\ inputs # <<>>
          /\ Fund(c, inputs, Quote)
          /\ UNCHANGED needed
       \/ /\ outputs # <<>> /\ inputs = <<>>
          /\ needed' = [needed EXCEPT ![c] = Quote]
          /\ Suspend(c, "utxos")
          /\ UNCHANGED outputs

-----------------------------------------------------------------------------
(* The calls, await by await.                                              *)

Start(c, method) ==
    /\ pc[c] = "idle"
    /\ Disciplined => asked.inputs # <<>> \/ \A d \in Calls : pc[d] = "idle"
    /\ started < MaxStarts
    /\ started' = started + 1
    /\ kind' = [kind EXCEPT ![c] = method]
    /\ tx' = [tx EXCEPT ![c] = NoTx]
    /\ passes' = [passes EXCEPT ![c] = FALSE]
    /\ polls' = [polls EXCEPT ![c] = 0]
    /\ \/ /\ settings.locktime
          /\ BeginFunding(c)
       \/ /\ ~settings.locktime
          /\ pc' = [pc EXCEPT ![c] = "height"]
          /\ result' = [result EXCEPT ![c] = "none"]
          /\ UNCHANGED <<needed, inputs, outputs>>
    /\ UNCHANGED <<settings, wallet, fetched, asked>>

GotBlockHeight(c) ==
    /\ pc[c] = "height"
    /\ settings' = [settings EXCEPT !.locktime = TRUE]
    /\ BeginFunding(c)
    /\ UNCHANGED <<wallet, kind, fetched, polls, tx, passes, started, asked>>

\* The selected coins are pushed onto whatever this.inputs holds by now, and the
\* change is appended to whatever this.outputs holds by now.
GotUtxos(c) ==
    /\ pc[c] = "utxos"
    /\ \E selected \in Selections(needed[c]) :
         inputs' = inputs \o selected /\ Fund(c, selected, needed[c])
    /\ UNCHANGED <<settings, wallet, kind, needed, fetched, polls, tx, passes, started,
                   asked>>

\* what a call leaves alone once its inputs and outputs are set
Settled == UNCHANGED <<config, wallet, kind, needed, started>>

\* setInputsAndOutputs() has returned: the counts and the template are checked on the
\* fields of this moment.
InputsAndOutputsSet(c) ==
    /\ pc[c] = "set"
    /\ IF WithinCounts(inputs, outputs) /\ MatchesTemplate(outputs)
         THEN Suspend(c, "secp") ELSE End(c, "error")
    /\ UNCHANGED <<fetched, polls, tx, passes>>
    /\ Settled

\* The bytes of a transaction: a contract output is a P2SH one.
SizeOf(ins, outs) ==
    BASE_SIZE + Len(ins) * INPUT_SIZE
      + SumOf([i \in 1 .. Len(outs) |->
                 IF outs[i].to = "contract" THEN P2SH_OUTPUT_SIZE ELSE P2PKH_OUTPUT_SIZE])

\* build() from the signing on, with the inputs and outputs of this moment.
Sign(c) ==
    IF \/ SighashSingle /\ Len(inputs) > Len(outputs)
       \/ SizeOf(inputs, outputs) > MAX_TRANSACTION_SIZE
      THEN End(c, "error") /\ UNCHANGED tx
      ELSE /\ tx' = [tx EXCEPT ![c] = [inputs |-> inputs, outputs |-> outputs,
                                       settings |-> settings]]
           /\ IF kind[c] = "build" THEN End(c, "ok") ELSE Suspend(c, "built")

\* instantiateSecp256k1() resolves; verifyPrevouts asks for the source
\* transactions of the inputs of this moment.
Instantiated(c) ==
    /\ pc[c] = "secp"
    /\ \/ /\ settings.verify
          /\ Suspend(c, "prevouts")
          /\ fetched' = [fetched EXCEPT ![c] = Range(inputs)]
          /\ UNCHANGED tx
       \/ /\ ~settings.verify
          /\ Sign(c)
          /\ UNCHANGED fetched
    /\ UNCHANGED <<polls, passes>>
    /\ Settled

\* The checks of verifyPrevouts: an input without a fetched source fails them too.
Verified(c) == Range(inputs) \subseteq fetched[c] \ Forged

\* The source transactions have arrived, and hash to their txids.
GotPrevouts(c) ==
    /\ pc[c] = "prevouts"
    /\ IF Verified(c) THEN Suspend(c, "verified") ELSE End(c, "error")
    /\ UNCHANGED <<fetched, polls, tx, passes>>
    /\ Settled

\* verifyPrevouts() has returned.
PrevoutsVerified(c) ==
    /\ pc[c] = "verified"
    /\ Sign(c)
    /\ UNCHANGED <<fetched, polls, passes>>
    /\ Settled

\* the fee is not looked at
MutPreflightPasses(ins, outs, bytes) ==
    /\ ins # <<>>
    /\ \A i \in DOMAIN outs : outs[i].amount >= DUST_LIMIT

\* The checks of preflight() that a transaction of that many bytes can fail.
PreflightPasses(ins, outs, bytes) ==
    LET fee == Total(ins) - Paid(outs)
    IN  /\ ins # <<>> /\ outs # <<>> /\ WithinCounts(ins, outs)
        /\ \A i \in DOMAIN outs : outs[i].amount >= DUST_LIMIT
        /\ fee \in 0 .. MAX_FEE_SATOSHIS
        /\ fee <= PREFLIGHT_FEE_PER_BYTE_MAX * bytes

\* preflight() returns its report, to send() or to the application.
Report(c, ok) ==
    /\ passes' = [passes EXCEPT ![c] = ok]
    /\ IF kind[c] = "sendPreflight"
         THEN Suspend(c, "checked")
         ELSE End(c, IF ok THEN "ok" ELSE "rejected")

\* build() has returned the bytes of tx[c]; preflight() reads inputs and outputs anew.
GotHex(c) ==
    /\ pc[c] = "built"
    /\ \/ /\ kind[c] = "send"
          /\ Suspend(c, "broadcast")
          /\ UNCHANGED passes
       \/ LET ok == PreflightPasses(inputs, outputs, SizeOf(tx[c].inputs, tx[c].outputs))
          IN  /\ kind[c] # "send"
              /\ IF CanTestMempool
                   THEN passes' = [passes EXCEPT ![c] = ok] /\ Suspend(c, "mempool")
                   ELSE Report(c, ok)
    /\ UNCHANGED <<fetched, polls, tx>>
    /\ Settled

\* The node accepts or not; a call that fails is only a warning.
TestedMempool(c) ==
    /\ pc[c] = "mempool"
    /\ \E accepted \in BOOLEAN : Report(c, accepted /\ passes[c])
    /\ UNCHANGED <<fetched, polls, tx>>
    /\ Settled

\* preflight() has returned to send().
GotReport(c) ==
    /\ pc[c] = "checked"
    /\ IF passes[c] THEN Suspend(c, "broadcast") ELSE End(c, "rejected")
    /\ UNCHANGED <<fetched, polls, tx, passes>>
    /\ Settled

Broadcast(c) ==
    /\ pc[c] = "broadcast"
    /\ Suspend(c, "poll")
    /\ UNCHANGED <<fetched, polls, tx, passes>>
    /\ Settled

\* every other round starts the count afresh
MutNotVisibleYet(c) ==
    /\ pc[c] = "poll"
    /\ polls[c] < MaxPolls
    /\ polls' = [polls EXCEPT ![c] = IF @ = 0 THEN 1 ELSE 0]
    /\ UNCHANGED <<pc, result, fetched, tx, passes>>
    /\ Settled

\* A round of getTxDetails whose getRawTransaction() throws.
NotVisibleYet(c) ==
    /\ pc[c] = "poll"
    /\ polls[c] < MaxPolls
    /\ polls' = [polls EXCEPT ![c] = @ + 1]
    /\ UNCHANGED <<pc, result, fetched, tx, passes>>
    /\ Settled

Visible(c) ==
    /\ pc[c] = "poll"
    /\ polls[c] < MaxPolls
    /\ End(c, "ok")
    /\ UNCHANGED <<fetched, polls, tx, passes>>
    /\ Settled

\* The awaited promise rejects: the provider fails or refuses the transaction,
\* the caller aborts the polling, or the polled transaction has another hash.
Reject(c) ==
    /\ pc[c] \in {"height", "utxos", "prevouts", "broadcast", "poll"}
    /\ End(c, "error")
    /\ UNCHANGED <<fetched, polls, tx, passes>>
    /\ Settled

\* The loop of getTxDetails runs out.
OutOfPolls(c) ==
    /\ pc[c] = "poll"
    /\ polls[c] = MaxPolls
    /\ End(c, "error")
    /\ UNCHANGED <<fetched, polls, tx, passes>>
    /\ Settled

\* Somebody funds the contract.
Deposit(coin) ==
    /\ coin \notin wallet
    /\ wallet' = wallet \cup {coin}
    /\ UNCHANGED <<config, call, started>>

-----------------------------------------------------------------------------
Resume(c) ==
    \/ GotBlockHeight(c) \/ GotUtxos(c) \/ InputsAndOutputsSet(c) \/ Instantiated(c)
    \/ GotPrevouts(c) \/ PrevoutsVerified(c) \/ GotHex(c)
    \/ TestedMempool(c) \/ GotReport(c) \/ Broadcast(c) \/ NotVisibleYet(c) \/ Visible(c)
    \/ OutOfPolls(c) \/ Reject(c)

Builder ==
    \/ \E coin \in Coins : From(coin)
    \/ \E output \in [to : Destinations, amount : Amounts] : To(output)
    \/ \E output \in [to : Destinations, amount : Amounts], allow \in BOOLEAN :
         WithExactOutputs(<<output>>, allow)
    \/ \E rate \in FeeRates : WithFeePerByte(rate)
    \/ \E fee \in HardcodedFees : WithHardcodedFee(fee)
    \/ \E minimum \in MinChanges : WithMinChange(minimum)
    \/ WithoutChange
    \/ WithTime
    \/ WithoutPrevoutVerification

Next ==
    \/ Builder
    \/ \E c \in Calls, method \in Kinds : Start(c, method)
    \/ \E c \in Calls : Resume(c)
    \/ \E coin \in Coins : Deposit(coin)

Spec == Init /\ [][Next]_vars

\* The provider answers or fails every request, and timers fire.
FairSpec == Spec /\ \A c \in Calls : WF_vars(Resume(c))

-----------------------------------------------------------------------------
(* What a built transaction is worth.                                      *)

Built == {tx[c] : c \in {d \in Calls : tx[d] # NoTx}}

\* No build spends an outpoint the application gave once twice, whatever failed before
\* it: a retry works with the coins the failed call has left in this.inputs.
NoDoubleSpend == IsInjective(asked.inputs) => \A t \in Built : IsInjective(t.inputs)

\* The implied fee covers the bytes of the transaction, or is the hardcoded one;
\* and what it exceeds that by was too little to be change.
FeeIsFair ==
    \A t \in Built :
      LET hard   == t.settings.hardcodedFee # Unset
          rate   == IF hard THEN 0 ELSE t.settings.feePerByte
          due    == IF hard THEN t.settings.hardcodedFee ELSE rate * SizeOf(t.inputs, t.outputs)
          paid   == Total(t.inputs) - Paid(t.outputs)
          slack  == rate * (P2PKH_OUTPUT_SIZE - P2SH_OUTPUT_SIZE) * Len(t.outputs)
          change == Max({DUST_LIMIT, t.settings.minChange}) + rate * P2SH_OUTPUT_SIZE
      IN  paid >= due /\ paid - due < change + slack

\* build() on declared outputs: the transaction has them, in order, and at most a
\* change output to the contract after them, and that only if it was allowed.  Other
\* calls may set inputs and outputs between the assertion and the signing.
TemplateHolds ==
    \A t \in Built :
      LET declared == t.settings.asserted
      IN  declared # <<>> =>
            \/ t.outputs = declared
            \/ /\ t.settings.allowChange
               /\ Front(t.outputs) = declared
               /\ Last(t.outputs).to = "contract"

\* The transaction pays what the application asked for and nothing else, but for
\* one change output: after a first build a second one finds too little left over for
\* another, whatever Transaction.ts:637-640 and Preflight.test.ts:309-311 expect of it.
PaysAsAsked ==
    \A t \in Built :
      \/ t.outputs = asked.outputs
      \/ Front(t.outputs) = asked.outputs /\ Last(t.outputs).to = "contract"

\* build(): "authenticate every input's prevout (value + locking script) against its
\* source transaction BEFORE signing", whatever runs in the awaits before the signing.
SignedAreVerified ==
    \A t \in Built : t.settings.verify => Range(t.inputs) \cap Forged = {}

\* A transaction that send() broadcasts after a preflight passes the checks itself,
\* although they were made on fields read after the await of build().
PreflightGuards ==
    \A c \in Calls :
      kind[c] = "sendPreflight" /\ pc[c] \in {"broadcast", "poll"} =>
        LET fee == Total(tx[c].inputs) - Paid(tx[c].outputs)
        IN  /\ fee \in 0 .. MAX_FEE_SATOSHIS
            /\ fee <= PREFLIGHT_FEE_PER_BYTE_MAX * SizeOf(tx[c].inputs, tx[c].outputs)
            /\ \A i \in DOMAIN tx[c].outputs : tx[c].outputs[i].amount >= DUST_LIMIT

\* Every call ends, a send() after at most MaxPolls rounds.
CallsEnd == \A c \in Calls : pc[c] # "idle" ~> pc[c] = "idle"
=============================================================================
