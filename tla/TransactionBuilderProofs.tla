----------------------- MODULE TransactionBuilderProofs -----------------------
(***************************************************************************)
(* Proofs about TransactionBuilder for any coins, amounts, settings, sizes *)
(* and limits: type correctness for every application, and, for one that   *)
(* keeps the discipline of Disciplined, what a transaction has as the fee, *)
(* keeps of the template, pays and spends, what is signed and what is      *)
(* broadcast, whatever other calls do while one of them is suspended.      *)
(***************************************************************************)
EXTENDS TransactionBuilder, SumsProofs, FiniteSetTheorems, TLAPS

-----------------------------------------------------------------------------
(* Amounts and sizes.                                                      *)

LEMMA ConstantTypes ==
  /\ Value \in [Coins -> Nat]
  /\ Amounts \subseteq Nat /\ FeeRates \subseteq Nat
  /\ HardcodedFees \subseteq Nat /\ MinChanges \subseteq Nat
  /\ DUST_LIMIT \in Nat \ {0} /\ NO_CHANGE \in Nat
  /\ P2PKH_OUTPUT_SIZE \in Nat /\ P2SH_OUTPUT_SIZE \in Nat
  /\ P2SH_OUTPUT_SIZE <= P2PKH_OUTPUT_SIZE
  /\ INPUT_SIZE \in Nat /\ BASE_SIZE \in Nat
  BY BuilderAssumption

OutputBytes(output) == IF output.to = "contract" THEN P2SH_OUTPUT_SIZE ELSE P2PKH_OUTPUT_SIZE

LEMMA TotalType ==
  ASSUME NEW coins \in Seq(Coins)
  PROVE  Total(coins) \in Nat
  <1>1. [i \in 1 .. Len(coins) |-> Value[coins[i]]] \in Seq(Nat)
    <2>1. Len(coins) \in Nat /\ \A i \in 1 .. Len(coins) : coins[i] \in Coins
      BY LenProperties, ElementOfSeq
    <2>2. \A i \in 1 .. Len(coins) : Value[coins[i]] \in Nat
      BY <2>1, ConstantTypes
    <2> QED
      BY <2>1, <2>2, SeqDef
  <1> QED
    BY <1>1, SumIsNat DEF Total

LEMMA PaidType ==
  ASSUME NEW outs \in Seq(Output)
  PROVE  /\ [i \in 1 .. Len(outs) |-> outs[i].amount] \in Seq(Nat)
         /\ Paid(outs) \in Nat
  <1>1. [i \in 1 .. Len(outs) |-> outs[i].amount] \in Seq(Nat)
    <2>1. Len(outs) \in Nat /\ \A i \in 1 .. Len(outs) : outs[i] \in Output
      BY LenProperties, ElementOfSeq
    <2>2. \A i \in 1 .. Len(outs) : outs[i].amount \in Nat
      BY <2>1 DEF Output
    <2> QED
      BY <2>1, <2>2, SeqDef
  <1> QED
    BY <1>1, SumIsNat DEF Paid

Sizes(outs) == [i \in 1 .. Len(outs) |-> OutputBytes(outs[i])]

\* Every output takes between a P2SH output's bytes and a P2PKH output's.
LEMMA SizesType ==
  ASSUME NEW outs \in Seq(Output)
  PROVE  /\ Sizes(outs) \in Seq(Nat) /\ Len(Sizes(outs)) = Len(outs)
         /\ SumOf(Sizes(outs)) \in Nat
         /\ P2SH_OUTPUT_SIZE * Len(outs) <= SumOf(Sizes(outs))
         /\ SumOf(Sizes(outs)) <= P2PKH_OUTPUT_SIZE * Len(outs)
  <1>1. Sizes(outs) \in Seq(Nat) /\ Len(Sizes(outs)) = Len(outs)
    <2>1. Len(outs) \in Nat
      BY LenProperties
    <2>2. \A i \in 1 .. Len(outs) : OutputBytes(outs[i]) \in Nat
      BY ConstantTypes DEF OutputBytes
    <2>3. Sizes(outs) \in [1 .. Len(outs) -> Nat]
      BY <2>2 DEF Sizes
    <2> QED
      BY <2>1, <2>3, SeqDef, LenProperties
  <1>2. Sizes(outs) \in Seq(Int)
    BY <1>1, SeqMonotonic, Nat \subseteq Int
  <1>3. \A i \in 1 .. Len(Sizes(outs)) :
          P2SH_OUTPUT_SIZE <= Sizes(outs)[i] /\ Sizes(outs)[i] <= P2PKH_OUTPUT_SIZE
    BY <1>1, ConstantTypes DEF Sizes, OutputBytes
  <1>4. P2SH_OUTPUT_SIZE \in Int /\ P2PKH_OUTPUT_SIZE \in Int
    BY ConstantTypes
  <1>5. /\ P2SH_OUTPUT_SIZE * Len(Sizes(outs)) <= SumOf(Sizes(outs))
        /\ SumOf(Sizes(outs)) <= P2PKH_OUTPUT_SIZE * Len(Sizes(outs))
    BY <1>2, <1>3, <1>4, SumBetween
  <1> QED
    BY <1>1, <1>5, SumIsNat

LEMMA SizeOfIs ==
  ASSUME NEW ins, NEW outs
  PROVE  SizeOf(ins, outs) = BASE_SIZE + Len(ins) * INPUT_SIZE + SumOf(Sizes(outs))
  BY DEF SizeOf, Sizes, OutputBytes

LEMMA SizeOfType ==
  ASSUME NEW ins \in Seq(Coins), NEW outs \in Seq(Output)
  PROVE  SizeOf(ins, outs) \in Nat
  <1>1. Len(ins) * INPUT_SIZE \in Nat
    BY LenProperties, ConstantTypes
  <1>2. SumOf(Sizes(outs)) \in Nat /\ BASE_SIZE \in Nat
    BY SizesType, ConstantTypes
  <1>3. SizeOf(ins, outs) = BASE_SIZE + Len(ins) * INPUT_SIZE + SumOf(Sizes(outs))
    BY SizeOfIs
  <1> QED
    BY <1>1, <1>2, <1>3

\* One more output is paid, and takes its bytes.
LEMMA OneMoreOutput ==
  ASSUME NEW outs \in Seq(Output), NEW output \in Output
  PROVE  /\ Paid(Append(outs, output)) = Paid(outs) + output.amount
         /\ SumOf(Sizes(Append(outs, output))) = SumOf(Sizes(outs)) + OutputBytes(output)
  <1> DEFINE more == Append(outs, output)
             f == [i \in 1 .. Len(outs) |-> outs[i].amount]
             g == [i \in 1 .. Len(more) |-> more[i].amount]
  <1>1. /\ more \in Seq(Output)
        /\ Len(more) = Len(outs) + 1 /\ Len(outs) \in Nat
        /\ \A i \in 1 .. Len(outs) : more[i] = outs[i]
        /\ more[Len(outs) + 1] = output
    BY AppendProperties, LenProperties
  <1> HIDE DEF more
  <1>2. f \in Seq(Int) /\ g \in Seq(Int) /\ Len(f) = Len(outs) /\ Len(g) = Len(more)
    BY <1>1, PaidType, LenProperties, SeqMonotonic, Nat \subseteq Int
  <1>3. SumOf(g) = SumOf(f) + g[Len(g)]
    <2>1. \A i \in 1 .. Len(f) : g[i] = f[i]
      BY <1>1, <1>2
    <2> HIDE DEF f, g
    <2> QED
      BY <1>1, <1>2, <2>1, SumOfLonger
  <1>4. /\ Sizes(outs) \in Seq(Int) /\ Len(Sizes(outs)) = Len(outs)
        /\ Sizes(more) \in Seq(Int) /\ Len(Sizes(more)) = Len(more)
    BY <1>1, SizesType, SeqMonotonic, Nat \subseteq Int
  <1>5. SumOf(Sizes(more)) = SumOf(Sizes(outs)) + Sizes(more)[Len(more)]
    <2>1. \A i \in 1 .. Len(Sizes(outs)) : Sizes(more)[i] = Sizes(outs)[i]
      BY <1>1, <1>4 DEF Sizes
    <2> QED
      BY <1>1, <1>4, <2>1, SumOfLonger
  <1>6. g[Len(g)] = output.amount /\ Sizes(more)[Len(more)] = OutputBytes(output)
    BY <1>1, <1>2 DEF Sizes
  <1> QED
    BY <1>3, <1>5, <1>6 DEF Paid, more

\* The coins selected are the wallet's, each once.
LEMMA SelectionsType ==
  ASSUME wallet \subseteq Coins, NEW quote, NEW selected \in Selections(quote)
  PROVE  selected \in Seq(Coins) /\ IsInjective(selected)
  <1>1. Cardinality(wallet) \in Nat
    BY FS_Subset, FS_CardinalityType, BuilderAssumption
  <1>2. PICK sorted \in SortedOrders : \E n \in 0 .. Len(sorted) : selected = SubSeq(sorted, 1, n)
    BY DEF Selections
  <1>n. PICK n \in 0 .. Len(sorted) : selected = SubSeq(sorted, 1, n)
    BY <1>2
  <1>3. /\ sorted \in [1 .. Cardinality(wallet) -> Coins]
        /\ IsInjective(sorted)
    BY <1>2 DEF SortedOrders
  <1>4. sorted \in Seq(Coins) /\ Len(sorted) = Cardinality(wallet)
    BY <1>1, <1>3, SeqDef, LenProperties
  <1>5. n \in Nat /\ n <= Len(sorted) /\ \A i \in 1 .. n : sorted[i] \in Coins
    BY <1>1, <1>n, <1>3, <1>4
  <1>6. /\ selected \in Seq(Coins)
        /\ Len(selected) = IF 1 <= n THEN n ELSE 0
        /\ \A i \in 1 .. n : selected[i] = sorted[i]
    BY <1>n, <1>5, SubSeqProperties
  <1>7. DOMAIN selected = 1 .. n
    BY <1>5, <1>6, LenProperties
  <1> QED
    BY <1>1, <1>3, <1>4, <1>5, <1>6, <1>7 DEF IsInjective

-----------------------------------------------------------------------------
(* Types.                                                                  *)

Quotes == [amount : Nat, fee : Nat, hard : BOOLEAN]

ProgressTypes == pc \in [Calls -> Awaits] /\ result \in [Calls -> Results]

LEMMA SettingsTypes ==
  ASSUME settings \in Settings
  PROVE  /\ settings.feePerByte \in Nat /\ settings.minChange \in Nat
         /\ settings.hardcodedFee # Unset => settings.hardcodedFee \in Nat
  <1>1. /\ settings.feePerByte \in FeeRates \cup {1}
        /\ settings.minChange \in MinChanges \cup {DUST_LIMIT, NO_CHANGE}
        /\ settings.hardcodedFee \in HardcodedFees \cup {-1}
    BY DEF Settings
  <1>2. settings.feePerByte \in Nat
    <2>1. settings.feePerByte = 1 \/ settings.feePerByte \in FeeRates
      BY <1>1
    <2>2. FeeRates \subseteq Nat /\ 1 \in Nat
      BY ConstantTypes
    <2> QED
      BY <2>1, <2>2
  <1>3. settings.minChange \in Nat
    BY <1>1, ConstantTypes
  <1>4. settings.hardcodedFee # Unset => settings.hardcodedFee \in Nat
    BY <1>1, ConstantTypes DEF Unset
  <1> QED
    BY <1>2, <1>3, <1>4

LEMMA FeeTypes ==
  ASSUME settings \in Settings, NEW quote \in Quotes, NEW n \in Nat
  PROVE  Fee(quote, n) \in Nat
  <1>1. n * INPUT_SIZE * settings.feePerByte \in Nat
    BY SettingsTypes, ConstantTypes
  <1> QED
    BY <1>1 DEF Fee, Quotes

LEMMA QuoteType ==
  ASSUME settings \in Settings, outputs \in Seq(Output)
  PROVE  Quote \in Quotes
  <1>1. Len(outputs) \in Nat
    BY LenProperties
  <1>2. (BASE_SIZE + Len(outputs) * P2PKH_OUTPUT_SIZE) * settings.feePerByte \in Nat
    BY <1>1, SettingsTypes, ConstantTypes
  <1>3. FeeWithoutInputs \in Nat
    BY <1>2, SettingsTypes DEF FeeWithoutInputs
  <1> QED
    BY <1>3, PaidType DEF Quote, Quotes

LEMMA SurplusType ==
  ASSUME settings \in Settings, NEW quote \in Quotes, NEW coins \in Seq(Coins)
  PROVE  Surplus(coins, quote) \in Int /\ ChangeOf(coins, quote) \in Int
  <1>1. Fee(quote, Len(coins)) \in Nat
    BY FeeTypes, LenProperties
  <1>2. Surplus(coins, quote) \in Int
    BY <1>1, TotalType DEF Surplus, Quotes
  <1>3. P2SH_OUTPUT_SIZE * settings.feePerByte \in Nat
    BY SettingsTypes, ConstantTypes
  <1> QED
    BY <1>2, <1>3 DEF ChangeOf

LEMMA WithChangeType ==
  ASSUME outputs \in Seq(Output), NEW change \in Int
  PROVE  WithChange(change) \in Seq(Output)
  <1>1. CASE change >= DUST_LIMIT /\ change >= settings.minChange
    <2>1. [to |-> "contract", amount |-> change] \in Output
      BY <1>1, ConstantTypes DEF Output, Destinations
    <2> QED
      BY <1>1, <2>1, AppendProperties DEF WithChange
  <1>2. CASE ~(change >= DUST_LIMIT /\ change >= settings.minChange)
    BY <1>2 DEF WithChange
  <1> QED
    BY <1>1, <1>2

LEMMA EndType ==
  ASSUME ProgressTypes, NEW c \in Calls, NEW how \in Results, End(c, how)
  PROVE  ProgressTypes'
  BY DEF ProgressTypes, End, Awaits

LEMMA SuspendType ==
  ASSUME ProgressTypes, NEW c \in Calls, NEW await \in Awaits, Suspend(c, await)
  PROVE  ProgressTypes'
  BY DEF ProgressTypes, Suspend

LEMMA FundType ==
  ASSUME ProgressTypes, settings \in Settings, outputs \in Seq(Output), NEW c \in Calls,
         NEW quote \in Quotes, NEW counted \in Seq(Coins), Fund(c, counted, quote)
  PROVE  outputs' \in Seq(Output) /\ ProgressTypes'
  <1>1. CASE Surplus(counted, quote) < 0
    BY <1>1, EndType DEF Fund, Results
  <1>2. CASE ~(Surplus(counted, quote) < 0)
    <2>1. outputs' = WithChange(ChangeOf(counted, quote))
      BY <1>2 DEF Fund
    <2>2. outputs' \in Seq(Output)
      BY <2>1, SurplusType, WithChangeType
    <2>3. Suspend(c, "set")
      BY <1>2 DEF Fund
    <2> QED
      BY <2>2, <2>3, SuspendType DEF Awaits
  <1> QED
    BY <1>1, <1>2

LEMMA BeginFundingType ==
  ASSUME TypeOK, NEW c \in Calls, BeginFunding(c)
  PROVE  /\ inputs' \in Seq(Coins) /\ outputs' \in Seq(Output) /\ ProgressTypes'
         /\ needed' \in [Calls -> Quotes]
  <1> USE DEF TypeOK
  <1>1. ProgressTypes /\ needed \in [Calls -> Quotes]
    BY DEF ProgressTypes, Quotes
  <1>2. inputs' = inputs
    BY DEF BeginFunding
  <1>3. CASE outputs = <<>> /\ End(c, "error") /\ UNCHANGED <<needed, outputs>>
    BY <1>1, <1>2, <1>3, EndType DEF Results
  <1>4. CASE Fund(c, inputs, Quote) /\ UNCHANGED needed
    BY <1>1, <1>2, <1>4, FundType, QuoteType
  <1>5. CASE needed' = [needed EXCEPT ![c] = Quote] /\ Suspend(c, "utxos") /\ UNCHANGED outputs
    <2>1. needed' \in [Calls -> Quotes]
      BY <1>1, <1>5, QuoteType
    <2> QED
      BY <1>1, <1>2, <1>5, <2>1, SuspendType DEF Awaits
  <1> QED
    BY <1>3, <1>4, <1>5 DEF BeginFunding

LEMMA ReportType ==
  ASSUME ProgressTypes, passes \in [Calls -> BOOLEAN], NEW c \in Calls, NEW ok \in BOOLEAN,
         Report(c, ok)
  PROVE  ProgressTypes' /\ passes' \in [Calls -> BOOLEAN]
  <1>1. CASE Suspend(c, "checked")
    BY <1>1, SuspendType DEF Awaits, Report
  <1>2. CASE End(c, "ok") \/ End(c, "rejected")
    BY <1>2, EndType DEF Results, Report
  <1> QED
    BY <1>1, <1>2 DEF Report

\* What signing does: it fails, or keeps the transaction and ends or suspends.
LEMMA SignCases ==
  ASSUME NEW c \in Calls, Sign(c)
  PROVE  \/ End(c, "error") /\ UNCHANGED tx
         \/ /\ tx' = [tx EXCEPT ![c] = [inputs |-> inputs, outputs |-> outputs,
                                        settings |-> settings]]
            /\ End(c, "ok") \/ Suspend(c, "built")
  BY DEF Sign

LEMMA SignType ==
  ASSUME TypeOK, NEW c \in Calls, Sign(c)
  PROVE  ProgressTypes' /\ tx' \in [Calls -> {NoTx} \cup Transactions]
  <1>1. ProgressTypes
    BY DEF TypeOK, ProgressTypes
  <1>2. tx' \in [Calls -> {NoTx} \cup Transactions]
    <2> DEFINE built == [inputs |-> inputs, outputs |-> outputs, settings |-> settings]
    <2>1. built \in Transactions
      BY DEF TypeOK, Transactions
    <2>2. tx' = tx \/ tx' = [tx EXCEPT ![c] = built]
      BY SignCases
    <2> HIDE DEF built
    <2> QED
      BY <2>1, <2>2 DEF TypeOK
  <1>3. End(c, "error") \/ End(c, "ok") \/ Suspend(c, "built")
    BY SignCases
  <1> QED
    BY <1>1, <1>2, <1>3, EndType, SuspendType DEF Results, Awaits

\* A builder method keeps the types.
LEMMA BuilderTypes ==
  ASSUME TypeOK, Builder
  PROVE  TypeOK'
  <1> USE DEF TypeOK
  <1>1. ASSUME NEW output \in [to : Destinations, amount : Amounts] PROVE output \in Output
    BY ConstantTypes DEF Output
  <1>2. ASSUME NEW new \in Settings, Assign(new) PROVE TypeOK'
    BY <1>2 DEF Assign, Configure, call
  <1>3. ASSUME NEW coin \in Coins, From(coin) PROVE TypeOK'
    <2>1. inputs' \in Seq(Coins) /\ asked'.inputs \in Seq(Coins)
      BY <1>3, AppendProperties DEF From
    <2> QED
      BY <1>3, <2>1 DEF From, Configure, call
  <1>4. ASSUME NEW output \in [to : Destinations, amount : Amounts], To(output) PROVE TypeOK'
    <2>1. outputs' \in Seq(Output) /\ asked'.outputs \in Seq(Output)
      BY <1>1, <1>4, AppendProperties DEF To
    <2> QED
      BY <1>4, <2>1 DEF To, Configure, call
  <1>5. ASSUME NEW output \in [to : Destinations, amount : Amounts], NEW allow \in BOOLEAN,
               WithExactOutputs(<<output>>, allow)
        PROVE  TypeOK'
    <2>1. <<output>> \in Seq(Output)
      BY <1>1
    <2>2. settings' \in Settings
      BY <1>5, <2>1 DEF WithExactOutputs, Settings
    <2> QED
      BY <1>5, <2>1, <2>2 DEF WithExactOutputs, Configure, call
  <1>6. ASSUME NEW rate \in FeeRates, WithFeePerByte(rate) PROVE TypeOK'
    <2>1. [settings EXCEPT !.feePerByte = rate] \in Settings
      BY DEF Settings
    <2> QED
      BY <1>2, <1>6, <2>1 DEF WithFeePerByte
  <1>7. ASSUME NEW fee \in HardcodedFees, WithHardcodedFee(fee) PROVE TypeOK'
    <2>1. [settings EXCEPT !.hardcodedFee = fee] \in Settings
      BY DEF Settings
    <2> QED
      BY <1>2, <1>7, <2>1 DEF WithHardcodedFee
  <1>8. ASSUME NEW minimum \in MinChanges \cup {NO_CHANGE}, WithMinChange(minimum) PROVE TypeOK'
    <2>1. [settings EXCEPT !.minChange = minimum] \in Settings
      BY DEF Settings
    <2> QED
      BY <1>2, <1>8, <2>1 DEF WithMinChange
  <1>9. ASSUME WithTime PROVE TypeOK'
    <2>1. [settings EXCEPT !.locktime = TRUE] \in Settings
      BY DEF Settings
    <2> QED
      BY <1>2, <1>9, <2>1 DEF WithTime
  <1>10. ASSUME WithoutPrevoutVerification PROVE TypeOK'
    <2>1. [settings EXCEPT !.verify = FALSE] \in Settings
      BY DEF Settings
    <2> QED
      BY <1>2, <1>10, <2>1 DEF WithoutPrevoutVerification
  <1> QED
    BY <1>3, <1>4, <1>5, <1>6, <1>7, <1>8, <1>9, <1>10 DEF Builder, WithoutChange

\* So does a call, from its start to its end.
LEMMA CallTypes ==
  ASSUME TypeOK, NEW c \in Calls, (\E method \in Kinds : Start(c, method)) \/ Resume(c)
  PROVE  TypeOK'
  <1> USE DEF TypeOK
  <1>p. ProgressTypes
    BY DEF ProgressTypes
  <1>q. ASSUME ProgressTypes', UNCHANGED <<inputs, outputs, settings, asked, wallet, kind, needed, started>>,
               fetched' \in [Calls -> SUBSET Coins], polls' \in [Calls -> 0 .. MaxPolls],
               tx' \in [Calls -> {NoTx} \cup Transactions], passes' \in [Calls -> BOOLEAN]
        PROVE  TypeOK'
    BY <1>q DEF ProgressTypes
  <1>r. MaxStarts \in Nat /\ MaxPolls \in Nat
    BY BuilderAssumption
  <1>1. ASSUME NEW method \in Kinds, Start(c, method) PROVE TypeOK'
    <2>1. /\ started' \in 0 .. MaxStarts /\ kind' \in [Calls -> Kinds]
          /\ tx' \in [Calls -> {NoTx} \cup Transactions] /\ polls' \in [Calls -> 0 .. MaxPolls]
          /\ passes' \in [Calls -> BOOLEAN]
          /\ UNCHANGED <<settings, wallet, fetched, asked>>
      BY <1>1, <1>r DEF Start
    <2>2. CASE BeginFunding(c)
      BY <2>1, <2>2, BeginFundingType DEF ProgressTypes, Quotes
    <2>3. CASE /\ pc' = [pc EXCEPT ![c] = "height"]
               /\ result' = [result EXCEPT ![c] = "none"]
               /\ UNCHANGED <<needed, inputs, outputs>>
      BY <2>1, <2>3 DEF Awaits, Results
    <2> QED
      BY <1>1, <2>2, <2>3 DEF Start
  <1>2. ASSUME GotBlockHeight(c) PROVE TypeOK'
    <2>1. settings' \in Settings
      BY <1>2 DEF GotBlockHeight, Settings
    <2>2. BeginFunding(c) /\ UNCHANGED <<wallet, kind, fetched, polls, tx, passes, started, asked>>
      BY <1>2 DEF GotBlockHeight
    <2> QED
      BY <2>1, <2>2, BeginFundingType DEF ProgressTypes, Quotes
  <1>3. ASSUME GotUtxos(c) PROVE TypeOK'
    <2>1. PICK selected \in Selections(needed[c]) :
            inputs' = inputs \o selected /\ Fund(c, selected, needed[c])
      BY <1>3 DEF GotUtxos
    <2>2. selected \in Seq(Coins)
      BY SelectionsType
    <2>3. inputs' \in Seq(Coins)
      BY <2>1, <2>2, ConcatProperties
    <2>4. needed[c] \in Quotes
      BY DEF Quotes
    <2>5. outputs' \in Seq(Output) /\ ProgressTypes'
      BY <1>p, <2>1, <2>2, <2>4, FundType
    <2> QED
      BY <1>3, <2>3, <2>5 DEF GotUtxos, ProgressTypes
  <1>4. ASSUME Instantiated(c) PROVE TypeOK'
    <2>1. CASE Suspend(c, "prevouts") /\ fetched' = [fetched EXCEPT ![c] = Range(inputs)] /\ UNCHANGED tx
      <3>1. Range(inputs) \in SUBSET Coins
        BY RangeOfSeq
      <3>2. ProgressTypes'
        BY <1>p, <2>1, SuspendType DEF Awaits
      <3> QED
        BY <1>4, <1>q, <2>1, <3>1, <3>2 DEF Instantiated, Settled, config
    <2>2. CASE Sign(c) /\ UNCHANGED fetched
      BY <1>4, <1>q, <2>2, SignType DEF Instantiated, Settled, config
    <2> QED
      BY <1>4, <2>1, <2>2 DEF Instantiated
  <1>5. ASSUME PrevoutsVerified(c) PROVE TypeOK'
    BY <1>5, <1>q, SignType DEF PrevoutsVerified, Settled, config
  <1>6. ASSUME TestedMempool(c) \/ GotHex(c) PROVE TypeOK'
    <2>1. UNCHANGED <<fetched, polls, tx>> /\ Settled
      BY <1>6 DEF TestedMempool, GotHex
    <2>2. \/ Suspend(c, "broadcast") /\ UNCHANGED passes
          \/ \E ok \in BOOLEAN : passes' = [passes EXCEPT ![c] = ok] /\ Suspend(c, "mempool")
          \/ \E ok \in BOOLEAN : Report(c, ok)
      BY <1>6 DEF TestedMempool, GotHex, PreflightPasses
    <2>3. ProgressTypes' /\ passes' \in [Calls -> BOOLEAN]
      BY <1>p, <2>2, SuspendType, ReportType DEF Awaits
    <2> QED
      BY <1>q, <2>1, <2>3 DEF Settled, config
  <1>7. ASSUME NotVisibleYet(c) PROVE TypeOK'
    <2>1. polls' \in [Calls -> 0 .. MaxPolls]
      BY <1>7, <1>r DEF NotVisibleYet
    <2>2. ProgressTypes'
      BY <1>p, <1>7 DEF NotVisibleYet, ProgressTypes
    <2> QED
      BY <1>7, <1>q, <2>1, <2>2 DEF NotVisibleYet, Settled, config
  <1>8. ASSUME \/ InputsAndOutputsSet(c) \/ GotPrevouts(c) \/ GotReport(c) \/ Broadcast(c)
               \/ Visible(c) \/ OutOfPolls(c) \/ Reject(c)
        PROVE  TypeOK'
    <2>1. UNCHANGED <<fetched, polls, tx, passes>> /\ Settled
      BY <1>8 DEF InputsAndOutputsSet, GotPrevouts, GotReport, Broadcast, Visible, OutOfPolls,
                  Reject
    <2>2. (\E how \in Results : End(c, how)) \/ (\E await \in Awaits : Suspend(c, await))
      BY <1>8 DEF InputsAndOutputsSet, GotPrevouts, GotReport, Broadcast, Visible, OutOfPolls,
                  Reject, Results, Awaits
    <2>3. ProgressTypes'
      BY <1>p, <2>2, EndType, SuspendType
    <2> QED
      BY <1>q, <2>1, <2>3 DEF Settled, config
  <1> QED
    BY <1>1, <1>2, <1>3, <1>4, <1>5, <1>6, <1>7, <1>8 DEF Resume

LEMMA TypeOKStep ==
  ASSUME TypeOK, [Next]_vars
  PROVE  TypeOK'
  <1>1. CASE \E coin \in Coins : Deposit(coin)
    BY <1>1 DEF Deposit, TypeOK, config, call
  <1>2. CASE UNCHANGED vars
    BY <1>2 DEF TypeOK, vars, config, call
  <1> QED
    BY <1>1, <1>2, BuilderTypes, CallTypes DEF Next

LEMMA TypeOKInit == Init => TypeOK
  <1> SUFFICES ASSUME Init PROVE TypeOK
    OBVIOUS
  <1>1. settings \in Settings
    BY DEF Init, Settings, Unset
  <1>2. 0 \in 0 .. MaxPolls /\ 0 \in 0 .. MaxStarts
    BY BuilderAssumption
  <1> QED
    BY <1>1, <1>2 DEF Init, TypeOK, Awaits, Kinds, Results

\* Every variable keeps its type: amounts, fees and change are never negative, the
\* selected coins are coins of the wallet, and a transaction kept has all its parts.
THEOREM TypeCorrect == Spec => []TypeOK
  <1> QED
    BY TypeOKInit, TypeOKStep, PTL DEF Spec

-----------------------------------------------------------------------------
(* What one step does.                                                     *)

\* what a call would keep if it signed now
Candidate == [inputs |-> inputs, outputs |-> outputs, settings |-> settings]

LEMMA BuiltAfter ==
  ASSUME tx \in [Calls -> {NoTx} \cup Transactions], NEW c \in Calls, NEW t,
         tx' = [tx EXCEPT ![c] = t], NEW b \in Built'
  PROVE  b \in Built \/ (b = t /\ t # NoTx)
  BY DEF Built

\* Call c is about to sign.
Signing(c) == pc[c] = "verified" \/ (pc[c] = "secp" /\ ~settings.verify)

\* A transaction is built by a call that signs: what the builder holds at that moment.
LEMMA BuiltStep ==
  ASSUME TypeOK, [Next]_vars, NEW t \in Built'
  PROVE  \/ t \in Built
         \/ t = Candidate /\ (\E c \in Calls : Signing(c)) /\ UNCHANGED asked
  <1> DEFINE Signs(c) == Sign(c) /\ Signing(c) /\ UNCHANGED asked
  <1> SUFFICES ASSUME t \notin Built
               PROVE  t = Candidate /\ \E c \in Calls : Signs(c)
    OBVIOUS
  <1>1. ~UNCHANGED tx
    BY DEF Built
  <1>2. ASSUME NEW c \in Calls, NEW method \in Kinds PROVE ~Start(c, method)
    BY BuiltAfter DEF Start, TypeOK
  <1>3. ASSUME NEW c \in Calls, Resume(c) PROVE Signs(c)
    <2>1. Instantiated(c) \/ PrevoutsVerified(c)
      BY <1>1, <1>3 DEF Resume, GotBlockHeight, GotUtxos, InputsAndOutputsSet, GotPrevouts,
                        GotHex, TestedMempool, GotReport, Broadcast, NotVisibleYet, Visible,
                        OutOfPolls, Reject
    <2> QED
      BY <1>1, <2>1 DEF Instantiated, PrevoutsVerified, Signing, Settled, config
  <1>4. ~Builder
    BY <1>1 DEF Builder, From, To, WithExactOutputs, WithFeePerByte, WithHardcodedFee,
                WithMinChange, WithoutChange, WithTime, WithoutPrevoutVerification,
                Assign, Configure, call
  <1>5. ~(\E coin \in Coins : Deposit(coin)) /\ ~UNCHANGED vars
    BY <1>1 DEF Deposit, vars, call
  <1>6. PICK c \in Calls : Signs(c)
    BY <1>2, <1>3, <1>4, <1>5 DEF Next
  <1>7. tx' = [tx EXCEPT ![c] = Candidate]
    BY <1>1, <1>6, SignCases DEF Candidate
  <1>8. t = Candidate
    BY <1>7, BuiltAfter DEF TypeOK
  <1> QED
    BY <1>6, <1>8

LEMMA BuilderFrame ==
  ASSUME Builder
  PROVE  Configure /\ UNCHANGED <<wallet, call, started>>
  BY DEF Builder, From, To, WithExactOutputs, WithFeePerByte, WithHardcodedFee,
         WithMinChange, WithoutChange, WithTime, WithoutPrevoutVerification, Assign, Configure

LEMMA FundPc ==
  ASSUME NEW c \in Calls, NEW counted, NEW quote, Fund(c, counted, quote)
  PROVE  \E s \in {"idle", "set"} : pc' = [pc EXCEPT ![c] = s]
  BY DEF Fund, End, Suspend

LEMMA BeginFundingPc ==
  ASSUME NEW c \in Calls, BeginFunding(c)
  PROVE  \E s \in {"idle", "utxos", "set"} : pc' = [pc EXCEPT ![c] = s]
  BY FundPc DEF BeginFunding, End, Suspend

LEMMA ReportPc ==
  ASSUME NEW c \in Calls, NEW ok, Report(c, ok)
  PROVE  /\ \E s \in {"idle", "checked"} : pc' = [pc EXCEPT ![c] = s]
         /\ passes' = [passes EXCEPT ![c] = ok]
  BY DEF Report, End, Suspend

\* the settings a call leaves as they are
SameSettings == settings' = settings \/ settings' = [settings EXCEPT !.locktime = TRUE]

\* The awaits after a call's inputs and outputs are set, and before their last use.
Funded == {"set", "secp", "prevouts", "verified", "built"}

\* The actions of a call that leave the fields of the builder alone.
Steady(c) ==
    \/ InputsAndOutputsSet(c) \/ Instantiated(c) \/ GotPrevouts(c) \/ PrevoutsVerified(c)
    \/ GotHex(c) \/ TestedMempool(c) \/ GotReport(c) \/ Broadcast(c) \/ NotVisibleYet(c)
    \/ Visible(c) \/ OutOfPolls(c) \/ Reject(c)

LEMMA SteadyFrame ==
  ASSUME TypeOK, NEW c \in Calls, Steady(c)
  PROVE  /\ pc[c] # "idle" /\ Settled
         /\ \E s \in Awaits \ {"height", "utxos", "set"} :
              pc' = [pc EXCEPT ![c] = s] /\ (s \in Funded => pc[c] \in Funded)
         /\ \A d \in Calls \ {c} : tx'[d] = tx[d] /\ passes'[d] = passes[d]
  <1> USE DEF TypeOK
  <1> DEFINE Goes(s) == pc' = [pc EXCEPT ![c] = s]
  <1>1. ASSUME Sign(c)
        PROVE  /\ Goes("idle") \/ Goes("built")
               /\ \A d \in Calls \ {c} : tx'[d] = tx[d]
    BY <1>1, SignCases DEF End, Suspend
  <1>2. CASE InputsAndOutputsSet(c)
    BY <1>2 DEF InputsAndOutputsSet, End, Suspend, Awaits, Funded
  <1>3. CASE Instantiated(c)
    BY <1>1, <1>3 DEF Instantiated, Suspend, Awaits, Funded
  <1>4. CASE GotPrevouts(c)
    BY <1>4 DEF GotPrevouts, End, Suspend, Awaits, Funded
  <1>5. CASE PrevoutsVerified(c)
    BY <1>1, <1>5 DEF PrevoutsVerified, Awaits, Funded
  <1>6. CASE GotHex(c)
    <2>1. pc[c] = "built" /\ Settled /\ UNCHANGED tx
      BY <1>6 DEF GotHex
    <2>2. /\ \E s \in {"idle", "checked", "broadcast", "mempool"} : Goes(s)
          /\ \A d \in Calls \ {c} : passes'[d] = passes[d]
      BY <1>6, ReportPc DEF GotHex, Suspend
    <2> QED
      BY <2>1, <2>2 DEF Awaits, Funded
  <1>7. CASE TestedMempool(c)
    <2>1. pc[c] = "mempool" /\ Settled /\ UNCHANGED tx
      BY <1>7 DEF TestedMempool
    <2>2. \E s \in {"idle", "checked"} : Goes(s)
      BY <1>7, ReportPc DEF TestedMempool
    <2>3. \A d \in Calls \ {c} : passes'[d] = passes[d]
      BY <1>7, ReportPc DEF TestedMempool
    <2> QED
      BY <2>1, <2>2, <2>3 DEF Awaits, Funded
  <1>8. CASE GotReport(c) \/ Broadcast(c) \/ Visible(c) \/ OutOfPolls(c) \/ Reject(c)
    BY <1>8 DEF GotReport, Broadcast, Visible, OutOfPolls, Reject, End, Suspend, Awaits, Funded
  <1>9. CASE NotVisibleYet(c)
    <2>1. Goes("poll") /\ pc[c] = "poll"
      BY <1>9 DEF NotVisibleYet
    <2> QED
      BY <1>9, <2>1 DEF NotVisibleYet, Awaits, Funded
  <1> QED
    BY <1>2, <1>3, <1>4, <1>5, <1>6, <1>7, <1>8, <1>9 DEF Steady

\* The other steps of a call begin or resume setInputsAndOutputs, or wait for the
\* block height.
LEMMA CallCases ==
  ASSUME TypeOK, NEW c \in Calls, (\E method \in Kinds : Start(c, method)) \/ Resume(c)
  PROVE  \/ Steady(c)
         \/ /\ BeginFunding(c) /\ SameSettings /\ UNCHANGED <<wallet, asked>>
            /\ pc[c] \in {"idle", "height"}
         \/ /\ pc[c] = "idle" /\ pc' = [pc EXCEPT ![c] = "height"]
            /\ UNCHANGED <<inputs, outputs, settings, asked>>
         \/ GotUtxos(c)
  <1>1. CASE Resume(c)
    BY <1>1 DEF Resume, Steady, GotBlockHeight, SameSettings
  <1>2. CASE \E method \in Kinds : Start(c, method)
    BY <1>2 DEF Start, SameSettings
  <1> QED
    BY <1>1, <1>2

\* A step of a call changes nothing of another one, and not what the application set.
LEMMA CallFrame ==
  ASSUME TypeOK, NEW c \in Calls, (\E method \in Kinds : Start(c, method)) \/ Resume(c)
  PROVE  /\ \E s \in Awaits : pc' = [pc EXCEPT ![c] = s]
         /\ \A d \in Calls \ {c} :
              kind'[d] = kind[d] /\ tx'[d] = tx[d] /\ passes'[d] = passes[d]
         /\ SameSettings /\ UNCHANGED asked
  <1> USE DEF TypeOK
  <1>1. CASE Steady(c)
    BY <1>1, SteadyFrame DEF Settled, config, SameSettings
  <1>2. ASSUME ~Steady(c), Resume(c)
        PROVE  /\ BeginFunding(c) \/ \E counted, quote : Fund(c, counted, quote)
               /\ UNCHANGED <<kind, tx, passes, asked>> /\ SameSettings
    BY <1>2 DEF Steady, Resume, GotBlockHeight, GotUtxos, SameSettings
  <1>3. ASSUME BeginFunding(c) \/ \E counted, quote : Fund(c, counted, quote)
        PROVE  \E s \in Awaits : pc' = [pc EXCEPT ![c] = s]
    BY <1>3, BeginFundingPc, FundPc DEF Awaits
  <1>4. ASSUME NEW method \in Kinds, Start(c, method)
        PROVE  /\ \E s \in Awaits : pc' = [pc EXCEPT ![c] = s]
               /\ \A d \in Calls \ {c} :
                    kind'[d] = kind[d] /\ tx'[d] = tx[d] /\ passes'[d] = passes[d]
               /\ SameSettings /\ UNCHANGED asked
    BY <1>3, <1>4 DEF Start, Awaits, SameSettings
  <1> QED
    BY <1>1, <1>2, <1>3, <1>4

-----------------------------------------------------------------------------
(* A disciplined application: it configures before its first call, and     *)
(* awaits every call before the next unless it gave the inputs itself.     *)

\* Calls come one at a time, or work with the inputs the application gave, after a
\* configuration that has built nothing.
Solo ==
    /\ asked.inputs = <<>> => \A c, d \in Calls : pc[c] # "idle" /\ pc[d] # "idle" => c = d
    /\ asked.inputs # <<>> => inputs = asked.inputs
    /\ started = 0 => /\ Built = {} /\ \A c \in Calls : pc[c] = "idle"
                      /\ inputs = asked.inputs /\ outputs = asked.outputs

InputsApart == IsInjective(asked.inputs) => IsInjective(inputs)

\* The change output is the last, and with it, whatever the inputs, what is left
\* over is too little for another one.
ChangeOnce ==
    \/ outputs = asked.outputs
    \/ /\ inputs # <<>> /\ outputs # <<>>
       /\ Front(outputs) = asked.outputs /\ Last(outputs).to = "contract"
       /\ ChangeOf(inputs, Quote) < DUST_LIMIT

\* Setting inputs and outputs now would add a change output.
Worthwhile ==
    ChangeOf(inputs, Quote) >= DUST_LIMIT /\ ChangeOf(inputs, Quote) >= settings.minChange

\* Once some call has set them, no other call adds to the outputs under it.
Closed == (\E c \in Calls : pc[c] \in Funded) => ~Worthwhile

\* Coins are selected for an empty list of inputs, with the quote of this moment.
QuoteIsCurrent == \A c \in Calls : pc[c] = "utxos" => inputs = <<>> /\ needed[c] = Quote

\* the parts of FeeIsFair
FeeOf(t)    == Total(t.inputs) - Paid(t.outputs)
Rate(s)     == IF s.hardcodedFee # Unset THEN 0 ELSE s.feePerByte
Due(t)      == IF t.settings.hardcodedFee # Unset THEN t.settings.hardcodedFee
                 ELSE Rate(t.settings) * SizeOf(t.inputs, t.outputs)
Slack(t)    == Rate(t.settings) * (P2PKH_OUTPUT_SIZE - P2SH_OUTPUT_SIZE) * Len(t.outputs)
LeastChange(s) == Max({DUST_LIMIT, s.minChange}) + Rate(s) * P2SH_OUTPUT_SIZE
Fair(t)     == FeeOf(t) >= Due(t) /\ FeeOf(t) - Due(t) < LeastChange(t.settings) + Slack(t)

\* the body of TemplateHolds
Templated(t) ==
    LET declared == t.settings.asserted
    IN  declared # <<>> =>
          \/ t.outputs = declared
          \/ /\ t.settings.allowChange
             /\ Front(t.outputs) = declared
             /\ Last(t.outputs).to = "contract"

\* What was established about the fields still holds at the await call c is in: what it
\* would sign is fair, as declared and verified, and what it built is what they hold.
Ready(c) ==
    /\ pc[c] \in {"set", "secp", "prevouts", "verified"} => Fair(Candidate)
    /\ pc[c] \in {"secp", "prevouts", "verified"} => Templated(Candidate)
    /\ pc[c] = "verified" => Range(inputs) \cap Forged = {}
    /\ pc[c] = "built" => tx[c].inputs = inputs /\ tx[c].outputs = outputs

\* the body of PreflightGuards
Passing(t) ==
    /\ FeeOf(t) \in 0 .. MAX_FEE_SATOSHIS
    /\ FeeOf(t) <= PREFLIGHT_FEE_PER_BYTE_MAX * SizeOf(t.inputs, t.outputs)
    /\ \A i \in DOMAIN t.outputs : t.outputs[i].amount >= DUST_LIMIT

\* A preflight without errors was one of the transaction it is about.
Guarded(c) ==
    /\ pc[c] \in {"mempool", "checked"} /\ passes[c] => Passing(tx[c])
    /\ pc[c] \in {"broadcast", "poll"} /\ kind[c] = "sendPreflight" => Passing(tx[c])

Discipline ==
    /\ TypeOK
    /\ Solo
    /\ InputsApart
    /\ ChangeOnce
    /\ Closed
    /\ QuoteIsCurrent
    /\ \A c \in Calls : Ready(c) /\ Guarded(c)

-----------------------------------------------------------------------------
(* The fee.                                                                *)

LEMMA MaxOfTwo ==
  ASSUME NEW a \in Int, NEW b \in Int
  PROVE  Max({a, b}) \in Int /\ Max({a, b}) >= a /\ Max({a, b}) >= b
  <1>1. \E x \in {a, b} : \A y \in {a, b} : x >= y
    <2>1. CASE a >= b
      BY <2>1
    <2>2. CASE b >= a
      BY <2>2
    <2> QED
      BY <2>1, <2>2
  <1> QED
    BY <1>1 DEF Max

LEMMA TimesMonotonic ==
  ASSUME NEW r \in Nat, NEW x \in Int, NEW y \in Int, x <= y
  PROVE  r * x <= r * y /\ r * x \in Int /\ r * y \in Int
  OBVIOUS

\* n inputs of i bytes and m outputs estimated at k bytes each, of h to k bytes and
\* w in all, at a rate r: the estimate exceeds what is due by no more than the bytes
\* the outputs may save.
LEMMA EstimateExceedsDue ==
  ASSUME NEW b \in Nat, NEW k \in Nat, NEW h \in Nat, NEW i \in Nat, NEW r \in Nat,
         NEW n \in Nat, NEW m \in Nat, NEW w \in Nat, h * m <= w, w <= k * m
  PROVE  LET estimate == (b + m * k) * r + n * i * r
             due      == r * (b + n * i + w)
         IN  /\ estimate \in Nat /\ due \in Nat
             /\ due <= estimate /\ estimate - due <= r * (k - h) * m
  <1>1. r * w <= r * (k * m) /\ r * (h * m) <= r * w
    BY TimesMonotonic
  <1>2. (b + m * k) * r = r * b + r * (k * m)
    OBVIOUS
  <1>3. r * (b + n * i + w) = r * b + n * i * r + r * w
    OBVIOUS
  <1>4. r * (k - h) * m = r * (k * m) - r * (h * m)
    OBVIOUS
  <1>5. /\ r * b \in Nat /\ n * i * r \in Nat /\ r * w \in Nat
        /\ r * (k * m) \in Nat /\ r * (h * m) \in Nat
    OBVIOUS
  <1> QED
    BY <1>1, <1>2, <1>3, <1>4, <1>5

DueNow(coins, outs) == Due([inputs |-> coins, outputs |-> outs, settings |-> settings])

\* What is quoted is due, but for the bytes the outputs may save.
LEMMA QuoteIsDue ==
  ASSUME settings \in Settings, outputs \in Seq(Output), NEW coins \in Seq(Coins)
  PROVE  LET quoted == Fee(Quote, Len(coins))
             due    == DueNow(coins, outputs)
         IN  /\ quoted \in Nat /\ due \in Nat /\ due <= quoted
             /\ quoted - due <= Rate(settings) * (P2PKH_OUTPUT_SIZE - P2SH_OUTPUT_SIZE) * Len(outputs)
  <1>1. Len(coins) \in Nat /\ Len(outputs) \in Nat
    BY LenProperties
  <1>2. CASE settings.hardcodedFee # Unset
    <2>1. Fee(Quote, Len(coins)) = settings.hardcodedFee
      <3>1. Quote.hard /\ Quote.fee = settings.hardcodedFee
        BY <1>2 DEF Quote, FeeWithoutInputs
      <3>2. Fee(Quote, Len(coins)) = settings.hardcodedFee + 0
        BY <3>1 DEF Fee
      <3> QED
        BY <1>2, <3>2, SettingsTypes
    <2>2. DueNow(coins, outputs) = settings.hardcodedFee /\ Rate(settings) = 0
      BY <1>2 DEF DueNow, Due, Rate
    <2>3. 0 * (P2PKH_OUTPUT_SIZE - P2SH_OUTPUT_SIZE) * Len(outputs) = 0
      BY <1>1, ConstantTypes
    <2> QED
      BY <1>2, <2>1, <2>2, <2>3, SettingsTypes
  <1>3. CASE settings.hardcodedFee = Unset
    <2> DEFINE r == settings.feePerByte
               n == Len(coins)
               m == Len(outputs)
               w == SumOf(Sizes(outputs))
    <2>1. Fee(Quote, n) = (BASE_SIZE + m * P2PKH_OUTPUT_SIZE) * r + n * INPUT_SIZE * r
      BY <1>3 DEF Fee, Quote, FeeWithoutInputs
    <2>2. DueNow(coins, outputs) = r * (BASE_SIZE + n * INPUT_SIZE + w) /\ Rate(settings) = r
      BY <1>3, SizeOfIs DEF DueNow, Due, Rate
    <2>3. /\ r \in Nat /\ w \in Nat
          /\ P2SH_OUTPUT_SIZE * m <= w /\ w <= P2PKH_OUTPUT_SIZE * m
      BY SettingsTypes, SizesType
    <2> HIDE DEF r, n, m, w
    <2>4. n \in Nat /\ m \in Nat
      BY <1>1 DEF n, m
    <2> DEFINE estimate == (BASE_SIZE + m * P2PKH_OUTPUT_SIZE) * r + n * INPUT_SIZE * r
               due      == r * (BASE_SIZE + n * INPUT_SIZE + w)
    <2>5. /\ estimate \in Nat /\ due \in Nat /\ due <= estimate
          /\ estimate - due <= r * (P2PKH_OUTPUT_SIZE - P2SH_OUTPUT_SIZE) * m
      BY <2>3, <2>4, ConstantTypes, EstimateExceedsDue
    <2>6. Fee(Quote, n) = estimate /\ DueNow(coins, outputs) = due /\ Rate(settings) = r
      BY <2>1, <2>2
    <2> HIDE DEF estimate, due
    <2> QED
      BY <2>5, <2>6 DEF n, m
  <1> QED
    BY <1>2, <1>3

\* The fee that is left after setInputsAndOutputs is fair.
LEMMA FundingIsFair ==
  ASSUME settings \in Settings, outputs \in Seq(Output), NEW coins \in Seq(Coins),
         Surplus(coins, Quote) >= 0
  PROVE  Fair([inputs |-> coins, outputs |-> WithChange(ChangeOf(coins, Quote)),
               settings |-> settings])
  <1> DEFINE surplus == Surplus(coins, Quote)
             change  == ChangeOf(coins, Quote)
             outs    == WithChange(change)
             total   == Total(coins)
             amount  == Paid(outputs)
             quoted  == Fee(Quote, Len(coins))
             due     == DueNow(coins, outputs)
             rate    == Rate(settings)
             bytes   == rate * P2SH_OUTPUT_SIZE
             max     == Max({DUST_LIMIT, settings.minChange})
             less    == P2PKH_OUTPUT_SIZE - P2SH_OUTPUT_SIZE
             extra   == [to |-> "contract", amount |-> change]
             m       == Len(outputs)
             t       == [inputs |-> coins, outputs |-> outs, settings |-> settings]
             kept    == change >= DUST_LIMIT /\ change >= settings.minChange
  <1> SUFFICES Fair(t)
    OBVIOUS
  <1>1. /\ surplus \in Int /\ surplus >= 0 /\ change \in Int /\ total \in Nat /\ amount \in Nat
        /\ m \in Nat /\ rate \in Nat
    BY SettingsTypes, QuoteType, SurplusType, TotalType, PaidType, LenProperties DEF Rate
  <1>2. max \in Int /\ max >= DUST_LIMIT /\ max >= settings.minChange /\ max > 0
    <2>1. DUST_LIMIT \in Int /\ DUST_LIMIT > 0 /\ settings.minChange \in Int
      BY SettingsTypes, ConstantTypes
    <2>2. max \in Int /\ max >= DUST_LIMIT /\ max >= settings.minChange
      BY <2>1, MaxOfTwo, Zenon
    <2> HIDE DEF max
    <2> QED
      BY <2>1, <2>2
  <1>3. /\ quoted \in Nat /\ due \in Nat /\ due <= quoted /\ quoted - due <= rate * less * m
    BY QuoteIsDue
  <1>4. surplus = total - amount - quoted /\ change = surplus - bytes /\ bytes \in Nat
    <2>1. surplus = total - amount - quoted
      BY DEF Surplus, Quote
    <2>2. change = surplus - bytes
      <3>1. CASE settings.hardcodedFee # Unset
        <4>1. Quote.hard /\ rate = 0
          BY <3>1 DEF Quote, Rate
        <4>2. change = surplus - 0 /\ bytes = 0
          BY <4>1, ConstantTypes DEF ChangeOf
        <4> QED
          BY <1>1, <4>2
      <3>2. CASE settings.hardcodedFee = Unset
        <4>1. ~Quote.hard /\ rate = settings.feePerByte
          BY <3>2 DEF Quote, Rate
        <4>2. change = surplus - P2SH_OUTPUT_SIZE * rate
          BY <4>1 DEF ChangeOf
        <4> QED
          BY <1>1, <4>2, ConstantTypes
      <3> QED
        BY <3>1, <3>2
    <2>3. bytes \in Nat
      BY <1>1, ConstantTypes
    <2> QED
      BY <2>1, <2>2, <2>3
  <1>5. /\ FeeOf(t) = total - Paid(outs)
        /\ Due(t) = DueNow(coins, outs)
        /\ LeastChange(t.settings) = max + bytes
        /\ Slack(t) = rate * less * Len(outs)
    BY DEF FeeOf, DueNow, LeastChange, Slack
  <1>6. CASE ~kept
    <2>1. outs = outputs
      BY <1>6 DEF WithChange
    <2>2. change < max
      BY <1>1, <1>2, <1>6, ConstantTypes, SettingsTypes
    <2>3. FeeOf(t) = surplus + quoted /\ Due(t) = due /\ Slack(t) = rate * less * m
      BY <1>1, <1>3, <1>4, <1>5, <2>1
    <2>4. rate * less * m \in Int
      BY <1>1, ConstantTypes
    <2> HIDE DEF surplus, change, outs, total, amount, quoted, due, rate, bytes, max, less, m, t
    <2> QED
      BY <1>1, <1>2, <1>3, <1>4, <1>5, <2>2, <2>3, <2>4 DEF Fair
  <1>7. CASE kept
    <2>1. extra \in Output /\ extra.amount = change /\ OutputBytes(extra) = P2SH_OUTPUT_SIZE
      BY <1>1, <1>7, ConstantTypes DEF Output, Destinations, OutputBytes
    <2>2. outs = Append(outputs, extra)
      BY <1>7 DEF WithChange
    <2>3. Paid(outs) = amount + change /\ Len(outs) = m + 1
      BY <2>1, <2>2, OneMoreOutput, AppendProperties
    <2>4. DueNow(coins, outs) = due + bytes
      <3>1. CASE settings.hardcodedFee # Unset
        BY <1>3, <3>1, ConstantTypes DEF DueNow, Due, Rate
      <3>2. CASE settings.hardcodedFee = Unset
        <4>1. SizeOf(coins, outs) = SizeOf(coins, outputs) + P2SH_OUTPUT_SIZE
          BY <2>1, <2>2, OneMoreOutput, SizeOfIs, SizesType, ConstantTypes, LenProperties
        <4>2. SizeOf(coins, outputs) \in Nat
          BY SizeOfType
        <4>3. rate * (SizeOf(coins, outputs) + P2SH_OUTPUT_SIZE) = rate * SizeOf(coins, outputs) + bytes
          BY <1>1, <4>2, ConstantTypes
        <4> QED
          BY <3>2, <4>1, <4>3 DEF DueNow, Due
      <3> QED
        BY <3>1, <3>2
    <2>5. rate * less * (m + 1) = rate * less * m + rate * less
      BY <1>1, ConstantTypes
    <2>6. rate * less \in Nat /\ rate * less * m \in Int
      BY <1>1, ConstantTypes
    <2>7. FeeOf(t) = quoted + bytes /\ Due(t) = due + bytes
      <3>1. FeeOf(t) = total - Paid(outs) /\ Paid(outs) = amount + change
        BY <1>5, <2>3
      <3>2. Due(t) = due + bytes
        BY <1>5, <2>4
      <3> HIDE DEF surplus, change, outs, total, amount, quoted, due, rate, bytes, max, less, m, t
      <3> QED
        BY <1>1, <1>3, <1>4, <3>1, <3>2
    <2> HIDE DEF surplus, change, outs, total, amount, quoted, due, rate, bytes, max, less, m, t
    <2>8. PICK fee, owed, least, slack, slope, before :
            /\ fee = FeeOf(t) /\ owed = Due(t) /\ least = LeastChange(t.settings)
            /\ slack = Slack(t) /\ slope = rate * less /\ before = rate * less * m
      OBVIOUS
    <2>9. slack = before + slope /\ least = max + bytes
      BY <1>5, <2>3, <2>5, <2>8
    <2>10. fee = quoted + bytes /\ owed = due + bytes /\ quoted - due <= before
           /\ slope \in Nat /\ before \in Int
      BY <1>3, <2>6, <2>7, <2>8
    <2>11. fee >= owed /\ fee - owed < least + slack
      BY <1>2, <1>3, <1>4, <2>9, <2>10
    <2> QED
      BY <2>8, <2>11 DEF Fair
  <1> QED
    BY <1>6, <1>7

-----------------------------------------------------------------------------
(* The discipline is kept.                                                 *)

LEMMA SameSettingsFields ==
  ASSUME TypeOK, SameSettings
  PROVE  /\ settings'.feePerByte = settings.feePerByte
         /\ settings'.hardcodedFee = settings.hardcodedFee
         /\ settings'.minChange = settings.minChange
         /\ settings'.asserted = settings.asserted
         /\ settings'.allowChange = settings.allowChange
         /\ settings' \in Settings
  BY DEF SameSettings, TypeOK, Settings

LEMMA TemplateChecked ==
  ASSUME settings \in Settings, NEW ins, NEW built \in Seq(Output), MatchesTemplate(built)
  PROVE  Templated([inputs |-> ins, outputs |-> built, settings |-> settings])
  <1> DEFINE declared == settings.asserted
             extra    == Len(built) - Len(declared)
  <1> SUFFICES ASSUME declared # <<>>
               PROVE  \/ built = declared
                      \/ /\ settings.allowChange
                         /\ Front(built) = declared
                         /\ Last(built).to = "contract"
    BY DEF Templated
  <1>1. declared \in Seq(Output)
    BY DEF Settings
  <1>2. Len(built) \in Nat /\ Len(declared) \in Nat
    BY <1>1, LenProperties
  <1>3. /\ extra \in {0, 1}
        /\ extra = 1 => settings.allowChange
        /\ SubSeq(built, 1, Len(declared)) = declared
        /\ extra = 1 => Last(built).to = "contract"
    BY DEF MatchesTemplate
  <1>4. CASE extra = 0
    <2>1. Len(declared) = Len(built)
      BY <1>2, <1>4
    <2> QED
      BY <1>3, <2>1, SubSeqFull
  <1>5. CASE extra = 1
    <2>1. Len(declared) = Len(built) - 1
      BY <1>2, <1>5
    <2> QED
      BY <1>3, <1>5, <2>1 DEF Front
  <1> QED
    BY <1>3, <1>4, <1>5

LEMMA FrontOfAppend ==
  ASSUME NEW outs \in Seq(Output), NEW output \in Output
  PROVE  /\ Front(Append(outs, output)) = outs
         /\ Last(Append(outs, output)) = output
         /\ Append(outs, output) # <<>>
  <1> DEFINE more == Append(outs, output)
  <1>1. /\ more \in Seq(Output) /\ Len(more) = Len(outs) + 1 /\ Len(outs) \in Nat
        /\ \A i \in 1 .. Len(outs) : more[i] = outs[i]
        /\ more[Len(outs) + 1] = output /\ more # <<>>
    BY AppendProperties, LenProperties
  <1> HIDE DEF more
  <1>2. \A i \in 1 .. Len(outs) : more[i] \in Output
    BY <1>1, ElementOfSeq
  <1>3. Len(outs) \in Int /\ (1 <= Len(outs) \/ Len(outs) = 0)
    BY <1>1
  <1>4. /\ SubSeq(more, 1, Len(outs)) \in Seq(Output)
        /\ Len(SubSeq(more, 1, Len(outs))) = Len(outs)
        /\ \A i \in 1 .. Len(outs) : SubSeq(more, 1, Len(outs))[i] = more[i]
    BY <1>2, <1>3, SubSeqProperties
  <1>5. SubSeq(more, 1, Len(outs)) = outs
    BY <1>1, <1>4, SeqEqual
  <1> QED
    BY <1>1, <1>5 DEF Front, Last, more

\* Once change was added, nothing worth another change output is left.
LEMMA NoSecondChange ==
  ASSUME TypeOK, SameSettings, NEW coins \in Seq(Coins),
         ChangeOf(coins, Quote) \in Nat, inputs' = coins,
         outputs' = Append(outputs, [to |-> "contract", amount |-> ChangeOf(coins, Quote)])
  PROVE  (ChangeOf(inputs, Quote) < DUST_LIMIT)'
  <1> DEFINE change == ChangeOf(coins, Quote)
             r      == settings.feePerByte
             n      == Len(coins)
             m      == Len(outputs)
             total  == Total(coins)
             amount == Paid(outputs)
  <1>1. settings \in Settings /\ outputs \in Seq(Output)
    BY DEF TypeOK
  <1>2. [to |-> "contract", amount |-> change] \in Output
    BY DEF Output, Destinations
  <1>3. Paid(outputs') = amount + change /\ Len(outputs') = m + 1
    BY <1>1, <1>2, OneMoreOutput, AppendProperties
  <1>4. total \in Nat /\ amount \in Nat /\ r \in Nat /\ n \in Nat /\ m \in Nat /\ change \in Nat
    BY <1>1, TotalType, PaidType, SettingsTypes, LenProperties
  <1>5. Quote.amount = amount /\ Quote.hard = (settings.hardcodedFee # Unset)
    BY DEF Quote
  <1>6. (Quote.amount)' = amount + change /\ (Quote.hard)' = Quote.hard
    BY <1>3, SameSettingsFields DEF Quote
  <1>7. CASE settings.hardcodedFee # Unset
    <2>1. Quote.hard /\ (Quote.hard)' /\ Quote.fee = settings.hardcodedFee
      BY <1>5, <1>6, <1>7 DEF Quote, FeeWithoutInputs
    <2>2. (Quote.fee)' = settings.hardcodedFee
      BY <1>7, SameSettingsFields DEF Quote, FeeWithoutInputs
    <2>3. change = total - amount - (settings.hardcodedFee + 0) - 0
      BY <1>5, <2>1 DEF ChangeOf, Surplus, Fee
    <2>4. ChangeOf(inputs, Quote)' = total - (amount + change) - (settings.hardcodedFee + 0) - 0
      BY <1>6, <2>1, <2>2 DEF ChangeOf, Surplus, Fee
    <2>5. settings.hardcodedFee \in Nat
      BY <1>1, <1>7, SettingsTypes
    <2> HIDE DEF change, total, amount
    <2>6. PICK later, fixed : later = ChangeOf(inputs, Quote)' /\ fixed = settings.hardcodedFee
      OBVIOUS
    <2>7. /\ change = total - amount - (fixed + 0) - 0 /\ fixed \in Nat
          /\ later = total - (amount + change) - (fixed + 0) - 0
      BY <2>3, <2>4, <2>5, <2>6
    <2>8. later = 0
      BY <1>4, <2>7
    <2> QED
      BY <2>6, <2>8, ConstantTypes
  <1>8. CASE settings.hardcodedFee = Unset
    <2>1. ~Quote.hard /\ ~(Quote.hard)' /\ Quote.fee = (BASE_SIZE + m * P2PKH_OUTPUT_SIZE) * r
      BY <1>5, <1>6, <1>8 DEF Quote, FeeWithoutInputs
    <2>2. (Quote.fee)' = (BASE_SIZE + (m + 1) * P2PKH_OUTPUT_SIZE) * r
      BY <1>3, <1>8, SameSettingsFields DEF Quote, FeeWithoutInputs
    <2>3. change = total - amount - (Quote.fee + n * INPUT_SIZE * r) - P2SH_OUTPUT_SIZE * r
      BY <1>5, <2>1 DEF ChangeOf, Surplus, Fee
    <2>4. ChangeOf(inputs, Quote)' =
            total - (amount + change) - ((Quote.fee)' + n * INPUT_SIZE * r) - P2SH_OUTPUT_SIZE * r
      BY <1>6, <2>1, SameSettingsFields DEF ChangeOf, Surplus, Fee
    <2> HIDE DEF change, total, amount, r, n, m
    <2>5. (BASE_SIZE + (m + 1) * P2PKH_OUTPUT_SIZE) * r
            = (BASE_SIZE + m * P2PKH_OUTPUT_SIZE) * r + P2PKH_OUTPUT_SIZE * r
      BY <1>4, ConstantTypes
    <2>6. /\ (BASE_SIZE + m * P2PKH_OUTPUT_SIZE) * r \in Nat /\ P2PKH_OUTPUT_SIZE * r \in Nat
          /\ n * INPUT_SIZE * r \in Nat /\ P2SH_OUTPUT_SIZE * r \in Nat
      BY <1>4, ConstantTypes
    <2> DEFINE before == (BASE_SIZE + m * P2PKH_OUTPUT_SIZE) * r
               one    == P2PKH_OUTPUT_SIZE * r
               each   == n * INPUT_SIZE * r
               last   == P2SH_OUTPUT_SIZE * r
    <2>7. /\ change = total - amount - (before + each) - last
          /\ ChangeOf(inputs, Quote)' = total - (amount + change) - ((before + one) + each) - last
      BY <2>1, <2>2, <2>3, <2>4, <2>5
    <2>8. before \in Nat /\ one \in Nat /\ each \in Nat /\ last \in Nat
      BY <2>6
    <2> HIDE DEF before, one, each, last
    <2>9. ChangeOf(inputs, Quote)' = 0 - one
      BY <1>4, <2>7, <2>8
    <2> QED
      BY <2>8, <2>9, ConstantTypes
  <1> QED
    BY <1>7, <1>8

\* What would be left for change has a type in the next state too.
LEMMA ChangeType ==
  settings \in Settings /\ outputs \in Seq(Output) /\ inputs \in Seq(Coins)
    => ChangeOf(inputs, Quote) \in Int
  BY QuoteType, SurplusType

LEMMA ChangeTypeNext ==
  (settings \in Settings /\ outputs \in Seq(Output) /\ inputs \in Seq(Coins)
    => ChangeOf(inputs, Quote) \in Int)'
  BY ChangeType, PTL

\* What setInputsAndOutputs leaves when it has the coins it counts in this.inputs.
LEMMA FundKeeps ==
  ASSUME TypeOK, ChangeOnce, SameSettings, UNCHANGED asked, NEW c \in Calls,
         NEW coins \in Seq(Coins), inputs' = coins, inputs # <<>> => coins = inputs,
         Fund(c, coins, Quote)
  PROVE  /\ ChangeOnce' /\ ~Worthwhile'
         /\ pc'[c] = "set" => Fair(Candidate)'
  <1> DEFINE change == ChangeOf(coins, Quote)
             extra  == [to |-> "contract", amount |-> change]
  <1>1. settings \in Settings /\ outputs \in Seq(Output) /\ asked.outputs \in Seq(Output)
    BY DEF TypeOK
  <1>2. Surplus(coins, Quote) \in Int /\ change \in Int
    BY <1>1, QuoteType, SurplusType
  <1>3. ASSUME inputs # <<>>, ChangeOf(inputs, Quote) < DUST_LIMIT, outputs' = outputs
        PROVE  (ChangeOf(inputs, Quote) < DUST_LIMIT)'
    <2>1. inputs' = inputs
      BY <1>3
    <2> QED
      BY <1>3, <2>1, SameSettingsFields DEF ChangeOf, Surplus, Fee, Quote, FeeWithoutInputs
  <1>4. ASSUME outputs' = outputs PROVE ChangeOnce'
    BY <1>3, <1>4 DEF ChangeOnce
  <1>5. ASSUME outputs' = outputs, ~(change >= DUST_LIMIT /\ change >= settings.minChange)
        PROVE  ~Worthwhile'
    <2>1. ChangeOf(inputs, Quote)' = change
      BY <1>5, SameSettingsFields DEF ChangeOf, Surplus, Fee, Quote, FeeWithoutInputs
    <2> QED
      BY <1>5, <2>1, SameSettingsFields DEF Worthwhile
  <1>7. P2SH_OUTPUT_SIZE * settings.feePerByte \in Nat
    BY <1>1, SettingsTypes, ConstantTypes
  <1>8. change <= Surplus(coins, Quote)
    BY <1>2, <1>7 DEF ChangeOf
  <1>9. CASE Surplus(coins, Quote) < 0
    <2>1. outputs' = outputs /\ pc' = [pc EXCEPT ![c] = "idle"]
      BY <1>9 DEF Fund, End
    <2>2. ~(change >= DUST_LIMIT)
      BY <1>2, <1>8, <1>9, ConstantTypes
    <2> QED
      BY <1>4, <1>5, <2>1, <2>2 DEF TypeOK
  <1>6. CASE ~(Surplus(coins, Quote) < 0)
    <2>1. outputs' = WithChange(change)
      BY <1>6 DEF Fund
    <2>2. ChangeOnce' /\ ~Worthwhile'
      <3>1. CASE ~(change >= DUST_LIMIT /\ change >= settings.minChange)
        BY <1>4, <1>5, <2>1, <3>1 DEF WithChange
      <3>2. CASE change >= DUST_LIMIT /\ change >= settings.minChange
        <4>1. change \in Nat /\ ~(change < DUST_LIMIT)
          BY <1>2, <3>2, ConstantTypes
        <4>2. outputs = asked.outputs
          <5>1. CASE inputs = <<>>
            BY <5>1 DEF ChangeOnce
          <5>2. CASE inputs # <<>>
            BY <4>1, <5>2 DEF ChangeOnce
          <5> QED
            BY <5>1, <5>2
        <4>3. outputs' = Append(outputs, extra) /\ extra \in Output /\ extra.to = "contract"
          BY <2>1, <3>2, <4>1 DEF WithChange, Output, Destinations
        <4>4. inputs' # <<>>
          <5>1. Quote \in Quotes /\ Fee(Quote, Len(coins)) \in Nat
            BY <1>1, QuoteType, FeeTypes, LenProperties
          <5>3. Total(coins) > 0
            BY <1>2, <3>2, <5>1, <1>8, TotalType, ConstantTypes DEF Surplus, Quotes
          <5>4. Total(<<>>) = 0
            <6> DEFINE none == [i \in 1 .. Len(<<>>) |-> Value[<<>>[i]]]
            <6>1. none = <<>> /\ <<>> \in Seq(Int) /\ Len(<<>>) = 0
              BY EmptySeq
            <6>2. SumOf(<<>>) = 0
              BY <6>1, SumOfNone
            <6> QED
              BY <6>1, <6>2 DEF Total
          <5> QED
            BY <5>3, <5>4
        <4>5. (ChangeOf(inputs, Quote) < DUST_LIMIT)'
          BY <4>1, <4>3, NoSecondChange
        <4>7. ~Worthwhile'
          <5>1. /\ settings' \in Settings /\ outputs' \in Seq(Output)
                /\ inputs' \in Seq(Coins)
            BY <1>1, <4>3, SameSettingsFields, AppendProperties
          <5>2. /\ ChangeOf(inputs, Quote)' \in Int /\ DUST_LIMIT \in Int
            BY <5>1, ChangeTypeNext, ConstantTypes
          <5> QED
            BY <4>5, <5>2 DEF Worthwhile
        <4>6. outputs' # <<>> /\ Front(outputs') = asked.outputs /\ Last(outputs').to = "contract"
          BY <1>1, <4>2, <4>3, FrontOfAppend
        <4> QED
          BY <4>4, <4>5, <4>6, <4>7 DEF ChangeOnce
      <3> QED
        BY <3>1, <3>2
    <2>3. Fair(Candidate)'
      <3> DEFINE t == [inputs |-> coins, outputs |-> outputs', settings |-> settings]
      <3>1. Fair(t)
        BY <1>1, <1>2, <1>6, <2>1, FundingIsFair
      <3>2. /\ Candidate'.inputs = t.inputs /\ Candidate'.outputs = t.outputs
            /\ Candidate'.settings = settings' /\ t.settings = settings
        BY DEF Candidate
      <3> QED
        BY <3>1, <3>2, SameSettingsFields DEF Fair, FeeOf, Due, Rate, Slack, LeastChange
    <2> QED
      BY <2>2, <2>3
  <1> QED
    BY <1>6, <1>9

\* What a call that has set inputs and outputs established depends on these only.
LEMMA Unchanged ==
  ASSUME TypeOK, SameSettings, UNCHANGED <<inputs, outputs>>
  PROVE  /\ Quote' = Quote
         /\ ChangeOf(inputs, Quote)' = ChangeOf(inputs, Quote)
         /\ Worthwhile' <=> Worthwhile
         /\ Fair(Candidate) => Fair(Candidate)'
         /\ Templated(Candidate) => Templated(Candidate)'
  <1>1. Quote' = Quote
    BY SameSettingsFields DEF Quote, FeeWithoutInputs
  <1>2. ChangeOf(inputs, Quote)' = ChangeOf(inputs, Quote)
    BY <1>1, SameSettingsFields DEF ChangeOf, Surplus, Fee
  <1>3. Worthwhile' <=> Worthwhile
    BY <1>2, SameSettingsFields DEF Worthwhile
  <1>4. /\ Candidate'.inputs = Candidate.inputs /\ Candidate'.outputs = Candidate.outputs
        /\ Candidate.settings = settings /\ Candidate'.settings = settings'
    BY DEF Candidate
  <1>5. Fair(Candidate) => Fair(Candidate)'
    BY <1>4, SameSettingsFields DEF Fair, FeeOf, Due, Rate, Slack, LeastChange
  <1>6. Templated(Candidate) => Templated(Candidate)'
    BY <1>4, SameSettingsFields DEF Templated
  <1> QED
    BY <1>1, <1>2, <1>3, <1>5, <1>6

\* setInputsAndOutputs on inputs that are there, when no change is worthwhile.
LEMMA NothingAdded ==
  ASSUME NEW c \in Calls, ~Worthwhile, Fund(c, inputs, Quote)
  PROVE  outputs' = outputs
  BY DEF Fund, WithChange, Worthwhile

\* A call under way is disturbed by another one only before its inputs are set.
LEMMA Undisturbed ==
  ASSUME Disciplined, Discipline, NEW c \in Calls, NEW d \in Calls \ {c}, pc[d] # "idle",
         (\E method \in Kinds : Start(c, method)) \/ Resume(c)
  PROVE  /\ asked.inputs # <<>> /\ inputs' = inputs
         /\ pc[d] \in Funded => outputs' = outputs
  <1> USE DEF Discipline
  <1>1. asked.inputs # <<>>
    <2>1. CASE \E method \in Kinds : Start(c, method)
      BY <2>1 DEF Start
    <2>2. CASE Resume(c)
      <3>1. pc[c] # "idle"
        BY <2>2, SteadyFrame DEF Resume, Steady, GotBlockHeight, GotUtxos
      <3> QED
        BY <3>1 DEF Solo
    <2> QED
      BY <2>1, <2>2
  <1>2. inputs # <<>>
    BY <1>1 DEF Solo
  <1>3. ~GotUtxos(c)
    BY <1>2 DEF GotUtxos, QuoteIsCurrent
  <1>4. CASE UNCHANGED <<inputs, outputs>>
    BY <1>1, <1>4
  <1>5. CASE BeginFunding(c)
    <2>1. inputs' = inputs
      BY <1>5 DEF BeginFunding
    <2>2. ASSUME pc[d] \in Funded PROVE outputs' = outputs
      BY <1>2, <1>5, <2>2, NothingAdded DEF BeginFunding, Closed
    <2> QED
      BY <1>1, <2>1, <2>2
  <1> QED
    BY <1>3, <1>4, <1>5, CallCases, SteadyFrame DEF Settled, config

\* So what the other calls established still holds.
LEMMA OthersKeep ==
  ASSUME Disciplined, Discipline, NEW c \in Calls, NEW d \in Calls \ {c},
         (\E method \in Kinds : Start(c, method)) \/ Resume(c)
  PROVE  pc'[d] = pc[d] /\ Ready(d)' /\ Guarded(d)'
  <1> USE DEF Discipline
  <1>1. /\ pc'[d] = pc[d] /\ kind'[d] = kind[d] /\ tx'[d] = tx[d] /\ passes'[d] = passes[d]
        /\ SameSettings
    BY CallFrame DEF TypeOK
  <1>2. Guarded(d)'
    BY <1>1 DEF Guarded, Passing, FeeOf
  <1>3. CASE pc[d] \in Funded
    <2>1. UNCHANGED <<inputs, outputs>>
      BY <1>3, Undisturbed DEF Funded
    <2>2. /\ Fair(Candidate) => Fair(Candidate)'
          /\ Templated(Candidate) => Templated(Candidate)'
      BY <1>1, <2>1, Unchanged
    <2> QED
      BY <1>1, <1>2, <2>1, <2>2 DEF Ready
  <1>4. CASE pc[d] \notin Funded
    BY <1>1, <1>2, <1>4 DEF Ready, Funded
  <1> QED
    BY <1>3, <1>4

\* setInputsAndOutputs with the coins it counts in this.inputs, as part of a step.
LEMMA FundingKeeps ==
  ASSUME Discipline, SameSettings, UNCHANGED asked, NEW c \in Calls,
         BeginFunding(c) \/ GotUtxos(c)
  PROVE  /\ ChangeOnce' /\ InputsApart'
         /\ pc'[c] \in Funded => ~Worthwhile'
         /\ UNCHANGED <<inputs, outputs>> \/ ~Worthwhile'
         /\ pc'[c] = "utxos" => (inputs = <<>> /\ needed[c] = Quote)'
         /\ Ready(c)' /\ Guarded(c)'
         /\ asked.inputs # <<>> => inputs' = asked.inputs
  <1> USE DEF Discipline
  <1> DEFINE Funds == /\ ChangeOnce' /\ ~Worthwhile'
                      /\ (pc'[c] = "set" => Fair(Candidate)')
                      /\ \E s \in {"idle", "set"} : pc' = [pc EXCEPT ![c] = s]
  <1>1. ASSUME Fund(c, inputs, Quote), inputs' = inputs PROVE Funds
    BY <1>1, FundKeeps, FundPc DEF TypeOK
  <1>2. ASSUME Funds PROVE Ready(c)' /\ Guarded(c)' /\ pc'[c] # "utxos"
    BY <1>2 DEF Ready, Guarded, TypeOK
  <1>3. CASE BeginFunding(c)
    <2>1. inputs' = inputs /\ InputsApart' /\ (asked.inputs # <<>> => inputs' = asked.inputs)
      BY <1>3 DEF BeginFunding, InputsApart, Solo
    <2>2. CASE Fund(c, inputs, Quote)
      BY <1>1, <1>2, <2>1, <2>2
    <2>3. CASE /\ UNCHANGED outputs
               /\ End(c, "error") \/ (inputs = <<>> /\ Suspend(c, "utxos")
                                      /\ needed' = [needed EXCEPT ![c] = Quote])
      <3>1. Quote' = Quote /\ ChangeOnce'
        BY <2>1, <2>3, Unchanged DEF ChangeOnce
      <3>2. pc'[c] = "idle" \/ (pc'[c] = "utxos" /\ inputs = <<>> /\ needed'[c] = Quote)
        BY <2>3 DEF End, Suspend, TypeOK
      <3>3. Ready(c)' /\ Guarded(c)'
        BY <3>2 DEF Ready, Guarded
      <3> QED
        BY <2>1, <2>3, <3>1, <3>2, <3>3 DEF Funded
    <2> QED
      BY <1>3, <2>2, <2>3 DEF BeginFunding
  <1>4. CASE GotUtxos(c)
    <2>1. inputs = <<>> /\ needed[c] = Quote
      BY <1>4 DEF QuoteIsCurrent, GotUtxos
    <2>2. PICK selected \in Selections(needed[c]) :
            inputs' = inputs \o selected /\ Fund(c, selected, needed[c])
      BY <1>4 DEF GotUtxos
    <2>3. selected \in Seq(Coins) /\ IsInjective(selected)
      BY SelectionsType DEF TypeOK
    <2>4. inputs' = selected
      BY <2>1, <2>2, <2>3, ConcatEmptySeq
    <2>5. Funds
      BY <2>1, <2>2, <2>3, <2>4, FundKeeps, FundPc
    <2>6. asked.inputs = <<>>
      BY <2>1 DEF Solo
    <2> QED
      BY <1>2, <2>3, <2>4, <2>5, <2>6 DEF InputsApart
  <1> QED
    BY <1>3, <1>4

\* Every other step of a call, and what it establishes for the next await.
LEMMA SteadyKeeps ==
  ASSUME Discipline, NEW c \in Calls, Steady(c)
  PROVE  Ready(c)' /\ Guarded(c)'
  <1> USE DEF Discipline, TypeOK
  <1>1. /\ UNCHANGED <<inputs, outputs, settings, kind>> /\ pc[c] # "idle"
        /\ Ready(c) /\ Guarded(c)
    BY SteadyFrame DEF Settled, config
  <1>2. /\ Fair(Candidate) => Fair(Candidate)'
        /\ Templated(Candidate) => Templated(Candidate)'
    BY <1>1, Unchanged DEF SameSettings
  <1>3. ASSUME Sign(c)
        PROVE  \/ pc'[c] = "idle"
               \/ pc'[c] = "built" /\ tx'[c] = Candidate
    BY <1>3, SignCases DEF End, Suspend, Candidate
  <1>4. ASSUME pc'[c] = "built", tx'[c] = Candidate PROVE Ready(c)' /\ Guarded(c)'
    BY <1>1, <1>4 DEF Ready, Guarded, Candidate
  <1>5. ASSUME pc'[c] = "idle" PROVE Ready(c)' /\ Guarded(c)'
    BY <1>5 DEF Ready, Guarded
  <1>6. CASE InputsAndOutputsSet(c)
    <2>1. pc'[c] = "idle" \/ (pc'[c] = "secp" /\ MatchesTemplate(outputs))
      BY <1>6 DEF InputsAndOutputsSet, End, Suspend
    <2>2. ASSUME MatchesTemplate(outputs) PROVE Templated(Candidate)
      BY <2>2, TemplateChecked DEF Candidate
    <2>3. Fair(Candidate)
      BY <1>1, <1>6 DEF InputsAndOutputsSet, Ready
    <2> QED
      BY <1>2, <1>5, <2>1, <2>2, <2>3 DEF Ready, Guarded
  <1>7. CASE Instantiated(c)
    <2>1. CASE Sign(c)
      BY <1>3, <1>4, <1>5, <2>1
    <2>2. CASE Suspend(c, "prevouts")
      <3>1. pc'[c] = "prevouts" /\ Fair(Candidate) /\ Templated(Candidate)
        BY <1>1, <1>7, <2>2 DEF Instantiated, Suspend, Ready
      <3> QED
        BY <1>2, <3>1 DEF Ready, Guarded
    <2> QED
      BY <1>7, <2>1, <2>2 DEF Instantiated
  <1>8. CASE GotPrevouts(c)
    <2>1. \/ pc'[c] = "idle"
          \/ pc'[c] = "verified" /\ Range(inputs) \cap Forged = {}
      BY <1>8 DEF GotPrevouts, Verified, End, Suspend
    <2>2. Fair(Candidate) /\ Templated(Candidate)
      BY <1>1, <1>8 DEF GotPrevouts, Ready
    <2>3. Range(inputs)' = Range(inputs)
      BY <1>1
    <2> QED
      BY <1>2, <1>5, <2>1, <2>2, <2>3 DEF Ready, Guarded
  <1>9. CASE PrevoutsVerified(c)
    BY <1>3, <1>4, <1>5, <1>9 DEF PrevoutsVerified
  <1>10. CASE GotHex(c)
    <2> DEFINE ok == PreflightPasses(inputs, outputs, SizeOf(tx[c].inputs, tx[c].outputs))
    <2>1. tx[c].inputs = inputs /\ tx[c].outputs = outputs /\ tx' = tx
      BY <1>1, <1>10 DEF GotHex, Ready
    <2>2. ok => Passing(tx[c])
      BY <2>1 DEF PreflightPasses, Passing, FeeOf
    <2>3. \/ kind[c] = "send" /\ pc'[c] = "broadcast"
          \/ passes'[c] = ok /\ pc'[c] \in {"idle", "mempool", "checked"}
      <3> HIDE DEF ok
      <3>1. \/ kind[c] = "send" /\ Suspend(c, "broadcast")
            \/ passes' = [passes EXCEPT ![c] = ok] /\ Suspend(c, "mempool")
            \/ Report(c, ok)
        BY <1>10 DEF GotHex, ok
      <3> QED
        BY <3>1, ReportPc DEF Suspend
    <2> HIDE DEF ok
    <2> QED
      BY <1>1, <2>1, <2>2, <2>3 DEF Ready, Guarded, Passing, FeeOf
  <1>11. CASE TestedMempool(c)
    <2>1. tx' = tx /\ pc[c] = "mempool"
      BY <1>11 DEF TestedMempool
    <2>2. PICK accepted \in BOOLEAN : Report(c, accepted /\ passes[c])
      BY <1>11 DEF TestedMempool
    <2>3. pc'[c] \in {"idle", "checked"} /\ (passes'[c] => passes[c])
      BY <2>2, ReportPc
    <2> QED
      BY <1>1, <2>1, <2>3 DEF Ready, Guarded, Passing, FeeOf
  <1>12. CASE GotReport(c)
    <2>1. /\ tx' = tx /\ pc[c] = "checked"
          /\ pc'[c] = "idle" \/ (passes[c] /\ pc'[c] = "broadcast")
      BY <1>12 DEF GotReport, End, Suspend
    <2> QED
      BY <1>1, <2>1 DEF Ready, Guarded, Passing, FeeOf
  <1>13. CASE Broadcast(c) \/ NotVisibleYet(c)
    <2>1. tx' = tx /\ pc[c] \in {"broadcast", "poll"} /\ pc'[c] = "poll"
      BY <1>13 DEF Broadcast, NotVisibleYet, Suspend
    <2> QED
      BY <1>1, <2>1 DEF Ready, Guarded, Passing, FeeOf
  <1>14. CASE Visible(c) \/ OutOfPolls(c) \/ Reject(c)
    BY <1>5, <1>14 DEF Visible, OutOfPolls, Reject, End
  <1> QED
    BY <1>6, <1>7, <1>8, <1>9, <1>10, <1>11, <1>12, <1>13, <1>14 DEF Steady

\* A call's step keeps the invariant.
LEMMA CallKeeps ==
  ASSUME Disciplined, Discipline, TypeOK', NEW c \in Calls,
         (\E method \in Kinds : Start(c, method)) \/ Resume(c)
  PROVE  Discipline'
  <1> USE DEF Discipline
  <1>1. SameSettings /\ UNCHANGED asked
    BY CallFrame
  <1>2. \A d \in Calls \ {c} : pc'[d] = pc[d] /\ Ready(d)' /\ Guarded(d)'
    BY OthersKeep
  <1>3. started' # 0
    <2>1. CASE \E method \in Kinds : Start(c, method)
      BY <2>1 DEF Start, TypeOK
    <2>2. CASE Resume(c)
      <3>1. pc[c] # "idle" /\ started' = started
        BY <2>2, SteadyFrame DEF Resume, Steady, GotBlockHeight, GotUtxos, Settled
      <3> QED
        BY <3>1 DEF Solo
    <2> QED
      BY <2>1, <2>2
  <1>4. ASSUME asked.inputs = <<>> PROVE \A d \in Calls \ {c} : pc'[d] = "idle"
    BY <1>2, <1>4, Undisturbed
  <1>5. ASSUME UNCHANGED <<inputs, outputs>>, Ready(c)' /\ Guarded(c)', pc'[c] # "utxos",
               pc'[c] \in Funded => pc[c] \in Funded
        PROVE  Discipline'
    <2>1. Quote' = Quote /\ ChangeOf(inputs, Quote)' = ChangeOf(inputs, Quote)
          /\ (Worthwhile' <=> Worthwhile)
      BY <1>1, <1>5, Unchanged
    <2>2. Solo'
      BY <1>1, <1>3, <1>4, <1>5 DEF Solo
    <2>3. InputsApart' /\ ChangeOnce'
      BY <1>1, <1>5, <2>1 DEF InputsApart, ChangeOnce
    <2>4. Closed'
      BY <1>2, <1>5, <2>1 DEF Closed
    <2>5. QuoteIsCurrent'
      <3> SUFFICES ASSUME NEW d \in Calls, pc'[d] = "utxos"
                   PROVE  (inputs = <<>> /\ needed[d] = Quote)'
        BY DEF QuoteIsCurrent
      <3>1. d # c /\ pc[d] = "utxos"
        BY <1>2, <1>5
      <3>2. inputs = <<>> /\ asked.inputs # <<>>
        BY <3>1, Undisturbed DEF QuoteIsCurrent
      <3> QED
        BY <3>2 DEF Solo
    <2> QED
      BY <1>2, <1>5, <2>2, <2>3, <2>4, <2>5
  <1>6. CASE Steady(c)
    BY <1>5, <1>6, SteadyFrame, SteadyKeeps DEF TypeOK, Settled, config, Funded
  <1>7. CASE pc[c] = "idle" /\ pc' = [pc EXCEPT ![c] = "height"] /\ UNCHANGED <<inputs, outputs>>
    <2>1. pc'[c] = "height"
      BY <1>7 DEF TypeOK
    <2> QED
      BY <1>5, <1>7, <2>1 DEF Ready, Guarded, Funded
  <1>8. CASE BeginFunding(c) \/ GotUtxos(c)
    <2>1. /\ ChangeOnce' /\ InputsApart'
          /\ pc'[c] \in Funded => ~Worthwhile'
          /\ UNCHANGED <<inputs, outputs>> \/ ~Worthwhile'
          /\ pc'[c] = "utxos" => (inputs = <<>> /\ needed[c] = Quote)'
          /\ Ready(c)' /\ Guarded(c)'
          /\ asked.inputs # <<>> => inputs' = asked.inputs
      BY <1>1, <1>8, FundingKeeps
    <2>2. Solo'
      BY <1>1, <1>3, <1>4, <2>1 DEF Solo
    <2>3. Closed'
      <3>1. CASE UNCHANGED <<inputs, outputs>>
        <4>1. Worthwhile' <=> Worthwhile
          BY <1>1, <3>1, Unchanged
        <4> QED
          BY <1>2, <2>1, <4>1 DEF Closed
      <3> QED
        BY <2>1, <3>1 DEF Closed
    <2>4. QuoteIsCurrent'
      <3> SUFFICES ASSUME NEW d \in Calls, d # c, pc'[d] = "utxos" PROVE FALSE
        BY <2>1 DEF QuoteIsCurrent
      <3>1. pc[d] = "utxos"
        BY <1>2
      <3>2. inputs = <<>> /\ asked.inputs # <<>>
        BY <3>1, Undisturbed DEF QuoteIsCurrent
      <3> QED
        BY <3>2 DEF Solo
    <2> QED
      BY <1>2, <2>1, <2>2, <2>3, <2>4
  <1> QED
    BY <1>6, <1>7, <1>8, CallCases

\* Configuring builds nothing, and inputs and outputs are the application's.
LEMMA BuilderKeeps ==
  ASSUME Disciplined, Discipline, TypeOK', Builder
  PROVE  Discipline'
  <1> USE DEF Discipline
  <1>1. started = 0 /\ UNCHANGED <<wallet, call, started>>
    BY BuilderFrame DEF Configure
  <1>2. /\ \A c \in Calls : pc[c] = "idle"
        /\ Built = {} /\ inputs = asked.inputs /\ outputs = asked.outputs
    BY <1>1 DEF Solo
  <1>3. (\A c \in Calls : pc'[c] = "idle") /\ Built' = {}
    BY <1>1, <1>2 DEF Built, call
  <1>4. asked \in [inputs : Seq(Coins), outputs : Seq(Output)]
    BY DEF TypeOK
  <1>5. inputs' = asked'.inputs /\ outputs' = asked'.outputs
    BY <1>2, <1>4 DEF Builder, From, To, WithExactOutputs, WithFeePerByte, WithHardcodedFee,
         WithMinChange, WithoutChange, WithTime, WithoutPrevoutVerification, Assign
  <1>6. Solo' /\ InputsApart' /\ ChangeOnce' /\ Closed' /\ QuoteIsCurrent'
    BY <1>3, <1>5 DEF Solo, InputsApart, ChangeOnce, Closed, Funded, QuoteIsCurrent
  <1>7. \A c \in Calls : Ready(c)' /\ Guarded(c)'
    BY <1>3 DEF Ready, Guarded
  <1> QED
    BY <1>6, <1>7

LEMMA DisciplineStep ==
  ASSUME Disciplined, Discipline, [Next]_vars
  PROVE  Discipline'
  <1>1. TypeOK'
    BY TypeOKStep DEF Discipline
  <1>2. CASE Builder
    BY <1>1, <1>2, BuilderKeeps
  <1>3. ASSUME NEW c \in Calls, (\E method \in Kinds : Start(c, method)) \/ Resume(c)
        PROVE  Discipline'
    BY <1>1, <1>3, CallKeeps
  <1>4. CASE (\E coin \in Coins : Deposit(coin)) \/ UNCHANGED vars
    <2> USE DEF Discipline
    <2>1. UNCHANGED <<config, call, started>>
      BY <1>4 DEF Deposit, vars
    <2>2. /\ Quote' = Quote /\ ChangeOf(inputs, Quote)' = ChangeOf(inputs, Quote)
          /\ Worthwhile' <=> Worthwhile
          /\ Fair(Candidate) => Fair(Candidate)'
          /\ Templated(Candidate) => Templated(Candidate)'
      BY <2>1, Unchanged DEF config, SameSettings
    <2>3. Solo' /\ InputsApart'
      BY <2>1 DEF Solo, InputsApart, config, call, Built
    <2>4. ChangeOnce' /\ Closed' /\ QuoteIsCurrent'
      BY <2>1, <2>2 DEF ChangeOnce, Closed, QuoteIsCurrent, config, call
    <2>5. \A c \in Calls : Ready(c)' /\ Guarded(c)'
      BY <2>1, <2>2 DEF Ready, Guarded, Passing, FeeOf, config, call
    <2> QED
      BY <1>1, <2>3, <2>4, <2>5
  <1> QED
    BY <1>2, <1>3, <1>4 DEF Next

LEMMA DisciplineInit == Init => Discipline
  <1> SUFFICES ASSUME Init PROVE Discipline
    OBVIOUS
  <1>1. TypeOK
    BY TypeOKInit
  <1>2. /\ Built = {} /\ (\A c \in Calls : pc[c] = "idle")
        /\ outputs = asked.outputs /\ inputs = asked.inputs
    BY DEF Init, Built
  <1>3. Solo /\ InputsApart /\ ChangeOnce /\ Closed /\ QuoteIsCurrent
    BY <1>2 DEF Solo, InputsApart, ChangeOnce, Closed, Funded, QuoteIsCurrent
  <1>4. \A c \in Calls : Ready(c) /\ Guarded(c)
    BY <1>2 DEF Ready, Guarded
  <1> QED
    BY <1>1, <1>3, <1>4 DEF Discipline

\* The invariant of the disciplined application: what a call established about inputs
\* and outputs survives every await up to its last use of them, whatever other calls
\* do meanwhile, and change is added once.
THEOREM DisciplineAlways == ASSUME Disciplined PROVE Spec => []Discipline
  <1>1. Discipline /\ [Next]_vars => Discipline'
    BY DisciplineStep
  <1> QED
    BY <1>1, DisciplineInit, PTL DEF Spec

-----------------------------------------------------------------------------
(* What it builds and broadcasts.                                          *)

\* A transaction built before, or built now from what is ready to be signed.
LEMMA BuiltKeeps ==
  ASSUME Disciplined, Discipline, [Next]_vars, NEW t \in Built'
  PROVE  /\ UNCHANGED asked
         /\ \/ t \in Built
            \/ /\ t = Candidate /\ Fair(Candidate) /\ Templated(Candidate)
               /\ settings.verify => Range(inputs) \cap Forged = {}
  <1> USE DEF Discipline
  <1>1. \/ t \in Built
        \/ t = Candidate /\ (\E c \in Calls : Signing(c)) /\ UNCHANGED asked
    BY BuiltStep
  <1>2. ASSUME NEW c \in Calls, Signing(c)
        PROVE  /\ Fair(Candidate) /\ Templated(Candidate)
               /\ settings.verify => Range(inputs) \cap Forged = {}
    BY <1>2 DEF Signing, Ready
  <1>3. ASSUME t \in Built PROVE UNCHANGED asked
    <2>1. started # 0
      BY <1>3 DEF Solo
    <2>2. ~Builder
      BY <2>1, BuilderFrame DEF Configure
    <2> QED
      BY <2>2, CallFrame DEF Next, Deposit, vars, config
  <1> QED
    BY <1>1, <1>2, <1>3

Good ==
    /\ NoDoubleSpend /\ FeeIsFair /\ TemplateHolds /\ PaysAsAsked /\ SignedAreVerified

LEMMA BuiltStaysGood ==
  ASSUME Disciplined, Discipline, [Next]_vars, Good
  PROVE  Good'
  <1> USE DEF Discipline, Good
  <1>1. NoDoubleSpend'
    BY BuiltKeeps DEF NoDoubleSpend, InputsApart, Candidate
  <1>2. FeeIsFair'
    <2>1. \A t \in Built : Fair(t)
      BY DEF FeeIsFair, Fair, FeeOf, Due, Rate, Slack, LeastChange
    <2>2. \A t \in Built' : Fair(t)
      BY <2>1, BuiltKeeps
    <2> QED
      BY <2>2 DEF FeeIsFair, Fair, FeeOf, Due, Rate, Slack, LeastChange
  <1>3. TemplateHolds'
    <2>1. \A t \in Built : Templated(t)
      BY DEF TemplateHolds, Templated
    <2>2. \A t \in Built' : Templated(t)
      BY <2>1, BuiltKeeps
    <2> QED
      BY <2>2 DEF TemplateHolds, Templated
  <1>4. PaysAsAsked'
    <2> SUFFICES ASSUME NEW t \in Built'
                 PROVE  \/ t.outputs = asked'.outputs
                        \/ Front(t.outputs) = asked'.outputs /\ Last(t.outputs).to = "contract"
      BY DEF PaysAsAsked
    <2>1. asked' = asked /\ (t \in Built \/ t = Candidate)
      BY BuiltKeeps
    <2>2. CASE t \in Built
      BY <2>1, <2>2 DEF PaysAsAsked
    <2>3. CASE t = Candidate
      <3>1. t.outputs = outputs
        BY <2>3 DEF Candidate
      <3> QED
        BY <2>1, <3>1 DEF ChangeOnce
    <2> QED
      BY <2>1, <2>2, <2>3
  <1>5. SignedAreVerified'
    <2> SUFFICES ASSUME NEW t \in Built', t.settings.verify
                 PROVE  Range(t.inputs) \cap Forged = {}
      BY DEF SignedAreVerified
    <2>1. CASE t \in Built
      BY <2>1 DEF SignedAreVerified
    <2>2. CASE t = Candidate
      BY <2>2, BuiltKeeps DEF Candidate, SignedAreVerified
    <2> QED
      BY <2>1, <2>2, BuiltKeeps
  <1> QED
    BY <1>1, <1>2, <1>3, <1>4, <1>5

LEMMA BuiltIsGood ==
  ASSUME Disciplined
  PROVE  Spec => []Good
  <1>1. Init => Good
    <2>1. Init => Built = {}
      BY DEF Init, Built
    <2> QED
      BY <2>1 DEF Good, NoDoubleSpend, FeeIsFair, TemplateHolds, PaysAsAsked, SignedAreVerified
  <1>2. Discipline /\ [Next]_vars /\ Good => Good'
    BY BuiltStaysGood
  <1> QED
    BY <1>1, <1>2, DisciplineAlways, PTL DEF Spec

\* No transaction a disciplined application builds spends a coin twice, however many
\* builds failed before it with coins left in this.inputs.
THEOREM NoDoubleSpendAlways == ASSUME Disciplined PROVE Spec => []NoDoubleSpend
  <1>1. Good => NoDoubleSpend
    BY DEF Good
  <1> QED
    BY <1>1, BuiltIsGood, PTL

\* Its fee covers its bytes at the rate asked for, or is the hardcoded one, and
\* exceeds that by less than was worth a change output.
THEOREM FeeIsFairAlways == ASSUME Disciplined PROVE Spec => []FeeIsFair
  <1>1. Good => FeeIsFair
    BY DEF Good
  <1> QED
    BY <1>1, BuiltIsGood, PTL

\* Declared outputs are built as declared, with at most an allowed change output,
\* although other calls set outputs between the assertion and the signing.
THEOREM TemplateHoldsAlways == ASSUME Disciplined PROVE Spec => []TemplateHolds
  <1>1. Good => TemplateHolds
    BY DEF Good
  <1> QED
    BY <1>1, BuiltIsGood, PTL

\* It pays what was asked for, and change once: a second build() adds no second
\* change output, whether it follows the first or overlaps with it.
THEOREM PaysAsAskedAlways == ASSUME Disciplined PROVE Spec => []PaysAsAsked
  <1>1. Good => PaysAsAsked
    BY DEF Good
  <1> QED
    BY <1>1, BuiltIsGood, PTL

\* What it signs with verification enabled is what was verified, although the call is
\* suspended once more between the two.
THEOREM SignedAreVerifiedAlways == ASSUME Disciplined PROVE Spec => []SignedAreVerified
  <1>1. Good => SignedAreVerified
    BY DEF Good
  <1> QED
    BY <1>1, BuiltIsGood, PTL

\* What it broadcasts after a preflight passes the checks, although they were made on
\* fields read after the await of build().
THEOREM PreflightGuardsAlways == ASSUME Disciplined PROVE Spec => []PreflightGuards
  <1>1. Discipline => PreflightGuards
    BY DEF Discipline, PreflightGuards, Guarded, Passing, FeeOf
  <1> QED
    BY <1>1, DisciplineAlways, PTL
===============================================================================
