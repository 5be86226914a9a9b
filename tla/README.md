# RadiantScript: a verification project

TLA+ models of RadiantScript, a compiler for Radiant contracts and the SDK that
builds their transactions, with TLC configurations that check them on small
instances and TLAPS proofs for every instance. Paths below are relative to the
repository; `PROJECT.json` maps every definition to its source lines.

## The system

Three packages share no state but the artifact, a JSON file:

    source ──AstBuilder──> AST ──SymbolTable, TypeCheck, EnsureFinalRequire──>
        (CovenantLint: warnings) ──GenerateTarget──> script ──optimiseBytecode──>
        artifact ──Contract──> ContractFunction ──> Transaction ──NetworkProvider──> node

| Component | State it keeps | Operations | What makes it correct |
|---|---|---|---|
| `ElectrumNetworkProvider` (SDK) | one cluster connection, `concurrentRequests`, `requestTimestamps`, breaker count and time | every network method goes through `performRequest`; `connectCluster`, `disconnectCluster` | calls that interleave share one connection without cutting each other off, no slot is lost, the limits hold, every call ends |
| `Transaction` (SDK) | `inputs`, `outputs`, fee and change settings, the declared template | builder methods; `build`, `preflight`, `send`, `meep` (asynchronous) | a transaction pays what was asked, spends each coin once, overpays no fee; what is signed was asserted and verified |
| `Contract`, `Argument`, `SignatureTemplate` (SDK) | redeem script, address | construct from artifact, one function per ABI entry | arguments reach the script with the types and in the order it expects |
| `OutputTemplate`, `RadiantHelpers`, `utils` (SDK) | none | encodings, script building, sizes | encodings are right at size boundaries, sizes are not underestimated |
| other providers (SDK) | a client handle | pass-through | values from the network are validated |
| `CashScriptParser`, `AstBuilder` (compiler) | position in the tokens; the AST | one method per rule, one visit per construct | a text is grouped by the grammar's order of alternatives; literals and modifiers mean what was written |
| `OutputSourceCodeTraversal` (compiler) | the text so far | one visit per node | a printed tree reads back as the same tree |
| `SymbolTableTraversal` (compiler) | nested symbol tables, `opRolls`, `codeScriptIdentifiers` | one visit per node | every use resolves; the last use of each name is the one recorded |
| `TypeCheckTraversal`, `utils/types.ts` (compiler) | none | one visit per node | accepted programs do not go wrong on the machine |
| `EnsureFinalRequireTraversal` (compiler) | none | one check per body | no path ends without a require |
| `CovenantLintTraversal`, `LintSuppressions` (compiler) | facts about variables and outputs, warnings | one visit per node, one rule per hazard | no covenant hazard of the documented classes goes unreported; a directive silences what it names |
| `GenerateTargetTraversal` (compiler) | symbolic `stack`, `scopeDepth`, `usedSymbols`, `output` | one visit per node | on every path each depth it emits is the depth of the value meant; a clean stack at the end |
| optimiser (`utils/script.ts`) | none | rewriting to a fixed point | it ends, and scripts keep their meaning |

What is hard: in the SDK, `async` methods of one object that share fields across
awaits (calls of the provider interleave by design, calls of one `Transaction` by
accident), timeouts that race late answers, a shutdown that races a new call, a
builder that is reused after a failure. In the compiler, nothing is concurrent, but
one symbolic stack must describe every path through a contract, and four
bookkeeping structures keyed by name must agree about variables. `PROJECT.json`
lists each hazard at its line with the properties that watch it.

## Modules

| Module | Models | Checked by |
|---|---|---|
| `SharedConnection` | abstract: what the provider promises about its connection | `ImplementsSharedConnection` of the next |
| `ElectrumNetworkProvider` | `cashscript/src/network/ElectrumNetworkProvider.ts` | `MCElectrumNetworkProvider*.cfg` |
| `ElectrumNetworkProviderProofs` | theorems about the two | `tlapm` |
| `Sums` | the `reduce()` sums of the code | with its users |
| `SumsProofs` | what such a sum is; induction over sets of numbers | `tlapm` |
| `TransactionBuilder` | `cashscript/src/Transaction.ts`, `getTxSizeWithoutInputs` | `MCTransactionBuilder*.cfg` |
| `TransactionBuilderProofs` | theorems about it | `tlapm` |
| `ScriptEncoding` | `utils/src/data.ts`, `utils/src/script.ts` (bytes), `RadiantHelpers.ts` | with `ContractCalls` |
| `ContractCalls` | `Contract.ts`, `Argument.ts`, `OutputTemplate.ts`, `utils.ts` of the SDK | `MCContractCalls.cfg` |
| `AST` | `cashc/src/ast/AST.ts` | with `Syntax` and the lint |
| `ParseTree`, `CashScriptParser` | `cashc/src/grammar/CashScriptParser.ts`: its contexts, its methods | with `Syntax` |
| `AstBuilder` | `cashc/src/ast/AstBuilder.ts`, `Globals.ts`, `Operator.ts` | with `Syntax` |
| `OutputSourceCode` | `cashc/src/print/OutputSourceCodeTraversal.ts` | with `Syntax` |
| `Syntax` | composes the four: text to tree to text (`CashScript.g4`) | `MCSyntax.cfg` |
| `TypeSystem` | `utils/src/types.ts` | with `TypeCheckTraversal` |
| `TypeCheckTraversal` | `TypeCheckTraversal.ts`, `generation/utils.ts`, `Globals.ts` | `MCTypeCheck.cfg` |
| `TypeCheckProofs` | theorems about the two | `tlapm` |
| `CovenantLintTraversal` | `cashc/src/semantic/CovenantLintTraversal.ts` | with `CovenantReview` |
| `LintSuppressions` | `cashc/src/semantic/LintSuppressions.ts` | with `CovenantReview` |
| `CovenantMeaning` | external: what a function body demands of a transaction | with `CovenantReview` |
| `CovenantReview` | composes the three with `cashc/src/compiler.ts` | `MCCovenantReview.cfg` |
| `SemanticAnalysis` | `SymbolTableTraversal.ts`, `EnsureFinalRequireTraversal.ts` | with `CodeGeneration` |
| `ScriptMachine` | external: the stack operations of a node's interpreter | with `CodeGeneration` |
| `CodeGeneration` | `GenerateTargetTraversal.ts`, `createInputScript` | `MCCodeGeneration*.cfg` |
| `SemanticAnalysisProofs` | what every accepted contract looks like | `tlapm` |
| `CodeGenerationProofs` | theorems about the stacks of generator and machine, and the names on them | `tlapm` |
| `CodeGenerationMeaningProofs` | theorems about the values on them | `tlapm` |
| `Optimiser` | `optimiseBytecode` of `utils/src/script.ts`, for any table of rules | with `OptimiserMeaning` |
| `OptimisationRules` | the table: `cashproof-optimisations.ts`, `HARDCODED_RULES` | with `OptimiserMeaning` |
| `ScriptInterpreter` | external: how a node executes a script | with `OptimiserMeaning` |
| `OptimiserMeaning` | composes the three: scripts before and after | `MCOptimiser.cfg` |
| `OptimiserProofs` | theorems about `Optimiser`, with any table and with one as `RulesAssumption` asks | `tlapm` |

The modules `MC*` give the constants of each of these their small values.

### ElectrumNetworkProvider

JavaScript runs a call without interruption from one `await` to the next, so an
action is such a stretch. `pc[r]` names the await a caller's `performRequest` is
suspended in: `ready` (the race of `ready()` with a timeout), `exec` (an attempt),
`backoff` (the delay before the next one), `stopping` (`shutdown()` in the finally
block); `idle` is outside. `Enter` is the code up to the first await, with the rate
stamp, the connection and the increment; `Answer`, `FailAndRetry`, `FailForGood` and
`FailLastAttempt` are the ways an attempt ends, each with the breaker update and, where
the loop is left, the finally block; `ShutdownDone` and `ShutdownFails` end it.
`manualConnectionManagement` is chosen at the start and never changes. `stamps`, `leaked`,
`executed` are histories: all stamps ever pushed, slots no finally block gave back, and
whether the server carried out the request of the call.

External: the cluster of electrum-cash. `startup()` may fail (the code swallows it),
`ready()` may still resolve while another call is stopping the cluster, connections are
lost and come back, `shutdown()` may reject. Time passes in coarse ticks and every
timeout may fire at any moment, so no property depends on durations except those of
the rate window and the breaker, which compare clock values in the code.

### SharedConnection

What a caller may rely on, with none of the machinery: a set of `users`, the one of them
that is `closing` the connection, the `lost` slots and the state of the `link`. A user joins
while there is room and the first one starts the connection; only a user that is alone with
no slot lost closes it, and whoever joins meanwhile may find it cut off, as in the code.
`ElectrumNetworkProvider` implements it with `users` the callers inside `performRequest`,
`closing` those at `stopping` and `lost` the history `leaked`. Retries, timeouts, the
clocks and the breaker are stuttering steps.

### TransactionBuilder

Again an action is a stretch between awaits, `pc[c]` the await. An `await` suspends a call
also when its promise has already settled, and another call may run before it resumes. So
every `await` of the code that lies between reads or writes of the shared fields is a state
of its own: those of the provider (`height`, `utxos`, `prevouts`, `mempool`, `broadcast`,
`poll`), that of the cryptography library (`secp`), and those of the builder's own methods:
`set` (`Transaction.ts:334`), `verified` (355), `built` (502, and 652 in `send`) and
`checked` (643). Each action reads `inputs`, `outputs` and `settings` as they are when it
runs: `InputsAndOutputsSet` checks counts and template, `Sign` signs, and `GotHex` makes the
preflight checks on fields read again after the build. Only `tx[c]`, the transaction of the
hex, is the call's own.

`Fund` is `setInputsAndOutputs` from the computation of the change on. Since `inputs` and
`outputs` are fields of the object, a failed call leaves its coins and its change behind:
that is modelled, not repaired. `SortedOrders` takes the coins by falling value, those of
one value in any order. `asked` is a history of what the application itself put in.

`Disciplined = TRUE` is an application that configures the builder before its first call
and then awaits every call before the next, as all examples and tests do, unless it gave
the inputs itself: then its calls may overlap in any way, at every await. `FALSE` lets calls
and builder methods overlap without restriction; then none of the safety properties holds
(see `builder_overlap`). What sets the two apart is that a build which selects coins writes
`this.inputs` after an await, and so does a builder method that is called late; a build on
given inputs writes only `this.outputs`, once, and the properties say that no overlap of
such builds does harm. Left out: raw and OP_RETURN outputs, relative age, `meep()`,
fractional fee rates, the failure of `validateAmount` on a coin, and bytes: a transaction
is its coins and its outputs with amounts, `INPUT_SIZE` the size `calculateInputSize`
estimates.

### ScriptEncoding and ContractCalls

A byte string is a sequence of bytes here, as boundaries of bytes are what these modules are
about; a number is a sign and the bytes of its magnitude, so that no number is too large for
TLC. `Construct` is the constructor of `Contract` (validation of the artifact, argument
checks, `generateRedeemScript` with `replaceBytecodeNop`), `Call` a function it made
(`encodeArgument`, `createInputScript`), `AddOutput` and `AddState` are `to`, `withOpReturn`
and the stateful outputs, `Receive` somebody else's locking bytecode given to
`splitStatefulBytecode`. An external node reads the bytes instruction by instruction
(`Instructions`) and the properties compare what it finds with what the application passed.

Left out: telling text from hexadecimal, the errors of `replaceBytecodeNop` when no push
follows, references to tokens, the signing of `SignatureTemplate` (only its size counts),
and the parameter orders of the artifact, which `CodeGeneration` has.

### ParseTree, CashScriptParser, AstBuilder, OutputSourceCode, Syntax

`CashScriptParser` has one definition per method of the generated parser, the symbols the
method matches, and one walk over them (`Walk`); the loop of `expression` with its
precedence numbers is `WalkOperator`. `adaptivePredict` is an LL(*) choice of a library;
it is taken to choose an alternative that matches, in their order. `AstBuilder` and
`OutputSourceCode` have one definition per visit. `Syntax` writes a text as the grammar
allows, one action per rule with the parts already on `stack`, with every grouping a writer
could have in mind. The text is parsed, built, printed, read by the lexer and parsed again.
Of the lexer only one thing is modelled: that a minus sign joins the numeral behind it
(`Lexed`). `weight` and `MaxDepth` bound what is written.

### TypeSystem and TypeCheckTraversal

A program is built bottom up: each action is one kind of node over the expressions on
`stack`, taken only if the check accepts it. An expression carries its type, whether it is
a literal (some rules look at that), and `values`, a value the compiled opcodes may leave
for it, as a size and whether it is a number: what the type promises can be compared with
what the script computes. `misfits` remembers each opcode that met operands it cannot take,
`trusted` why a width was believed rather than known: a cast of bytes of unknown width, a
split at a position that is no literal, or a code script typed as `bytes32`. Left
out: `pushData` statements, arrays of arrays, statements without an expression.

### CovenantLintTraversal, LintSuppressions, CovenantMeaning, CovenantReview

`CovenantLintTraversal` has the collector of facts and every rule. A flag of the collector
is an operator on the nodes in the order of the visit, so it is stateless, as the class is
after the visit; a location is a line. `LintSuppressions` turns the comments of a text into
what they silence. `CovenantMeaning` says what a body demands of a transaction: it runs the
statements on an environment and a small transaction of coins with a value, a state, a code
and refs. In `CovenantReview` an author writes statements and comments line by line and
calls `compileString` in one of its modes. Then what the lint concluded is compared with
the transactions the function accepts: where it stays silent for a reason, the reason must
hold of every accepted transaction.

Properties that judge comparisons speak of texts in which every comparison is demanded
(`Demanded`: no branch, no `||`, no comparison that is only computed) and, where keys of
tokens are concerned, nothing is reassigned (`Plain`): the comments of the lint call the
rules heuristics, and these are the texts for which they say what they conclude.

### SemanticAnalysis and CodeGeneration

`header` fixes, once and for all, the parameters and functions of the contract and the
bounds on its body, so that one run covers contracts of several shapes (`Headers`). The
contract is then written node by node, in the order the traversals visit it, and a node is
added only if neither traversal would reject it (`Analyse`): within the bounds every
accepted contract is generated. Then the code generator visits it (`Generate`), one
action per kind of node, with the state of the traversal: `stack`, `scopeDepth` (as the
list `depths` of the branches in progress), `usedSymbols`, `stackCopy`. The operations
it emits are executed at once on `machine`, along one path: at every branch on the path
`taken` may go either way, and `selected` is the function that is called. Next to it
`env` says what each variable stands for under the rules of the language. So the
properties compare what the emitted code does with what the contract says.

A value is named for the argument or the node it comes from, so that two values are equal
only if they are the same. An expression is the identifiers it mentions and one
`COMPUTE` for its operators; the opcodes of `generation/utils.ts` differ in what they
compute, not in how they move the stack. A `require` on the path is taken to succeed
(a path on which it fails ends there). `pushRef` and `pushData` statements leave the
stack as it was and are left out, as are literal encodings, types and source maps.
`argumentOrder` is who pushes the arguments: `"sdk"` is `createInputScript`,
`"rad-scryptlib"` the library the compiler's comments refer to, whose source is not in the
repository: its order is taken to be the one the compiler expects. Where a property speaks of
values it is this order (`ValuesTraceable`, which also leaves out assignments to a parameter of
the contract). The parameters of a function differ (`HeadersAssumption`), as `visitParameter`
rejects a name that is taken. `env` is set at the start of a function.

`SemanticAnalysis` and `CodeGeneration` are composed by the variables of the analysis,
which the generator reads: `opRolls` and `codeScriptIdentifiers` are operators on the
program (`OpRoll`, `CodeScriptIdentifiers`), as their final value is a function of it.

### Optimiser, OptimisationRules, ScriptInterpreter, OptimiserMeaning

A script is a sequence of opcodes and data pushes, named by strings (`"0xdata"` is a push,
`"PICK"` an opcode). `Replace` is one replacement of `applyOpcodeListRule`, at the leftmost
place from `position` on where the left-hand side of `rule` stands: `script` is what the code
keeps in `result` followed by the part of its argument it has not yet scanned. `ToNextRule`
moves to the next rule that has something to replace (a rule that has nothing returns its
argument), `EndPass` ends one round of the outer loop. `Runs` is its cap. What
`parseOptimisationRules` refuses (an empty left-hand side, a longer right-hand side) is the
assumption `ParsedRules`.

`ScriptInterpreter` executes a script on a stack, with conditionals and the operands of
reference operations. Values are numbers, named byte strings and terms for what hashes,
`CAT` and the bitwise opcodes return. `SameResults` asks that where the original succeeds the
optimised script leaves the same stack; rules such as `OP_CAT OP_DROP <=> OP_2DROP` may
succeed where the original fails on a stack that is too short or on values that are no numbers.

A comment (`script.ts:425`) says that `encodeInt(1)` to `encodeInt(16)` are not
canonicalised because their bytes are not those of `OP_1` to `OP_16`. So the rules with
such an opcode match only what is pushed as an opcode, and `AllScripts` has both forms.

## Runs

Every run finishes in about two minutes or less on two cores. TLC explores all states within
the bounds, and detects deadlock for the provider, which is never stuck; a builder whose
calls are used up, a contract that is compiled, a script that is optimised and a text that
is written really stop.

| Run | What it shows | Bounds, and why they are enough |
|---|---|---|
| `electrum` | slots, connection, rate window and breaker under every interleaving, with the connection managed by the provider or by the application; and that the provider implements `SharedConnection` | 3 callers with a limit of 2, so one can be refused while two interleave; 2 attempts; 2 ticks of the clock and a window of 2, with 3 stamps kept and 4 pushed, so the window slides; breaker threshold 2 |
| `electrum_live` | `CallsSettle` under fairness | 2 callers, 3 attempts |
| `builder` | what is built, signed and sent, over two calls that follow each other or overlap at every await, and that every call ends | 2 coins of different value, so one, both or none suffice, and one of them forged; fees that put the change on either side of the dust limit and of `minChange`; up to two outputs; up to two inputs of the application's own, of which a coin may be given twice; two calls, so every call can be a retry or run inside another; 2 polls stand for 1200. `Disciplines` allows one changed setting with one given input and none with two; its other conditions only choose between names and wallets that make no difference |
| `builder_overlap` | expects a violation, see below | 2 calls, one forged coin; `Narrow` limits what is configured |
| `encodings` | arguments, cuts, states and sizes, from what the application passes to what a node reads in the bytes | arguments of 0, 1, 16, 17, 75, 76, 255 and 256 bytes, the boundaries of the pushes; scripts around 252 bytes, where the cut changes the VarInt it allows for; two outputs, one of them with a state; foreign bytecodes of up to 5 bytes over six values, which include every kind of push cut short |
| `syntax` | texts are parsed with the grammar's grouping, and printed trees read back | two operators with operands of every kind, or one with two statements, or four statements and functions with the contract around them: two operators are what a precedence relates, and an `if` in an `if` what an `else` may attach to |
| `types` | accepted programs compute values of the types they were given | 4 nodes with 3 expressions at once, so each node's result meets each other; widths 8, 20, 32, 36, which the functions ask for; sizes 0, 1, 9 on both sides of what a number may have |
| `lint` | what the lint takes for granted when it stays silent, and what it says when it warns, holds of accepted transactions | up to 3 statements and comments, as most rules relate two statements; the statements are a pool of 31, as the contracts of the repository write them; transactions of up to 2 inputs and 2 outputs, every comparison of a count with -1 to 3 |
| `codegen` | every accepted contract, on every path through it | six headers of `MCCodeGeneration`: branches, nested and in sequence, with assignments and block variables (7 nodes: two nested branches, or a branch with both blocks, and statements before and after); straight-line code with tuples and reassignment (2 parameters and 2 variables, so `emitReplace` and the threshold of four slots are reached); two functions with a shared parameter and statements before them (9 nodes); a state script before the code, with time checks (6 nodes); unset statements (6 nodes); one name for variables in blocks of the state script and behind them (8 nodes) |
| `optimiser` | rewriting ends by itself at a fixed point, no operand is lost, and the script means what it meant | about 11,600 scripts: every pair of left-hand sides (of a family with a number, the first and the last), every sequence of up to 4 of the opcodes that rules both take and leave, three variable reads in a row, conditionals with rewritable blocks; six stacks of 24 values: distinct, equal, numbers, bytes, signatures. The cap is the code's, 1000 passes (`CapSuffices`) |

`Bounded` of `MCElectrumNetworkProvider` bounds the clock and the number of admitted
calls only: no step of a call in progress is cut off, so it hides no liveness violation.
`TransactionBuilder`, `CodeGeneration` and `TypeCheckTraversal` state a `TypeOK` too; their
runs leave it out, as a value out of its type shows in the other properties, and it is proved.

Three runs expect a violation, where the code does not do what its own comments say:

- `electrum_disconnect`: the wait for `ready()` is outside the `try` whose `finally` "always"
  disconnects; a timeout there loses a slot and leaves the connection up. After ten of them
  every request is refused.
- `builder_overlap`: `build()` authenticates "every input's prevout ... BEFORE signing"
  (`Transaction.ts:350`), but signs `this.inputs` as it is after one more await: an input that
  arrives in between, from `from()` or from another build whose `getUtxos()` resolves there,
  is signed unverified. With the same configuration `TemplateHolds`, `PaysAsAsked`,
  `PreflightGuards`, `FeeIsFair` and `NoDoubleSpend` are violated as well, each by a builder
  method or another call that runs while a build is suspended.
- `codegen_assign_inline`: assignments to contract parameters have no effect.

## Where the code stops short of its comments

The models show more such places. The properties keep clear of them by a condition or a
bound that is named where it stands; lifting it, or checking the property named below
instead, exhibits the place.

*Provider and builder.*

- A broadcast that was carried out is reported as an error when its answer is late
  (`ErrorMeansNotAccepted` as an invariant of `electrum`).
- The assertion of the template, the verification and the preflight checks each read fields
  that may change before the next await of the call returns (`builder_overlap`).
- A second `build()` does not append "a second change output", as `Transaction.ts:637-640` says
  it would and `Preflight.test.ts:309-311` repeats. It finds the first change among
  `this.outputs` and pays for it: with a fee rate it counts 34 bytes for that output where the
  first build took off 32, so 2 bytes are missing and it ends with "Insufficient funds"; with
  a hardcoded fee nothing is left over and it builds the same transaction again. `PaysAsAsked`
  states this, for builds that follow each other or overlap. That `build()` is not idempotent,
  the point of the comment, is true: the second one fails where the first succeeded. Two
  change outputs take inputs added in between, by `from()` or by an overlapping build that
  selects coins.
- `preflight()` calls itself read-only (`Transaction.ts:490`) and leaves coins and change
  behind, as every call does that builds.

*Encodings.* `EstimateCovers`, `StateReadsBack` and `CutMatchesSize` have conditions because:

- `encodeScriptInt` is wrong from 2^31 on; `encodePush` is not minimal for an empty item, for
  `0x01` to `0x10` and for `0x81`;
- the estimated size is too low for output scripts of 253 bytes and more, for more than 252
  outputs and for ECDSA signatures;
- `splitStatefulBytecode` does not skip the 36-byte operands of reference opcodes;
- `generateArtifact` drops the bounds of types (`mapToScryptType`), so the size checks of the
  SDK never apply to a compiled artifact; of two functions with one name the later ABI
  entry wins; `Contract.buildStatefulOutput` passes the whole redeem script as code, the
  constructor's arguments with it; `createInputScript` pushes the arguments in the reverse of
  the order the compiled code expects (`argumentOrder |-> "sdk"` in `MCCodeGeneration`).

*Syntax.* `Misprinted`, `Lossy` and `Builds` name them:

- the printer drops modifiers, the size of a cast and `unset`; it writes `pushData` without a
  semicolon, `tx.state[i]`, which the grammar does not have without a field, and `-(1)` as a
  literal;
- the builder throws on the units `finney`, `bits` and `bitcoin` and on literals with an
  exponent (`Globals.ts:4-14`, `AstBuilder.ts:381`), reads date literals in local time
  (`AstBuilder.ts:413`), and drops the field of `tx.state[i].field`;
- `a -1` is an identifier and a number, not a subtraction.

*Types.* `LeftUnchecked` and `trusted` name them:

- the size of `bytes(x, size)` may have any type; arrays may be compared with `==`;
- a null data chunk of 128 to 255 bytes gets a prefix that is no length (`ChunksUpTo255`);
- `codeScript` and `stateScript` are `bytes32`, which the scripts of
  `docs/guides/introspection.md:111-114` are not.

*Covenant lint.* The conditions of the properties of `CovenantReview` name them:

- fingerprints of keys survive a reassignment (`ConservedThroughAssignments`);
- a balance of sums pairs families that measure different things (`OneFamily`), and keys
  written as literals are not recognised at all;
- a bounded sweep is satisfied by a pin of the state script alone, containment by any
  comparison with a literal, and a forward by `<=` but not by the mirrored `>=`;
- only top-level statements count; a value that is only computed into a flag that a
  `require` then reads is no comparison to it;
- `covenant-lint-disable <rule>` disables the whole file, whatever the rule
  (`LintSuppressions.ts:46`); warnings without a location have line 0, which no line
  directive reaches.

*Code generator.*

- A final `if (c) { require(..); } else {}` is accepted (`EveryPathRequires` with
  `Headers <- Short`; `CleanFinish` leaves an empty block aside).
- The identifier of `unset` is never resolved (`AstTraversal.ts:174`): after the last use of
  its variable it ends in the error of `getStackIndex` that "should not happen"; after a
  reassignment it uncovers the old value; in one block of a branch it leaves the two paths
  with stacks of different depths. No header that allows `unset` allows branches
  (`NoUnsetWithBranches`): with `if (c) { unset(a); } require(a);` `StacksAgree` is violated.
- The state script selects what it drops by symbol and drops it by name
  (`GenerateTargetTraversal.ts:609-620`). With a variable in a block of the state script and a
  later one of the same name, it drops the one the code script still needs, and `getStackIndex`
  ends in the error that "should not happen".

So `SlotsHoldVariables`, `OperandsAreMeant` and `NeverCrashes` speak of contracts that are
`Regular`: without `unset`, and with each name of the state script declared once.

*Optimiser.* `OP_0 OP_EQUAL OP_NOT <=> OP_0NOTEQUAL` holds for numbers only, but `!=` on
bytes and strings compiles to `OP_EQUAL OP_NOT` and an empty literal to `OP_0`: `x != 0x`
fails the script (`ExactFunctionality`; `MeaningKept` covers all other rules).

### Fairness

`CallsSettle` and `CallsEnd` assume weak fairness of what resumes a suspended call. For the
provider that is its timers (`setTimeout` fires), not the network: answers are never
assumed to come. `shutdown()` has no timeout in the code; that it settles is assumed of the
library. For the builder it is the provider, which answers or fails every request, as
`CallsSettle` says of the Electrum one. The compiler's runs need no fairness.

## Proofs

`ElectrumNetworkProviderProofs` proves for every set of callers (finite), every limit and
both connection modes, from `ConfigAssumption` alone:

- `TypeCorrect`, `SlotsAccountedFor`, `ConnectionHasHolder`: the invariants `TypeOK`,
  `SlotAccounting`, `NoOrphanConnection`;
- `LateFailuresAreBounded`: `LateFailuresBounded`;
- `LastShutsDown`, `ManualLeftAlone`: the action properties `ShutdownOnlyByLast` and
  `ManualIsManual`;
- `RateLimitHolds`: `RateWindow`;
- `ConnectionShared`: the provider implements `SharedConnection`, `Spec => Connection!Spec`.

The three invariants together are inductive (`IInv`): that the counter never goes below
zero needs the accounting (a call inside holds a slot), and the accounting needs the types.
The lemmas follow the code: how `Holders` changes when a call enters, moves or leaves, what
the finally block does, then one lemma per group of actions. `LastShutsDown` rests on
`OneSlotOneHolder`: if the counter is one, the call that reads it is the only holder.
`RateWindow` is not inductive: the code filters its list, so what it forgot must be known to
lie outside the window. `RateInv` adds that the stamps are in order (`Monotone`) and that the
list is the tail of all stamps not yet outside the window (`WindowKept`).

`LateFailuresBounded` is not inductive either: the count alone does not say what the calls in
flight may still add. `Covered` counts the attempts that are left to them (`Pending`), at most
`MAX_RETRIES` for each slot, and says that the count and `Pending` together stay below the
threshold plus all attempts. A failure moves one attempt from the one to the other, and a call
that enters adds its attempts only while the breaker is closed.

The refinement needs two things of the detailed state that the abstract one takes for granted:
that the counter is the number of users and lost slots, which is `SlotAccounting`, so a test of
the counter is one of the set; and that at most one call is shutting down (`OneShutdown`), so
`closing` is one user or none. `ConnectionInv` is `IInv` with `OneShutdown`. Each group
of actions has a lemma that maps it: entering is `Join`, a finally block `Leave` or `Close`,
the end of a shutdown `Closed`, a lost slot `Lose`, and the rest is `LinkMoves` or a stutter.

`TransactionBuilderProofs` proves for any coins, amounts, fees, sizes and limits that fulfil
`BuilderAssumption` (finitely many coins, a positive dust limit, a P2SH output no larger than
a P2PKH one):

- of every application, with calls and builder methods in any order: `TypeCorrect`;
- of a disciplined one (`Disciplined`, the hypothesis of these theorems), with any number of
  calls: `NoDoubleSpendAlways`, `FeeIsFairAlways`, `TemplateHoldsAlways`, `PaysAsAskedAlways`,
  `SignedAreVerifiedAlways` and `PreflightGuardsAlways`.

The six rest on `Discipline`, the inductive invariant of such an application. Its parts: calls
overlap only on the inputs the application gave (`Solo`); the coins in `inputs` differ if
those given do (`InputsApart`); a change output is there at most once, last, and then what is
left over is below the dust limit whatever the inputs (`ChangeOnce`), which is why a call that
is retried, over the inputs and outputs its failed predecessor left, adds no second one; once
some call has set inputs and outputs, setting them again would add nothing (`Closed`), so no
other call moves them under it; coins are selected for an empty list with the quote of this
moment (`QuoteIsCurrent`). `Ready` says of each await what the call has established of the
fields and still holds there: a fair fee, the declared template, verified coins, and after the
build that the fields are what it built; `Guarded` carries the preflight's verdict on to the
broadcast. Each is kept by the call's own steps (`SteadyKeeps`, `FundingKeeps`) and, by
`Closed`, by those of all others. The fee needs arithmetic with sums of unknown length: what a
quote, an output more and the change contribute is a lemma each, and the bound on the excess
(least change, its bytes and 2 bytes per output, as the quote takes each for a P2PKH output) comes
out of adding them.

`TypeCheckProofs` proves, for programs of any length over any declared types, literals and
sizes: `TypesAreSoundAlways` and `OpcodesFitOperandsAlways`. The invariant says of every
expression on the stack that it is a `SoundExpression`: its values have the form of its type
and, unless a width was taken on trust, fit it. Each kind of node has a lemma: from sound
operands the check accepts, it makes a sound expression, and its opcodes get operands they
can take. What the implicit casts preserve is a lemma about `TypeSystem` that all of them use.

`OptimiserProofs` proves for every table of rules that fulfils `ParsedRules`, every script and
every cap: `TypeCorrect` (no scan leaves its script), `ScriptNeverGrows`, and
`FixedPointUnlessCapped`: a call that ends before the cap leaves nothing to replace, without
a last look at the whole script. The invariant behind it is `Scanned`: as long as a pass has
changed nothing, no rule before the one at hand matches anywhere, so if the pass ends
unchanged none does. That skipping a rule is sound is `NothingPassedOver`.

With what the table keeps to, rule by rule (`RulesAssumption`, which TLC evaluates on the table
of the code), more follows: each rule shortens the script or keeps its length and removes an
`OP_OVER` or `OP_NIP`, and none touches an opcode that reads an operand behind it. From that,
for every script, `EveryRewriteProgressesAlways`; `OperandsFollowAlways`, if it holds of the
script that is given; and `ReachesFixedPointAlways`: under a cap above three times the length
(`CapSuffices`; with the code's cap of 1000 that is any script of up to 333 elements) no call
ends by the cap. The invariant is a price: twice the length plus the
`OP_OVER` and `OP_NIP` is at most three times the length, each rewrite lowers it, and every
pass but the last pays for itself with one rewrite (`Paid`).

`CodeGenerationProofs` proves for all contracts of any headers, of any length and nesting, with
any number of functions and either order of arguments: `TypeCorrect`, and `StacksAgreeAlways`.
Their one hypothesis is `NoUnsetWithBranches`, without which the second is false (see above).
The depths the generator emits are those of its own stack, so this is what its work rests
on: whichever branches a path took, each value is where the other paths have it.
The agreement on the path being executed is not inductive: at an `else` or the end of a
branch the path may come from a side it did not execute. So `GeneratorInv` also says

- of every branch in progress that is not taken while all outer ones are, that the machine
  still is as deep as the symbolic stack was at the branch (`Meets`), and that these depths
  are in order and none is above the stack (`Levels`);
- of a path that calls a later function, that the machine is as deep as `stackCopy` and the
  arguments of that function, as the generator goes back to that copy (`Balance`);
- which side of the path belongs to which bracket of the contract (`Sides`).

That every bracket the generator meets fits comes from `SemanticAnalysisProofs`: an invariant
of the analysis (`AnalysisInv`) that says of every node how many branches are open around it,
in which function it is and what stands before it (`Structured`). The rest is one lemma for
each kind of node, over lemmas about what each operation and each sequence the generator emits
does to the depth of the machine: `RunReplace` for `emitReplace`, by induction over the slots
it sets aside, `RunDrops`, `KeptTogether` for the state script, `VisitIdentifierIs` for the
identifiers of an expression.

It also proves, under the same hypothesis, what the two traversals do with names:
`ScopesRespected` (`WellScoped`: of an accepted contract each node mentions names that
are in scope and declares names that are not), and, if no parameter of the contract is
assigned to (`ValuesTraceable`), `NeverCrashesAlways`: `getStackIndex`, whose comment says
that its error "should not happen", finds each variable it is asked for. The first
rests on `ScopeInv` of `SemanticAnalysisProofs`: the symbol tables hold, scope by scope, just
what the nodes before declare there (`TablesAre`). The second is far from inductive. `NamesInv`
says of the generator at any node (`SymbolsInv`)

- that each name with a slot is in scope, and that the slots above the depth of a branch in
  progress are those of the names declared in it, so that what `removeScopedVariables` drops
  by count are the variables of the block (`SlotsScoped`);
- that each name declared before that a later node mentions has a slot: before the functions
  whichever of them mentions it, in a function only what it mentions itself (`Wanted`);
- that `stackCopy` has a slot for what the functions to come mention (`CopyHolds`);
- that a symbol in `usedSymbols` has been mentioned (`Recorded`).

A name rolled away is not wanted again (`WantedIsNotDead`): the roll is at the last mention of
the symbol in the text (`OpRoll`), and outside branches. What the state script drops is not
wanted behind it (`SeparatorHolds`); that is where the names have to be declared once. Each
kind of node has a lemma again.

`CodeGenerationMeaningProofs` goes from names to values: `SlotsHoldVariablesAlways` and
`OperandsAreMeantAlways`. Neither is inductive, and both need everything above: a depth that
is right on one path only, or a name that is not found, and a value is lost. `ValuesInv` says

- of a path being executed, that the machine `Mirrors` the stack: below each slot of a wanted
  name lies the value the path last gave that name, below the slots lie the arguments
  that no slot stands for yet, those of the selected function and the selector (`RestOf`). Of two
  slots with one name only the first has to be right, as only that one is found;
- of a side of a branch that is visited and not executed, that the machine mirrors the stack as
  it was at the branch: what such a side assigns to, it replaces in place, and `env` stays as it was;
- of a path that calls a later function, that the machine mirrors `stackCopy`, in which the
  selector is wanted too (`CopyValues`): the bodies in between are compiled, not executed;
- that the operators so far had the operands they should have had.

A slot that was rolled or dropped may leave anything behind: only wanted names (`Wanted`,
`Needs` inside an expression) are spoken of, so that `NamesInv` is part of the invariant
(`MeaningInv`). An expression is followed identifier by identifier (`VisitsHold`), with its k
operands so far on top; `ReplacedHold` is `emitReplace`, where the value has to
travel past the slots that are set aside and come back in their order (`ReplaceEffect`);
`FunctionValues` is the dispatch, where the comparison takes the selector or a copy of it
(`SelectorTaken`, `SelectorCopied`), and on the path the arguments of the selected function get
their names (`ArgumentsNamed`). Besides `NoUnsetWithBranches` the theorems assume
`ValuesTraceable`: the arguments are pushed in the order the compiled code expects, and no
parameter of the contract is assigned to, as such assignments have no effect (see
`codegen_assign_inline`).

The library's induction theorems take an operator as a parameter, which no installed
prover can instantiate. Where a proof needs one, for the sums of the SDK, `SumsProofs` takes
it over a set of numbers (`InductionOnSet`, from the well-foundedness of `<`), and a
recursive function is given to the provers by the equations it satisfies.

Model-checked only: liveness (out of the prover's reach); of `CodeGeneration` the end of a path
(`CleanFinish`: which check comes last, and that its value is all that is left); the encodings and the
lint; what the rules of the optimiser mean on a stack; and parsing, building and
printing, whose definitions are recursive operators, about which nothing can be proved here.
`ShutdownOnlyByLast` and `ManualIsManual` are proved only; that only the last user shuts down
is also part of `ImplementsSharedConnection`.

## Plan

1. Composition of `CodeGeneration` with `Optimiser`: what the compiler emits, optimised, and
   source map offsets that are taken before.
2. `ContractSemantics` (statements run on an environment) as an abstract specification,
   implemented by `CodeGeneration`; the parameter orders of the artifact with it.
3. Theorems: for `CodeGeneration` how a path ends (`CleanFinish`); for `ContractCalls` that the
   estimated size covers the transaction; the rules of the optimiser one by one against the
   stack opcodes.

## Not modelled

- The lexer, but for the minus sign above: character classes, no state of its own.
- `CashScriptListener`, `CashScriptVisitor` and the `accept` methods of the tree: they
  dispatch, and what they dispatch to is modelled.
- Hashing, signatures and addresses: a library's work. ASM text and back, opcode counts.
- Errors beyond their being thrown: wording and locations.
- File and command line input and output, formatting, version pragmas.
- The other network providers: stateless pass-through to a client library.
- Examples, documentation and the website.
