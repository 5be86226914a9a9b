---------------------------- MODULE ContractCalls ----------------------------
(***************************************************************************)
(* From an artifact to an unlocking script: the constructor of Contract,   *)
(* the functions it makes, encodeArgument and createInputScript; and the   *)
(* outputs of a transaction: resolveOutput, createOpReturnOutput and the   *)
(* size the fee is taken from.                                             *)
(*                                                                         *)
(* An application constructs a contract, calls a function and adds         *)
(* outputs; what a node reads of the bytes is compared with what it meant. *)
(***************************************************************************)
EXTENDS ScriptEncoding, TLC

CONSTANTS
    Artifacts,  \* [asm |-> script, abi |-> list of entries]
    Arguments,  \* what the application passes
    Outputs,    \* [to, amount] with an optional stateScript
    States,     \* what it keeps in a stateful output: a number or bytes
    Foreign,    \* locking bytecodes of outputs of others
    MaxOutputs,
    Typical     \* bound: only calls with these arguments go on to outputs

ASSUME BoundAssumption == MaxOutputs \in Nat

VARIABLES
    artifact,       \* [asm, abi]; its asm is <<>> before it is chosen
    constructorArgs,
    redeemScript,
    called,         \* [entry, args, script] of the call
    outputs,        \* of the transaction
    kept,           \* the state meant to be in an output, by its index
    received        \* the locking bytecode of somebody's output, <<>> for none

vars == <<artifact, constructorArgs, redeemScript, called, outputs, kept, received>>

NoArtifact  == [asm |-> <<>>, abi |-> <<>>]
NoCall      == [entry |-> 0, args |-> <<>>, script |-> <<>>]
SIG         == 65   \* bytes of a Schnorr signature with its hash type

-----------------------------------------------------------------------------
(* Arguments. *)
BoundOf(type) ==
    CASE type = "byte" -> 1 [] type = "bytes4" -> 4 [] type = "bytes20" -> 20
      [] type = "bytes32" -> 32 [] OTHER -> 0

SizeFits(bytes, type) ==
    /\ type = "sig" => Len(bytes) \in {0, SIG}
    /\ type = "datasig" => Len(bytes) \in {0, SIG - 1}
    /\ BoundOf(type) > 0 => Len(bytes) = BoundOf(type)

\* A type the SDK does not know (Ripemd160, Sha256 of an artifact for sCrypt) takes bytes.
IsAccepted(arg, type) ==
    CASE type = "bool"   -> arg.kind = "boolean"
      [] type = "int"    -> arg.kind = "number"
      [] type = "string" -> arg.kind = "text"
      [] type = "sig" /\ arg.kind = "template" -> TRUE
      [] OTHER -> arg.kind = "bytes" /\ Len(arg.value) <= 520 /\ SizeFits(arg.value, type)

\* In the input script a template stands for the signature made with it.
encodeArgument(arg) ==
    CASE arg.kind = "boolean"  -> encodeBool(arg.value)
      [] arg.kind = "number"   -> encodeInt(arg.value)
      [] arg.kind = "template" -> placeholder(SIG)
      [] OTHER                 -> arg.value

AllAccepted(args, params) ==
    Len(args) = Len(params) /\ \A i \in DOMAIN args : IsAccepted(args[i], params[i])

Encoded(args) == [i \in DOMAIN args |-> Data(encodeArgument(args[i]))]

-----------------------------------------------------------------------------
(* The contract. *)
Constructor(art) == SelectSeq(art.abi, LAMBDA entry : entry.type = "constructor")
Functions(art)   == SelectSeq(art.abi, LAMBDA entry : entry.type = "function")

validateArtifact(art) ==
    /\ art.asm # <<>>
    /\ Constructor(art) # <<>>
    /\ \A i \in DOMAIN art.abi : ~art.abi[i].covenant

\* contract.functions has one function for a name: the last entry replaces the others.
FunctionNamed(art, name) ==
    Max({i \in DOMAIN Functions(art) : Functions(art)[i].name = name})

Selector(art, entry) ==
    IF Len(Functions(art)) = 1 THEN <<>> ELSE <<Data(encodeInt(Natural(entry - 1)))>>

Construct ==
    /\ artifact = NoArtifact /\ received = <<>>
    /\ \E art \in Artifacts :
         /\ validateArtifact(art)
         /\ artifact' = art
         /\ \E args \in SeqOf(Arguments, Len(Head(Constructor(art)).params)) :
              /\ AllAccepted(args, Head(Constructor(art)).params)
              /\ \A i \in DOMAIN args : args[i].kind # "template"
              /\ constructorArgs' = args
              /\ redeemScript' = generateRedeemScript(art.asm, Reverse(Encoded(args)))
    /\ UNCHANGED <<called, outputs, kept, received>>

\* Mutant: the selector lies under the arguments.
MutCreateInputScript(encodedArgs, selector) ==
    scriptToBytecode(selector \o Reverse(encodedArgs) \o <<Data(scriptToBytecode(redeemScript))>>)

createInputScript(encodedArgs, selector) ==
    scriptToBytecode(Reverse(encodedArgs) \o selector \o <<Data(scriptToBytecode(redeemScript))>>)

Call ==
    /\ artifact # NoArtifact /\ called = NoCall
    /\ \E name \in {Functions(artifact)[i].name : i \in DOMAIN Functions(artifact)} :
         LET entry  == FunctionNamed(artifact, name)
             params == Functions(artifact)[entry].params
         IN  \E args \in SeqOf(Arguments, Len(params)) :
               /\ AllAccepted(args, params)
               /\ called' = [entry |-> entry, args |-> args,
                    script |-> createInputScript(Encoded(args), Selector(artifact, entry))]
    /\ UNCHANGED <<artifact, constructorArgs, redeemScript, outputs, kept, received>>

-----------------------------------------------------------------------------
(* Outputs. *)
IsAddress(output)    == "version" \in DOMAIN output.to
IsStateful(output)   == "stateScript" \in DOMAIN output

P2PKH(hash) == <<118, 169, 20>> \o hash \o <<136, 172>>
P2SH(hash)  == <<169, 20>> \o hash \o <<135>>

addressToLockScript(address) ==
    IF address.version \in {0, 111} THEN P2PKH(address.payload) ELSE P2SH(address.payload)

resolveOutput(output) ==
    LET base == IF IsAddress(output) THEN addressToLockScript(output.to) ELSE output.to.raw
    IN  IF IsStateful(output) THEN buildStatefulOutput(output.stateScript, base) ELSE base

createOpReturnOutput(chunks) ==
    [to |-> [raw |-> encodeNullDataScript(<<Op(106)>> \o [i \in DOMAIN chunks |-> Data(chunks[i])])]]

CanAdd ==
    /\ called # NoCall /\ Len(outputs) < MaxOutputs
    /\ Range(called.args) \cup Range(constructorArgs) \subseteq Typical

\* to() and withOpReturn(); a chunk that is too large has thrown before.
AddOutput ==
    /\ CanAdd
    /\ \E output \in Outputs : outputs' = Append(outputs, output)
    /\ UNCHANGED <<artifact, constructorArgs, redeemScript, called, kept, received>>

StateBytes(state) ==
    IF state.kind = "number" THEN encodeScriptInt(state.value) ELSE state.value

\* An output with a stateScript, or one made by buildStatefulOutput of the contract,
\* whose code is the contract's own; one in a transaction is enough.
AddState ==
    /\ CanAdd /\ kept = <<>>
    /\ \E state \in States :
         /\ \/ \E output \in Outputs :
                 outputs' = Append(outputs, output @@ [stateScript |-> StateBytes(state)])
            \/ outputs' = Append(outputs, [to |-> [raw |->
                 buildStatefulOutput(StateBytes(state), scriptToBytecode(redeemScript))]])
         /\ kept' = kept @@ (Len(outputs) + 1 :> state)
    /\ UNCHANGED <<artifact, constructorArgs, redeemScript, called, received>>

Receive ==
    /\ artifact = NoArtifact /\ received = <<>>
    /\ received' \in Foreign
    /\ UNCHANGED <<artifact, constructorArgs, redeemScript, called, outputs, kept>>

getInputSize(inputScript) ==
    32 + 4 + (IF Len(inputScript) > 252 THEN 3 ELSE 1) + Len(inputScript) + 4

\* Mutant: the separator is not counted.
MutStateSize(output) ==
    IF IsStateful(output) THEN Len(encodePush(output.stateScript)) ELSE 0

StateSize(output) ==
    IF IsStateful(output) THEN Len(encodePush(output.stateScript)) + 1 ELSE 0

P2PKH_OUTPUT_SIZE == 34
P2SH_OUTPUT_SIZE  == 32

OutputSize(output) ==
    StateSize(output) + IF IsAddress(output) THEN P2PKH_OUTPUT_SIZE
                        ELSE Len(output.to.raw) + 8 + 2

SumOf(numbers) == FoldLeft(+, 0, numbers)

getTxSizeWithoutInputs ==
    4 + 4 + SumOf([i \in DOMAIN outputs |-> OutputSize(outputs[i])])
      + Len(encodeInt(Natural(Len(outputs) + 1)))

\* setInputsAndOutputs: one byte for each input is for their count.
EstimatedSize(inputs, change) ==
    getTxSizeWithoutInputs + inputs * (getInputSize(called.script) + 1)
      + IF change THEN P2SH_OUTPUT_SIZE ELSE 0

-----------------------------------------------------------------------------
Init ==
    /\ artifact = NoArtifact /\ called = NoCall
    /\ constructorArgs = <<>> /\ redeemScript = <<>>
    /\ outputs = <<>> /\ kept = <<>> /\ received = <<>>

Next == Construct \/ Call \/ AddOutput \/ AddState \/ Receive
Spec == Init /\ [][Next]_vars

-----------------------------------------------------------------------------
(* External: the node. *)
VarInt(n) == IF n > 252 THEN 3 ELSE 1

SerializedInput == 32 + 4 + VarInt(Len(called.script)) + Len(called.script) + 4

SerializedSize(inputs, change) ==
    LET scripts == [i \in DOMAIN outputs |-> Len(resolveOutput(outputs[i]))]
                     \o IF change THEN <<23>> ELSE <<>>
    IN  4 + VarInt(inputs) + inputs * SerializedInput + VarInt(Len(scripts))
          + SumOf([i \in DOMAIN scripts |-> 8 + VarInt(scripts[i]) + scripts[i]]) + 4

\* What the input script leaves on the stack, the last push first.
StackOf(bytes) == Reverse([i \in DOMAIN Instructions(bytes) |-> Pushed(Instructions(bytes)[i])])

\* Where a node finds the separator: at the first instruction that is one.
Separators(bytes) ==
    {i \in DOMAIN Instructions(bytes) : Instructions(bytes)[i].op = OP_STATESEPARATOR}

SeparatorAt(bytes) ==
    IF Separators(bytes) = {} THEN 0 ELSE Instructions(bytes)[Min(Separators(bytes))].at

-----------------------------------------------------------------------------
(* Properties. *)

\* An item of the stack is what an argument means to a parameter of its type.
Means(item, arg, type) ==
    /\ arg.kind = "number"   => type = "int" /\ IsMinimal(item) /\ Number(item) = arg.value
    /\ arg.kind = "boolean"  => type = "bool" /\ (Number(item) # Zero <=> arg.value)
    /\ arg.kind = "template" => type = "sig" /\ Len(item) = SIG
    /\ arg.kind = "text"     => type = "string" /\ item = arg.value
    /\ arg.kind = "bytes"    => item = arg.value
    /\ type = "bytes4"       => Len(item) = 4
    /\ type = "sig"          => Len(item) \in {0, SIG}

\* createInputScript and generateRedeemScript: the script a node hashes is the
\* contract's, and when its code begins the constructor's arguments lie on the
\* stack, the first on top, then the selector if there is a choice, then the
\* function's arguments, the first on top, each as its type wants it: no push,
\* reversal or replacement on the way has touched one.
ArgumentsArrive ==
    called # NoCall =>
      LET items     == StackOf(called.script)
          entry     == Functions(artifact)[called.entry]
          selectors == IF Len(Functions(artifact)) > 1 THEN 1 ELSE 0
          size      == Len(constructorArgs)
          inner     == Instructions(items[1])
      IN  /\ items[1] = scriptToBytecode(redeemScript)
          /\ selectors = 1 => Number(items[2]) = Natural(called.entry - 1)
          /\ Len(items) = 1 + selectors + Len(called.args)
          /\ \A i \in DOMAIN called.args :
               Means(items[1 + selectors + i], called.args[i], entry.params[i])
          /\ \A i \in 1 .. size :
               /\ IsPush(inner[size + 1 - i])
               /\ Means(Pushed(inner[size + 1 - i]), constructorArgs[i],
                        Head(Constructor(artifact)).params[i])

\* The comment on replaceBytecodeNop: it "adds either 1 or 3 to the cut to additionally
\* cut off the VarInt", which is the VarInt of the script it returns, whatever the
\* adjusted cut itself does to the size.
CutMatchesSize ==
    redeemScript # <<>> /\ Nops(artifact.asm) # {} =>
      LET cut == Min(Nops(artifact.asm)) + 1
          now == redeemScript[Len(constructorArgs) + cut - 1]
      IN  NumberAt(now) = NumberAt(artifact.asm[cut]) + VarInt(calculateBytesize(redeemScript))

\* setInputsAndOutputs: the size the fee is taken from is never below the size that is
\* sent, with and without change, for scripts of outputs of up to 252 bytes and
\* Schnorr signatures.
EstimateCovers ==
    called # NoCall /\ (\A i \in DOMAIN outputs : Len(resolveOutput(outputs[i])) <= 252) =>
      \A inputs \in 1 .. 2, change \in BOOLEAN :
        SerializedSize(inputs, change) <= EstimatedSize(inputs, change)

\* The comment on splitStatefulBytecode: it "finds the first 0xbd byte that is not inside
\* a data push".  So it finds the separator a node finds, in any script without operands
\* of references.
SplitsAsANodeDoes(bytes) ==
    LET split == splitStatefulBytecode(bytes)
    IN  IF split.found THEN SeparatorAt(bytes) = Len(split.stateData) + 1
                       ELSE SeparatorAt(bytes) = 0

\* And in an output the SDK has built it finds the state that was meant, for bytes and
\* for numbers below 2^31.
StateReadsBack ==
    /\ SplitsAsANodeDoes(received)
    /\ \A i \in DOMAIN kept :
         LET bytes == resolveOutput(outputs[i])
             split == splitStatefulBytecode(bytes)
             state == Instructions(split.stateData)
         IN  /\ split.found /\ SplitsAsANodeDoes(bytes)
             /\ Len(state) = 1 /\ IsPush(state[1])
             /\ kept[i].kind = "bytes" => Pushed(state[1]) = kept[i].value
             /\ kept[i].kind = "number" =>
                  IsMinimal(Pushed(state[1])) /\ Number(Pushed(state[1])) = kept[i].value
=============================================================================
