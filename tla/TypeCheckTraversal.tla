------------------------- MODULE TypeCheckTraversal -------------------------
(***************************************************************************)
(* The type check of expressions and the opcodes chosen from the types it  *)
(* gives them (TypeCheckTraversal.ts, generation/utils.ts, Globals.ts).    *)
(*                                                                         *)
(* A behaviour builds a program bottom up: each action is one kind of node *)
(* over the expressions already on the stack, taken only when the check    *)
(* accepts the node.  Next to its type an expression carries a value the   *)
(* compiled opcodes may leave for it, so that what the types promise can   *)
(* be compared with what the script computes.  An opcode that fails for    *)
(* some operands ends the script, which is no step of the behaviour.       *)
(***************************************************************************)
EXTENDS TypeSystem, Sums, FiniteSets

CONSTANTS
  DeclaredTypes,  \* the types a program may write
  Arguments,      \* the parameters of a program: their types and the values passed for them
  Sizes,          \* the sizes of values read from the transaction, and of split parts
  Literals,       \* the integers a program may write, none negative or above 127
  MaxSize,        \* bound on the size of a value
  MaxStack,       \* bound on the expressions held at once
  MaxNodes        \* bound on the nodes of a program

ASSUME DeclaredTypesAssumption == DeclaredTypes \subseteq {t \in Type : t.form = "plain"}
ASSUME ArgumentsAssumption ==
  \A a \in Arguments : a.type \in DeclaredTypes /\ a.value \in Value /\ Fits(a.value, a.type)
ASSUME BoundsAssumption ==
  /\ Sizes \subseteq Nat
  /\ Literals \subseteq 0 .. 127
  /\ {MaxSize, MaxStack, MaxNodes} \subseteq Nat

VARIABLES
  stack,   \* the expressions built and not yet used, the last one on top
  nodes,   \* number of nodes so far
  misfits  \* opcodes that met operands they cannot take, with the types and sizes of these

vars == <<stack, nodes, misfits>>

NoLiteral == -1

(* Why a type may be a claim the check cannot verify: the program cast     *)
(* bytes to it, it declared the width of a part of a split, or the check   *)
(* gave the width of a hash to a script read from the transaction.         *)
Reasons == {"cast", "split", "codeScript"}

(* An expression: its type, the value of its script (one for each element  *)
(* of an array or a pair), its literal when it is an integer literal, and  *)
(* the reasons for which its width is taken on trust.  A type without a    *)
(* width is never taken on trust.                                          *)
Entry(type, values, literal, reasons) ==
  [type |-> type, values |-> values, literal |-> literal,
   trusted |-> IF type.bound > 0 THEN reasons ELSE {}]

-----------------------------------------------------------------------------
(* The operands the check accepts, and the type it gives the node.         *)

AnyOf(actual, expected) == \E t \in expected : ImplicitlyCastable(actual, t)

NumberReads == {"value", "outpointIndex", "sequenceNumber", "stateSeparatorIndex"}
ScriptReads == {"lockingBytecode", "unlockingBytecode", "refDataSummary", "tx.state"}
HashReads == {"outpointTransactionHash", "refHashDataSummary"}
CodeReads == {"codeScript", "stateScript"}
UnaryOperators ==
  {"!", "-", ".length", ".reverse()"} \cup NumberReads \cup ScriptReads \cup HashReads \cup CodeReads

UnaryType(op, t) ==
  CASE op = "!" /\ AnyOf(t, {BoolType}) -> BoolType
    [] op = "-" /\ AnyOf(t, {IntType}) -> IntType
    [] op = ".length" /\ AnyOf(t, {AnyBytes, StringType}) -> IntType
    [] op = ".reverse()" /\ AnyOf(t, {AnyBytes, StringType}) -> t
    [] op \in NumberReads /\ AnyOf(t, {IntType}) -> IntType
    [] op \in ScriptReads /\ AnyOf(t, {IntType}) -> AnyBytes
    [] op \in HashReads \cup CodeReads /\ AnyOf(t, {IntType}) -> BytesType(32)
    [] OTHER -> Undefined

Arithmetic == {"-", "*", "/", "%"}
Comparisons == {"<", "<=", ">", ">="}
Equalities == {"==", "!="}
Connectives == {"&&", "||"}
BitOperators == {"&", "|", "^"}
BinaryOperators ==
  {"+", ".split"} \cup Arithmetic \cup Comparisons \cup Equalities \cup Connectives \cup BitOperators

BothBounded(left, right) ==
  IsBytes(left) /\ IsBytes(right) /\ left.bound > 0 /\ right.bound > 0

BinaryType(op, left, right) ==
  LET res == ResultingType(left, right) IN
  CASE op = "+" /\ AnyOf(res, {IntType, StringType, AnyBytes}) ->
         IF BothBounded(left, right) THEN BytesType(left.bound + right.bound) ELSE res
    [] op \in Arithmetic /\ AnyOf(res, {IntType}) -> res
    [] op \in Comparisons /\ AnyOf(res, {IntType}) -> BoolType
    [] op \in Equalities /\ res # Undefined -> BoolType
    [] op \in Connectives /\ AnyOf(res, {BoolType}) -> BoolType
    [] op \in BitOperators /\ IsBytes(left) /\ IsBytes(right) /\ left.bound = right.bound -> left
    [] op = ".split" /\ AnyOf(left, {AnyBytes, StringType}) /\ AnyOf(right, {IntType}) ->
         TupleType(IF IsBytes(left) THEN AnyBytes ELSE StringType)
    [] OTHER -> Undefined

(* The functions every contract may call, and the two classes.             *)
Hashes20 == {"ripemd160", "sha1", "hash160"}
Hashes32 == {"sha256", "hash256", "sha512_256", "hash512_256", "blake3", "k12"}
RefSums == {"refType", "refValueSum", "refOutputCount", "zeroValue.refOutputCount"}
ScriptSums == {"refHashValueSum", "codeScriptValueSum", "codeScriptCount", "zeroValue.codeScriptCount"}
Classes == {"LockingBytecodeP2PKH", "LockingBytecodeNullData"}
GlobalFunctions ==
  {"abs", "min", "max", "within", "checkSig", "checkMultiSig", "checkDataSig"}
    \cup Hashes20 \cup Hashes32 \cup RefSums \cup ScriptSums \cup Classes

Parameters(fn) ==
  CASE fn = "abs" -> <<IntType>>
    [] fn \in {"min", "max"} -> <<IntType, IntType>>
    [] fn = "within" -> <<IntType, IntType, IntType>>
    [] fn \in Hashes20 \cup Hashes32 -> <<Plain("any")>>
    [] fn \in RefSums -> <<BytesType(36)>>
    [] fn \in ScriptSums -> <<BytesType(32)>>
    [] fn = "checkSig" -> <<Plain("sig"), Plain("pubkey")>>
    [] fn = "checkMultiSig" -> <<ArrayType(Plain("sig")), ArrayType(Plain("pubkey"))>>
    [] fn = "checkDataSig" -> <<Plain("datasig"), AnyBytes, Plain("pubkey")>>
    [] fn = "LockingBytecodeP2PKH" -> <<BytesType(20)>>
    [] fn = "LockingBytecodeNullData" -> <<ArrayType(AnyBytes)>>

Returns(fn) ==
  CASE fn \in {"abs", "min", "max"} \cup RefSums \cup ScriptSums -> IntType
    [] fn \in {"within", "checkSig", "checkMultiSig", "checkDataSig"} -> BoolType
    [] fn \in Hashes20 -> BytesType(20)
    [] fn \in Hashes32 -> BytesType(32)
    [] fn = "LockingBytecodeP2PKH" -> BytesType(25)
    [] fn = "LockingBytecodeNullData" -> AnyBytes

-----------------------------------------------------------------------------
(* The opcodes the generator emits for a node.                             *)

CompileCast(from, to) ==
  CASE from = IntType /\ IsBytes(to) /\ to.bound > 0 -> "NUM2BIN"
    [] from # IntType /\ to = IntType -> "BIN2NUM"
    [] OTHER -> "none"

IsNumeric(left, right) == ResultingType(left, right) \in {IntType, BoolType}

CompileBinaryOp(op, numeric) ==
  CASE op \in Arithmetic -> "arithmetic"
    [] op \in Comparisons -> "compare"
    [] op \in Connectives -> "compare"
    [] op = "+" -> IF numeric THEN "arithmetic" ELSE "CAT"
    [] op \in Equalities -> IF numeric THEN "compare" ELSE "EQUAL"
    [] op \in BitOperators -> "bitwise"
    [] op = ".split" -> "SPLIT"

CompileUnaryOp(op) ==
  CASE op = "!" -> "compare"
    [] op = "-" -> "arithmetic"
    [] op = ".length" -> "SIZE"
    [] op = ".reverse()" -> "REVERSEBYTES"
    [] op \in NumberReads -> "readNumber"
    [] op \in HashReads -> "readHash"
    [] op \in ScriptReads \cup CodeReads -> "readScript"

(* What the node's interpreter leaves for an opcode: any of these results, *)
(* none when the script fails.  The numbers of an arithmetic opcode are    *)
(* not computed.                                                           *)
Numbers == {[size |-> n, number |-> TRUE] : n \in {k \in Sizes : k <= MaxNumber}}
Truths == {[size |-> n, number |-> TRUE] : n \in {0, 1}}
OfSize(n) == {v \in [size : {n}, number : BOOLEAN] : (v.number => n <= MaxNumber) /\ (n = 0 => v.number)}
Anything == UNION {OfSize(n) : n \in Sizes}

Reads == {"readNumber", "readHash", "readScript"}

(* The length a chunk of null data is announced with, in bytes: OP_SIZE    *)
(* leaves it as a number, which needs a second byte from 128 on and none   *)
(* for 0, and PUSHDATA1 precedes it from 76 on.                            *)
LengthSize(n) == IF n = 0 THEN 0 ELSE IF n < 128 THEN 1 ELSE 2
ChunkPrefix(n) == LengthSize(n) + (IF n > 75 THEN 1 ELSE 0)

(* The length of the prefix a script parser reads before n pushed bytes.   *)
PushPrefix(n) == IF n <= 75 THEN 1 ELSE 2

(* Whether an opcode takes these operands.                                 *)
Takes(opcode, a) ==
  CASE opcode \in {"arithmetic", "compare", "NUM2BIN", "CHECKLOCKTIMEVERIFY"} \cup Reads ->
         \A k \in DOMAIN a : a[k].number
    [] opcode = "SPLIT" -> a[2].number
    [] opcode = "BIN2NUM" -> a[1].size <= MaxNumber
    [] opcode = "bitwise" -> a[1].size = a[2].size
    [] opcode = "readReference" -> a[1].size = 36
    [] opcode = "readCodeHash" -> a[1].size = 32
    [] opcode = "payToHash" -> a[1].size = 20
    [] opcode = "nullData" -> \A k \in DOMAIN a : ChunkPrefix(a[k].size) = PushPrefix(a[k].size)
    [] OTHER -> TRUE

Outcomes(opcode, a, literal) ==
  CASE opcode \in {"arithmetic", "SIZE", "readNumber", "readReference", "readCodeHash"} ->
         {<<v>> : v \in Numbers}
    [] opcode \in {"compare", "EQUAL", "CHECKSIG"} -> {<<v>> : v \in Truths}
    [] opcode = "hash20" -> {<<v>> : v \in OfSize(20)}
    [] opcode \in {"readHash", "hash32"} -> {<<v>> : v \in OfSize(32)}
    [] opcode = "payToHash" -> {<<v>> : v \in OfSize(a[1].size + 5)}
    [] opcode = "readScript" -> {<<v>> : v \in Anything}
    [] opcode = "CAT" -> {<<v>> : v \in OfSize(a[1].size + a[2].size)}
    [] opcode = "REVERSEBYTES" -> {<<v>> : v \in OfSize(a[1].size)}
    [] opcode = "bitwise" -> IF a[1].size = a[2].size THEN {<<v>> : v \in OfSize(a[1].size)} ELSE {}
    [] opcode = "NUM2BIN" -> IF a[1].size <= literal THEN {<<v>> : v \in OfSize(literal)} ELSE {}
    [] opcode = "BIN2NUM" -> {<<v>> : v \in {w \in Numbers : w.size <= a[1].size}}
    [] opcode = "none" -> {a}
    [] opcode = "SPLIT" ->
         UNION {OfSize(n) \X OfSize(a[1].size - n) :
                  n \in {k \in Sizes \cup Literals :
                           k <= a[1].size /\ literal \in {NoLiteral, k}}}

-----------------------------------------------------------------------------

Init ==
  /\ stack = <<>>
  /\ nodes = 0
  /\ misfits = {}

Top(n) == SubSeq(stack, Len(stack) - n + 1, Len(stack))
Under(n) == SubSeq(stack, 1, Len(stack) - n)
Last(n) == stack[Len(stack) - n + 1]

(* Room for one more node, and n expressions for it to use.                *)
Has(n) == nodes < MaxNodes /\ Len(stack) >= n

NewNode(n, pushed) ==
  /\ Has(n)
  /\ Len(stack) - n + Len(pushed) <= MaxStack
  /\ nodes' = nodes + 1
  /\ stack' = Under(n) \o pushed

(* The reasons for which any of the topmost n expressions is trusted.      *)
Trust(n) == UNION {Last(k).trusted : k \in 1 .. n}

(* An array is several items of the script's stack and their count.        *)
PlainOperands(n) == \A k \in 1 .. n : Last(k).type.form = "plain"

(* Records an opcode that meets operands it cannot take, when their types  *)
(* are not taken on trust.                                                 *)
Judge(n, opcode, operands) ==
  misfits' = misfits \cup
    IF Trust(n) # {} \/ (Takes(opcode, operands) /\ (opcode = "EQUAL" => PlainOperands(n))) THEN {}
    ELSE {[opcode |-> opcode, types |-> [k \in 1 .. n |-> Top(n)[k].type],
           sizes |-> {operands[k].size : k \in DOMAIN operands}]}

(* A node over the topmost n expressions that emits one opcode.            *)
Operation(n, opcode, type, literal, reasons) ==
  LET operands == [k \in 1 .. n |-> Top(n)[k].values[1]] IN
  /\ type # Undefined
  /\ Judge(n, opcode, operands)
  /\ \E result \in Outcomes(opcode, operands, literal) :
       /\ \A k \in DOMAIN result : result[k].size <= MaxSize
       /\ NewNode(n, <<Entry(type, result, NoLiteral, reasons)>>)

(* A literal or a parameter, whose argument the SDK encodes for its type.  *)
Leaf(type, value, literal) ==
  /\ NewNode(0, <<Entry(type, <<value>>, literal, {})>>)
  /\ UNCHANGED misfits

IntLiteral ==
  \E i \in Literals : Leaf(IntType, [size |-> IF i = 0 THEN 0 ELSE 1, number |-> TRUE], i)
HexLiteral == \E n \in Sizes \ {0} : \E v \in OfSize(n) : Leaf(BytesType(n), v, NoLiteral)
Parameter == \E a \in Arguments : Leaf(a.type, a.value, NoLiteral)

(* tx.version and the like, and this.activeBytecode.                       *)
NullaryOp ==
  \/ \E v \in Numbers : Leaf(IntType, v, NoLiteral)
  \/ \E v \in Anything : Leaf(AnyBytes, v, NoLiteral)

(* pushInputRef and the like, of a literal or of an inline parameter.      *)
PushRef ==
  \E t \in DeclaredTypes :
    /\ AnyOf(t, {BytesType(36)})
    /\ Leaf(BytesType(36), [size |-> t.bound, number |-> FALSE], NoLiteral)

UnaryOp(op) ==
  /\ Has(1)
  /\ Operation(1, CompileUnaryOp(op), UnaryType(op, Last(1).type), NoLiteral,
               IF op \in CodeReads THEN {"codeScript"} ELSE Last(1).trusted)

BinaryOp(op) ==
  /\ Has(2)
  /\ LET left == Last(2).type
         right == Last(1).type
     IN  Operation(2, CompileBinaryOp(op, IsNumeric(left, right)), BinaryType(op, left, right),
                   Last(1).literal, Trust(2))

TupleIndexOp(index) ==
  /\ Has(1)
  /\ Last(1).type.form = "tuple"
  /\ NewNode(1, <<Entry(ElementType(Last(1).type), <<Last(1).values[index]>>, NoLiteral, {})>>)
  /\ UNCHANGED misfits

Cast(to) ==
  /\ Has(1)
  /\ ExplicitlyCastable(Last(1).type, to)
  /\ LET from == Last(1).type IN
     Operation(1, CompileCast(from, to), to, to.bound,
               IF from = AnyBytes THEN {"cast"} ELSE Last(1).trusted)

(* bytes(int, size), the only cast with a size.                            *)
SizedCast ==
  /\ Has(2)
  /\ Last(2).type = IntType /\ Last(1).type.form = "plain"
  /\ \E size \in Sizes :
       /\ Last(1).literal \in {NoLiteral, size}
       /\ Operation(2, "NUM2BIN", AnyBytes, size, {})

(* A variable of a declared type, or an assignment to one.                 *)
Assign(declared) ==
  /\ Has(1)
  /\ ImplicitlyCastable(Last(1).type, declared)
  /\ NewNode(1, <<Entry(declared, Last(1).values, NoLiteral, Last(1).trusted)>>)
  /\ UNCHANGED misfits

(* The width of each half of a split, when the source has one and the      *)
(* index is a literal.                                                     *)
Known(source, literal) == IsBytes(source) /\ source.bound > 0 /\ literal # NoLiteral

\* Mutant: both halves get the width of the first.
MutExpectedBound(i, source, literal) == literal

ExpectedBound(i, source, literal) == IF i = 1 THEN literal ELSE source.bound - literal

(* Whether a half of a split may be declared with a type.                  *)
HalfAssignable(i, source, literal, declared) ==
  /\ Known(source, literal) /\ IsBytes(declared) /\ declared.bound > 0
       => declared.bound = ExpectedBound(i, source, literal)
  /\ ImplicitlyCastable(source, declared) \/ (IsBytes(source) /\ IsBytes(declared))

TupleAssignment(first, second) ==
  LET declared == <<first, second>>
      source == Last(2).type
      literal == Last(1).literal
      half(i, v) == Entry(declared[i], <<v>>, NoLiteral,
                          IF Known(source, literal) THEN Last(2).trusted ELSE {"split"})
  IN  /\ Has(2)
      /\ BinaryType(".split", source, Last(1).type) # Undefined
      /\ \A i \in {1, 2} : HalfAssignable(i, source, literal, declared[i])
      /\ \E parts \in Outcomes("SPLIT", <<Last(2).values[1], Last(1).values[1]>>, literal) :
           NewNode(2, <<half(1, parts[1]), half(2, parts[2])>>)
      /\ UNCHANGED misfits

ActualTypes(n) == [k \in 1 .. n |-> Top(n)[k].type]

ArrayLiteral(n) ==
  LET element == ArrayElementType(ActualTypes(n)) IN
  /\ Has(n)
  /\ PlainOperands(n)
  /\ element # Undefined
  /\ NewNode(n, <<Entry(ArrayType(element), [k \in 1 .. n |-> Top(n)[k].values[1]],
                       NoLiteral, Trust(n))>>)
  /\ UNCHANGED misfits

(* A call of a function with plain parameters, or of LockingBytecodeP2PKH. *)
CompileGlobalFunction(fn) ==
  CASE fn \in {"abs", "min", "max"} -> "arithmetic"
    [] fn = "within" -> "compare"
    [] fn \in {"checkSig", "checkDataSig"} -> "CHECKSIG"
    [] fn \in Hashes20 -> "hash20"
    [] fn \in Hashes32 -> "hash32"
    [] fn \in RefSums -> "readReference"
    [] fn \in ScriptSums -> "readCodeHash"
    [] fn = "LockingBytecodeP2PKH" -> "payToHash"

OfArrays == {"checkMultiSig", "LockingBytecodeNullData"}

FunctionCall(fn) ==
  LET n == Len(Parameters(fn)) IN
  /\ Has(n)
  /\ ImplicitlyCastableSignature(ActualTypes(n), Parameters(fn))
  /\ Operation(n, CompileGlobalFunction(fn), Returns(fn), NoLiteral, Trust(n))

(* checkMultiSig of an array of n signatures and one of m keys.            *)
MultiSig(n, m) ==
  LET types == ActualTypes(n + m)
      sigs == ArrayElementType(SubSeq(types, 1, n))
      keys == ArrayElementType(SubSeq(types, n + 1, n + m))
  IN  /\ Has(n + m)
      /\ PlainOperands(n + m)
      /\ ImplicitlyCastableSignature(<<ArrayType(sigs), ArrayType(keys)>>,
                                     Parameters("checkMultiSig"))
      /\ n <= m
      /\ \E v \in Truths : NewNode(n + m, <<Entry(BoolType, <<v>>, NoLiteral, {})>>)
      /\ UNCHANGED misfits

NullDataSize(chunks) ==
  1 + SumOf([k \in 1 .. Len(chunks) |-> ChunkPrefix(chunks[k].size) + chunks[k].size])

NullData ==
  /\ Has(1)
  /\ ImplicitlyCastableSignature(ActualTypes(1), Parameters("LockingBytecodeNullData"))
  /\ Judge(1, "nullData", Last(1).values)
  /\ \E v \in OfSize(NullDataSize(Last(1).values)) :
       v.size <= MaxSize /\ NewNode(1, <<Entry(AnyBytes, <<v>>, NoLiteral, {})>>)

(* A statement that consumes a condition, or a time.                       *)
Statement(expected, opcode) ==
  /\ Has(1)
  /\ ImplicitlyCastable(Last(1).type, expected)
  /\ Judge(1, opcode, Last(1).values)
  /\ NewNode(1, <<>>)

Next ==
  \/ IntLiteral
  \/ Parameter
  \/ HexLiteral
  \/ NullaryOp
  \/ PushRef
  \/ \E op \in UnaryOperators : UnaryOp(op)
  \/ \E op \in BinaryOperators : BinaryOp(op)
  \/ \E index \in {1, 2} : TupleIndexOp(index)
  \/ \E to \in DeclaredTypes : Cast(to)
  \/ SizedCast
  \/ \E declared \in DeclaredTypes : Assign(declared)
  \/ \E first, second \in DeclaredTypes : TupleAssignment(first, second)
  \/ \E n \in 1 .. 2 : ArrayLiteral(n)
  \/ \E fn \in GlobalFunctions \ OfArrays : FunctionCall(fn)
  \/ \E n, m \in 1 .. 2 : MultiSig(n, m)
  \/ NullData
  \/ Statement(BoolType, "VERIFY")
  \/ Statement(IntType, "CHECKLOCKTIMEVERIFY")

Spec == Init /\ [][Next]_vars

-----------------------------------------------------------------------------

(* The shape of the state.                                                 *)
Expression ==
  [type : Type, values : Seq(Value), literal : Literals \cup {NoLiteral}, trusted : SUBSET Reasons]

Opcodes ==
  {"arithmetic", "compare", "bitwise", "EQUAL", "CAT", "SPLIT", "SIZE", "REVERSEBYTES", "NUM2BIN",
   "BIN2NUM", "none", "hash20", "hash32", "CHECKSIG", "readReference", "readCodeHash", "payToHash",
   "nullData", "VERIFY", "CHECKLOCKTIMEVERIFY"} \cup Reads

TypeOK ==
  /\ nodes \in 0 .. MaxNodes
  /\ stack \in Seq(Expression)
  /\ misfits \subseteq [opcode : Opcodes, types : Seq(Type), sizes : SUBSET Nat]

(* What the check says of an expression is what its script computes: an    *)
(* int or a bool is a number, a bytesN has N bytes, through any chain of   *)
(* operators, casts, splits, arrays and calls, except where the width was  *)
(* taken on trust.                                                         *)
TypesAreSound ==
  \A k \in DOMAIN stack :
    stack[k].trusted = {} =>
      \A i \in DOMAIN stack[k].values : Fits(stack[k].values[i], ElementType(stack[k].type))

(* Where the check leaves an operand to the script or to the programmer:   *)
(* bytes of unknown width may be too long for a number, or differ in width *)
(* under a bit operator; the size of bytes(int, size) may have any type;   *)
(* two arrays may be compared; and a null data chunk that is empty or has  *)
(* more than 127 bytes gets a prefix no parser reads back.                 *)
LeftUnchecked(m) ==
  \/ m.opcode \in {"BIN2NUM", "bitwise"} /\ \A k \in DOMAIN m.types : m.types[k].bound = 0
  \/ m.opcode = "NUM2BIN" /\ m.types[Len(m.types)] # IntType
  \/ m.opcode = "EQUAL" /\ \A k \in DOMAIN m.types : m.types[k].form = "array"
  \/ m.opcode = "nullData" /\ \E n \in m.sizes : n = 0 \/ n > 127

(* No opcode the compiler chose from the types meets operands it cannot    *)
(* take, but for the cases above: whatever program the check accepts, the  *)
(* arithmetic is on numbers, the aggregates get 36 and 32 bytes, and no    *)
(* cast of a bytesN to int meets more than 8 bytes.                        *)
OpcodesFitOperands == \A m \in misfits : LeftUnchecked(m)

(* Doc (GenerateTargetTraversal.ts, visitInstantiation): the prefix of a   *)
(* null data chunk encodes lengths up to 255.                              *)
ChunksUpTo255 ==
  \A m \in misfits : m.opcode = "nullData" => \E n \in m.sizes : n > 255

=============================================================================
