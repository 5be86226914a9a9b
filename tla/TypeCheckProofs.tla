--------------------------- MODULE TypeCheckProofs ---------------------------
(***************************************************************************)
(* Theorems about the type check, for every choice of the types a program  *)
(* writes, its arguments, its literals and the sizes of what it reads, and *)
(* for programs of any length: what the check says of an expression holds  *)
(* of its value, and no opcode meets operands it cannot take.              *)
(***************************************************************************)
EXTENDS TypeCheckTraversal, SumsProofs, SequenceTheorems, TLAPS

(* An expression whose value is what its type says, unless it is trusted:  *)
(* one value for a plain type, two of unknown width for a pair.            *)
Sound(e) ==
  /\ e.type.form = "plain" => Len(e.values) = 1
  /\ e.type.form = "tuple" => Len(e.values) = 2 /\ e.type.bound = 0
  /\ e.type.form = "array" => Len(e.values) > 0
  /\ e.type.bound = 0 => e.trusted = {}
  /\ e.trusted = {} => \A i \in DOMAIN e.values : Fits(e.values[i], ElementType(e.type))

SoundExpression == {e \in Expression : Sound(e)}

IInv ==
  /\ TypeOK
  /\ stack \in Seq(SoundExpression)
  /\ OpcodesFitOperands

-----------------------------------------------------------------------------
(* Types and values.                                                       *)

PlainType == {t \in Type : t.form = "plain"}

LEMMA PlainTypes ==
  /\ {IntType, BoolType, StringType, AnyBytes} \subseteq PlainType
  /\ \A n \in Nat : BytesType(n) \in PlainType /\ BytesType(n).bound = n
  /\ IntType.base = "int" /\ BoolType.base = "bool" /\ StringType.base = "string"
  /\ IntType.bound = 0 /\ BoolType.bound = 0 /\ StringType.bound = 0 /\ AnyBytes.bound = 0
  /\ \A n \in Nat : BytesType(n).base = "bytes"
  BY DEF PlainType, Type, IntType, BoolType, StringType, AnyBytes, Plain, BytesType, Bases

LEMMA ElementOfPlain == ASSUME NEW t \in PlainType PROVE ElementType(t) = t
  BY DEF PlainType, Type, ElementType

LEMMA NumbersFit ==
  ASSUME NEW v \in Numbers \cup Truths
  PROVE  v \in Value /\ v.number /\ Fits(v, IntType) /\ Fits(v, BoolType)
  <1>1. PICK n \in Nat : v = [size |-> n, number |-> TRUE] /\ n <= MaxNumber
    <2>1. CASE v \in Numbers
      BY <2>1, BoundsAssumption DEF Numbers
    <2>2. CASE v \in Truths
      BY <2>2 DEF Truths, MaxNumber
    <2> QED
      BY <2>1, <2>2
  <1>2. v.number /\ v \in Value
    BY <1>1 DEF Value
  <1> QED
    BY <1>2 DEF Fits, IntType, BoolType, Plain

LEMMA SizedFit ==
  ASSUME NEW n \in Nat, NEW v \in OfSize(n)
  PROVE  v \in Value /\ v.size = n
  BY DEF OfSize, Value

LEMMA ReadFits == ASSUME NEW v \in Anything PROVE v \in Value
  <1>1. PICK n \in Sizes : v \in OfSize(n)
    BY DEF Anything
  <1> QED
    BY <1>1, BoundsAssumption, SizedFit

(* A type that promises nothing of a value.                                *)
LEMMA FitsUnbounded ==
  ASSUME NEW v, NEW t, t.base \notin {"int", "bool"}, t.base # "bytes" \/ ~(t.bound > 0)
  PROVE  Fits(v, t)
  BY DEF Fits

(* What fits a type fits every type it may stand for.                      *)
LEMMA CastFits ==
  ASSUME NEW v, NEW s, NEW t, ImplicitlyCastable(s, t),
         Fits(v, ElementType(s)), NEW u \in PlainType, u = ElementType(t), t.bound \in Nat,
         t.base = u.base, t.bound = u.bound
  PROVE  Fits(v, u)
  <1>1. CASE t.base = "any"
    BY <1>1 DEF Fits
  <1>2. CASE t.base = "bytes" /\ t.bound = 0
    BY <1>2 DEF Fits
  <1>3. CASE s = t
    BY <1>3
  <1> QED
    BY <1>1, <1>2, <1>3 DEF ImplicitlyCastable

(* The numbers among the types may stand for no other type but any.        *)
LEMMA CastToNumber ==
  ASSUME NEW s, NEW t \in {IntType, BoolType}, ImplicitlyCastable(s, t)
  PROVE  s = t
  BY DEF ImplicitlyCastable, IntType, BoolType, Plain

LEMMA CastToWidth ==
  ASSUME NEW s, NEW n \in Nat \ {0}, ImplicitlyCastable(s, BytesType(n))
  PROVE  s = BytesType(n)
  BY DEF ImplicitlyCastable, BytesType

-----------------------------------------------------------------------------
(* The stack of expressions.                                               *)

LEMMA SoundIsExpression == ASSUME NEW e \in SoundExpression PROVE e \in Expression /\ Sound(e)
  BY DEF SoundExpression

LEMMA ExpressionFields ==
  ASSUME NEW e \in Expression
  PROVE  /\ e.type \in Type /\ e.values \in Seq(Value) /\ Len(e.values) \in Nat
         /\ e.literal \in Literals \cup {NoLiteral} /\ e.trusted \subseteq Reasons
         /\ e.type.form \in {"plain", "array", "tuple"} /\ e.type.bound \in Nat
         /\ e.type.form = "plain" => e.type \in PlainType
         /\ ElementType(e.type) \in PlainType
  BY DEF Expression, Type, PlainType, ElementType

(* An expression with a plain type and one value.                          *)
LEMMA PlainEntry ==
  ASSUME NEW t \in PlainType, NEW v \in Value, NEW literal \in Literals \cup {NoLiteral},
         NEW reasons \in SUBSET Reasons, (t.bound > 0 /\ reasons # {}) \/ Fits(v, t)
  PROVE  Entry(t, <<v>>, literal, reasons) \in SoundExpression
  <1> DEFINE e == Entry(t, <<v>>, literal, reasons)
  <1>1. t \in Type /\ t.form = "plain" /\ t.bound \in Nat /\ ElementType(t) = t
    BY ElementOfPlain DEF PlainType, Type
  <1>2. /\ e.type = t /\ e.values = <<v>>
        /\ e.trusted = IF t.bound > 0 THEN reasons ELSE {}
    BY DEF Entry
  <1>3. e \in Expression
    BY <1>1 DEF Entry, Expression
  <1>4. Len(e.values) = 1 /\ DOMAIN e.values = {1} /\ e.values[1] = v
    BY <1>2
  <1>5. e.trusted = {} => Fits(v, t)
    BY <1>2
  <1> HIDE DEF e
  <1>6. Sound(e)
    BY <1>1, <1>2, <1>4, <1>5 DEF Sound
  <1> QED
    BY <1>3, <1>6 DEF e, SoundExpression

LEMMA OneElement ==
  ASSUME NEW S, NEW s \in Seq(S), Len(s) = 1
  PROVE  \E x \in S : s = <<x>>
  <1>1. s[1] \in S /\ <<s[1]>> \in Seq(S)
    BY ElementOfSeq
  <1>2. Len(<<s[1]>>) = Len(s) /\ \A i \in 1 .. Len(s) : s[i] = <<s[1]>>[i]
    OBVIOUS
  <1>3. s = <<s[1]>>
    BY <1>1, <1>2, SeqEqual
  <1> QED
    BY <1>1, <1>3

LEMMA NewStack ==
  ASSUME NEW S, NEW s \in Seq(S), NEW n \in Nat, n <= Len(s), NEW pushed \in Seq(S)
  PROVE  SubSeq(s, 1, Len(s) - n) \o pushed \in Seq(S)
  <1>1. Len(s) \in Nat /\ Len(s) - n \in 0 .. Len(s)
    BY LenProperties
  <1>2. \A k \in 1 .. Len(s) - n : s[k] \in S
    BY <1>1, ElementOfSeq
  <1>3. SubSeq(s, 1, Len(s) - n) \in Seq(S)
    BY <1>1, <1>2, SubSeqProperties
  <1> QED
    BY <1>3, ConcatProperties

(* A node leaves sound expressions when what it pushes is sound.           *)
LEMMA NodeIsSound ==
  ASSUME IInv, NEW n \in Nat, NEW pushed \in Seq(SoundExpression), NewNode(n, pushed)
  PROVE  nodes' \in 0 .. MaxNodes /\ stack' \in Seq(SoundExpression) /\ stack' \in Seq(Expression)
  <1>1. nodes' \in 0 .. MaxNodes
    BY BoundsAssumption DEF IInv, TypeOK, NewNode, Has
  <1>2. stack' = SubSeq(stack, 1, Len(stack) - n) \o pushed /\ n <= Len(stack)
    BY LenProperties DEF IInv, NewNode, Has, Under
  <1>3. stack' \in Seq(SoundExpression)
    BY <1>2, NewStack DEF IInv
  <1>4. Seq(SoundExpression) \subseteq Seq(Expression)
    BY DEF SoundExpression
  <1> QED
    BY <1>1, <1>3, <1>4

(* The expressions a node takes.                                           *)
LEMMA Operand ==
  ASSUME IInv, NEW n \in Nat, Has(n), NEW k \in 1 .. n
  PROVE  /\ Last(k) \in SoundExpression
         /\ Top(n)[k] = Last(n - k + 1)
         /\ Trust(n) = {} => Last(k).trusted = {}
  <1>1. Len(stack) \in Nat /\ n <= Len(stack) /\ stack \in Seq(SoundExpression)
    BY LenProperties DEF IInv, Has
  <1>2. Len(stack) - k + 1 \in 1 .. Len(stack)
    BY <1>1
  <1>3. Last(k) \in SoundExpression
    BY <1>1, <1>2, ElementOfSeq DEF Last
  <1>4. Top(n)[k] = Last(n - k + 1)
    <2>1. Len(stack) - n + 1 \in 1 .. Len(stack) + 1
      BY <1>1
    <2>2. Top(n)[k] = stack[Len(stack) - n + 1 + k - 1]
      BY <1>1, <2>1, SubSeqProperties DEF Top
    <2>3. Len(stack) - (n - k + 1) + 1 = Len(stack) - n + 1 + k - 1
      BY <1>1
    <2> QED
      BY <2>2, <2>3 DEF Last
  <1>5. Last(k).trusted \subseteq Trust(n)
    BY DEF Trust
  <1> QED
    BY <1>3, <1>4, <1>5

(* The value of an operand, and what its type promises of it.              *)
LEMMA OperandValue ==
  ASSUME IInv, NEW n \in Nat, Has(n), NEW k \in 1 .. n
  PROVE  /\ Top(n)[k].type \in Type
         /\ Top(n)[k].values[1] \in Value
         /\ Trust(n) = {} \/ Top(n)[k].type.bound = 0
              => Fits(Top(n)[k].values[1], ElementType(Top(n)[k].type))
  <1>1. PICK e \in SoundExpression :
          e = Top(n)[k] /\ (Trust(n) = {} => e.trusted = {})
    <2>1. n - k + 1 \in 1 .. n
      OBVIOUS
    <2> QED
      BY <2>1, Operand
  <1>2. e \in Expression /\ Sound(e)
    BY SoundIsExpression
  <1>3. e.type \in Type /\ e.values \in Seq(Value) /\ Len(e.values) \in Nat
    BY <1>2, ExpressionFields
  <1>4. Len(e.values) > 0
    BY <1>2, ExpressionFields DEF Sound
  <1>5. 1 \in DOMAIN e.values /\ e.values[1] \in Value
    BY <1>3, <1>4
  <1>6. e.trusted = {} => Fits(e.values[1], ElementType(e.type))
    BY <1>2, <1>5 DEF Sound
  <1>7. e.type.bound = 0 => e.trusted = {}
    BY <1>2 DEF Sound
  <1> QED
    BY <1>1, <1>3, <1>5, <1>6, <1>7

-----------------------------------------------------------------------------
(* A node with an opcode.                                                  *)

Operands(n) == [k \in 1 .. n |-> Top(n)[k].values[1]]

(* What Judge asks of an opcode, and what it records of a misfit.          *)
Fitting(n, opcode, operands) ==
  Takes(opcode, operands) /\ (opcode = "EQUAL" => PlainOperands(n))

Misfit(n, opcode, operands) ==
  [opcode |-> opcode, types |-> [k \in 1 .. n |-> Top(n)[k].type],
   sizes |-> {operands[k].size : k \in DOMAIN operands}]

LEMMA JudgedRight ==
  ASSUME IInv, NEW n \in Nat, Has(n), NEW opcode \in Opcodes, NEW operands,
         \A k \in DOMAIN operands : operands[k] \in Value,
         Judge(n, opcode, operands),
         Trust(n) = {} => Fitting(n, opcode, operands) \/ LeftUnchecked(Misfit(n, opcode, operands))
  PROVE  /\ misfits' \subseteq [opcode : Opcodes, types : Seq(Type), sizes : SUBSET Nat]
         /\ OpcodesFitOperands'
  <1> DEFINE m == Misfit(n, opcode, operands)
  <1>1. misfits' = misfits \/ (misfits' = misfits \cup {m} /\ LeftUnchecked(m))
    BY DEF Judge, Fitting, Misfit
  <1>2. m \in [opcode : Opcodes, types : Seq(Type), sizes : SUBSET Nat]
    <2>1. \A k \in 1 .. n : Top(n)[k].type \in Type
      BY OperandValue
    <2>2. [k \in 1 .. n |-> Top(n)[k].type] \in Seq(Type)
      BY <2>1
    <2>3. {operands[k].size : k \in DOMAIN operands} \subseteq Nat
      BY DEF Value
    <2> QED
      BY <2>2, <2>3 DEF Misfit
  <1> HIDE DEF m
  <1> QED
    BY <1>1, <1>2 DEF IInv, TypeOK, OpcodesFitOperands

(* A node that emits an opcode keeps the invariant when every outcome of   *)
(* the opcode is what the type of the node says, and the opcode meets      *)
(* operands it takes or a case left unchecked.                             *)
LEMMA OperationIsSound ==
  ASSUME IInv, NEW n \in Nat, Has(n), NEW opcode \in Opcodes, NEW type, NEW literal, NEW reasons,
         Operation(n, opcode, type, literal, reasons),
         \A result \in Outcomes(opcode, Operands(n), literal) :
           Entry(type, result, NoLiteral, reasons) \in SoundExpression,
         Trust(n) = {} => \/ Fitting(n, opcode, Operands(n))
                          \/ LeftUnchecked(Misfit(n, opcode, Operands(n)))
  PROVE  IInv'
  <1>1. \A k \in DOMAIN Operands(n) : Operands(n)[k] \in Value
    BY OperandValue DEF Operands
  <1>2. Judge(n, opcode, Operands(n))
    BY DEF Operation, Operands
  <1>3. /\ misfits' \subseteq [opcode : Opcodes, types : Seq(Type), sizes : SUBSET Nat]
        /\ OpcodesFitOperands'
    BY <1>1, <1>2, JudgedRight
  <1>4. PICK result \in Outcomes(opcode, Operands(n), literal) :
          NewNode(n, <<Entry(type, result, NoLiteral, reasons)>>)
    BY DEF Operation, Operands
  <1>5. <<Entry(type, result, NoLiteral, reasons)>> \in Seq(SoundExpression)
    <2>1. Entry(type, result, NoLiteral, reasons) \in SoundExpression
      BY <1>4
    <2> QED
      BY <2>1
  <1> QED
    BY <1>3, <1>4, <1>5, NodeIsSound DEF IInv, TypeOK

(* A node without an opcode keeps it when what it pushes is sound.         *)
LEMMA PushIsSound ==
  ASSUME IInv, NEW n \in Nat, NEW pushed \in Seq(SoundExpression), NewNode(n, pushed),
         UNCHANGED misfits
  PROVE  IInv'
  <1>1. OpcodesFitOperands'
    BY DEF IInv, OpcodesFitOperands
  <1> QED
    BY <1>1, NodeIsSound DEF IInv, TypeOK

LEMMA LeafIsSound ==
  ASSUME IInv, NEW t \in PlainType, NEW v \in Value, NEW literal \in Literals \cup {NoLiteral},
         Fits(v, t), Leaf(t, v, literal)
  PROVE  IInv'
  <1>1. Entry(t, <<v>>, literal, {}) \in SoundExpression
    BY PlainEntry
  <1>2. <<Entry(t, <<v>>, literal, {})>> \in Seq(SoundExpression)
    BY <1>1
  <1>3. NewNode(0, <<Entry(t, <<v>>, literal, {})>>) /\ UNCHANGED misfits
    BY DEF Leaf
  <1> QED
    BY <1>2, <1>3, PushIsSound

(* The entry of an opcode with one result, for each kind of result.        *)
LEMMA NumberEntry ==
  ASSUME NEW t \in {IntType, BoolType}, NEW v \in Numbers \cup Truths, NEW reasons \in SUBSET Reasons
  PROVE  Entry(t, <<v>>, NoLiteral, reasons) \in SoundExpression
  BY NumbersFit, PlainEntry, PlainTypes

LEMMA UnboundedEntry ==
  ASSUME NEW t \in PlainType, t.base \notin {"int", "bool"}, t.bound = 0,
         NEW v \in Value, NEW reasons \in SUBSET Reasons
  PROVE  Entry(t, <<v>>, NoLiteral, reasons) \in SoundExpression
  BY FitsUnbounded, PlainEntry

LEMMA WidthEntry ==
  ASSUME NEW n \in Nat, NEW v \in Value, NEW reasons \in SUBSET Reasons,
         v.size = n \/ reasons # {}
  PROVE  Entry(BytesType(n), <<v>>, NoLiteral, reasons) \in SoundExpression
  <1>1. BytesType(n) \in PlainType /\ BytesType(n).bound = n /\ BytesType(n).base = "bytes"
    BY PlainTypes
  <1>2. Fits(v, BytesType(n)) \/ (n > 0 /\ reasons # {})
    BY <1>1 DEF Fits
  <1> QED
    BY <1>1, <1>2, PlainEntry

-----------------------------------------------------------------------------
(* Literals, parameters and reads without operands.                        *)

LEMMA IntLiteralSound == IInv /\ IntLiteral => IInv'
  <1> SUFFICES ASSUME IInv, NEW i \in Literals,
                      Leaf(IntType, [size |-> IF i = 0 THEN 0 ELSE 1, number |-> TRUE], i)
               PROVE  IInv'
    BY DEF IntLiteral
  <1> DEFINE v == [size |-> IF i = 0 THEN 0 ELSE 1, number |-> TRUE]
  <1>1. v \in Value /\ v.number
    BY DEF Value, MaxNumber
  <1>2. Fits(v, IntType)
    BY <1>1 DEF Fits, IntType, Plain
  <1>3. Leaf(IntType, v, i)
    OBVIOUS
  <1> HIDE DEF v
  <1> QED
    BY <1>1, <1>2, <1>3, LeafIsSound, PlainTypes

LEMMA HexLiteralSound == IInv /\ HexLiteral => IInv'
  <1> SUFFICES ASSUME IInv, HexLiteral PROVE IInv'
    OBVIOUS
  <1>1. PICK n \in Sizes \ {0} : \E v \in OfSize(n) : Leaf(BytesType(n), v, NoLiteral)
    BY DEF HexLiteral
  <1>2. PICK v \in OfSize(n) : Leaf(BytesType(n), v, NoLiteral)
    BY <1>1
  <1>3. n \in Nat
    BY BoundsAssumption
  <1>4. v \in Value /\ v.size = n /\ BytesType(n) \in PlainType
    BY <1>3, SizedFit, PlainTypes
  <1>5. Fits(v, BytesType(n))
    BY <1>3, <1>4, PlainTypes DEF Fits
  <1> QED
    BY <1>2, <1>4, <1>5, LeafIsSound

LEMMA ParameterSound == IInv /\ Parameter => IInv'
  <1> SUFFICES ASSUME IInv, NEW a \in Arguments, Leaf(a.type, a.value, NoLiteral) PROVE IInv'
    BY DEF Parameter
  <1>1. a.type \in PlainType /\ a.value \in Value /\ Fits(a.value, a.type)
    BY ArgumentsAssumption, DeclaredTypesAssumption DEF PlainType
  <1> QED
    BY <1>1, LeafIsSound

LEMMA NullaryOpSound == IInv /\ NullaryOp => IInv'
  <1> SUFFICES ASSUME IInv, NullaryOp PROVE IInv'
    OBVIOUS
  <1>1. ASSUME NEW v \in Numbers, Leaf(IntType, v, NoLiteral) PROVE IInv'
    BY <1>1, NumbersFit, PlainTypes, LeafIsSound
  <1>2. ASSUME NEW v \in Anything, Leaf(AnyBytes, v, NoLiteral) PROVE IInv'
    <2>1. AnyBytes \in PlainType /\ Fits(v, AnyBytes)
      BY PlainTypes, FitsUnbounded DEF AnyBytes, BytesType
    <2> QED
      BY <1>2, <2>1, ReadFits, LeafIsSound
  <1> QED
    BY <1>1, <1>2 DEF NullaryOp

LEMMA PushRefSound == IInv /\ PushRef => IInv'
  <1> SUFFICES ASSUME IInv, NEW t \in DeclaredTypes, AnyOf(t, {BytesType(36)}),
                      Leaf(BytesType(36), [size |-> t.bound, number |-> FALSE], NoLiteral)
               PROVE  IInv'
    BY DEF PushRef
  <1>1. t = BytesType(36)
    BY CastToWidth DEF AnyOf
  <1>2. PICK v : v = [size |-> t.bound, number |-> FALSE]
    OBVIOUS
  <1>3. v \in Value /\ v.size = 36
    BY <1>1, <1>2, PlainTypes DEF Value
  <1>4. BytesType(36) \in PlainType /\ Fits(v, BytesType(36))
    BY <1>3, PlainTypes DEF Fits
  <1> QED
    BY <1>2, <1>3, <1>4, LeafIsSound

-----------------------------------------------------------------------------
(* Operators of one operand.                                               *)

(* The one operand of a node.                                              *)
LEMMA OneOperand ==
  ASSUME IInv, Has(1)
  PROVE  /\ Last(1) \in SoundExpression /\ Last(1).trusted \in SUBSET Reasons
         /\ Last(1).trusted = Trust(1)
         /\ Last(1).type \in Type
         /\ Operands(1) = <<Last(1).values[1]>> /\ Last(1).values[1] \in Value
         /\ Trust(1) = {} \/ Last(1).type.bound = 0
              => Fits(Last(1).values[1], ElementType(Last(1).type))
  <1>1. Top(1)[1] = Last(1) /\ Last(1) \in SoundExpression
    BY Operand
  <1>2. Last(1) \in Expression
    BY <1>1, SoundIsExpression
  <1>3. Last(1).trusted = Trust(1)
    BY DEF Trust
  <1>4. Operands(1) = <<Last(1).values[1]>>
    BY <1>1 DEF Operands
  <1> QED
    BY <1>1, <1>2, <1>3, <1>4, OperandValue, ExpressionFields

(* An operand the check takes for a number is one.                         *)
LEMMA NumberOperand ==
  ASSUME IInv, NEW n \in Nat, Has(n), NEW k \in 1 .. n, NEW t \in {IntType, BoolType},
         Top(n)[k].type = t
  PROVE  Top(n)[k].values[1].number
  <1>1. t \in PlainType /\ t.bound = 0 /\ t.base \in {"int", "bool"} /\ ElementType(t) = t
    BY PlainTypes, ElementOfPlain
  <1>2. Fits(Top(n)[k].values[1], t)
    BY <1>1, OperandValue
  <1> QED
    BY <1>1, <1>2 DEF Fits

LEMMA UnaryTypeIs ==
  ASSUME NEW op \in UnaryOperators, NEW t \in Type, UnaryType(op, t) # Undefined
  PROVE  /\ op = "!" => UnaryType(op, t) = BoolType /\ t = BoolType
         /\ op = "-" => UnaryType(op, t) = IntType /\ t = IntType
         /\ op = ".length" => UnaryType(op, t) = IntType
         /\ op = ".reverse()" => UnaryType(op, t) = t /\ t \in PlainType
                                  /\ t.base \notin {"int", "bool"}
         /\ op \in NumberReads => UnaryType(op, t) = IntType /\ t = IntType
         /\ op \in ScriptReads => UnaryType(op, t) = AnyBytes /\ t = IntType
         /\ op \in HashReads \cup CodeReads => UnaryType(op, t) = BytesType(32) /\ t = IntType
  <1>1. AnyOf(t, {IntType}) => t = IntType
    BY CastToNumber DEF AnyOf
  <1>2. AnyOf(t, {BoolType}) => t = BoolType
    BY CastToNumber DEF AnyOf
  <1>3. AnyOf(t, {AnyBytes, StringType}) => t \in PlainType /\ t.base \notin {"int", "bool"}
    BY DEF AnyOf, ImplicitlyCastable, AnyBytes, StringType, Plain, BytesType, PlainType
  <1> QED
    BY <1>1, <1>2, <1>3
       DEF UnaryType, UnaryOperators, NumberReads, ScriptReads, HashReads, CodeReads

LEMMA UnaryOpSound == ASSUME IInv, NEW op \in UnaryOperators, UnaryOp(op) PROVE IInv'
  <1> DEFINE t == Last(1).type
             value == Last(1).values[1]
             type == UnaryType(op, t)
             opcode == CompileUnaryOp(op)
             reasons == IF op \in CodeReads THEN {"codeScript"} ELSE Last(1).trusted
             outcomes == Outcomes(opcode, Operands(1), NoLiteral)
  <1>1. Has(1) /\ Operation(1, opcode, type, NoLiteral, reasons)
    BY DEF UnaryOp
  <1>2. /\ t \in Type /\ value \in Value /\ Operands(1) = <<value>>
        /\ Trust(1) = {} \/ t.bound = 0 => Fits(value, ElementType(t))
        /\ Top(1)[1].type = t /\ Top(1)[1].values[1] = value
    BY <1>1, OneOperand, Operand
  <1>3. reasons \in SUBSET Reasons /\ Last(1).trusted = Trust(1)
    BY <1>1, OneOperand DEF Reasons
  <1>4. type # Undefined
    BY <1>1 DEF Operation
  <1>13. /\ op = "!" => type = BoolType /\ t = BoolType
         /\ op = "-" => type = IntType /\ t = IntType
         /\ op = ".length" => type = IntType
         /\ op = ".reverse()" => type = t /\ t \in PlainType /\ t.base \notin {"int", "bool"}
         /\ op \in NumberReads => type = IntType /\ t = IntType
         /\ op \in ScriptReads => type = AnyBytes /\ t = IntType
         /\ op \in HashReads \cup CodeReads => type = BytesType(32) /\ t = IntType
    <2> HIDE DEF t
    <2> QED
      BY <1>2, <1>4, UnaryTypeIs
  <1>14. /\ op = "!" => opcode = "compare"
         /\ op = "-" => opcode = "arithmetic"
         /\ op = ".length" => opcode = "SIZE"
         /\ op = ".reverse()" => opcode = "REVERSEBYTES"
         /\ op \in NumberReads => opcode = "readNumber"
         /\ op \in HashReads => opcode = "readHash"
         /\ op \in ScriptReads \cup CodeReads => opcode = "readScript"
    BY DEF CompileUnaryOp, NumberReads, HashReads, ScriptReads, CodeReads
  <1>17. opcode \in Opcodes /\ opcode # "EQUAL"
    BY <1>14 DEF UnaryOperators, Opcodes, Reads
  <1>15. op \in {"-", ".reverse()"} \cup NumberReads => reasons = Trust(1)
    BY <1>3 DEF CodeReads, NumberReads
  <1>16. op \in CodeReads => reasons # {}
    OBVIOUS
  <1> HIDE DEF t, value, reasons, type, opcode, outcomes
  <1>5. ASSUME Takes(opcode, <<value>>),
               \A result \in outcomes : Entry(type, result, NoLiteral, reasons) \in SoundExpression
        PROVE  IInv'
    <2>1. Fitting(1, opcode, Operands(1))
      BY <1>2, <1>5, <1>17 DEF Fitting
    <2> QED
      BY <1>1, <1>5, <1>17, <2>1, OperationIsSound DEF outcomes
  <1>6. CASE op = "!"
    <2>1. type = BoolType /\ t = BoolType /\ opcode = "compare"
      BY <1>6, <1>13, <1>14
    <2>2. Takes(opcode, <<value>>)
      BY <1>1, <1>2, <2>1, NumberOperand DEF Takes
    <2>3. \A result \in outcomes : \E v \in Truths : result = <<v>>
      BY <2>1 DEF Outcomes, outcomes
    <2>9. \A result \in outcomes : Entry(type, result, NoLiteral, reasons) \in SoundExpression
      BY <1>3, <2>1, <2>3, NumberEntry
    <2> QED
      BY <1>5, <2>2, <2>9
  <1>7. CASE op = "-" \/ op \in NumberReads
    <2>1. type = IntType /\ t = IntType /\ opcode \in {"arithmetic", "readNumber"}
      BY <1>7, <1>13, <1>14
    <2>2. Takes(opcode, <<value>>)
      BY <1>1, <1>2, <2>1, NumberOperand DEF Takes, Reads
    <2>3. \A result \in outcomes : \E v \in Numbers : result = <<v>>
      BY <2>1 DEF Outcomes, outcomes
    <2>9. \A result \in outcomes : Entry(type, result, NoLiteral, reasons) \in SoundExpression
      BY <1>3, <2>1, <2>3, NumberEntry
    <2> QED
      BY <1>5, <2>2, <2>9
  <1>8. CASE op = ".length"
    <2>1. type = IntType /\ opcode = "SIZE"
      BY <1>8, <1>13, <1>14
    <2>2. Takes(opcode, <<value>>)
      BY <2>1 DEF Takes, Reads
    <2>3. \A result \in outcomes : \E v \in Numbers : result = <<v>>
      BY <2>1 DEF Outcomes, outcomes
    <2>9. \A result \in outcomes : Entry(type, result, NoLiteral, reasons) \in SoundExpression
      BY <1>3, <2>1, <2>3, NumberEntry
    <2> QED
      BY <1>5, <2>2, <2>9
  <1>9. CASE op = ".reverse()"
    <2>1. type = t /\ t \in PlainType /\ t.base \notin {"int", "bool"} /\ opcode = "REVERSEBYTES"
      BY <1>9, <1>13, <1>14
    <2>2. Takes(opcode, <<value>>)
      BY <2>1 DEF Takes, Reads
    <2>3. \A result \in outcomes : \E v \in OfSize(value.size) : result = <<v>>
      BY <1>2, <2>1 DEF Outcomes, outcomes
    <2>4. reasons = Trust(1) /\ t.bound \in Nat
      BY <1>2, <1>9, <1>15 DEF Type
    <2>5. ASSUME NEW v \in OfSize(value.size)
          PROVE  Entry(t, <<v>>, NoLiteral, reasons) \in SoundExpression
      <3>1. v \in Value /\ v.size = value.size
        BY <1>2, SizedFit DEF Value
      <3>2. (t.bound > 0 /\ reasons # {}) \/ Fits(value, t)
        BY <1>2, <2>1, <2>4, ElementOfPlain
      <3>3. Fits(value, t) => Fits(v, t)
        BY <2>1, <3>1 DEF Fits
      <3> QED
        BY <1>3, <2>1, <3>1, <3>2, <3>3, PlainEntry
    <2>9. \A result \in outcomes : Entry(type, result, NoLiteral, reasons) \in SoundExpression
      BY <2>1, <2>3, <2>5
    <2> QED
      BY <1>5, <2>2, <2>9
  <1>10. CASE op \in ScriptReads
    <2>1. type = AnyBytes /\ t = IntType /\ opcode = "readScript"
      BY <1>10, <1>13, <1>14
    <2>2. Takes(opcode, <<value>>)
      BY <1>1, <1>2, <2>1, NumberOperand DEF Takes, Reads
    <2>3. \A result \in outcomes : \E v \in Anything : result = <<v>>
      BY <2>1 DEF Outcomes, outcomes
    <2>4. AnyBytes \in PlainType /\ AnyBytes.base = "bytes" /\ AnyBytes.bound = 0
      BY PlainTypes DEF AnyBytes
    <2>9. \A result \in outcomes : Entry(type, result, NoLiteral, reasons) \in SoundExpression
      BY <1>3, <2>1, <2>3, <2>4, ReadFits, UnboundedEntry
    <2> QED
      BY <1>5, <2>2, <2>9
  <1>11. CASE op \in HashReads
    <2>1. type = BytesType(32) /\ t = IntType /\ opcode = "readHash"
      BY <1>11, <1>13, <1>14
    <2>2. Takes(opcode, <<value>>)
      BY <1>1, <1>2, <2>1, NumberOperand DEF Takes, Reads
    <2>3. \A result \in outcomes : \E v \in OfSize(32) : result = <<v>>
      BY <2>1 DEF Outcomes, outcomes
    <2>9. \A result \in outcomes : Entry(type, result, NoLiteral, reasons) \in SoundExpression
      BY <1>3, <2>1, <2>3, SizedFit, WidthEntry
    <2> QED
      BY <1>5, <2>2, <2>9
  <1>12. CASE op \in CodeReads
    <2>1. type = BytesType(32) /\ t = IntType /\ opcode = "readScript"
      BY <1>12, <1>13, <1>14
    <2>2. Takes(opcode, <<value>>)
      BY <1>1, <1>2, <2>1, NumberOperand DEF Takes, Reads
    <2>3. \A result \in outcomes : \E v \in Anything : result = <<v>>
      BY <2>1 DEF Outcomes, outcomes
    <2>9. \A result \in outcomes : Entry(type, result, NoLiteral, reasons) \in SoundExpression
      BY <1>3, <1>12, <1>16, <2>1, <2>3, ReadFits, WidthEntry
    <2> QED
      BY <1>5, <2>2, <2>9
  <1> QED
    BY <1>6, <1>7, <1>8, <1>9, <1>10, <1>11, <1>12 DEF UnaryOperators

-----------------------------------------------------------------------------
(* Operators of two operands.                                              *)

LEMMA TwoOperands ==
  ASSUME IInv, Has(2)
  PROVE  /\ Top(2)[1] = Last(2) /\ Top(2)[2] = Last(1)
         /\ Last(1) \in Expression /\ Last(2) \in Expression
         /\ Last(1).type \in Type /\ Last(2).type \in Type
         /\ Last(1).literal \in Literals \cup {NoLiteral}
         /\ Trust(2) \in SUBSET Reasons
         /\ Operands(2) = <<Last(2).values[1], Last(1).values[1]>>
         /\ Last(1).values[1] \in Value /\ Last(2).values[1] \in Value
         /\ Trust(2) = {} => /\ Fits(Last(2).values[1], ElementType(Last(2).type))
                             /\ Fits(Last(1).values[1], ElementType(Last(1).type))
  <1>1. Top(2)[1] = Last(2) /\ Top(2)[2] = Last(1)
    BY Operand
  <1>2. \A k \in 1 .. 2 : Last(k) \in Expression
    BY Operand, SoundIsExpression
  <1>3. \A k \in 1 .. 2 : Last(k).trusted \subseteq Reasons /\ Last(k).type \in Type
    BY <1>2, ExpressionFields
  <1>4. Trust(2) \in SUBSET Reasons
    BY <1>3 DEF Trust
  <1>5. Operands(2) = <<Last(2).values[1], Last(1).values[1]>>
    BY <1>1 DEF Operands
  <1>6. Last(1).literal \in Literals \cup {NoLiteral}
    BY <1>2, ExpressionFields
  <1>7. 1 \in 1 .. 2 /\ 2 \in 1 .. 2 /\ 2 \in Nat
    OBVIOUS
  <1>8. /\ Last(1).values[1] \in Value /\ Last(2).values[1] \in Value
        /\ Trust(2) = {} => /\ Fits(Last(2).values[1], ElementType(Last(2).type))
                            /\ Fits(Last(1).values[1], ElementType(Last(1).type))
    BY <1>1, <1>7, OperandValue
  <1> QED
    BY <1>1, <1>2, <1>3, <1>4, <1>5, <1>6, <1>7, <1>8

(* The common type of two types: a number is one of two numbers of that    *)
(* type, a bytesN one of two bytesN, and types of another form have none.  *)
LEMMA CommonType ==
  ASSUME NEW s \in Type, NEW t \in Type, ResultingType(s, t) # Undefined
  PROVE  /\ ResultingType(s, t) \in {s, t, AnyBytes}
         /\ ResultingType(s, t) \in {IntType, BoolType} =>
              s = ResultingType(s, t) /\ t = ResultingType(s, t)
         /\ IsBytes(ResultingType(s, t)) /\ ResultingType(s, t).bound > 0 =>
              s = ResultingType(s, t) /\ t = ResultingType(s, t)
         /\ (s.form = "plain" /\ t.form = "plain") \/ (s.form = "array" /\ t.form = "array")
  <1> DEFINE r == ResultingType(s, t)
  <1>1. CASE ImplicitlyCastable(s, t)
    <2>1. r = t /\ s.form = t.form /\ s.form \in {"plain", "array"}
      BY <1>1 DEF ResultingType, ImplicitlyCastable
    <2>2. t \in {IntType, BoolType} => s = t
      BY <1>1, CastToNumber
    <2>3. t.base = "bytes" /\ t.bound > 0 => s = t
      BY <1>1 DEF ImplicitlyCastable
    <2> QED
      BY <2>1, <2>2, <2>3 DEF IsBytes
  <1>2. CASE ~ImplicitlyCastable(s, t) /\ ImplicitlyCastable(t, s)
    <2>1. r = s /\ s.form = t.form /\ s.form \in {"plain", "array"}
      BY <1>2 DEF ResultingType, ImplicitlyCastable
    <2>2. s \in {IntType, BoolType} => t = s
      BY <1>2, CastToNumber
    <2>3. s.base = "bytes" /\ s.bound > 0 => t = s
      BY <1>2 DEF ImplicitlyCastable
    <2> QED
      BY <2>1, <2>2, <2>3 DEF IsBytes
  <1>3. CASE ~ImplicitlyCastable(s, t) /\ ~ImplicitlyCastable(t, s)
    <2>1. r = AnyBytes /\ s.form = "plain" /\ t.form = "plain"
      BY <1>3 DEF ResultingType, IsBytes
    <2>2. AnyBytes \notin {IntType, BoolType} /\ AnyBytes.bound = 0
      BY DEF AnyBytes, IntType, BoolType, BytesType, Plain
    <2> QED
      BY <2>1, <2>2
  <1> QED
    BY <1>1, <1>2, <1>3

(* What + gives: a sum, a concatenation of known width, or one of unknown. *)
LEMMA PlusType ==
  ASSUME NEW s \in Type, NEW t \in Type, BinaryType("+", s, t) # Undefined
  PROVE  \/ /\ IsNumeric(s, t) /\ BinaryType("+", s, t) \in {IntType, BoolType}
            /\ s = BinaryType("+", s, t) /\ t = BinaryType("+", s, t)
         \/ /\ ~IsNumeric(s, t)
            /\ \E m, n \in Nat \ {0} : /\ BinaryType("+", s, t) = BytesType(m + n)
                                       /\ s.base = "bytes" /\ s.bound = m /\ s \in PlainType
                                       /\ t.base = "bytes" /\ t.bound = n /\ t \in PlainType
         \/ /\ ~IsNumeric(s, t) /\ BinaryType("+", s, t) \in PlainType
            /\ BinaryType("+", s, t).base \notin {"int", "bool"}
            /\ BinaryType("+", s, t).bound = 0
  <1> DEFINE r == ResultingType(s, t)
  <1>1. /\ AnyOf(r, {IntType, StringType, AnyBytes})
        /\ BinaryType("+", s, t) = IF BothBounded(s, t) THEN BytesType(s.bound + t.bound) ELSE r
    BY DEF BinaryType, Arithmetic, Comparisons, Equalities, Connectives, BitOperators
  <1>2. r.form = "plain" /\ r # Undefined
    BY <1>1 DEF AnyOf, ImplicitlyCastable, IntType, StringType, AnyBytes, Plain, BytesType, Undefined
  <1>3. /\ r \in {s, t, AnyBytes}
        /\ r \in {IntType, BoolType} => s = r /\ t = r
        /\ IsBytes(r) /\ r.bound > 0 => s = r /\ t = r
    BY <1>2, CommonType
  <1>4. r \in PlainType
    BY <1>2, <1>3, PlainTypes DEF PlainType
  <1>5. r.base \in {"int", "bool"} => r \in {IntType, BoolType}
    BY <1>1, <1>2 DEF AnyOf, ImplicitlyCastable, IntType, StringType, AnyBytes, Plain, BytesType
  <1> HIDE DEF r
  <1>6. CASE IsNumeric(s, t)
    <2>1. r \in {IntType, BoolType}
      BY <1>6 DEF IsNumeric, r
    <2>2. ~BothBounded(s, t)
      BY <1>3, <2>1 DEF BothBounded, IsBytes, IntType, BoolType, Plain
    <2> QED
      BY <1>1, <1>3, <1>6, <2>1, <2>2
  <1>7. CASE ~IsNumeric(s, t) /\ BothBounded(s, t)
    <2>1. s.bound \in Nat /\ t.bound \in Nat
      BY DEF Type
    <2>2. s.bound \in Nat \ {0} /\ t.bound \in Nat \ {0} /\ s \in PlainType /\ t \in PlainType
      BY <1>7, <2>1 DEF BothBounded, IsBytes, PlainType
    <2>3. s.base = "bytes" /\ t.base = "bytes"
      BY <1>7 DEF BothBounded, IsBytes
    <2> QED
      BY <1>1, <1>7, <2>2, <2>3
  <1>8. CASE ~IsNumeric(s, t) /\ ~BothBounded(s, t)
    <2>1. r \notin {IntType, BoolType}
      BY <1>8 DEF IsNumeric, r
    <2>2. r.bound \in Nat /\ (r.base # "bytes" => r.bound = 0)
      BY <1>4 DEF PlainType, Type
    <2>3. r.bound = 0
      BY <1>2, <1>3, <1>8, <2>2 DEF BothBounded, IsBytes
    <2> QED
      BY <1>1, <1>4, <1>5, <1>8, <2>1, <2>3
  <1> QED
    BY <1>6, <1>7, <1>8

LEMMA BinaryTypeIs ==
  ASSUME NEW op \in BinaryOperators \ {"+"}, NEW s \in Type, NEW t \in Type,
         BinaryType(op, s, t) # Undefined
  PROVE  /\ op \in Arithmetic => BinaryType(op, s, t) = IntType /\ s = IntType /\ t = IntType
         /\ op \in Comparisons => BinaryType(op, s, t) = BoolType /\ s = IntType /\ t = IntType
         /\ op \in Connectives => BinaryType(op, s, t) = BoolType /\ s = BoolType /\ t = BoolType
         /\ op \in Equalities => BinaryType(op, s, t) = BoolType /\ ResultingType(s, t) # Undefined
         /\ op \in BitOperators =>
              /\ BinaryType(op, s, t) = s /\ s \in PlainType /\ t \in PlainType
              /\ s.base = "bytes" /\ t.base = "bytes" /\ s.bound = t.bound
         /\ op = ".split" => /\ BinaryType(op, s, t) \in {TupleType(AnyBytes), TupleType(StringType)}
                             /\ t = IntType /\ s \in PlainType /\ s.base \notin {"int", "bool"}
  <1> DEFINE r == ResultingType(s, t)
  <1>1. AnyOf(r, {IntType}) => r = IntType
    BY CastToNumber DEF AnyOf
  <1>2. AnyOf(r, {BoolType}) => r = BoolType
    BY CastToNumber DEF AnyOf
  <1>3. AnyOf(t, {IntType}) => t = IntType
    BY CastToNumber DEF AnyOf
  <1>4. r \in {IntType, BoolType} => s = r /\ t = r
    <2>1. r \in {IntType, BoolType} => r # Undefined
      BY DEF IntType, BoolType, Plain, Undefined
    <2> QED
      BY <2>1, CommonType
  <1>5. IsBytes(s) /\ IsBytes(t) => s \in PlainType /\ t \in PlainType
    BY DEF IsBytes, PlainType
  <1> HIDE DEF r
  <1>6. CASE op \in Arithmetic
    BY <1>1, <1>4, <1>6
       DEF BinaryType, Arithmetic, Comparisons, Equalities, Connectives, BitOperators, r
  <1>7. CASE op \in Comparisons
    BY <1>1, <1>4, <1>7
       DEF BinaryType, Arithmetic, Comparisons, Equalities, Connectives, BitOperators, r
  <1>8. CASE op \in Connectives
    BY <1>2, <1>4, <1>8
       DEF BinaryType, Arithmetic, Comparisons, Equalities, Connectives, BitOperators, r
  <1>9. CASE op \in Equalities
    BY <1>9 DEF BinaryType, Arithmetic, Comparisons, Equalities, Connectives, BitOperators
  <1>10. CASE op \in BitOperators
    BY <1>5, <1>10
       DEF BinaryType, Arithmetic, Comparisons, Equalities, Connectives, BitOperators, IsBytes
  <1>13. AnyOf(s, {AnyBytes, StringType}) => s \in PlainType /\ s.base \notin {"int", "bool"}
    BY DEF AnyOf, ImplicitlyCastable, AnyBytes, StringType, Plain, BytesType, PlainType
  <1>11. CASE op = ".split"
    BY <1>3, <1>11, <1>13 DEF BinaryType, Arithmetic, Comparisons, Equalities, Connectives, BitOperators
  <1>12. op \in Arithmetic \cup Comparisons \cup Connectives \cup Equalities \cup BitOperators
                  \cup {".split"}
    BY DEF BinaryOperators
  <1> QED
    BY <1>6, <1>7, <1>8, <1>9, <1>10, <1>11, <1>12
       DEF Arithmetic, Comparisons, Equalities, Connectives, BitOperators

(* The two halves of a split make a pair of unknown widths.                *)
LEMMA PairEntry ==
  ASSUME NEW t \in {TupleType(AnyBytes), TupleType(StringType)}, NEW v \in Value, NEW w \in Value,
         NEW reasons \in SUBSET Reasons
  PROVE  Entry(t, <<v, w>>, NoLiteral, reasons) \in SoundExpression
  <1> DEFINE e == Entry(t, <<v, w>>, NoLiteral, reasons)
  <1>1. /\ t \in Type /\ t.form = "tuple" /\ t.bound = 0
        /\ ElementType(t).base \notin {"int", "bool"} /\ ElementType(t).bound = 0
    BY DEF TupleType, AnyBytes, StringType, BytesType, Plain, ElementType, Type, Bases
  <1>2. e.type = t /\ e.values = <<v, w>> /\ e.literal = NoLiteral /\ e.trusted = {}
    BY <1>1 DEF Entry
  <1>3. <<v, w>> \in Seq(Value) /\ Len(<<v, w>>) = 2
    OBVIOUS
  <1>4. e \in Expression
    BY <1>1, <1>3 DEF Entry, Expression
  <1>5. \A i \in DOMAIN e.values : Fits(e.values[i], ElementType(t))
    BY <1>1, FitsUnbounded
  <1> HIDE DEF e
  <1>6. Sound(e)
    BY <1>1, <1>2, <1>3, <1>5 DEF Sound
  <1> QED
    BY <1>4, <1>6 DEF e, SoundExpression

LEMMA SplitParts ==
  ASSUME NEW a, NEW literal, a[1].size \in Nat, NEW result \in Outcomes("SPLIT", a, literal)
  PROVE  \E v, w \in Value : /\ result = <<v, w>>
                             /\ v.size + w.size = a[1].size
                             /\ literal # NoLiteral => v.size = literal
  <1>1. PICK n \in {k \in Sizes \cup Literals : k <= a[1].size /\ literal \in {NoLiteral, k}} :
          result \in OfSize(n) \X OfSize(a[1].size - n)
    BY DEF Outcomes, Reads
  <1>2. n \in Nat /\ a[1].size - n \in Nat /\ literal \in {NoLiteral, n}
    <2>1. n \in Sizes \/ n \in 0 .. 127
      BY <1>1, BoundsAssumption
    <2>2. n \in Nat /\ n <= a[1].size
      BY <1>1, <2>1, BoundsAssumption
    <2> QED
      BY <1>1, <2>2
  <1>3. PICK v \in OfSize(n) : \E w \in OfSize(a[1].size - n) : result = <<v, w>>
    BY <1>1
  <1>4. PICK w \in OfSize(a[1].size - n) : result = <<v, w>>
    BY <1>3
  <1>5. v \in Value /\ v.size = n /\ w \in Value /\ w.size = a[1].size - n
    BY <1>2, SizedFit
  <1> QED
    BY <1>2, <1>4, <1>5

LEMMA BinaryOpSound == ASSUME IInv, NEW op \in BinaryOperators, BinaryOp(op) PROVE IInv'
  <1> DEFINE s == Last(2).type
             t == Last(1).type
             v == Last(2).values[1]
             w == Last(1).values[1]
             literal == Last(1).literal
             type == BinaryType(op, s, t)
             opcode == CompileBinaryOp(op, IsNumeric(s, t))
             outcomes == Outcomes(opcode, Operands(2), literal)
  <1>1. Has(2) /\ Operation(2, opcode, type, literal, Trust(2))
    BY DEF BinaryOp
  <1>2. /\ s \in Type /\ t \in Type /\ v \in Value /\ w \in Value
        /\ Operands(2) = <<v, w>> /\ Trust(2) \in SUBSET Reasons
        /\ Trust(2) = {} => Fits(v, ElementType(s)) /\ Fits(w, ElementType(t))
        /\ Top(2)[1].type = s /\ Top(2)[2].type = t
    BY <1>1, TwoOperands
  <1>3. type # Undefined
    BY <1>1 DEF Operation
  <1>4. s \in {IntType, BoolType} => v.number
    BY <1>1, NumberOperand, TwoOperands
  <1>5. t \in {IntType, BoolType} => w.number
    BY <1>1, NumberOperand, TwoOperands
  <1>6. v.size \in Nat /\ w.size \in Nat
    BY <1>2 DEF Value
  <1>7. ASSUME opcode \in Opcodes,
               Trust(2) = {} => \/ Fitting(2, opcode, <<v, w>>)
                                \/ LeftUnchecked(Misfit(2, opcode, <<v, w>>)),
               \A result \in outcomes : Entry(type, result, NoLiteral, Trust(2)) \in SoundExpression
        PROVE  IInv'
    <2> HIDE DEF opcode, type, v, w, literal
    <2> QED
      BY <1>1, <1>2, <1>7, OperationIsSound
  <1>8. Misfit(2, opcode, <<v, w>>).types = <<s, t>> /\ Misfit(2, opcode, <<v, w>>).opcode = opcode
    BY <1>2 DEF Misfit
  <1>9. op \in BinaryOperators \ {"+"} =>
         /\ op \in Arithmetic => type = IntType /\ s = IntType /\ t = IntType
         /\ op \in Comparisons => type = BoolType /\ s = IntType /\ t = IntType
         /\ op \in Connectives => type = BoolType /\ s = BoolType /\ t = BoolType
         /\ op \in Equalities => type = BoolType /\ ResultingType(s, t) # Undefined
         /\ op \in BitOperators => /\ type = s /\ s \in PlainType /\ t \in PlainType
                                   /\ s.base = "bytes" /\ t.base = "bytes" /\ s.bound = t.bound
         /\ op = ".split" => type \in {TupleType(AnyBytes), TupleType(StringType)} /\ t = IntType
    <2> HIDE DEF s, t
    <2> QED
      BY <1>2, <1>3, BinaryTypeIs
  <1>10. /\ op \in Arithmetic => opcode = "arithmetic"
         /\ op \in Comparisons \cup Connectives => opcode = "compare"
         /\ op = "+" => opcode = IF IsNumeric(s, t) THEN "arithmetic" ELSE "CAT"
         /\ op \in Equalities => opcode = IF IsNumeric(s, t) THEN "compare" ELSE "EQUAL"
         /\ op \in BitOperators => opcode = "bitwise"
         /\ op = ".split" => opcode = "SPLIT"
    BY DEF CompileBinaryOp, Arithmetic, Comparisons, Connectives, Equalities, BitOperators
  <1>11. op = "+" =>
         \/ IsNumeric(s, t) /\ type \in {IntType, BoolType} /\ s = type /\ t = type
         \/ /\ ~IsNumeric(s, t)
            /\ \E m, n \in Nat \ {0} : /\ type = BytesType(m + n)
                                       /\ s.base = "bytes" /\ s.bound = m /\ s \in PlainType
                                       /\ t.base = "bytes" /\ t.bound = n /\ t \in PlainType
         \/ /\ ~IsNumeric(s, t) /\ type \in PlainType
            /\ type.base \notin {"int", "bool"} /\ type.bound = 0
    <2> HIDE DEF s, t
    <2> QED
      BY <1>2, <1>3, PlusType
  <1>12. IsNumeric(s, t) => s \in {IntType, BoolType} /\ t \in {IntType, BoolType}
    <2> HIDE DEF s, t
    <2>1. IsNumeric(s, t) => ResultingType(s, t) # Undefined
      BY DEF IsNumeric, IntType, BoolType, Plain, Undefined
    <2> QED
      BY <1>2, <2>1, CommonType DEF IsNumeric
  <1> HIDE DEF s, t, v, w, literal, type, opcode, outcomes
  <1>13. ASSUME opcode \in {"arithmetic", "compare"}, v.number, w.number, type \in {IntType, BoolType}
         PROVE  IInv'
    <2>1. opcode \in Opcodes /\ Fitting(2, opcode, <<v, w>>)
      BY <1>13 DEF Fitting, Takes, Opcodes
    <2>2. \A result \in outcomes : \E x \in Numbers \cup Truths : result = <<x>>
      BY <1>13 DEF Outcomes, outcomes
    <2>3. \A result \in outcomes : Entry(type, result, NoLiteral, Trust(2)) \in SoundExpression
      BY <1>2, <1>13, <2>2, NumberEntry
    <2> QED
      BY <1>7, <2>1, <2>3
  <1>14. CASE op \in Arithmetic \cup Comparisons \cup Connectives
    <2>1. op \in BinaryOperators \ {"+"}
      BY <1>14 DEF Arithmetic, Comparisons, Connectives
    <2> QED
      BY <1>4, <1>5, <1>9, <1>10, <1>13, <1>14, <2>1
  <1>15. CASE op \in Equalities
    <2>1. op \in BinaryOperators \ {"+"} /\ type = BoolType /\ ResultingType(s, t) # Undefined
      BY <1>9, <1>15 DEF Equalities
    <2>2. CASE IsNumeric(s, t)
      BY <1>4, <1>5, <1>10, <1>12, <1>13, <1>15, <2>1, <2>2
    <2>3. CASE ~IsNumeric(s, t)
      <3>1. opcode = "EQUAL"
        BY <1>10, <1>15, <2>3
      <3>2. (s.form = "plain" /\ t.form = "plain") \/ (s.form = "array" /\ t.form = "array")
        BY <1>2, <2>1, CommonType
      <3>3. CASE s.form = "plain" /\ t.form = "plain"
        <4>1. PlainOperands(2)
          BY <3>3 DEF PlainOperands, s, t
        <4>2. Fitting(2, opcode, <<v, w>>)
          BY <3>1, <4>1 DEF Fitting, Takes, Reads
        <4>3. \A result \in outcomes : \E x \in Truths : result = <<x>>
          BY <3>1 DEF Outcomes, outcomes
        <4>4. \A result \in outcomes : Entry(type, result, NoLiteral, Trust(2)) \in SoundExpression
          BY <1>2, <2>1, <4>3, NumberEntry
        <4> QED
          BY <1>7, <3>1, <4>2, <4>4 DEF Opcodes
      <3>4. CASE s.form = "array" /\ t.form = "array"
        <4>1. LeftUnchecked(Misfit(2, opcode, <<v, w>>))
          BY <1>8, <3>1, <3>4 DEF LeftUnchecked
        <4>2. \A result \in outcomes : \E x \in Truths : result = <<x>>
          BY <3>1 DEF Outcomes, outcomes
        <4>3. \A result \in outcomes : Entry(type, result, NoLiteral, Trust(2)) \in SoundExpression
          BY <1>2, <2>1, <4>2, NumberEntry
        <4> QED
          BY <1>7, <3>1, <4>1, <4>3 DEF Opcodes
      <3> QED
        BY <3>2, <3>3, <3>4
    <2> QED
      BY <2>2, <2>3
  <1>16. CASE op \in BitOperators
    <2>1. op \in BinaryOperators \ {"+"}
      BY <1>16 DEF BitOperators
    <2>2. /\ type = s /\ s \in PlainType /\ t \in PlainType /\ opcode = "bitwise"
          /\ s.base = "bytes" /\ t.base = "bytes" /\ s.bound = t.bound /\ s.bound \in Nat
      BY <1>9, <1>10, <1>16, <2>1 DEF PlainType, Type
    <2>3. ElementType(s) = s /\ ElementType(t) = t
      BY <2>2, ElementOfPlain
    <2>4. Trust(2) = {} => \/ Fitting(2, opcode, <<v, w>>)
                           \/ LeftUnchecked(Misfit(2, opcode, <<v, w>>))
      <3>1. CASE s.bound = 0
        <4>1. \A k \in DOMAIN <<s, t>> : <<s, t>>[k].bound = 0
          <5>1. s.bound = 0 /\ t.bound = 0 /\ DOMAIN <<s, t>> = 1 .. 2
            BY <2>2, <3>1
          <5>2. <<s, t>>[1] = s /\ <<s, t>>[2] = t
            OBVIOUS
          <5> QED
            BY <5>1, <5>2
        <4> QED
          BY <1>8, <2>2, <4>1 DEF LeftUnchecked
      <3>2. CASE Trust(2) = {} /\ s.bound > 0
        <4>1. v.size = w.size
          BY <1>2, <2>2, <2>3, <3>2 DEF Fits
        <4> QED
          BY <2>2, <4>1 DEF Fitting, Takes, Reads
      <3> QED
        BY <2>2, <3>1, <3>2
    <2>5. \A result \in outcomes : \E x \in OfSize(v.size) : result = <<x>>
      BY <1>2, <2>2 DEF Outcomes, outcomes, Reads
    <2>6. ASSUME NEW x \in OfSize(v.size)
          PROVE  Entry(type, <<x>>, NoLiteral, Trust(2)) \in SoundExpression
      <3>1. x \in Value /\ x.size = v.size
        BY <1>6, SizedFit
      <3>2. (s.bound > 0 /\ Trust(2) # {}) \/ Fits(x, s)
        BY <1>2, <2>2, <2>3, <3>1 DEF Fits
      <3> QED
        BY <1>2, <2>2, <3>1, <3>2, PlainEntry
    <2>7. \A result \in outcomes : Entry(type, result, NoLiteral, Trust(2)) \in SoundExpression
      BY <2>5, <2>6
    <2>8. opcode \in Opcodes
      BY <2>2 DEF Opcodes
    <2> QED
      BY <1>7, <2>4, <2>7, <2>8
  <1>17. CASE op = ".split"
    <2>1. /\ type \in {TupleType(AnyBytes), TupleType(StringType)} /\ t = IntType
          /\ opcode = "SPLIT"
      BY <1>9, <1>10, <1>17
    <2>2. Fitting(2, opcode, <<v, w>>)
      BY <1>5, <2>1 DEF Fitting, Takes, Reads
    <2>3. \A result \in outcomes : \E x, y \in Value : result = <<x, y>>
      BY <1>2, <1>6, <2>1, SplitParts DEF outcomes
    <2>4. \A result \in outcomes : Entry(type, result, NoLiteral, Trust(2)) \in SoundExpression
      BY <1>2, <2>1, <2>3, PairEntry
    <2>5. opcode \in Opcodes
      BY <2>1 DEF Opcodes
    <2> QED
      BY <1>7, <2>2, <2>4, <2>5
  <1>18. CASE op = "+" /\ IsNumeric(s, t)
    BY <1>4, <1>5, <1>10, <1>11, <1>12, <1>13, <1>18
  <1>19. CASE op = "+" /\ ~IsNumeric(s, t)
    <2>1. opcode = "CAT" /\ opcode \in Opcodes /\ Fitting(2, opcode, <<v, w>>)
      BY <1>10, <1>19 DEF Fitting, Takes, Reads, Opcodes
    <2>2. \A result \in outcomes : \E x \in OfSize(v.size + w.size) : result = <<x>>
      BY <1>2, <2>1 DEF Outcomes, outcomes, Reads
    <2>3. ASSUME NEW x \in OfSize(v.size + w.size)
          PROVE  Entry(type, <<x>>, NoLiteral, Trust(2)) \in SoundExpression
      <3>1. x \in Value /\ x.size = v.size + w.size
        BY <1>6, SizedFit
      <3>2. CASE type \in PlainType /\ type.base \notin {"int", "bool"} /\ type.bound = 0
        BY <1>2, <3>1, <3>2, UnboundedEntry
      <3>3. ASSUME NEW m \in Nat \ {0}, NEW n \in Nat \ {0}, type = BytesType(m + n),
                   s.base = "bytes", s.bound = m, s \in PlainType,
                   t.base = "bytes", t.bound = n, t \in PlainType
            PROVE  Entry(type, <<x>>, NoLiteral, Trust(2)) \in SoundExpression
        <4>1. Trust(2) = {} => v.size = m /\ w.size = n
          BY <1>2, <3>3, ElementOfPlain DEF Fits
        <4>2. x.size = m + n \/ Trust(2) # {}
          BY <3>1, <4>1
        <4> QED
          BY <1>2, <3>1, <3>3, <4>2, WidthEntry
      <3> QED
        BY <1>11, <1>19, <3>2, <3>3
    <2>4. \A result \in outcomes : Entry(type, result, NoLiteral, Trust(2)) \in SoundExpression
      BY <2>2, <2>3
    <2> QED
      BY <1>7, <2>1, <2>4
  <1> QED
    BY <1>14, <1>15, <1>16, <1>17, <1>18, <1>19 DEF BinaryOperators

-----------------------------------------------------------------------------
(* Pairs, casts and variables.                                             *)

LEMMA TupleIndexSound == ASSUME IInv, NEW index \in {1, 2}, TupleIndexOp(index) PROVE IInv'
  <1>1. PICK e \in SoundExpression : e = Last(1) /\ e.type.form = "tuple"
    BY OneOperand DEF TupleIndexOp
  <1>2. e \in Expression /\ Sound(e)
    BY SoundIsExpression
  <1>3. /\ Len(e.values) = 2 /\ e.type.bound = 0 /\ e.trusted = {}
        /\ \A i \in DOMAIN e.values : Fits(e.values[i], ElementType(e.type))
    BY <1>1, <1>2 DEF Sound
  <1>4. e.values \in Seq(Value) /\ ElementType(e.type) \in PlainType
    BY <1>2, ExpressionFields
  <1>5. index \in DOMAIN e.values /\ e.values[index] \in Value
    BY <1>3, <1>4
  <1>6. Fits(e.values[index], ElementType(e.type))
    BY <1>3, <1>5
  <1>7. Entry(ElementType(e.type), <<e.values[index]>>, NoLiteral, {}) \in SoundExpression
    BY <1>4, <1>5, <1>6, PlainEntry
  <1>8. <<Entry(ElementType(e.type), <<e.values[index]>>, NoLiteral, {})>> \in Seq(SoundExpression)
    BY <1>7
  <1> QED
    BY <1>1, <1>8, PushIsSound DEF TupleIndexOp

(* A variable keeps the value; what fitted the expression fits the         *)
(* declared type.                                                          *)
LEMMA AssignSound == ASSUME IInv, NEW declared \in DeclaredTypes, Assign(declared) PROVE IInv'
  <1>1. PICK e \in SoundExpression : e = Last(1) /\ ImplicitlyCastable(e.type, declared)
    BY OneOperand DEF Assign
  <1>2. e \in Expression /\ Sound(e)
    BY SoundIsExpression
  <1>3. /\ e.type \in Type /\ e.values \in Seq(Value) /\ Len(e.values) \in Nat
        /\ e.trusted \subseteq Reasons /\ e.type.bound \in Nat
    BY <1>2, ExpressionFields
  <1>4. declared \in PlainType /\ ElementType(declared) = declared /\ declared.bound \in Nat
    BY DeclaredTypesAssumption, ElementOfPlain DEF PlainType, Type
  <1>5. e.type.form = "plain" /\ e.type \in PlainType /\ ElementType(e.type) = e.type
    BY <1>1, <1>3, <1>4, ElementOfPlain DEF ImplicitlyCastable, PlainType
  <1>6. Len(e.values) = 1
    BY <1>2, <1>5 DEF Sound
  <1>7. PICK v \in Value : e.values = <<v>>
    BY <1>3, <1>6, OneElement
  <1>8. e.trusted = {} => Fits(v, e.type)
    BY <1>2, <1>5, <1>7 DEF Sound
  <1>9. (declared.bound > 0 /\ e.trusted # {}) \/ Fits(v, declared)
    <2>1. CASE e.trusted = {}
      BY <1>1, <1>4, <1>5, <1>8, <2>1, CastFits
    <2>2. CASE e.trusted # {} /\ declared.bound = 0
      <3>1. e.type.bound # 0
        BY <1>2, <2>2 DEF Sound
      <3>2. e.type.base = "bytes"
        BY <1>3, <3>1 DEF Type
      <3>3. declared.base \notin {"int", "bool"}
        BY <1>1, <2>2, <3>1, <3>2 DEF ImplicitlyCastable
      <3> QED
        BY <1>4, <2>2, <3>3, FitsUnbounded
    <2> QED
      BY <1>4, <2>1, <2>2
  <1>10. Entry(declared, <<v>>, NoLiteral, e.trusted) \in SoundExpression
    BY <1>3, <1>4, <1>9, PlainEntry
  <1>11. <<Entry(declared, e.values, NoLiteral, e.trusted)>> \in Seq(SoundExpression)
    BY <1>7, <1>10
  <1> QED
    BY <1>1, <1>11, PushIsSound DEF Assign

(* bytes(int, size).                                                       *)
LEMMA SizedCastSound == IInv /\ SizedCast => IInv'
  <1> SUFFICES ASSUME IInv, SizedCast PROVE IInv'
    OBVIOUS
  <1>1. PICK size \in Sizes : Operation(2, "NUM2BIN", AnyBytes, size, {})
    BY DEF SizedCast
  <1>2. PICK v, w \in Value : v = Last(2).values[1] /\ w = Last(1).values[1]
    BY TwoOperands DEF SizedCast
  <1>3. Operands(2) = <<v, w>> /\ Has(2) /\ size \in Nat
    BY <1>2, TwoOperands, BoundsAssumption DEF SizedCast
  <1>4. v.number
    BY <1>2, NumberOperand, TwoOperands DEF SizedCast
  <1>5. Last(1).type = IntType => w.number
    BY <1>2, <1>3, NumberOperand, TwoOperands
  <1>6. Fitting(2, "NUM2BIN", <<v, w>>) \/ LeftUnchecked(Misfit(2, "NUM2BIN", <<v, w>>))
    <2>1. CASE Last(1).type = IntType
      BY <1>4, <1>5, <2>1 DEF Fitting, Takes
    <2>2. CASE Last(1).type # IntType
      <3>1. /\ Misfit(2, "NUM2BIN", <<v, w>>).types = <<Last(2).type, Last(1).type>>
            /\ Misfit(2, "NUM2BIN", <<v, w>>).opcode = "NUM2BIN"
        BY <1>3, TwoOperands DEF Misfit
      <3> QED
        BY <2>2, <3>1 DEF LeftUnchecked
    <2> QED
      BY <2>1, <2>2
  <1>7. \A result \in Outcomes("NUM2BIN", <<v, w>>, size) : \E x \in OfSize(size) : result = <<x>>
    BY DEF Outcomes, Reads
  <1>8. AnyBytes \in PlainType /\ AnyBytes.base = "bytes" /\ AnyBytes.bound = 0
    BY PlainTypes DEF AnyBytes
  <1>9. \A result \in Outcomes("NUM2BIN", <<v, w>>, size) :
          Entry(AnyBytes, result, NoLiteral, {}) \in SoundExpression
    BY <1>3, <1>7, <1>8, SizedFit, UnboundedEntry
  <1>10. "NUM2BIN" \in Opcodes
    BY DEF Opcodes
  <1> QED
    BY <1>1, <1>3, <1>6, <1>9, <1>10, OperationIsSound

(* The casts of the check, each with the opcode it gets.                   *)
LEMMA CastCases ==
  ASSUME NEW from \in Type, NEW to \in PlainType, ExplicitlyCastable(from, to)
  PROVE  /\ from \in PlainType
         /\ \/ from = IntType /\ to.base = "bytes" /\ to.bound > 0
            \/ from # IntType /\ to = IntType /\ from.base = "bytes" /\ from.bound <= 8
            \/ from # IntType /\ to = IntType /\ from.base = "bool"
            \/ to.base \in {"int", "bool"} /\ from.base \in {"int", "bool"}
                 /\ (to = IntType => from = IntType)
            \/ to.base \notin {"int", "bool"} /\ to.bound = 0
            \/ to.base = "bytes" /\ to.bound > 0 /\ from.base = "bytes" /\ from.bound \in {0, to.bound}
  <1>1. from \in PlainType
    BY DEF ExplicitlyCastable, PlainType
  <1>2. /\ \A t \in PlainType : t.base = "int" => t = IntType
        /\ \A t \in PlainType : t.bound \in Nat /\ (t.base # "bytes" => t.bound = 0)
    BY DEF PlainType, Type, IntType, Plain
  <1>3. CASE to.base = "bytes" /\ from.base = "int"
    BY <1>1, <1>2, <1>3
  <1>4. CASE to.base = "bytes" /\ from.base # "int"
    BY <1>1, <1>2, <1>4 DEF ExplicitlyCastable
  <1>5. CASE to.base # "bytes" /\ from.base = "bytes"
    <2>1. \/ to.base = "int" /\ from.bound <= 8
          \/ to.base \notin {"int", "bool", "string"}
      BY <1>5 DEF ExplicitlyCastable, ShortEnough
    <2>2. from # IntType
      BY <1>5 DEF IntType, Plain
    <2> QED
      BY <1>1, <1>2, <1>5, <2>1, <2>2
  <1>6. CASE to.base # "bytes" /\ from.base # "bytes"
    <2>1. from.base = to.base \/ {from.base, to.base} = {"int", "bool"}
      BY <1>6 DEF ExplicitlyCastable, ExplicitlyCastableTo
    <2>2. CASE to.base \in {"int", "bool"}
      <3>1. from.base \in {"int", "bool"}
        BY <2>1, <2>2
      <3> QED
        BY <1>1, <1>2, <2>2, <3>1
    <2>3. CASE to.base \notin {"int", "bool"}
      BY <1>1, <1>2, <1>6, <2>3
    <2> QED
      BY <2>2, <2>3
  <1> QED
    BY <1>3, <1>4, <1>5, <1>6

LEMMA CastSound == ASSUME IInv, NEW to \in DeclaredTypes, Cast(to) PROVE IInv'
  <1> DEFINE from == Last(1).type
             v == Last(1).values[1]
             reasons == IF from = AnyBytes THEN {"cast"} ELSE Last(1).trusted
             opcode == CompileCast(from, to)
             outcomes == Outcomes(opcode, Operands(1), to.bound)
  <1>1. Has(1) /\ ExplicitlyCastable(from, to) /\ Operation(1, opcode, to, to.bound, reasons)
    BY DEF Cast
  <1>2. /\ from \in Type /\ v \in Value /\ Operands(1) = <<v>>
        /\ Trust(1) = {} \/ from.bound = 0 => Fits(v, ElementType(from))
        /\ Top(1)[1].type = from
    BY <1>1, OneOperand, Operand
  <1>3. reasons \in SUBSET Reasons /\ (from # AnyBytes => reasons = Trust(1))
    BY <1>1, OneOperand DEF Reasons
  <1>4. from = AnyBytes => reasons # {}
    OBVIOUS
  <1>5. to \in PlainType /\ ElementType(to) = to /\ to.bound \in Nat
    BY DeclaredTypesAssumption, ElementOfPlain DEF PlainType, Type
  <1>6. from \in {IntType, BoolType} => v.number
    BY <1>1, NumberOperand, Operand
  <1>7. Misfit(1, opcode, <<v>>).types = <<from>> /\ Misfit(1, opcode, <<v>>).opcode = opcode
    BY <1>2 DEF Misfit
  <1>8. /\ from = IntType /\ IsBytes(to) /\ to.bound > 0 => opcode = "NUM2BIN"
        /\ from # IntType /\ to = IntType => opcode = "BIN2NUM"
        /\ ~(from = IntType /\ IsBytes(to) /\ to.bound > 0) /\ ~(from # IntType /\ to = IntType)
             => opcode = "none"
    <2> HIDE DEF from
    <2> QED
      BY DEF CompileCast
  <1> HIDE DEF from, v, reasons, opcode, outcomes
  <1>9. /\ from \in PlainType /\ ElementType(from) = from
        /\ \/ from = IntType /\ to.base = "bytes" /\ to.bound > 0
           \/ from # IntType /\ to = IntType /\ from.base = "bytes" /\ from.bound <= 8
           \/ from # IntType /\ to = IntType /\ from.base = "bool"
           \/ to.base \in {"int", "bool"} /\ from.base \in {"int", "bool"}
                /\ (to = IntType => from = IntType)
           \/ to.base \notin {"int", "bool"} /\ to.bound = 0
           \/ to.base = "bytes" /\ to.bound > 0 /\ from.base = "bytes" /\ from.bound \in {0, to.bound}
    BY <1>1, <1>2, <1>5, CastCases, ElementOfPlain
  <1>10. ASSUME opcode \in {"NUM2BIN", "BIN2NUM", "none"},
                Trust(1) = {} => Takes(opcode, <<v>>) \/ LeftUnchecked(Misfit(1, opcode, <<v>>)),
                \A result \in outcomes : Entry(to, result, NoLiteral, reasons) \in SoundExpression
         PROVE  IInv'
    <2>1. opcode \in Opcodes
      BY <1>10 DEF Opcodes
    <2>2. Takes(opcode, <<v>>) => Fitting(1, opcode, <<v>>)
      BY <1>10 DEF Fitting
    <2> QED
      BY <1>1, <1>2, <1>10, <2>1, <2>2, OperationIsSound DEF outcomes
  <1>11. /\ \A t \in PlainType : t.base = "int" => t = IntType
         /\ \A t \in PlainType : t.base = "bool" => t = BoolType
         /\ \A t \in PlainType : t.base = "bytes" /\ t.bound = 0 => t = AnyBytes
         /\ \A t \in PlainType : t.base = "bytes" => IsBytes(t)
         /\ IntType.base = "int"
    BY DEF PlainType, Type, IntType, BoolType, AnyBytes, BytesType, Plain, IsBytes
  <1>12. opcode = "none" => Takes(opcode, <<v>>) /\ outcomes = {<<v>>}
    BY <1>2 DEF Takes, Outcomes, Reads, outcomes
  <1>13. CASE from = IntType /\ to.base = "bytes" /\ to.bound > 0
    <2>1. opcode = "NUM2BIN" /\ Takes(opcode, <<v>>)
      BY <1>5, <1>6, <1>8, <1>11, <1>13 DEF Takes
    <2>2. \A result \in outcomes : \E x \in OfSize(to.bound) : result = <<x>>
      BY <2>1 DEF Outcomes, Reads, outcomes
    <2>3. ASSUME NEW x \in OfSize(to.bound)
          PROVE  Entry(to, <<x>>, NoLiteral, reasons) \in SoundExpression
      <3>1. x \in Value /\ x.size = to.bound
        BY <1>5, SizedFit
      <3>2. Fits(x, to)
        BY <1>13, <3>1 DEF Fits
      <3> QED
        BY <1>3, <1>5, <3>1, <3>2, PlainEntry
    <2> QED
      BY <1>10, <2>1, <2>2, <2>3
  <1>14. CASE from # IntType /\ to = IntType
    <2>1. opcode = "BIN2NUM"
      BY <1>8, <1>14
    <2>2. \A result \in outcomes : \E x \in Numbers : result = <<x>>
      BY <2>1 DEF Outcomes, Reads, outcomes
    <2>3. \A result \in outcomes : Entry(to, result, NoLiteral, reasons) \in SoundExpression
      BY <1>3, <1>14, <2>2, NumberEntry
    <2>4. Takes(opcode, <<v>>) <=> v.size <= 8
      BY <2>1 DEF Takes, Reads, MaxNumber
    <2>5. CASE from.base = "bool"
      <3>1. v.size <= 8
        BY <1>2, <1>6, <1>9, <1>11, <2>5 DEF Value, MaxNumber
      <3> QED
        BY <1>10, <2>1, <2>3, <2>4, <3>1
    <2>6. CASE from.base = "bytes" /\ from.bound = 0
      <3>1. <<from>>[1] = from /\ DOMAIN <<from>> = {1}
        OBVIOUS
      <3>2. \A k \in DOMAIN <<from>> : <<from>>[k].bound = 0
        BY <2>6, <3>1
      <3>3. LeftUnchecked(Misfit(1, opcode, <<v>>))
        BY <1>7, <2>1, <3>2 DEF LeftUnchecked
      <3> QED
        BY <1>10, <2>1, <2>3, <3>3
    <2>7. CASE from.base = "bytes" /\ from.bound # 0 /\ from.bound <= 8
      <3>1. Trust(1) = {} => v.size = from.bound
        BY <1>2, <1>9, <2>7 DEF Fits, PlainType, Type
      <3>2. Trust(1) = {} => Takes(opcode, <<v>>)
        BY <2>4, <2>7, <3>1
      <3> QED
        BY <1>10, <2>1, <2>3, <3>2
    <2>8. IntType.base # "bytes"
      BY <1>11
    <2> QED
      BY <1>9, <1>11, <1>14, <2>5, <2>6, <2>7, <2>8
  <1>15. CASE to.base \in {"int", "bool"} /\ from.base \in {"int", "bool"}
                /\ (to = IntType => from = IntType)
    <2>1. opcode = "none"
      BY <1>8, <1>15 DEF IsBytes
    <2>2. v.number
      BY <1>6, <1>9, <1>11, <1>15
    <2>3. Fits(v, to)
      BY <1>15, <2>2 DEF Fits
    <2>4. Entry(to, <<v>>, NoLiteral, reasons) \in SoundExpression
      BY <1>2, <1>3, <1>5, <2>3, PlainEntry
    <2> QED
      BY <1>10, <1>12, <2>1, <2>4
  <1>16. CASE to.base \notin {"int", "bool"} /\ to.bound = 0
    <2>1. opcode = "none"
      BY <1>8, <1>11, <1>16
    <2>2. Entry(to, <<v>>, NoLiteral, reasons) \in SoundExpression
      BY <1>2, <1>3, <1>5, <1>16, UnboundedEntry
    <2> QED
      BY <1>10, <1>12, <2>1, <2>2
  <1>17. CASE to.base = "bytes" /\ to.bound > 0 /\ from.base = "bytes" /\ from.bound \in {0, to.bound}
    <2>1. opcode = "none"
      BY <1>8, <1>11, <1>17
    <2>2. (to.bound > 0 /\ reasons # {}) \/ Fits(v, to)
      <3>1. CASE from.bound = 0
        BY <1>4, <1>9, <1>11, <1>17, <3>1
      <3>2. CASE from.bound = to.bound
        <4>1. from # AnyBytes
          BY <1>17, <3>2, PlainTypes
        <4>2. Trust(1) = {} => Fits(v, from)
          BY <1>2, <1>9
        <4> QED
          BY <1>3, <1>17, <3>2, <4>1, <4>2 DEF Fits
      <3> QED
        BY <1>17, <3>1, <3>2
    <2>3. Entry(to, <<v>>, NoLiteral, reasons) \in SoundExpression
      BY <1>2, <1>3, <1>5, <2>2, PlainEntry
    <2> QED
      BY <1>10, <1>12, <2>1, <2>3
  <1> QED
    BY <1>9, <1>13, <1>14, <1>15, <1>16, <1>17

(* A half of a split fits the type it is declared with, unless the width   *)
(* of the half is the program's claim.                                     *)
LEMMA HalfSound ==
  ASSUME NEW source \in PlainType, source.base \notin {"int", "bool"},
         NEW literal \in Int, NEW v \in Value, NEW trusted \in SUBSET Reasons,
         trusted = {} => Fits(v, source),
         NEW x \in Value, NEW y \in Value, x.size + y.size = v.size,
         literal # NoLiteral => x.size = literal,
         NEW i \in {1, 2}, NEW d \in PlainType, HalfAssignable(i, source, literal, d),
         NEW reasons, reasons = IF Known(source, literal) THEN trusted ELSE {"split"},
         NEW half, half = IF i = 1 THEN x ELSE y
  PROVE  Entry(d, <<half>>, NoLiteral, reasons) \in SoundExpression
  <1>1. reasons \in SUBSET Reasons /\ half \in Value
    BY DEF Reasons
  <1>2. d.bound \in Nat /\ (d.base # "bytes" => d.bound = 0) /\ d.form = "plain"
    BY DEF PlainType, Type
  <1>3. CASE d.bound = 0
    <2>1. d.base \notin {"int", "bool"}
      BY <1>2 DEF HalfAssignable, ImplicitlyCastable, IsBytes
    <2> QED
      BY <1>1, <1>3, <2>1, UnboundedEntry
  <1>4. CASE d.bound > 0
    <2>1. d.base = "bytes" /\ IsBytes(d)
      BY <1>2, <1>4 DEF IsBytes
    <2>2. CASE ~Known(source, literal)
      BY <1>1, <1>4, <2>2, PlainEntry
    <2>3. CASE Known(source, literal)
      <3>1. d.bound = ExpectedBound(i, source, literal)
        BY <1>4, <2>1, <2>3 DEF HalfAssignable
      <3>2. /\ literal # NoLiteral /\ source.base = "bytes" /\ source.bound > 0
            /\ source.bound \in Nat /\ reasons = trusted
        BY <2>3 DEF Known, IsBytes, PlainType, Type
      <3>3. trusted = {} => v.size = source.bound
        BY <3>2 DEF Fits
      <3>4. x.size \in Nat /\ y.size \in Nat /\ v.size \in Nat
        BY DEF Value
      <3>5. trusted = {} => half.size = d.bound
        <4>1. CASE i = 1
          BY <3>1, <3>2, <4>1 DEF ExpectedBound
        <4>2. CASE i = 2
          <5>1. half.size = v.size - literal
            BY <3>2, <3>4, <4>2
          <5>2. d.bound = source.bound - literal
            BY <3>1, <4>2 DEF ExpectedBound
          <5> QED
            BY <3>3, <5>1, <5>2
        <4> QED
          BY <4>1, <4>2
      <3>6. (d.bound > 0 /\ reasons # {}) \/ Fits(half, d)
        BY <1>4, <2>1, <3>2, <3>5 DEF Fits
      <3> QED
        BY <1>1, <3>6, PlainEntry
    <2> QED
      BY <2>2, <2>3
  <1> QED
    BY <1>2, <1>3, <1>4

LEMMA TupleAssignmentSound ==
  ASSUME IInv, NEW first \in DeclaredTypes, NEW second \in DeclaredTypes,
         TupleAssignment(first, second)
  PROVE  IInv'
  <1> DEFINE source == Last(2).type
             literal == Last(1).literal
             trusted == Last(2).trusted
             v == Last(2).values[1]
             reasons == IF Known(source, literal) THEN trusted ELSE {"split"}
  <1>1. /\ Has(2) /\ BinaryType(".split", source, Last(1).type) # Undefined
        /\ HalfAssignable(1, source, literal, first) /\ HalfAssignable(2, source, literal, second)
        /\ UNCHANGED misfits
    BY DEF TupleAssignment
  <1>2. PICK parts \in Outcomes("SPLIT", <<v, Last(1).values[1]>>, literal) :
          NewNode(2, <<Entry(first, <<parts[1]>>, NoLiteral, reasons),
                       Entry(second, <<parts[2]>>, NoLiteral, reasons)>>)
    BY DEF TupleAssignment
  <1>3. v \in Value /\ source \in Type /\ Last(1).type \in Type
    BY <1>1, TwoOperands
  <1>4. literal \in Int
    <2>1. literal \in Literals \/ literal = NoLiteral
      BY <1>1, TwoOperands
    <2>2. \A l \in Literals : l \in 0 .. 127
      BY BoundsAssumption
    <2> HIDE DEF literal
    <2> QED
      BY <2>1, <2>2 DEF NoLiteral
  <1>5. PICK x, y \in Value : /\ parts = <<x, y>> /\ x.size + y.size = v.size
                              /\ literal # NoLiteral => x.size = literal
    <2>1. v.size \in Nat
      BY <1>3 DEF Value
    <2> HIDE DEF v, literal
    <2> QED
      BY <1>2, <2>1, SplitParts
  <1>6. source \in PlainType /\ source.base \notin {"int", "bool"} /\ ElementType(source) = source
    <2>1. ".split" \in BinaryOperators \ {"+"}
      BY DEF BinaryOperators
    <2> HIDE DEF source
    <2> QED
      BY <1>1, <1>3, <2>1, BinaryTypeIs, ElementOfPlain
  <1>7. trusted \in SUBSET Reasons /\ (trusted = {} => Fits(v, source))
    <2>1. PICK e \in SoundExpression : e = Last(2)
      BY <1>1, Operand
    <2>2. e \in Expression /\ Sound(e)
      BY SoundIsExpression
    <2>3. e.values \in Seq(Value) /\ Len(e.values) = 1 /\ e.trusted \in SUBSET Reasons
      BY <1>6, <2>1, <2>2, ExpressionFields DEF Sound, PlainType
    <2>4. e.trusted = {} => Fits(e.values[1], ElementType(e.type))
      BY <2>2, <2>3 DEF Sound
    <2> QED
      BY <1>6, <2>1, <2>3, <2>4
  <1>8. first \in PlainType /\ second \in PlainType
    BY DeclaredTypesAssumption DEF PlainType
  <1> HIDE DEF source, literal, trusted, v
  <1>9. Entry(first, <<x>>, NoLiteral, reasons) \in SoundExpression
    BY <1>1, <1>3, <1>4, <1>5, <1>6, <1>7, <1>8, HalfSound
  <1>10. Entry(second, <<y>>, NoLiteral, reasons) \in SoundExpression
    BY <1>1, <1>3, <1>4, <1>5, <1>6, <1>7, <1>8, HalfSound
  <1>11. <<Entry(first, <<x>>, NoLiteral, reasons), Entry(second, <<y>>, NoLiteral, reasons)>>
           \in Seq(SoundExpression)
    BY <1>9, <1>10
  <1>12. parts[1] = x /\ parts[2] = y
    BY <1>5
  <1> QED
    BY <1>1, <1>2, <1>11, <1>12, PushIsSound

-----------------------------------------------------------------------------
(* Arrays.                                                                 *)

LEMMA ElementOfOne ==
  ASSUME NEW types, Len(types) = 1
  PROVE  ArrayElementType(types) = types[1]
  <1> DEFINE Folds(f) == f = [i \in 1 .. Len(types) |-> IF i = 1 THEN types[1]
                                                     ELSE ResultingType(f[i - 1], types[i])]
             one == [i \in 1 .. 1 |-> types[1]]
  <1>1. \A i \in 1 .. 1 : i = 1
    OBVIOUS
  <1>2. Folds(one)
    BY <1>1
  <1>3. \E f : Folds(f)
    <2> HIDE DEF Folds, one
    <2> QED
      BY <1>2
  <1>4. Folds(CHOOSE f : Folds(f))
    <2> HIDE DEF Folds
    <2> QED
      BY <1>3
  <1>5. (CHOOSE f : Folds(f))[1] = types[1]
    <2>1. PICK g : g = CHOOSE f : Folds(f)
      OBVIOUS
    <2>2. Folds(g)
      <3> HIDE DEF Folds
      <3> QED
        BY <1>4, <2>1
    <2>3. g[1] = types[1]
      BY <2>2
    <2> QED
      BY <2>1, <2>3
  <1> QED
    BY <1>5 DEF ArrayElementType

LEMMA ElementOfTwo ==
  ASSUME NEW types, Len(types) = 2
  PROVE  ArrayElementType(types) = ResultingType(types[1], types[2])
  <1> DEFINE Folds(f) == f = [i \in 1 .. Len(types) |-> IF i = 1 THEN types[1]
                                                     ELSE ResultingType(f[i - 1], types[i])]
             two == [i \in 1 .. 2 |-> IF i = 1 THEN types[1] ELSE ResultingType(types[1], types[2])]
  <1>1. \A i \in 1 .. 2 : i = 1 \/ (i = 2 /\ i - 1 = 1)
    OBVIOUS
  <1>2. Folds(two)
    <2>1. /\ \A i \in 1 .. 2 : two[i] = IF i = 1 THEN types[1]
                                        ELSE ResultingType(two[i - 1], types[i])
      BY <1>1
    <2> QED
      BY <2>1
  <1>3. \E f : Folds(f)
    <2> HIDE DEF Folds, two
    <2> QED
      BY <1>2
  <1>4. Folds(CHOOSE f : Folds(f))
    <2> HIDE DEF Folds
    <2> QED
      BY <1>3
  <1>5. (CHOOSE f : Folds(f))[2] = ResultingType(types[1], types[2])
    <2>1. PICK g : g = CHOOSE f : Folds(f)
      OBVIOUS
    <2>2. Folds(g)
      <3> HIDE DEF Folds
      <3> QED
        BY <1>4, <2>1
    <2>3. g[1] = types[1] /\ g[2] = ResultingType(g[2 - 1], types[2])
      BY <2>2
    <2>4. g[2 - 1] = types[1]
      BY <2>3
    <2> QED
      BY <2>1, <2>3, <2>4
  <1> QED
    BY <1>5 DEF ArrayElementType

(* What fits one of two types fits their common type.                      *)
LEMMA CommonTypeFits ==
  ASSUME NEW s \in PlainType, NEW t \in PlainType, ResultingType(s, t) # Undefined, NEW v
  PROVE  /\ ResultingType(s, t) \in PlainType
         /\ Fits(v, s) => Fits(v, ResultingType(s, t))
         /\ Fits(v, t) => Fits(v, ResultingType(s, t))
  <1> DEFINE r == ResultingType(s, t)
  <1>1. s \in Type /\ t \in Type /\ AnyBytes \in PlainType
    BY PlainTypes DEF PlainType
  <1>2. r \in PlainType
    BY <1>1, CommonType
  <1>3. /\ ElementType(s) = s /\ ElementType(t) = t /\ s.bound \in Nat /\ t.bound \in Nat
    BY ElementOfPlain DEF PlainType, Type
  <1>4. CASE ImplicitlyCastable(s, t)
    <2>1. r = t
      BY <1>4 DEF ResultingType
    <2>2. Fits(v, s) => Fits(v, t)
      BY <1>3, <1>4, CastFits
    <2> QED
      BY <1>2, <2>1, <2>2
  <1>5. CASE ~ImplicitlyCastable(s, t) /\ ImplicitlyCastable(t, s)
    <2>1. r = s
      BY <1>5 DEF ResultingType
    <2>2. Fits(v, t) => Fits(v, s)
      BY <1>3, <1>5, CastFits
    <2> QED
      BY <1>2, <2>1, <2>2
  <1>6. CASE ~ImplicitlyCastable(s, t) /\ ~ImplicitlyCastable(t, s)
    <2>1. r = AnyBytes
      BY <1>6 DEF ResultingType
    <2>2. Fits(v, AnyBytes)
      BY FitsUnbounded DEF AnyBytes, BytesType
    <2> QED
      BY <1>2, <2>1, <2>2
  <1> QED
    BY <1>4, <1>5, <1>6

LEMMA ArrayEntry ==
  ASSUME NEW t \in PlainType, NEW values \in Seq(Value), Len(values) > 0,
         NEW reasons \in SUBSET Reasons,
         \A i \in DOMAIN values : (t.bound > 0 /\ reasons # {}) \/ Fits(values[i], t)
  PROVE  Entry(ArrayType(t), values, NoLiteral, reasons) \in SoundExpression
  <1> DEFINE e == Entry(ArrayType(t), values, NoLiteral, reasons)
  <1>1. /\ ArrayType(t) \in Type /\ ArrayType(t).form = "array" /\ ArrayType(t).bound = t.bound
        /\ ElementType(ArrayType(t)) = t /\ t.bound \in Nat
    BY DEF ArrayType, ElementType, PlainType, Type
  <1>2. /\ e.type = ArrayType(t) /\ e.values = values
        /\ e.trusted = IF t.bound > 0 THEN reasons ELSE {}
    BY <1>1 DEF Entry
  <1>3. e \in Expression
    BY <1>1 DEF Entry, Expression
  <1> HIDE DEF e
  <1>4. Sound(e)
    BY <1>1, <1>2 DEF Sound
  <1> QED
    BY <1>3, <1>4 DEF e, SoundExpression

(* An array of one or two items: every item fits the type of the elements. *)
LEMMA ArrayLiteralSound == ASSUME IInv, NEW n \in 1 .. 2, ArrayLiteral(n) PROVE IInv'
  <1> DEFINE types == ActualTypes(n)
             t == ArrayElementType(types)
             values == Operands(n)
  <1>1. /\ n \in Nat /\ Has(n) /\ t # Undefined /\ UNCHANGED misfits
        /\ NewNode(n, <<Entry(ArrayType(t), values, NoLiteral, Trust(n))>>)
    BY DEF ArrayLiteral, Operands
  <1>2. \A k \in 1 .. n : Last(k).type.form = "plain"
    BY DEF ArrayLiteral, PlainOperands
  <1>3. \A k \in 1 .. n : Last(k) \in Expression
    BY <1>1, Operand, SoundIsExpression
  <1>4. Trust(n) \in SUBSET Reasons
    <2>1. \A k \in 1 .. n : Last(k).trusted \subseteq Reasons
      BY <1>3, ExpressionFields
    <2> QED
      BY <2>1 DEF Trust
  <1>5. ASSUME NEW k \in 1 .. n
        PROVE  /\ types[k] = Top(n)[k].type /\ types[k] \in PlainType
               /\ values[k] = Top(n)[k].values[1] /\ values[k] \in Value
               /\ Trust(n) = {} \/ types[k].bound = 0 => Fits(values[k], types[k])
    <2>1. n - k + 1 \in 1 .. n /\ Top(n)[k] = Last(n - k + 1)
      BY <1>1, Operand
    <2>2. types[k] = Top(n)[k].type /\ values[k] = Top(n)[k].values[1]
      BY DEF ActualTypes, Operands
    <2>3. Top(n)[k].type \in PlainType
      BY <1>2, <1>3, <2>1, ExpressionFields
    <2>4. ElementType(Top(n)[k].type) = Top(n)[k].type
      BY <2>3, ElementOfPlain
    <2> QED
      BY <1>1, <2>2, <2>3, <2>4, OperandValue
  <1>6. values \in Seq(Value) /\ Len(values) = n /\ DOMAIN values = 1 .. n /\ Len(types) = n
    BY <1>1, <1>5 DEF Operands, ActualTypes
  <1> HIDE DEF types, values
  <1>7. t \in PlainType /\ \A k \in 1 .. n : (t.bound > 0 /\ Trust(n) # {}) \/ Fits(values[k], t)
    <2>1. CASE n = 1
      <3>1. t = types[1]
        BY <1>6, <2>1, ElementOfOne
      <3>2. 1 \in 1 .. n /\ \A k \in 1 .. n : k = 1
        BY <2>1
      <3>3. t.bound \in Nat
        BY <1>5, <3>1, <3>2 DEF PlainType, Type
      <3> QED
        BY <1>5, <3>1, <3>2, <3>3
    <2>2. CASE n = 2
      <3>1. t = ResultingType(types[1], types[2])
        BY <1>6, <2>2, ElementOfTwo
      <3>2. 1 \in 1 .. n /\ 2 \in 1 .. n /\ \A k \in 1 .. n : k = 1 \/ k = 2
        BY <2>2
      <3>3. types[1] \in PlainType /\ types[2] \in PlainType
        BY <1>5, <3>2
      <3>4. t \in PlainType
        BY <1>1, <3>1, <3>3, CommonTypeFits
      <3>5. t.bound \in Nat
        BY <3>4 DEF PlainType, Type
      <3>6. ASSUME NEW k \in 1 .. n, Trust(n) = {} PROVE Fits(values[k], t)
        <4>1. Fits(values[k], types[k])
          BY <1>5, <3>6
        <4> QED
          BY <1>1, <3>1, <3>2, <3>3, <4>1, CommonTypeFits
      <3>7. ASSUME NEW k \in 1 .. n, t.bound = 0 PROVE Fits(values[k], t)
        <4>1. CASE t.base \in {"int", "bool"}
          <5>1. t \in {IntType, BoolType}
            BY <3>4, <4>1 DEF PlainType, Type, IntType, BoolType, Plain
          <5>2. types[1] = t /\ types[2] = t
            <6>1. types[1] \in Type /\ types[2] \in Type
              BY <3>3 DEF PlainType
            <6> HIDE DEF t
            <6> QED
              BY <1>1, <3>1, <5>1, <6>1, CommonType
          <5> QED
            BY <1>5, <3>2, <3>7, <5>2
        <4>2. CASE t.base \notin {"int", "bool"}
          BY <3>7, <4>2, FitsUnbounded
        <4> QED
          BY <4>1, <4>2
      <3> QED
        BY <3>4, <3>5, <3>6, <3>7
    <2> QED
      BY <2>1, <2>2
  <1> HIDE DEF t
  <1>8. Entry(ArrayType(t), values, NoLiteral, Trust(n)) \in SoundExpression
    BY <1>4, <1>6, <1>7, ArrayEntry
  <1>9. <<Entry(ArrayType(t), values, NoLiteral, Trust(n))>> \in Seq(SoundExpression)
    BY <1>8
  <1> QED
    BY <1>1, <1>9, PushIsSound

-----------------------------------------------------------------------------
(* Calls of functions and classes.                                         *)

LEMMA TrustIsReasons == ASSUME IInv, NEW n \in Nat, Has(n) PROVE Trust(n) \in SUBSET Reasons
  <1>1. \A k \in 1 .. n : Last(k).trusted \subseteq Reasons
    BY Operand, SoundIsExpression, ExpressionFields
  <1> QED
    BY <1>1 DEF Trust

LEMMA SignatureIs ==
  ASSUME NEW fn \in GlobalFunctions \ OfArrays
  PROVE  /\ fn \in {"abs", "min", "max", "within"} =>
              /\ \A k \in 1 .. Len(Parameters(fn)) : Parameters(fn)[k] = IntType
              /\ Returns(fn) = IF fn = "within" THEN BoolType ELSE IntType
              /\ CompileGlobalFunction(fn) = IF fn = "within" THEN "compare" ELSE "arithmetic"
         /\ fn \in {"checkSig", "checkDataSig"} =>
              Returns(fn) = BoolType /\ CompileGlobalFunction(fn) = "CHECKSIG"
         /\ fn \in Hashes20 => Returns(fn) = BytesType(20) /\ CompileGlobalFunction(fn) = "hash20"
         /\ fn \in Hashes32 => Returns(fn) = BytesType(32) /\ CompileGlobalFunction(fn) = "hash32"
         /\ fn \in RefSums => /\ Parameters(fn) = <<BytesType(36)>> /\ Returns(fn) = IntType
                              /\ CompileGlobalFunction(fn) = "readReference"
         /\ fn \in ScriptSums => /\ Parameters(fn) = <<BytesType(32)>> /\ Returns(fn) = IntType
                                 /\ CompileGlobalFunction(fn) = "readCodeHash"
         /\ fn = "LockingBytecodeP2PKH" =>
              /\ Parameters(fn) = <<BytesType(20)>> /\ Returns(fn) = BytesType(25)
              /\ CompileGlobalFunction(fn) = "payToHash"
         /\ Len(Parameters(fn)) \in 1 .. 3
  <1>1. fn \in {"abs", "min", "max", "within", "checkSig", "checkDataSig", "LockingBytecodeP2PKH"}
                 \cup Hashes20 \cup Hashes32 \cup RefSums \cup ScriptSums
    BY DEF GlobalFunctions, OfArrays, Classes
  <1>2. CASE fn \in {"abs", "min", "max", "within"}
    BY <1>2 DEF Parameters, Returns, CompileGlobalFunction, Hashes20, Hashes32, RefSums, ScriptSums
  <1>3. CASE fn \in {"checkSig", "checkDataSig", "LockingBytecodeP2PKH"}
    BY <1>3 DEF Parameters, Returns, CompileGlobalFunction, Hashes20, Hashes32, RefSums, ScriptSums
  <1>4. CASE fn \in Hashes20 \cup Hashes32
    BY <1>4 DEF Parameters, Returns, CompileGlobalFunction, Hashes20, Hashes32, RefSums, ScriptSums
  <1>5. CASE fn \in RefSums \cup ScriptSums
    BY <1>5 DEF Parameters, Returns, CompileGlobalFunction, Hashes20, Hashes32, RefSums, ScriptSums
  <1> QED
    BY <1>1, <1>2, <1>3, <1>4, <1>5

(* An operand for a bytesN has N bytes.                                    *)
LEMMA WidthOperand ==
  ASSUME IInv, Has(1), Trust(1) = {}, NEW n \in Nat \ {0},
         ImplicitlyCastableSignature(ActualTypes(1), <<BytesType(n)>>)
  PROVE  Operands(1)[1].size = n
  <1>1. ActualTypes(1)[1] = Last(1).type /\ Operands(1)[1] = Last(1).values[1]
    BY Operand DEF ActualTypes, Operands
  <1>2. Last(1).type = BytesType(n)
    <2>1. <<BytesType(n)>>[1] = BytesType(n) /\ 1 \in 1 .. Len(<<BytesType(n)>>)
      OBVIOUS
    <2>2. ImplicitlyCastable(ActualTypes(1)[1], BytesType(n))
      BY <2>1 DEF ImplicitlyCastableSignature
    <2> QED
      BY <1>1, <2>2, CastToWidth
  <1>3. BytesType(n) \in PlainType /\ BytesType(n).bound = n /\ BytesType(n).base = "bytes"
    BY PlainTypes
  <1>4. ElementType(BytesType(n)) = BytesType(n)
    BY <1>3, ElementOfPlain
  <1>5. Fits(Last(1).values[1], BytesType(n))
    BY <1>2, <1>4, OneOperand
  <1> QED
    BY <1>1, <1>3, <1>5 DEF Fits

LEMMA FunctionCallSound ==
  ASSUME IInv, NEW fn \in GlobalFunctions \ OfArrays, FunctionCall(fn) PROVE IInv'
  <1> DEFINE n == Len(Parameters(fn))
             a == Operands(n)
             opcode == CompileGlobalFunction(fn)
             type == Returns(fn)
             outcomes == Outcomes(opcode, a, NoLiteral)
  <1>1. /\ Has(n) /\ ImplicitlyCastableSignature(ActualTypes(n), Parameters(fn))
        /\ Operation(n, opcode, type, NoLiteral, Trust(n))
    BY DEF FunctionCall
  <1>2. n \in Nat \ {0} /\ n \in 1 .. 3
    BY SignatureIs
  <1>3. Trust(n) \in SUBSET Reasons
    BY <1>1, <1>2, TrustIsReasons
  <1>4. \A k \in 1 .. n : a[k] = Top(n)[k].values[1] /\ a[k] \in Value
    BY <1>1, <1>2, OperandValue DEF Operands
  <1>5. DOMAIN a = 1 .. n
    BY DEF Operands
  <1>6. \A k \in 1 .. n : Parameters(fn)[k] = IntType => a[k].number
    <2> SUFFICES ASSUME NEW k \in 1 .. n, Parameters(fn)[k] = IntType PROVE a[k].number
      OBVIOUS
    <2>1. ImplicitlyCastable(Top(n)[k].type, IntType)
      BY <1>1 DEF ImplicitlyCastableSignature, ActualTypes
    <2>2. Top(n)[k].type = IntType
      BY <2>1, CastToNumber
    <2> QED
      BY <1>1, <1>2, <1>4, <2>2, NumberOperand
  <1>7. ASSUME opcode \in Opcodes, opcode # "EQUAL", Trust(n) = {} => Takes(opcode, a),
               \A result \in outcomes : Entry(type, result, NoLiteral, Trust(n)) \in SoundExpression
        PROVE  IInv'
    <2>1. Trust(n) = {} => Fitting(n, opcode, a)
      BY <1>7 DEF Fitting
    <2> HIDE DEF opcode, type, n
    <2> QED
      BY <1>1, <1>2, <1>7, <2>1, OperationIsSound
  <1>8. /\ fn \in {"abs", "min", "max", "within"} =>
              /\ \A k \in 1 .. n : Parameters(fn)[k] = IntType
              /\ type = IF fn = "within" THEN BoolType ELSE IntType
              /\ opcode = IF fn = "within" THEN "compare" ELSE "arithmetic"
        /\ fn \in {"checkSig", "checkDataSig"} => type = BoolType /\ opcode = "CHECKSIG"
        /\ fn \in Hashes20 => type = BytesType(20) /\ opcode = "hash20"
        /\ fn \in Hashes32 => type = BytesType(32) /\ opcode = "hash32"
        /\ fn \in RefSums => /\ Parameters(fn) = <<BytesType(36)>> /\ type = IntType
                             /\ opcode = "readReference"
        /\ fn \in ScriptSums => /\ Parameters(fn) = <<BytesType(32)>> /\ type = IntType
                                /\ opcode = "readCodeHash"
        /\ fn = "LockingBytecodeP2PKH" =>
              Parameters(fn) = <<BytesType(20)>> /\ type = BytesType(25) /\ opcode = "payToHash"
    BY SignatureIs
  <1>9. ASSUME NEW m \in Nat \ {0}, Parameters(fn) = <<BytesType(m)>>
        PROVE  n = 1 /\ (Trust(n) = {} => a[1].size = m)
    <2>1. n = 1
      BY <1>9
    <2> QED
      BY <1>1, <1>9, <2>1, WidthOperand
  <1> HIDE DEF n, a, opcode, type, outcomes
  <1>10. ASSUME NEW m \in Nat, type = BytesType(m), opcode \in {"hash20", "hash32"},
                \A result \in outcomes : \E x \in OfSize(m) : result = <<x>>
         PROVE  IInv'
    <2>1. opcode \in Opcodes /\ opcode # "EQUAL" /\ Takes(opcode, a)
      BY <1>10 DEF Opcodes, Takes, Reads
    <2>2. \A result \in outcomes : Entry(type, result, NoLiteral, Trust(n)) \in SoundExpression
      BY <1>3, <1>10, SizedFit, WidthEntry
    <2> QED
      BY <1>7, <2>1, <2>2
  <1>11. CASE fn \in {"abs", "min", "max", "within"}
    <2>1. \A k \in DOMAIN a : a[k].number
      BY <1>5, <1>6, <1>8, <1>11
    <2>2. opcode \in {"arithmetic", "compare"} /\ type \in {IntType, BoolType}
      BY <1>8, <1>11
    <2>3. opcode \in Opcodes /\ opcode # "EQUAL" /\ Takes(opcode, a)
      BY <2>1, <2>2 DEF Opcodes, Takes
    <2>4. \A result \in outcomes : \E x \in Numbers \cup Truths : result = <<x>>
      BY <2>2 DEF Outcomes, outcomes
    <2>5. \A result \in outcomes : Entry(type, result, NoLiteral, Trust(n)) \in SoundExpression
      BY <1>3, <2>2, <2>4, NumberEntry
    <2> QED
      BY <1>7, <2>3, <2>5
  <1>12. CASE fn \in {"checkSig", "checkDataSig"}
    <2>1. opcode = "CHECKSIG" /\ type = BoolType
      BY <1>8, <1>12
    <2>2. opcode \in Opcodes /\ opcode # "EQUAL" /\ Takes(opcode, a)
      BY <2>1 DEF Opcodes, Takes, Reads
    <2>3. \A result \in outcomes : \E x \in Truths : result = <<x>>
      BY <2>1 DEF Outcomes, outcomes
    <2>4. \A result \in outcomes : Entry(type, result, NoLiteral, Trust(n)) \in SoundExpression
      BY <1>3, <2>1, <2>3, NumberEntry
    <2> QED
      BY <1>7, <2>2, <2>4
  <1>13. CASE fn \in Hashes20
    <2>1. opcode = "hash20" /\ type = BytesType(20)
      BY <1>8, <1>13
    <2>2. \A result \in outcomes : \E x \in OfSize(20) : result = <<x>>
      BY <2>1 DEF Outcomes, outcomes
    <2> QED
      BY <1>10, <2>1, <2>2
  <1>14. CASE fn \in Hashes32
    <2>1. opcode = "hash32" /\ type = BytesType(32)
      BY <1>8, <1>14
    <2>2. \A result \in outcomes : \E x \in OfSize(32) : result = <<x>>
      BY <2>1 DEF Outcomes, outcomes
    <2> QED
      BY <1>10, <2>1, <2>2
  <1>15. CASE fn \in RefSums \cup ScriptSums
    <2>1. opcode \in {"readReference", "readCodeHash"} /\ type = IntType
      BY <1>8, <1>15
    <2>2. Trust(n) = {} => Takes(opcode, a)
      <3>1. CASE fn \in RefSums
        BY <1>8, <1>9, <3>1 DEF Takes, Reads
      <3>2. CASE fn \in ScriptSums
        BY <1>8, <1>9, <3>2 DEF Takes, Reads
      <3> QED
        BY <1>15, <3>1, <3>2
    <2>3. opcode \in Opcodes /\ opcode # "EQUAL"
      BY <2>1 DEF Opcodes
    <2>4. \A result \in outcomes : \E x \in Numbers : result = <<x>>
      BY <2>1 DEF Outcomes, outcomes
    <2>5. \A result \in outcomes : Entry(type, result, NoLiteral, Trust(n)) \in SoundExpression
      BY <1>3, <2>1, <2>4, NumberEntry
    <2> QED
      BY <1>7, <2>2, <2>3, <2>5
  <1>16. CASE fn = "LockingBytecodeP2PKH"
    <2>1. opcode = "payToHash" /\ type = BytesType(25) /\ Parameters(fn) = <<BytesType(20)>>
      BY <1>8, <1>16
    <2>2. Trust(n) = {} => a[1].size = 20
      BY <1>9, <2>1
    <2>3. opcode \in Opcodes /\ opcode # "EQUAL" /\ (Trust(n) = {} => Takes(opcode, a))
      BY <2>1, <2>2 DEF Opcodes, Takes, Reads
    <2>4. \A result \in outcomes : \E x \in OfSize(a[1].size + 5) : result = <<x>>
      BY <2>1 DEF Outcomes, outcomes, Reads
    <2>5. a[1] \in Value /\ a[1].size + 5 \in Nat
      BY <1>2, <1>4 DEF Value
    <2>6. ASSUME NEW x \in OfSize(a[1].size + 5)
          PROVE  Entry(type, <<x>>, NoLiteral, Trust(n)) \in SoundExpression
      <3>1. x \in Value /\ x.size = a[1].size + 5
        BY <2>5, SizedFit
      <3>2. x.size = 25 \/ Trust(n) # {}
        BY <2>2, <3>1
      <3> QED
        BY <1>3, <2>1, <3>1, <3>2, WidthEntry
    <2>7. \A result \in outcomes : Entry(type, result, NoLiteral, Trust(n)) \in SoundExpression
      BY <2>4, <2>6
    <2> QED
      BY <1>7, <2>3, <2>7
  <1> QED
    BY <1>11, <1>12, <1>13, <1>14, <1>15, <1>16 DEF GlobalFunctions, OfArrays, Classes

LEMMA MultiSigSound ==
  ASSUME IInv, NEW n \in 1 .. 2, NEW m \in 1 .. 2, MultiSig(n, m) PROVE IInv'
  <1>1. PICK v \in Truths : NewNode(n + m, <<Entry(BoolType, <<v>>, NoLiteral, {})>>)
    BY DEF MultiSig
  <1>2. Entry(BoolType, <<v>>, NoLiteral, {}) \in SoundExpression
    BY NumberEntry
  <1>3. <<Entry(BoolType, <<v>>, NoLiteral, {})>> \in Seq(SoundExpression)
    BY <1>2
  <1>4. n + m \in Nat /\ UNCHANGED misfits
    BY DEF MultiSig
  <1> QED
    BY <1>1, <1>3, <1>4, PushIsSound

(* A chunk of 1 to 127 bytes gets the prefix a script parser reads.        *)
LEMMA PrefixesAgree ==
  ASSUME NEW n \in 1 .. 127
  PROVE  ChunkPrefix(n) = PushPrefix(n)
  BY DEF ChunkPrefix, PushPrefix, LengthSize

LEMMA NullDataSizeIsNat ==
  ASSUME NEW chunks \in Seq(Value)
  PROVE  NullDataSize(chunks) \in Nat
  <1> DEFINE sizes == [k \in 1 .. Len(chunks) |-> ChunkPrefix(chunks[k].size) + chunks[k].size]
  <1>1. \A k \in 1 .. Len(chunks) : chunks[k] \in Value
    BY ElementOfSeq
  <1>2. \A k \in 1 .. Len(chunks) : chunks[k].size \in Nat
    BY <1>1 DEF Value
  <1>3. \A n \in Nat : ChunkPrefix(n) \in Nat
    BY DEF ChunkPrefix, LengthSize
  <1>4. sizes \in Seq(Nat)
    <2>1. ASSUME NEW k \in 1 .. Len(chunks)
          PROVE  ChunkPrefix(chunks[k].size) + chunks[k].size \in Nat
      <3>1. chunks[k].size \in Nat /\ ChunkPrefix(chunks[k].size) \in Nat
        BY <1>2, <1>3
      <3> QED
        BY <3>1
    <2>2. Len(chunks) \in Nat
      BY LenProperties
    <2> QED
      BY <2>1, <2>2
  <1> HIDE DEF sizes
  <1>5. SumOf(sizes) \in Nat
    BY <1>4, SumIsNat
  <1> QED
    BY <1>5 DEF NullDataSize, sizes

LEMMA NullDataSound == IInv /\ NullData => IInv'
  <1> SUFFICES ASSUME IInv, NullData PROVE IInv'
    OBVIOUS
  <1> DEFINE chunks == Last(1).values
             m == Misfit(1, "nullData", chunks)
  <1>1. Has(1) /\ Judge(1, "nullData", chunks)
    BY DEF NullData
  <1>2. PICK v \in OfSize(NullDataSize(chunks)) :
          NewNode(1, <<Entry(AnyBytes, <<v>>, NoLiteral, {})>>)
    BY DEF NullData
  <1>3. chunks \in Seq(Value)
    BY <1>1, OneOperand, SoundIsExpression, ExpressionFields
  <1>4. \A k \in DOMAIN chunks : chunks[k] \in Value /\ chunks[k].size \in Nat
    BY <1>3 DEF Value
  <1> HIDE DEF chunks
  <1>5. Fitting(1, "nullData", chunks) \/ LeftUnchecked(m)
    <2>1. CASE \E k \in DOMAIN chunks : chunks[k].size = 0 \/ chunks[k].size > 127
      <3>1. m.opcode = "nullData" /\ \E n \in m.sizes : n = 0 \/ n > 127
        BY <2>1 DEF Misfit
      <3> HIDE DEF m
      <3> QED
        BY <3>1 DEF LeftUnchecked
    <2>2. CASE \A k \in DOMAIN chunks : ~(chunks[k].size = 0 \/ chunks[k].size > 127)
      <3>1. \A k \in DOMAIN chunks : chunks[k].size \in 1 .. 127
        BY <1>4, <2>2
      <3>2. \A k \in DOMAIN chunks : ChunkPrefix(chunks[k].size) = PushPrefix(chunks[k].size)
        BY <3>1, PrefixesAgree
      <3> QED
        BY <3>2 DEF Fitting, Takes, Reads
    <2> QED
      BY <2>1, <2>2
  <1>6. /\ misfits' \subseteq [opcode : Opcodes, types : Seq(Type), sizes : SUBSET Nat]
        /\ OpcodesFitOperands'
    <2>1. "nullData" \in Opcodes
      BY DEF Opcodes
    <2> QED
      BY <1>1, <1>4, <1>5, <2>1, JudgedRight
  <1>7. <<Entry(AnyBytes, <<v>>, NoLiteral, {})>> \in Seq(SoundExpression)
    <2>1. v \in Value
      BY <1>3, NullDataSizeIsNat, SizedFit
    <2>2. AnyBytes \in PlainType /\ AnyBytes.base = "bytes" /\ AnyBytes.bound = 0
      BY PlainTypes DEF AnyBytes
    <2>3. Entry(AnyBytes, <<v>>, NoLiteral, {}) \in SoundExpression
      BY <2>1, <2>2, UnboundedEntry
    <2> QED
      BY <2>3
  <1> QED
    BY <1>2, <1>6, <1>7, NodeIsSound DEF IInv, TypeOK

LEMMA StatementSound ==
  ASSUME IInv, NEW expected \in {IntType, BoolType},
         NEW opcode \in {"VERIFY", "CHECKLOCKTIMEVERIFY"}, Statement(expected, opcode)
  PROVE  IInv'
  <1>1. /\ Has(1) /\ ImplicitlyCastable(Last(1).type, expected)
        /\ Judge(1, opcode, Last(1).values) /\ NewNode(1, <<>>)
    BY DEF Statement
  <1>2. PICK e \in SoundExpression : e = Last(1)
    BY <1>1, OneOperand
  <1>3. e \in Expression /\ Sound(e)
    BY SoundIsExpression
  <1>4. e.type = expected
    BY <1>1, <1>2, CastToNumber
  <1>5. e.type.bound = 0 /\ e.type \in PlainType /\ e.type.base \in {"int", "bool"}
    BY <1>4, PlainTypes
  <1>6. e.trusted = {} /\ ElementType(e.type) = e.type
    BY <1>3, <1>5, ElementOfPlain DEF Sound
  <1>7. \A k \in DOMAIN e.values : e.values[k] \in Value /\ e.values[k].number
    <2>1. e.values \in Seq(Value)
      BY <1>3, ExpressionFields
    <2>2. \A k \in DOMAIN e.values : Fits(e.values[k], e.type)
      BY <1>3, <1>6 DEF Sound
    <2> QED
      BY <1>5, <2>1, <2>2 DEF Fits
  <1>8. opcode \in Opcodes /\ Fitting(1, opcode, e.values)
    BY <1>7 DEF Fitting, Takes, Opcodes, Reads
  <1>9. /\ misfits' \subseteq [opcode : Opcodes, types : Seq(Type), sizes : SUBSET Nat]
        /\ OpcodesFitOperands'
    BY <1>1, <1>2, <1>7, <1>8, JudgedRight
  <1>10. <<>> \in Seq(SoundExpression)
    OBVIOUS
  <1> QED
    BY <1>1, <1>9, <1>10, NodeIsSound DEF IInv, TypeOK

-----------------------------------------------------------------------------

LEMMA InitIInv == Init => IInv
  BY BoundsAssumption DEF Init, IInv, TypeOK, OpcodesFitOperands

LEMMA NextIInv == IInv /\ [Next]_vars => IInv'
  <1> SUFFICES ASSUME IInv, [Next]_vars PROVE IInv'
    OBVIOUS
  <1>1. CASE IntLiteral \/ Parameter \/ HexLiteral \/ NullaryOp \/ PushRef
    BY <1>1, IntLiteralSound, ParameterSound, HexLiteralSound, NullaryOpSound, PushRefSound
  <1>2. CASE \E op \in UnaryOperators : UnaryOp(op)
    BY <1>2, UnaryOpSound
  <1>3. CASE \E op \in BinaryOperators : BinaryOp(op)
    BY <1>3, BinaryOpSound
  <1>4. CASE \E index \in {1, 2} : TupleIndexOp(index)
    BY <1>4, TupleIndexSound
  <1>5. CASE \E to \in DeclaredTypes : Cast(to)
    BY <1>5, CastSound
  <1>6. CASE SizedCast
    BY <1>6, SizedCastSound
  <1>7. CASE \E declared \in DeclaredTypes : Assign(declared)
    BY <1>7, AssignSound
  <1>8. CASE \E first, second \in DeclaredTypes : TupleAssignment(first, second)
    BY <1>8, TupleAssignmentSound
  <1>9. CASE \E n \in 1 .. 2 : ArrayLiteral(n)
    BY <1>9, ArrayLiteralSound
  <1>10. CASE \E fn \in GlobalFunctions \ OfArrays : FunctionCall(fn)
    BY <1>10, FunctionCallSound
  <1>11. CASE \E n, m \in 1 .. 2 : MultiSig(n, m)
    BY <1>11, MultiSigSound
  <1>12. CASE NullData
    BY <1>12, NullDataSound
  <1>13. CASE Statement(BoolType, "VERIFY") \/ Statement(IntType, "CHECKLOCKTIMEVERIFY")
    BY <1>13, StatementSound
  <1>14. CASE UNCHANGED vars
    BY <1>14 DEF IInv, TypeOK, OpcodesFitOperands, vars
  <1> QED
    BY <1>1, <1>2, <1>3, <1>4, <1>5, <1>6, <1>7, <1>8, <1>9, <1>10, <1>11, <1>12, <1>13, <1>14
       DEF Next

LEMMA Inductive == Spec => []IInv
  BY InitIInv, NextIInv, PTL DEF Spec

(* Every expression of every program keeps its shape, and every recorded   *)
(* misfit is of an opcode the compiler emits.                              *)
THEOREM TypeCorrect == Spec => []TypeOK
  <1>1. IInv => TypeOK
    BY DEF IInv
  <1> QED
    BY <1>1, Inductive, PTL

(* What the check says of an expression is what its script computes, for   *)
(* programs of any length over any declared widths, arguments and sizes:   *)
(* an int or a bool is a number and a bytesN has N bytes, unless the       *)
(* program itself claimed the width.                                       *)
THEOREM TypesAreSoundAlways == Spec => []TypesAreSound
  <1>1. IInv => TypesAreSound
    <2> SUFFICES ASSUME IInv, NEW k \in DOMAIN stack, stack[k].trusted = {},
                        NEW i \in DOMAIN stack[k].values
                 PROVE  Fits(stack[k].values[i], ElementType(stack[k].type))
      BY DEF TypesAreSound
    <2>1. stack[k] \in SoundExpression
      BY ElementOfSeq DEF IInv
    <2> QED
      BY <2>1, SoundIsExpression DEF Sound
  <1> QED
    BY <1>1, Inductive, PTL

(* No opcode the compiler chose from the types meets operands it cannot    *)
(* take, in any program the check accepts, but where the check leaves an   *)
(* operand to the script.                                                  *)
THEOREM OpcodesFitOperandsAlways == Spec => []OpcodesFitOperands
  <1>1. IInv => OpcodesFitOperands
    BY DEF IInv
  <1> QED
    BY <1>1, Inductive, PTL
=============================================================================
