------------------------- MODULE OutputSourceCode -------------------------
(* print/OutputSourceCodeTraversal.ts: the text of an abstract syntax tree,  *)
(* as the tokens written one after another and a Space where the text has    *)
(* white space that keeps two of them apart; indentation and line ends are   *)
(* left out.  Lexed is what the lexer reads of that text.                     *)
EXTENDS ParseTree, AST, Integers, TLC

Space == Sym(" ")

(* The token of a type and of a number. *)
TypeToken(type) ==
  IF type \in {"int", "bool", "string", "pubkey", "sig", "datasig"} THEN Sym(type)
  ELSE Token("Bytes", type)
Number(n) == Token("NumberLiteral", ToString(n))

(* The dotted name of a member of tx is read as its scope, a dot and an identifier. *)
NameTokens(name) ==
  IF Len(name) = 1 THEN <<Ident(name[1])>> ELSE <<Sym(name[1]), Sym("."), Ident(name[2])>>

RECURSIVE Output(_)
OutputAll(nodes) == FlattenSeq([k \in DOMAIN nodes |-> Output(nodes[k])])
VisitCommaList(nodes) ==
  FlattenSeq([k \in DOMAIN nodes |->
    Output(nodes[k]) \o (IF k = Len(nodes) THEN <<>> ELSE <<Sym(",")>>)])
Declared(variable) == <<TypeToken(variable.type), Ident(variable.name)>>

OutputContract(node) ==
  <<Sym("contract"), Ident(node.name), Sym("(")>> \o VisitCommaList(node.parameters)
  \o <<Sym(")")>>
  \o (IF node.functionParameters = <<>> THEN <<>>
      ELSE <<Sym("function"), Sym("(")>> \o VisitCommaList(node.functionParameters)
           \o <<Sym(")")>>)
  \o <<Sym("{")>>
  \o (IF node.stateScript = None THEN <<>> ELSE Output(node.stateScript))
  \o OutputAll(node.statements)
  \o (IF node.functions = <<>> THEN <<>>
      ELSE <<Sym("return"), Sym("{")>> \o OutputAll(node.functions) \o <<Sym("}")>>)
  \o <<Sym("}")>>
OutputFunctionDefinition(node) ==
  <<Ident(node.name), Sym("(")>> \o VisitCommaList(node.parameters) \o <<Sym(")")>>
  \o Output(node.body) \o <<Sym(",")>>
OutputVariableDefinition(node) ==
  Declared(node) \o <<Sym("=")>> \o Output(node.expression) \o <<Sym(";")>>
OutputTupleAssignment(node) ==
  Declared(node.var1) \o <<Sym(",")>> \o Declared(node.var2)
  \o <<Sym("=")>> \o Output(node.tuple) \o <<Sym(";")>>
OutputAssign(node) ==
  Output(node.identifier) \o <<Sym("=")>> \o Output(node.expression) \o <<Sym(";")>>
OutputTimeOp(node) ==
  <<Sym("require"), Sym("("), Token("TxVar", node.timeOp), Sym(">="), Space>>
  \o Output(node.expression) \o <<Sym(")"), Sym(";")>>
OutputRequire(node) ==
  <<Sym("require"), Sym("(")>> \o Output(node.expression) \o <<Sym(")"), Sym(";")>>
OutputBranch(node) ==
  <<Sym("if"), Sym("(")>> \o Output(node.condition) \o <<Sym(")")>>
  \o Output(node.ifBlock)
  \o (IF node.elseBlock = None THEN <<>> ELSE <<Sym("else")>> \o Output(node.elseBlock))
OutputBlock(node) == <<Sym("{")>> \o OutputAll(node.statements) \o <<Sym("}")>>

OutputCast(node) ==
  <<TypeToken(node.type), Sym("(")>> \o Output(node.expression) \o <<Sym(")")>>
OutputCall(node) ==
  Output(node.identifier) \o <<Sym("(")>> \o VisitCommaList(node.parameters)
  \o <<Sym(")")>>
OutputInstantiation(node) == <<Sym("new"), Space>> \o OutputCall(node)
OutputTupleIndexOp(node) ==
  Output(node.tuple) \o <<Sym("["), Number(node.index), Sym("]")>>
\* Mutant: no parentheses around an operator.
MutOutputBinaryOp(node) ==
  IF node.operator = ".split"
  THEN Output(node.left) \o <<Sym(".split"), Sym("(")>> \o Output(node.right) \o <<Sym(")")>>
  ELSE Output(node.left) \o <<Space, Sym(node.operator), Space>> \o Output(node.right)
OutputBinaryOp(node) ==
  IF node.operator = ".split"
  THEN Output(node.left) \o <<Sym(".split"), Sym("(")>>
       \o Output(node.right) \o <<Sym(")")>>
  ELSE <<Sym("(")>> \o Output(node.left) \o <<Space, Sym(node.operator), Space>>
       \o Output(node.right) \o <<Sym(")")>>
OutputUnaryOp(node) ==
  LET operand == Output(node.expression)
  IN CASE node.operator \in {<<".length">>, <<".reverse()">>} -> operand \o <<Sym(node.operator[1])>>
       [] Len(node.operator) = 2 ->
            <<Sym(node.operator[1]), Sym("[")>> \o operand
            \o <<Sym("]"), Sym("."), Ident(node.operator[2])>>
       [] OTHER -> <<Sym("("), Sym(node.operator[1])>> \o operand \o <<Sym(")")>>
OutputArray(node) == <<Sym("[")>> \o VisitCommaList(node.elements) \o <<Sym("]")>>
OutputPushData(node) ==
  <<Sym("pushData"), Sym("(")>> \o Output(node.data) \o <<Sym(")")>>
OutputPushRef(node) ==
  <<Sym(node.op), Sym("(")>> \o Output(node.ref)
  \o <<Sym(")")>> \o (IF node.drop THEN <<Sym(";")>> ELSE <<>>)
OutputStateScript(node) ==
  OutputAll(node.statements) \o <<Sym("stateSeparator"), Sym(";")>>

\* The accept methods of the nodes.  The traversal it extends writes nothing for
\* a source file but its contract, and nothing for an unset statement.
Output(node) ==
  CASE node.node = "SourceFile" -> Output(node.contract)
    [] node.node = "Contract" -> OutputContract(node)
    [] node.node = "FunctionDefinition" -> OutputFunctionDefinition(node)
    [] node.node = "Parameter" -> Declared(node)
    [] node.node = "VariableDefinition" -> OutputVariableDefinition(node)
    [] node.node = "TupleAssignment" -> OutputTupleAssignment(node)
    [] node.node = "Assign" -> OutputAssign(node)
    [] node.node = "TimeOp" -> OutputTimeOp(node)
    [] node.node = "Require" -> OutputRequire(node)
    [] node.node = "Branch" -> OutputBranch(node)
    [] node.node = "Block" -> OutputBlock(node)
    [] node.node = "Cast" -> OutputCast(node)
    [] node.node = "FunctionCall" -> OutputCall(node)
    [] node.node = "Instantiation" -> OutputInstantiation(node)
    [] node.node = "TupleIndexOp" -> OutputTupleIndexOp(node)
    [] node.node = "BinaryOp" -> OutputBinaryOp(node)
    [] node.node = "UnaryOp" -> OutputUnaryOp(node)
    [] node.node = "NullaryOp" -> <<Token("NullaryOp", node.operator)>>
    [] node.node = "Array" -> OutputArray(node)
    [] node.node = "Identifier" -> NameTokens(node.name)
    [] node.node = "BoolLiteral" -> <<Token("BooleanLiteral", node.bool)>>
    [] node.node = "IntLiteral" -> <<Number(node.int)>>
    [] node.node = "StringLiteral" -> <<Token("StringLiteral", node.string)>>
    [] node.node = "HexLiteral" -> <<Token("HexLiteral", "0x" \o node.hex)>>
    [] node.node = "PushData" -> OutputPushData(node)
    [] node.node = "PushRef" -> OutputPushRef(node)
    [] node.node = "StateScript" -> OutputStateScript(node)
    [] node.node = "Unset" -> <<>>

----------------------------------------------------------------------------
(* A minus sign with a numeral right after it is one token, a negative number. *)
Natural(token) == token.type = "NumberLiteral" /\ token.text \in {ToString(n) : n \in 0..MaxScriptNumber}
RECURSIVE Lexed(_)
Lexed(text) ==
  CASE text = <<>> -> <<>>
    [] text # <<>> /\ text[1] = Space -> Lexed(Tail(text))
    [] Len(text) > 1 /\ text[1] = Sym("-") /\ Natural(text[2]) ->
         <<Token("NumberLiteral", "-" \o text[2].text)>> \o Lexed(Tail(Tail(text)))
    [] OTHER -> <<text[1]>> \o Lexed(Tail(text))
=============================================================================
