---------------------------- MODULE AstBuilder ----------------------------
(* ast/AstBuilder.ts: the visitor that makes the abstract syntax tree out of *)
(* the parse tree, a definition for each of its methods.  Version pragmas    *)
(* are taken to be satisfied and string literals keep their quotes; a        *)
(* literal is a token whose text stands for its value in the tables below.   *)
EXTENDS ParseTree, AST, Integers

CONSTANTS Numerals,      \* the texts of number literals, with their values
          HexValues,     \* the texts of hex literals, with their bytes
          Dates          \* the texts of date literals, with their timestamps

NumberUnit ==
  [photons |-> 1, sats |-> 1, rxd |-> 100, minutes |-> 60]

(* A literal that makes the builder throw. *)
BadLiteral == [node |-> "BadLiteral"]

\* parseType: byte is bytes1.
ParseType(ctx) == LET text == ctx.parts[1].text IN IF text = "byte" THEN "bytes1" ELSE text
Types(ctx) == LET names == Contexts(ctx, "typeName")
              IN [k \in DOMAIN names |-> ParseType(names[k])]
Names(ctx) == LET ids == Tokens(ctx, "Identifier") IN [k \in DOMAIN ids |-> ids[k].text]
ModifierOf(ctx) == IF Contexts(ctx, "modifier") = <<>> THEN "" ELSE "constant"

RECURSIVE Visit(_)
VisitAll(ctxs) == [k \in DOMAIN ctxs |-> Visit(ctxs[k])]
Expression1(ctx) == Visit(Expressions(ctx)[1])
Statements(ctx) == VisitAll(Contexts(ctx, "statement"))

VisitSourceFile(ctx) == SourceFileNode(Visit(Contexts(ctx, "contractDefinition")[1]))
VisitContractDefinition(ctx) ==
  LET lists == Contexts(ctx, "parameterList")
      Parameters(n) == IF n <= Len(lists) THEN VisitAll(Contexts(lists[n], "parameter")) ELSE <<>>
      inline == [k \in DOMAIN Parameters(1) |-> [Parameters(1)[k] EXCEPT !.modifier = "inline"]]
      state == Contexts(ctx, "stateScript")
      returned == Contexts(ctx, "functions")
  IN ContractNode(Names(ctx)[1], inline,
                  IF returned = <<>> THEN <<>>
                  ELSE VisitAll(Contexts(returned[1], "functionDefinition")),
                  Parameters(2),
                  IF state = <<>> THEN None ELSE Visit(state[1]),
                  Statements(ctx))
VisitFunctionDefinition(ctx) ==
  FunctionDefinitionNode(Names(ctx)[1],
                         VisitAll(Contexts(Contexts(ctx, "parameterList")[1], "parameter")),
                         BlockNode(Statements(ctx)))
VisitParameter(ctx) == ParameterNode(Types(ctx)[1], Names(ctx)[1], ModifierOf(ctx))
VisitVariableDefinition(ctx) ==
  VariableDefinitionNode(Types(ctx)[1], ModifierOf(ctx), Names(ctx)[1], Expression1(ctx))
VisitTupleAssignment(ctx) ==
  LET Var(k) == [name |-> Names(ctx)[k], type |-> Types(ctx)[k]]
  IN TupleAssignmentNode(Var(1), Var(2), Expression1(ctx))
VisitAssignStatement(ctx) == AssignNode(IdentifierNode(<<Names(ctx)[1]>>), Expression1(ctx))
VisitTimeOpStatement(ctx) == TimeOpNode(Tokens(ctx, "TxVar")[1].text, Expression1(ctx))
VisitRequireStatement(ctx) == RequireNode(Expression1(ctx))
\* Mutant: the blocks of a branch in the other order.
MutVisitIfStatement(ctx) ==
  LET blocks == VisitAll(Contexts(ctx, "block"))
  IN BranchNode(Expression1(ctx), Last(blocks), IF Len(blocks) = 2 THEN blocks[1] ELSE None)
VisitIfStatement(ctx) ==
  LET blocks == VisitAll(Contexts(ctx, "block"))
  IN BranchNode(Expression1(ctx), blocks[1], IF Len(blocks) = 2 THEN blocks[2] ELSE None)
VisitBlock(ctx) == BlockNode(Statements(ctx))
VisitParenthesised(ctx) == Expression1(ctx)
VisitCast(ctx) ==
  LET given == VisitAll(Expressions(ctx))
  IN CastNode(Types(ctx)[1], given[1], IF Len(given) = 2 THEN given[2] ELSE None)
Arguments(ctx) == VisitAll(Expressions(Contexts(ctx, "expressionList")[1]))
VisitFunctionCall(ctx) == FunctionCallNode(IdentifierNode(<<Names(ctx)[1]>>), Arguments(ctx))
VisitInstantiation(ctx) == InstantiationNode(IdentifierNode(<<Names(ctx)[1]>>), Arguments(ctx))
VisitTupleIndexOp(ctx) ==
  TupleIndexOpNode(Expression1(ctx), Numerals[Tokens(ctx, "NumberLiteral")[1].text])
VisitNullaryOp(ctx) == NullaryOpNode(Op(ctx))
LastText(ctx) == ctx.parts[Len(ctx.parts)].text
VisitUnaryIntrospectionOp(ctx) ==
  UnaryOpNode(IF Op(ctx) = "tx.state" THEN <<"tx.state">> ELSE <<Op(ctx), LastText(ctx)>>,
              Expression1(ctx))
VisitIntrospectionFunctionCall(ctx) ==
  FunctionCallNode(IdentifierNode(<<Op(ctx), Names(ctx)[1]>>), Arguments(ctx))
VisitUnaryOp(ctx) == UnaryOpNode(<<Op(ctx)>>, Expression1(ctx))
VisitBinaryOp(ctx) ==
  LET operands == VisitAll(Expressions(ctx)) IN BinaryOpNode(operands[1], Op(ctx), operands[2])
VisitArray(ctx) == ArrayNode(VisitAll(Expressions(ctx)))
VisitIdentifier(ctx) == IdentifierNode(<<Names(ctx)[1]>>)

CreateIntLiteral(ctx) ==
  LET text == Tokens(ctx, "NumberLiteral")[1].text
      units == Tokens(ctx, "NumberUnit")
      known == \A k \in DOMAIN units : units[k].text \in DOMAIN NumberUnit
      value == Numerals[text] * (IF units = <<>> THEN 1 ELSE NumberUnit[units[1].text])
  IN IF text \in DOMAIN Numerals /\ known /\ value \in -MaxScriptNumber..MaxScriptNumber
     THEN IntLiteralNode(value) ELSE BadLiteral
CreateDateLiteral(text) ==
  IF text \in DOMAIN Dates THEN IntLiteralNode(Dates[text]) ELSE BadLiteral
HexLiteralOf(token) == HexLiteralNode(HexValues[token.text])
CreateLiteral(ctx) ==
  LET part == ctx.parts[1]
  IN CASE IsContext(part) -> CreateIntLiteral(part)
       [] ~IsContext(part) /\ part.type = "BooleanLiteral" -> BoolLiteralNode(part.text)
       [] ~IsContext(part) /\ part.type = "StringLiteral" -> StringLiteralNode(part.text)
       [] ~IsContext(part) /\ part.type = "DateLiteral" -> CreateDateLiteral(part.text)
       [] ~IsContext(part) /\ part.type = "HexLiteral" -> HexLiteralOf(part)
VisitLiteralExpression(ctx) == CreateLiteral(ctx.parts[1])

Referent(ctx) == IF Names(ctx) # <<>> THEN IdentifierNode(<<Names(ctx)[1]>>)
                 ELSE HexLiteralOf(Tokens(ctx, "HexLiteral")[1])
VisitPushDataStatement(ctx) == PushDataNode(Referent(ctx))
VisitPushRef(ctx) == PushRefNode(Op(ctx), Referent(ctx), FALSE)
VisitPushRefStatement(ctx) == [Visit(ctx.parts[1]) EXCEPT !.drop = TRUE]
VisitStateScript(ctx) == StateScriptNode(Statements(ctx))
VisitUnsetStatement(ctx) == UnsetNode(IdentifierNode(<<Names(ctx)[1]>>))

\* The accept methods of the contexts; a context without one is its only part.
Visit(ctx) ==
  CASE ctx.rule = "sourceFile" -> VisitSourceFile(ctx)
    [] ctx.rule = "contractDefinition" -> VisitContractDefinition(ctx)
    [] ctx.rule = "functionDefinition" -> VisitFunctionDefinition(ctx)
    [] ctx.rule = "parameter" -> VisitParameter(ctx)
    [] ctx.rule = "variableDefinition" -> VisitVariableDefinition(ctx)
    [] ctx.rule = "tupleAssignment" -> VisitTupleAssignment(ctx)
    [] ctx.rule = "assignStatement" -> VisitAssignStatement(ctx)
    [] ctx.rule = "timeOpStatement" -> VisitTimeOpStatement(ctx)
    [] ctx.rule = "requireStatement" -> VisitRequireStatement(ctx)
    [] ctx.rule = "ifStatement" -> VisitIfStatement(ctx)
    [] ctx.rule = "block" -> VisitBlock(ctx)
    [] ctx.rule = "Parenthesised" -> VisitParenthesised(ctx)
    [] ctx.rule = "Cast" -> VisitCast(ctx)
    [] ctx.rule = "functionCall" -> VisitFunctionCall(ctx)
    [] ctx.rule = "Instantiation" -> VisitInstantiation(ctx)
    [] ctx.rule = "TupleIndexOp" -> VisitTupleIndexOp(ctx)
    [] ctx.rule = "NullaryOp" -> VisitNullaryOp(ctx)
    [] ctx.rule = "UnaryIntrospectionOp" -> VisitUnaryIntrospectionOp(ctx)
    [] ctx.rule = "IntrospectionFunctionCall" -> VisitIntrospectionFunctionCall(ctx)
    [] ctx.rule = "UnaryOp" -> VisitUnaryOp(ctx)
    [] ctx.rule = "BinaryOp" -> VisitBinaryOp(ctx)
    [] ctx.rule = "Array" -> VisitArray(ctx)
    [] ctx.rule = "Identifier" -> VisitIdentifier(ctx)
    [] ctx.rule = "LiteralExpression" -> VisitLiteralExpression(ctx)
    [] ctx.rule = "pushDataStatement" -> VisitPushDataStatement(ctx)
    [] ctx.rule = "pushRefStatement" -> VisitPushRefStatement(ctx)
    [] ctx.rule = "pushRef" -> VisitPushRef(ctx)
    [] ctx.rule = "stateScript" -> VisitStateScript(ctx)
    [] ctx.rule = "unsetStatement" -> VisitUnsetStatement(ctx)
    [] OTHER -> Visit(ctx.parts[1])
=============================================================================
