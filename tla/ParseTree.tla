----------------------------- MODULE ParseTree -----------------------------
(* Tokens, and the contexts of the parse tree: the classes that close      *)
(* grammar/CashScriptParser.ts.  A context holds the rule or the labelled  *)
(* alternative it stands for and its parts, tokens and contexts, in the     *)
(* order of the text.  The constructors below say which parts a context has *)
(* when the grammar's rule is followed; the parser itself builds contexts   *)
(* from what it matches and uses none of them.                              *)
EXTENDS Naturals, SequencesExt

Token(type, text) == [type |-> type, text |-> text]
Sym(x) == Token(x, x)
Ident(x) == Token("Identifier", x)
Context(rule, parts) == [rule |-> rule, parts |-> parts]

IsContext(part) == "rule" \in DOMAIN part

(* The tokens a tree stands for. *)
RECURSIVE Yield(_)
Yield(part) ==
  IF IsContext(part) THEN FlattenSeq([k \in DOMAIN part.parts |-> Yield(part.parts[k])])
  ELSE <<part>>

RECURSIVE Separated(_)
Separated(parts) ==
  IF Len(parts) <= 1 THEN parts
  ELSE <<Head(parts), Sym(",")>> \o Separated(Tail(parts))
Commas(parts, trailing) ==
  Separated(parts) \o (IF trailing /\ parts # <<>> THEN <<Sym(",")>> ELSE <<>>)

----------------------------------------------------------------------------
TypeName(type, text) == Context("typeName", <<Token(type, text)>>)
Modifier == Context("modifier", <<Sym("constant")>>)
NumberLiteralContext(text, units) ==
  Context("numberLiteral", <<Token("NumberLiteral", text)>>
                           \o [k \in DOMAIN units |-> Token("NumberUnit", units[k])])
LiteralContext(part) == Context("literal", <<part>>)
LiteralExpressionContext(part) == Context("LiteralExpression", <<LiteralContext(part)>>)
IdentifierContext(name) == Context("Identifier", <<Ident(name)>>)
NullaryOpContext(op) == Context("NullaryOp", <<Token("NullaryOp", op)>>)
ArrayContext(elements, trailing) ==
  Context("Array", <<Sym("[")>> \o Commas(elements, trailing) \o <<Sym("]")>>)
BinaryOpContext(left, op, right) ==
  Context("BinaryOp", IF op = ".split" THEN <<left, Sym(op), Sym("("), right, Sym(")")>>
                      ELSE <<left, Sym(op), right>>)
UnaryOpContext(op, expression) ==
  Context("UnaryOp", IF op \in {".length", ".reverse()"} THEN <<expression, Sym(op)>>
                     ELSE <<Sym(op), expression>>)
PushRefContext(op, ref) == Context("pushRef", <<Sym(op), Sym("("), ref, Sym(")")>>)
PushRefExpressionContext(pushRef) == Context("PushRefExpression", <<pushRef>>)
ExpressionListContext(expressions, trailing) ==
  Context("expressionList", <<Sym("(")>> \o Commas(expressions, trailing) \o <<Sym(")")>>)
IntrospectionFunctionCallContext(scope, name, list) ==
  Context("IntrospectionFunctionCall", <<Sym(scope), Sym("."), Ident(name), list>>)
UnaryIntrospectionOpContext(scope, expression, op) ==
  Context("UnaryIntrospectionOp",
          <<Sym(scope), Sym("["), expression, Sym("]"), Sym("."), op>>)
TupleIndexOpContext(tuple, index) ==
  Context("TupleIndexOp", <<tuple, Sym("["), Token("NumberLiteral", index), Sym("]")>>)
InstantiationContext(name, list) ==
  Context("Instantiation", <<Sym("new"), Ident(name), list>>)
FunctionCallContext(name, list) == Context("functionCall", <<Ident(name), list>>)
FunctionCallExpressionContext(call) == Context("FunctionCallExpression", <<call>>)
CastContext(type, castable, size, trailing) ==
  Context("Cast", <<type, Sym("(")>> \o Commas(<<castable>> \o size, trailing) \o <<Sym(")")>>)
ParenthesisedContext(expression) ==
  Context("Parenthesised", <<Sym("("), expression, Sym(")")>>)

----------------------------------------------------------------------------
UnsetStatementContext(name) ==
  Context("unsetStatement", <<Sym("unset"), Sym("("), Ident(name), Sym(")"), Sym(";")>>)
PushRefStatementContext(pushRef) == Context("pushRefStatement", <<pushRef, Sym(";")>>)
PushDataStatementContext(data) ==
  Context("pushDataStatement", <<Sym("pushData"), Sym("("), data, Sym(")"), Sym(";")>>)
IfStatementContext(condition, ifBlock, elseBlock) ==
  Context("ifStatement",
          <<Sym("if"), Sym("("), condition, Sym(")"), ifBlock>>
          \o (IF elseBlock = <<>> THEN <<>> ELSE <<Sym("else")>> \o elseBlock))
RequireStatementContext(expression) ==
  Context("requireStatement", <<Sym("require"), Sym("("), expression, Sym(")"), Sym(";")>>)
TimeOpStatementContext(txVar, expression) ==
  Context("timeOpStatement", <<Sym("require"), Sym("("), Token("TxVar", txVar), Sym(">="),
                               expression, Sym(")"), Sym(";")>>)
AssignStatementContext(name, expression) ==
  Context("assignStatement", <<Ident(name), Sym("="), expression, Sym(";")>>)
TupleAssignmentContext(type1, name1, type2, name2, expression) ==
  Context("tupleAssignment", <<type1, Ident(name1), Sym(","), type2, Ident(name2),
                               Sym("="), expression, Sym(";")>>)
VariableDefinitionContext(type, modifiers, name, expression) ==
  Context("variableDefinition",
          <<type>> \o modifiers \o <<Ident(name), Sym("="), expression, Sym(";")>>)
StatementContext(part) == Context("statement", <<part>>)
BlockContext(statements, braces) ==
  Context("block", IF braces THEN <<Sym("{")>> \o statements \o <<Sym("}")>> ELSE statements)

----------------------------------------------------------------------------
ParameterContext(type, modifiers, name) ==
  Context("parameter", <<type>> \o modifiers \o <<Ident(name)>>)
ParameterListContext(parameters, trailing) ==
  Context("parameterList", <<Sym("(")>> \o Commas(parameters, trailing) \o <<Sym(")")>>)
FunctionDefinitionContext(name, list, statements) ==
  Context("functionDefinition",
          <<Ident(name), list, Sym("{")>> \o statements \o <<Sym("}")>>)
StateSeparatorContext == Context("stateSeparator", <<Sym("stateSeparator"), Sym(";")>>)
StateScriptContext(statements) ==
  Context("stateScript", statements \o <<StateSeparatorContext>>)
FunctionsContext(functions, trailing) ==
  Context("functions", <<Sym("return"), Sym("{")>> \o Commas(functions, trailing)
                       \o <<Sym("}")>>)
ContractDefinitionContext(name, lists, stateScript, statements, functions) ==
  Context("contractDefinition",
          <<Sym("contract"), Ident(name), lists[1]>>
          \o (IF Len(lists) = 2 THEN <<Sym("function"), lists[2]>> ELSE <<>>)
          \o <<Sym("{")>> \o stateScript \o statements \o functions \o <<Sym("}")>>)
VersionConstraintContext(operators, version) ==
  Context("versionConstraint",
          [k \in DOMAIN operators |-> Context("versionOperator", <<Sym(operators[k])>>)]
          \o <<Token("VersionLiteral", version)>>)
PragmaDirectiveContext(constraints) ==
  Context("pragmaDirective", <<Sym("pragma"), Context("pragmaName", <<Sym("radiantscript")>>),
                               Context("pragmaValue", constraints), Sym(";")>>)
SourceFileContext(pragmas, contract) ==
  Context("sourceFile", pragmas \o <<contract, Sym("EOF")>>)

----------------------------------------------------------------------------
(* What the accessors of a context return. *)
ExpressionContexts ==
  {"Parenthesised", "Cast", "FunctionCallExpression", "Instantiation", "TupleIndexOp",
   "UnaryIntrospectionOp", "IntrospectionFunctionCall", "PushRefExpression", "UnaryOp",
   "BinaryOp", "Array", "NullaryOp", "Identifier", "LiteralExpression"}
IsExpression(part) == IsContext(part) /\ part.rule \in ExpressionContexts

Expressions(ctx) == SelectSeq(ctx.parts, IsExpression)
Contexts(ctx, rule) == LET Is(part) == IsContext(part) /\ part.rule = rule
                       IN SelectSeq(ctx.parts, Is)
Tokens(ctx, type) == LET Is(part) == ~IsContext(part) /\ part.type = type
                     IN SelectSeq(ctx.parts, Is)
Op(ctx) == LET Is(part) == ~IsContext(part) IN SelectSeq(ctx.parts, Is)[1].text
=============================================================================
