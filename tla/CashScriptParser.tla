------------------------- MODULE CashScriptParser -------------------------
(* The recursive descent of grammar/CashScriptParser.ts: one definition for  *)
(* each of its methods, the symbols that method matches in their order, and  *)
(* below them the walk over those symbols.  An optional or repeated part is  *)
(* taken whenever it matches and alternatives are tried in their order, which *)
(* is what the lookahead sets and adaptivePredict decide; a mismatch fails    *)
(* the whole parse, for the error listener throws at the first one.           *)
EXTENDS ParseTree

T(type) == [is |-> "token", type |-> type]
R(rule) == [is |-> "rule", rule |-> rule]
E(level) == [is |-> "expression", level |-> level]
Opt(body) == [is |-> "optional", body |-> body]
Many(body) == [is |-> "many", body |-> body]
OneOf(bodies) == [is |-> "choice", bodies |-> bodies]
AnyToken(types) == OneOf([k \in DOMAIN types |-> <<T(types[k])>>])
ListOf(symbol) == Opt(<<symbol, Many(<<T(","), symbol>>), Opt(<<T(",")>>)>>)

----------------------------------------------------------------------------
sourceFile == <<Many(<<R("pragmaDirective")>>), R("contractDefinition"), T("EOF")>>
pragmaDirective == <<T("pragma"), R("pragmaName"), R("pragmaValue"), T(";")>>
pragmaName == <<T("radiantscript")>>
pragmaValue == <<R("versionConstraint"), Opt(<<R("versionConstraint")>>)>>
versionConstraint == <<Opt(<<R("versionOperator")>>), T("VersionLiteral")>>
versionOperator == <<AnyToken(<<"^", "~", ">=", ">", "<", "<=", "=">>)>>
contractDefinition ==
  <<T("contract"), T("Identifier"), R("parameterList"),
    Opt(<<T("function"), R("parameterList")>>), T("{"),
    Opt(<<R("stateScript")>>), Many(<<R("statement")>>), Opt(<<R("functions")>>), T("}")>>
functions ==
  <<T("return"), T("{"), ListOf(R("functionDefinition")), T("}"), Opt(<<T(";")>>)>>
stateScript == <<R("statement"), Many(<<R("statement")>>), R("stateSeparator")>>
stateSeparator == <<T("stateSeparator"), T(";")>>
functionDefinition ==
  <<T("Identifier"), R("parameterList"), T("{"), Many(<<R("statement")>>), T("}")>>
parameterList == <<T("("), ListOf(R("parameter")), T(")")>>
parameter == <<R("typeName"), Opt(<<R("modifier")>>), T("Identifier")>>
block ==
  <<OneOf(<< <<T("{"), Many(<<R("statement")>>), T("}")>>, <<R("statement")>> >>)>>
statement ==
  <<OneOf(<< <<R("variableDefinition")>>, <<R("tupleAssignment")>>, <<R("assignStatement")>>,
             <<R("timeOpStatement")>>, <<R("requireStatement")>>, <<R("ifStatement")>>,
             <<R("pushDataStatement")>>, <<R("pushRefStatement")>>, <<R("unsetStatement")>> >>)>>
variableDefinition ==
  <<R("typeName"), Opt(<<R("modifier")>>), T("Identifier"), T("="), E(0), T(";")>>
tupleAssignment ==
  <<R("typeName"), T("Identifier"), T(","), R("typeName"), T("Identifier"), T("="), E(0), T(";")>>
assignStatement == <<T("Identifier"), T("="), E(0), T(";")>>
timeOpStatement == <<T("require"), T("("), T("TxVar"), T(">="), E(0), T(")"), T(";")>>
requireStatement == <<T("require"), T("("), E(0), T(")"), T(";")>>
ifStatement ==
  <<T("if"), T("("), E(0), T(")"), R("block"), Opt(<<T("else"), R("block")>>)>>
functionCall == <<T("Identifier"), R("expressionList")>>
Reference == AnyToken(<<"HexLiteral", "Identifier">>)
pushDataStatement == <<T("pushData"), T("("), Reference, T(")"), T(";")>>
pushRefStatement == <<R("pushRef"), T(";")>>
pushRef ==
  <<AnyToken(<<"pushInputRef", "requireInputRef", "disallowPushInputRefSibling",
               "disallowPushInputRef", "pushInputRefSingleton">>),
    T("("), Reference, T(")")>>
unsetStatement == <<T("unset"), T("("), T("Identifier"), T(")"), T(";")>>
expressionList == <<T("("), ListOf(E(0)), T(")")>>
modifier == <<T("constant")>>
literal ==
  <<OneOf(<< <<T("BooleanLiteral")>>, <<R("numberLiteral")>>, <<T("StringLiteral")>>,
             <<T("DateLiteral")>>, <<T("HexLiteral")>> >>)>>
numberLiteral == <<T("NumberLiteral"), Opt(<<T("NumberUnit")>>)>>
typeName ==
  <<AnyToken(<<"int", "bool", "string", "pubkey", "sig", "datasig", "Bytes">>)>>

Rules ==
  [sourceFile |-> sourceFile, pragmaDirective |-> pragmaDirective, pragmaName |-> pragmaName,
   pragmaValue |-> pragmaValue, versionConstraint |-> versionConstraint,
   versionOperator |-> versionOperator, contractDefinition |-> contractDefinition,
   functions |-> functions, stateScript |-> stateScript, stateSeparator |-> stateSeparator,
   functionDefinition |-> functionDefinition, parameterList |-> parameterList,
   parameter |-> parameter, block |-> block, statement |-> statement,
   variableDefinition |-> variableDefinition, tupleAssignment |-> tupleAssignment,
   assignStatement |-> assignStatement, timeOpStatement |-> timeOpStatement,
   requireStatement |-> requireStatement, ifStatement |-> ifStatement,
   functionCall |-> functionCall, pushDataStatement |-> pushDataStatement,
   pushRefStatement |-> pushRefStatement, pushRef |-> pushRef,
   unsetStatement |-> unsetStatement, expressionList |-> expressionList,
   modifier |-> modifier, literal |-> literal, numberLiteral |-> numberLiteral,
   typeName |-> typeName]

----------------------------------------------------------------------------
(* The method expression: how an expression starts, with the context each   *)
(* alternative makes, and how it goes on.  An operator is taken when its     *)
(* level is no lower than the one the method was called with (precpred), and *)
(* the expression after it is parsed one level above its own.                *)
Start(context, body) == [is |-> "label", context |-> context, body |-> body]
Labels(starts) == OneOf([k \in DOMAIN starts |-> <<starts[k]>>])
GroupedPrimaries ==
  << Start("Parenthesised", <<T("("), E(0), T(")")>>),
     Start("Cast", <<R("typeName"), T("("), E(0), Opt(<<T(","), E(0)>>), Opt(<<T(",")>>), T(")")>>),
     Start("FunctionCallExpression", <<R("functionCall")>>),
     Start("Instantiation", <<T("new"), T("Identifier"), R("expressionList")>>) >>
IndexedBy(scope, field) ==
  Start("UnaryIntrospectionOp", <<T(scope), T("["), E(0), T("]"), T("."), T(field)>>)
CalledOn(scope) ==
  Start("IntrospectionFunctionCall", <<T(scope), T("."), T("Identifier"), R("expressionList")>>)
IntrospectionPrimaries ==
  << IndexedBy("tx.outputs", "Identifier"), IndexedBy("tx.inputs", "Identifier"),
     IndexedBy("tx.state", "TxStateField"),
     CalledOn("tx.outputs"), CalledOn("tx.inputs"),
     CalledOn("tx.outputs.zeroValue"), CalledOn("tx.inputs.zeroValue") >>
PrefixLevel == 15
OtherPrimaries ==
  << Start("PushRefExpression", <<R("pushRef")>>),
     Start("UnaryOp", <<AnyToken(<<"!", "-">>), E(PrefixLevel)>>),
     Start("Array", <<T("["), ListOf(E(0)), T("]")>>),
     Start("NullaryOp", <<T("NullaryOp")>>),
     Start("Identifier", <<T("Identifier")>>),
     Start("LiteralExpression", <<R("literal")>>) >>
Primaries == GroupedPrimaries \o IntrospectionPrimaries \o OtherPrimaries

Continuation(context, level, body) == [context |-> context, level |-> level, body |-> body]
Infix(level, operators) == Continuation("BinaryOp", level, <<AnyToken(operators), E(level + 1)>>)
\* Mutant: shifts below comparisons, as in a parser generated from an older grammar.
MutArithmeticOps ==
  << Infix(14, <<"*", "/", "%">>), Infix(13, <<"+", "-">>), Infix(11, <<">>", "<<">>),
     Infix(12, <<"<", "<=", ">", ">=">>), Infix(10, <<"==", "!=">>) >>
ArithmeticOps ==
  << Infix(14, <<"*", "/", "%">>), Infix(13, <<"+", "-">>), Infix(12, <<">>", "<<">>),
     Infix(11, <<"<", "<=", ">", ">=">>), Infix(10, <<"==", "!=">>) >>
LogicalOps ==
  << Infix(9, <<"&">>), Infix(8, <<"^">>), Infix(7, <<"|">>), Infix(6, <<"&&">>),
     Infix(5, <<"||">>) >>
PostfixOps ==
  << Continuation("TupleIndexOp", 26, <<T("["), T("NumberLiteral"), T("]")>>),
     Continuation("UnaryOp", 17, <<AnyToken(<<".reverse()", ".length">>)>>),
     Continuation("BinaryOp", 16, <<T(".split"), T("("), E(0), T(")")>>) >>
Operators == ArithmeticOps \o LogicalOps \o PostfixOps

----------------------------------------------------------------------------
(* A walk along the symbols of a body returns the parts it matched and the    *)
(* place after them, or NoMatch.                                             *)
NoMatch == [ok |-> FALSE, parts |-> <<>>, next |-> 0]
Matched(parts, next) == [ok |-> TRUE, parts |-> parts, next |-> next]
Wrapped(rule, found) ==
  IF found.ok THEN Matched(<<Context(rule, found.parts)>>, found.next) ELSE NoMatch
Joined(first, rest) ==
  IF first.ok /\ rest.ok THEN Matched(first.parts \o rest.parts, rest.next) ELSE NoMatch
OrElse(found, other) == IF found.ok THEN found ELSE other

\* The operator that goes on with an expression at a token, if there is one.
Starts(symbol, token) ==
  IF symbol.is = "token" THEN symbol.type = token.type
  ELSE \E k \in DOMAIN symbol.bodies : symbol.bodies[k][1].type = token.type
TakenAt(ts, i, level) ==
  {k \in DOMAIN Operators : /\ i <= Len(ts) /\ Operators[k].level >= level
                            /\ Starts(Operators[k].body[1], ts[i])}
Rest(left, level) == [is |-> "rest", left |-> left, level |-> level]

RECURSIVE Walk(_, _, _)
WalkOperator(ts, i, rest) ==
  LET taken == TakenAt(ts, i, rest.level)
      operator == Operators[CHOOSE k \in taken : TRUE]
      found == Walk(ts, i, operator.body)
  IN IF taken = {} THEN Matched(<<rest.left>>, i)
     ELSE IF ~found.ok THEN NoMatch
     ELSE Walk(ts, found.next,
               <<Rest(Context(operator.context, <<rest.left>> \o found.parts), rest.level)>>)
WalkExpression(ts, i, level) ==
  LET first == Walk(ts, i, <<Labels(Primaries)>>)
  IN IF first.ok THEN Walk(ts, first.next, <<Rest(first.parts[1], level)>>) ELSE NoMatch
\* The lookahead: a body that starts with another token is not tried.
Viable(symbol, ts, i) ==
  CASE symbol.is = "token" -> i <= Len(ts) /\ ts[i].type = symbol.type
    [] symbol.is = "label" /\ symbol.body[1].is = "token" ->
         i <= Len(ts) /\ ts[i].type = symbol.body[1].type
    [] OTHER -> TRUE
WalkChoice(ts, i, bodies) ==
  IF bodies = <<>> THEN NoMatch
  ELSE IF ~Viable(bodies[1][1], ts, i) THEN Walk(ts, i, <<OneOf(Tail(bodies))>>)
  ELSE OrElse(Walk(ts, i, Head(bodies)), Walk(ts, i, <<OneOf(Tail(bodies))>>))
WalkOptional(ts, i, body) == OrElse(Walk(ts, i, body), Matched(<<>>, i))
WalkToken(ts, i, type) ==
  IF i <= Len(ts) /\ ts[i].type = type THEN Matched(<<ts[i]>>, i + 1) ELSE NoMatch
WalkSymbol(ts, i, symbol) ==
  CASE symbol.is = "token" -> WalkToken(ts, i, symbol.type)
    [] symbol.is = "rule" -> Wrapped(symbol.rule, Walk(ts, i, Rules[symbol.rule]))
    [] symbol.is = "label" -> Wrapped(symbol.context, Walk(ts, i, symbol.body))
    [] symbol.is = "choice" -> WalkChoice(ts, i, symbol.bodies)
    [] symbol.is = "optional" -> WalkOptional(ts, i, symbol.body)
    [] symbol.is = "many" -> WalkOptional(ts, i, Append(symbol.body, symbol))
    [] symbol.is = "expression" -> WalkExpression(ts, i, symbol.level)
    [] symbol.is = "rest" -> WalkOperator(ts, i, symbol)
Walk(ts, i, body) ==
  IF body = <<>> THEN Matched(<<>>, i)
  ELSE LET first == WalkSymbol(ts, i, Head(body))
       IN IF first.ok THEN Joined(first, Walk(ts, first.next, Tail(body))) ELSE NoMatch

(* The tree of a whole text, for the rule it is parsed as. *)
NoTree == Context("none", <<>>)
Parse(rule, ts) ==
  LET found == Walk(ts, 1, <<IF rule \in ExpressionContexts THEN E(0) ELSE R(rule)>>)
  IN IF found.ok /\ found.next = Len(ts) + 1 THEN found.parts[1] ELSE NoTree
=============================================================================
