------------------------------ MODULE Syntax ------------------------------
(* From the text to the tree and back.  A contract is written rule by rule   *)
(* as grammar/CashScript.g4 allows, the parts of a rule before the rule: the  *)
(* state is the stack of the contexts written so far.  The written text is    *)
(* then parsed (CashScriptParser), built into a syntax tree (AstBuilder),     *)
(* printed (OutputSourceCode) and parsed and built once more, as              *)
(* packages/cashc/test/ast/AST.test.ts does with whole contracts.             *)
EXTENDS CashScriptParser, AstBuilder, OutputSourceCode

CONSTANTS InfixOps,      \* infix operators, a few of each level
          Numbers,       \* texts of number literals
          Hexes,         \* texts of hex literals
          MaxDepth,      \* contexts on the stack
          MaxWeight      \* 2 for an operator; 1 for a number, a require, an if, an unset, a function or a
                         \* contract; 3 for other literals and other statements

VARIABLES stack, weight

vars == <<stack, weight>>

Init == stack = <<>> /\ weight = 0

Depth == Len(stack)
Top(k) == stack[Depth - k + 1]           \* the k-th context from the top
Below(k) == SubSeq(stack, 1, Depth - k)
Above(k) == SubSeq(stack, Depth - k + 1, Depth)
AllOf(k, Test(_)) == k <= Depth /\ \A n \in 1..k : Test(Top(n))
IsStatement(part) == part.rule = "statement"
IsBlock(part) == part.rule = "block"
IsFunction(part) == part.rule = "functionDefinition"

\* An expression below another waits for an operator, one below a statement for an if.
Owed(parts) ==
  LET Cost(k) == IF ~IsExpression(parts[k]) THEN 0 ELSE IF IsExpression(parts[k + 1]) THEN 2 ELSE 1
  IN IF Len(parts) <= 1 THEN 0 ELSE FoldFunction(+, 0, [k \in 1..Len(parts) - 1 |-> Cost(k)])

\* A block stands after the condition of its if, and a contract alone.
Placed(parts) ==
  \A k \in DOMAIN parts :
    /\ IsBlock(parts[k]) => \E n \in {k - 1, k - 2} \cap DOMAIN parts :
                              IsExpression(parts[n]) /\ (n = k - 2 => IsBlock(parts[k - 1]))
    /\ parts[k].rule \in {"contractDefinition", "sourceFile"} => Len(parts) = 1

\* The k contexts on the top become the parts of one; nothing is begun that the
\* bound would not let the writer finish.
Write(k, cost, ctx) ==
  /\ Depth - k < MaxDepth
  /\ stack' = Append(Below(k), ctx)
  /\ Placed(stack')
  /\ weight + cost + Owed(stack') <= MaxWeight
  /\ weight' = weight + cost

----------------------------------------------------------------------------
(* Expressions. *)
IntName == TypeName("int", "int")
ByteName == TypeName("Bytes", "byte")
Hex(x) == Token("HexLiteral", x)
NumberOf(text, units) == LiteralExpressionContext(NumberLiteralContext(text, units))

Name == Write(0, 0, IdentifierContext("a"))
NumberLiteral == \E text \in Numbers : Write(0, 1, NumberOf(text, <<>>))
RareLiteral ==
  \/ \E unit \in {"minutes", "finney"} : Write(0, 3, NumberOf("2", <<unit>>))
  \/ \E x \in Hexes : Write(0, 3, LiteralExpressionContext(Hex(x)))
  \/ Write(0, 3, LiteralExpressionContext(Token("BooleanLiteral", "true")))
  \/ Write(0, 3, LiteralExpressionContext(Token("StringLiteral", "'s'")))
  \/ \E d \in {"date('1970')", "date('1970-01-01T00:00:09')"} :
       Write(0, 3, LiteralExpressionContext(Token("DateLiteral", d)))
NullaryOp == Write(0, 3, NullaryOpContext("tx.inputs.length"))
PushRefs == {PushRefContext("pushInputRef", Ident("a")), PushRefContext("requireInputRef", Hex("0x1"))}
PushRefExpression == \E ref \in PushRefs : Write(0, 3, PushRefExpressionContext(ref))

Unary ==
  /\ AllOf(1, IsExpression)
  /\ \/ Top(1).rule \in {"UnaryOp", "BinaryOp"} /\ Write(1, 0, ParenthesisedContext(Top(1)))
     \/ \E op \in {"-", "!", ".length", ".reverse()"} : Write(1, 2, UnaryOpContext(op, Top(1)))
     \/ Write(1, 2, TupleIndexOpContext(Top(1), "1"))
     \/ \E scope \in {"tx.inputs", "tx.outputs"} :
          Write(1, 2, UnaryIntrospectionOpContext(scope, Top(1), Ident("value")))
     \/ Write(1, 2, UnaryIntrospectionOpContext("tx.state", Top(1), Token("TxStateField", "txid")))
Binary ==
  /\ AllOf(2, IsExpression)
  /\ \E op \in InfixOps \cup {".split"} : Write(2, 2, BinaryOpContext(Top(2), op, Top(1)))
Cast ==
  \E k \in 1..2, trailing \in BOOLEAN :
    /\ AllOf(k, IsExpression)
    /\ Write(k, 2, CastContext(ByteName, Above(k)[1], Tail(Above(k)), trailing))
Call ==
  \E k \in 0..2, trailing \in BOOLEAN :
    /\ AllOf(k, IsExpression) /\ (trailing => k > 0)
    /\ LET list == ExpressionListContext(Above(k), trailing)
       IN Write(k, 2, FunctionCallExpressionContext(FunctionCallContext("a", list)))
CallOnTx ==
  \E k \in 0..1 :
    /\ AllOf(k, IsExpression)
    /\ LET list == ExpressionListContext(Above(k), FALSE)
       IN \/ Write(k, 2, InstantiationContext("a", list))
          \/ \E scope \in {"tx.outputs", "tx.inputs.zeroValue"} :
               Write(k, 2, IntrospectionFunctionCallContext(scope, "a", list))
Array ==
  \E k \in 0..2, trailing \in BOOLEAN :
    /\ AllOf(k, IsExpression) /\ (trailing => k > 0)
    /\ Write(k, 2, ArrayContext(Above(k), trailing))

----------------------------------------------------------------------------
(* Statements, blocks, functions and contracts. *)
Modifiers == {<<>>, <<Modifier>>}
Statement(k, cost, part) == Write(k, cost, StatementContext(part))

VariableDefinition ==
  /\ AllOf(1, IsExpression)
  /\ \E m \in Modifiers : Statement(1, 3, VariableDefinitionContext(ByteName, m, "b", Top(1)))
TupleAssignment ==
  /\ AllOf(1, IsExpression)
  /\ Statement(1, 3, TupleAssignmentContext(ByteName, "b", IntName, "c", Top(1)))
Assign == AllOf(1, IsExpression) /\ Statement(1, 3, AssignStatementContext("a", Top(1)))
TimeOp == AllOf(1, IsExpression) /\ Statement(1, 3, TimeOpStatementContext("tx.age", Top(1)))
Require == AllOf(1, IsExpression) /\ Statement(1, 1, RequireStatementContext(Top(1)))
PushData == \E data \in {Ident("a"), Hex("0x1")} : Statement(0, 3, PushDataStatementContext(data))
PushRef == \E ref \in PushRefs : Statement(0, 3, PushRefStatementContext(ref))
Unset == Statement(0, 1, UnsetStatementContext("a"))

Block ==
  \/ \E k \in 0..2 : AllOf(k, IsStatement) /\ Write(k, 0, BlockContext(Above(k), TRUE))
  \/ AllOf(1, IsStatement) /\ Write(1, 0, BlockContext(Above(1), FALSE))
If ==
  \/ /\ AllOf(1, IsBlock) /\ Depth > 1 /\ IsExpression(Top(2))
     /\ Statement(2, 1, IfStatementContext(Top(2), Top(1), <<>>))
  \/ /\ AllOf(2, IsBlock) /\ Depth > 2 /\ IsExpression(Top(3))
     /\ Statement(3, 1, IfStatementContext(Top(3), Top(2), <<Top(1)>>))

Parameters == {<<>>, <<ParameterContext(IntName, <<>>, "a"), ParameterContext(ByteName, <<Modifier>>, "b")>>}
Function ==
  \E k \in 0..1, ps \in Parameters :
    /\ AllOf(k, IsStatement)
    /\ Write(k, 1 + Len(ps), FunctionDefinitionContext("f", ParameterListContext(ps, FALSE), Above(k)))
Contract ==
  \E s \in 0..1, f \in 0..Depth, ps \in Parameters, more \in BOOLEAN :
    LET statements == SubSeq(stack, s + 1, f)
        list == ParameterListContext(ps, more /\ ps # <<>>)
    IN /\ s <= f
       /\ \A k \in 1..f : IsStatement(stack[k])
       /\ \A k \in f + 1..Depth : IsFunction(stack[k])
       /\ Write(Depth, 1 + Len(ps) + (IF more THEN 1 ELSE 0),
            ContractDefinitionContext("C",
              IF more THEN <<ParameterListContext(<<>>, FALSE), list>> ELSE <<list>>,
              IF s = 0 THEN <<>> ELSE <<StateScriptContext(SubSeq(stack, 1, s))>>,
              statements,
              IF f = Depth /\ ~more THEN <<>>
              ELSE <<FunctionsContext(SubSeq(stack, f + 1, Depth), more)>>))
SourceFile ==
  /\ Depth = 1 /\ Top(1).rule = "contractDefinition"
  /\ \/ Write(1, 0, SourceFileContext(<<>>, Top(1)))
     \/ \E constraints \in {<<VersionConstraintContext(<<>>, "1.2.3")>>,
                            <<VersionConstraintContext(<<"^">>, "1.2.3"),
                              VersionConstraintContext(<<"<=">>, "1.2.3")>>} :
          Write(1, 1, SourceFileContext(<<PragmaDirectiveContext(constraints)>>, Top(1)))

Next ==
  \/ Name \/ NumberLiteral \/ RareLiteral \/ NullaryOp \/ PushRefExpression
  \/ Unary \/ Binary \/ Cast \/ Call \/ CallOnTx \/ Array
  \/ VariableDefinition \/ TupleAssignment \/ Assign \/ TimeOp \/ Require
  \/ PushData \/ PushRef \/ Unset \/ Block \/ If
  \/ Function \/ Contract \/ SourceFile

Spec == Init /\ [][Next]_vars

----------------------------------------------------------------------------
(* The grammar's order of alternatives (CashScript.g4): an alternative of the *)
(* rule expression binds tighter than the ones after it, and operators of the *)
(* same alternative group to the left.                                        *)
Alternative(e) ==
  CASE e.rule = "TupleIndexOp" -> 5
    [] e.rule = "UnaryOp" -> IF IsExpression(e.parts[1]) THEN 14 ELSE 16
    [] e.rule = "BinaryOp" ->
         LET op == Op(e)
         IN CASE op = ".split" -> 15
              [] op \in {"*", "/", "%"} -> 17
              [] op \in {"+", "-"} -> 18
              [] op \in {">>", "<<"} -> 19
              [] op \in {"<", "<=", ">", ">="} -> 20
              [] op \in {"==", "!="} -> 21
              [] op = "&" -> 22
              [] op = "^" -> 23
              [] op = "|" -> 24
              [] op = "&&" -> 25
              [] op = "||" -> 26

FirstPart(e) == Head(e.parts)
LastPart(e) == Last(e.parts)
OpensLeft(e) == IsExpression(e) /\ IsExpression(FirstPart(e)) /\ e.rule \in {"TupleIndexOp", "UnaryOp", "BinaryOp"}
OpensRight(e) == IsExpression(e) /\ IsExpression(LastPart(e)) /\ e.rule \in {"UnaryOp", "BinaryOp"}

RECURSIVE LeftEdge(_), RightEdge(_), Subtrees(_)
LeftEdge(e) == IF OpensLeft(e) THEN {e} \cup LeftEdge(FirstPart(e)) ELSE {}
RightEdge(e) == IF OpensRight(e) THEN {e} \cup RightEdge(LastPart(e)) ELSE {}
Subtrees(part) ==
  IF IsContext(part) THEN {part} \cup UNION {Subtrees(part.parts[k]) : k \in DOMAIN part.parts} ELSE {}

\* A statement whose text ends in an if that could still take an else.
RECURSIVE EndsInIf(_)
EndsInIf(part) ==
  /\ IsContext(part) /\ part.parts # <<>>
  /\ \/ part.rule = "ifStatement" /\ Tokens(part, "else") = <<>>
     \/ EndsInIf(LastPart(part))

Grouped(tree) ==
  \A e \in Subtrees(tree) :
    /\ OpensLeft(e) => \A inner \in RightEdge(FirstPart(e)) : Alternative(inner) <= Alternative(e)
    /\ OpensRight(e) => \A inner \in LeftEdge(LastPart(e)) : Alternative(inner) < Alternative(e)
    /\ e.rule = "ifStatement" /\ Tokens(e, "else") # <<>> => ~EndsInIf(Contexts(e, "block")[1])

\* A sentence of the grammar is parsed, and as the grammar's order of
\* alternatives groups it: whoever wrote it with another grouping in mind gets
\* the grammar's, which reads the same tokens.
ParsedAsGrouped ==
  stack # <<>> =>
    LET written == Top(1)
        parsed == Parse(written.rule, Yield(written))
    IN IF Grouped(written) THEN parsed = written
       ELSE parsed # NoTree /\ Grouped(parsed) /\ Yield(parsed) = Yield(written)

----------------------------------------------------------------------------
(* Printed and read again. *)
Printed == {"statement", "contractDefinition", "sourceFile"} \cup ExpressionContexts
Ended(rule, ts) == IF rule = "sourceFile" THEN Append(ts, Sym("EOF")) ELSE ts
Reread(rule, ast) == Parse(rule, Ended(rule, Lexed(Output(ast))))

Builds(tree) == \A e \in Subtrees(tree) : e.rule = "literal" => CreateLiteral(e) # BadLiteral

\* What the printer writes outside the language: data without its semicolon,
\* an index into tx.state, a minus sign that runs into a numeral, and nothing at
\* all where the grammar wants a statement.
Unsets(e) == e.rule = "statement" /\ e.parts[1].rule = "unsetStatement"
Misprinted(e) ==
  \/ e.rule = "pushDataStatement"
  \/ e.rule = "UnaryIntrospectionOp" /\ Op(e) = "tx.state"
  \/ /\ e.rule = "UnaryOp" /\ Op(e) = "-"
     /\ Natural(Output(Expression1(e))[1])
  \/ e.rule = "stateScript" /\ \A k \in DOMAIN Contexts(e, "statement") : Unsets(Contexts(e, "statement")[k])
\* What it leaves out: modifiers, the size of a cast, an unset statement.
Lossy(e) ==
  \/ e.rule \in {"modifier", "unsetStatement"}
  \/ e.rule = "Cast" /\ Len(Expressions(e)) = 2

Rebuildable(written) ==
  /\ written.rule \in Printed /\ Grouped(written) /\ Builds(written)
  /\ ~Unsets(written) /\ ~\E e \in Subtrees(written) : Misprinted(e)

\* A printed syntax tree is read back as the tree it was printed from, with
\* every operator's operands where they were.
RebuiltAsItWas ==
  stack # <<>> /\ ~(\E e \in Subtrees(Top(1)) : Lossy(e)) /\ Rebuildable(Top(1)) =>
    LET ast == Visit(Top(1))
        again == Reread(Top(1).rule, ast)
    IN again # NoTree /\ Visit(again) = ast

\* What the printer leaves out, it leaves out for good: the text of the tree
\* that was read back is the text it was read from.
PrintedTheSame ==
  stack # <<>> /\ (\E e \in Subtrees(Top(1)) : Lossy(e)) /\ Rebuildable(Top(1)) =>
    LET text == Lexed(Output(Visit(Top(1))))
        again == Parse(Top(1).rule, Ended(Top(1).rule, text))
    IN again # NoTree /\ Lexed(Output(Visit(again))) = text
=============================================================================
