------------------------- MODULE CovenantMeaning -------------------------
(* What a function body demands of the transaction that spends the coin: the *)
(* reading the lint only approximates.  The opcodes belong to the network;   *)
(* they are modelled as the compiler uses them.  A coin has a value, a state *)
(* and a code script (its locking bytecode is the pair) and the refs it      *)
(* carries; a hash is injective, <<x>>.  The active input is the first one.  *)
EXTENDS CovenantLintTraversal

Both(names) == {"tx.inputs." \o f : f \in names} \cup {"tx.outputs." \o f : f \in names}
CodeScriptAggregates == Both(CodeCounts \cup {"codeScriptValueSum"})
RefHashAggregates == Both({"refHashValueSum"})
ZeroValueCounts == Both({"zeroValue.codeScriptCount", "zeroValue.refOutputCount"})

(* Whether an aggregate with this key looks at a coin. *)
Carries(n, coin, key) ==
  CASE IsCall(n, CodeScriptAggregates) -> <<coin.code>> = key
    [] IsCall(n, RefHashAggregates) -> \E r \in coin.refs : <<r>> = key
    [] OTHER -> key \in coin.refs

Aggregate(n, key, tx) ==
  LET coins == IF IsCall(n, InputAggregates) THEN tx.inputs ELSE tx.outputs
      seen == SelectSeq(coins, LAMBDA c : Carries(n, c, key))
  IN  CASE IsCall(n, InputValueSums \cup OutputValueSums) ->
             FoldLeft(LAMBDA sum, c : sum + c.value, 0, seen)
        [] IsCall(n, ZeroValueCounts) -> Len(SelectSeq(seen, LAMBDA c : c.value = 0))
        [] OTHER -> Len(seen)

Field(op, coin) ==
  CASE op \in {InField["value"], OutField["value"]} -> coin.value
    [] op \in {InField["lockingBytecode"], OutField["lockingBytecode"]} -> <<coin.state, coin.code>>
    [] op \in {InField["codeScript"], OutField["codeScript"]} -> coin.code
    [] op \in {InField["stateScript"], OutField["stateScript"]} -> coin.state

Compare(op, a, b) ==
  CASE op = "==" -> a = b [] op = "!=" -> a # b [] op = "<" -> a < b
    [] op = "<=" -> a <= b [] op = ">" -> a > b [] op = ">=" -> a >= b

RECURSIVE Value(_, _, _)
Value(n, tx, env) ==
  CASE n.node = "Identifier" -> env[n.name]
    [] n.node = "IntLiteral" -> n.int
    [] n.node = "BoolLiteral" -> n.bool
    [] IsNullary(n, "tx.inputs.length") -> Len(tx.inputs)
    [] IsNullary(n, "tx.outputs.length") -> Len(tx.outputs)
    [] indexesActiveInput(n) -> 0
    [] IsUnary(n, InputOps) ->
         Field(n.operator, tx.inputs[Value(n.expression, tx, env) + 1])
    [] IsUnary(n, OutputFieldOps) ->
         Field(n.operator, tx.outputs[Value(n.expression, tx, env) + 1])
    [] n.node = "BinaryOp" ->
         LET a == Value(n.left, tx, env)
             b == Value(n.right, tx, env)
         IN  CASE n.operator = "&&" -> a /\ b
               [] n.operator = "||" -> a \/ b
               [] n.operator = "+" -> a + b
               [] n.operator = "-" -> a - b
               [] OTHER -> Compare(n.operator, a, b)
    [] IsCall(n, {"hash256"}) -> <<Value(n.parameters[1], tx, env)>>
    [] IsCall(n, SignatureChecks) -> TRUE   \* the owner signs
    [] IsCall(n, AllAggregates) -> Aggregate(n, Value(n.parameters[1], tx, env), tx)
    [] n.node = "PushRef" -> Value(n.ref, tx, env)
    [] n.node = "Instantiation" ->
         <<"", IF n.identifier.name = "LockingBytecodeNullData" THEN "null" ELSE "p2pkh">>

(* An index that is out of range fails the script; it is a literal or that of *)
(* the active input here.                                                     *)
InRange(body, transactions) ==
  LET visited == Visited(body)
      indexes == {i \in DOMAIN visited : visited[i].node.node = "UnaryOp"
                                           /\ IsInt(visited[i].node.expression)}
      inputs == {visited[i].node.expression.int :
                   i \in {j \in indexes : visited[j].node.operator \in InputOps}}
      outputs == {visited[i].node.expression.int :
                    i \in {j \in indexes : visited[j].node.operator \in OutputFieldOps}}
  IN  {tx \in transactions : /\ \A i \in inputs : i < Len(tx.inputs)
                             /\ \A i \in outputs : i < Len(tx.outputs)}

(* The names after a straight run of statements, and what each demand came   *)
(* to.  A demand that is not met lets the run go on.                          *)
Run(body, tx, env) ==
  LET after[i \in 0 .. Len(body)] ==
        IF i = 0 THEN [env |-> env, demands |-> <<>>]
        ELSE LET run == after[i - 1]
                 s == body[i].statement
                 v == Value(s.expression, tx, run.env)
             IN  CASE s.node = "VariableDefinition" -> [run EXCEPT !.env = (s.name :> v) @@ @]
                   [] s.node = "Assign" -> [run EXCEPT !.env = (s.identifier.name :> v) @@ @]
                   [] OTHER -> [run EXCEPT !.demands = Append(@, v)]
  IN  after[Len(body)]

Accepts(body, tx, env) ==
  LET demands == Run(body, tx, env).demands IN \A i \in DOMAIN demands : demands[i]
==========================================================================
