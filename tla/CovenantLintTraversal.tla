---------------------- MODULE CovenantLintTraversal ----------------------
(* The covenant lint (semantic/CovenantLintTraversal.ts): what it collects *)
(* from the body of one function, and the rules that turn it into warnings. *)
(* A body is a sequence of lines [line, statement], one top-level statement *)
(* on each.  A flag of the collector is an operator on the nodes it visits; *)
(* a location it keeps is a line, 0 where there is none.                    *)
EXTENDS Integers, Sequences, SequencesExt, AST

CONSTANT Parameters   \* the type of every parameter of the contract and function

FieldNames ==
  {"value", "lockingBytecode", "codeScript", "stateScript", "refHashDataSummary",
   "refDataSummary", "stateSeparatorIndex", "outpointTransactionHash", "outpointIndex",
   "unlockingBytecode", "sequenceNumber"}
InField == [f \in FieldNames |-> "tx.inputs[i]." \o f]
OutField == [f \in FieldNames |-> "tx.outputs[i]." \o f]
InputOps == {InField[f] : f \in FieldNames}
OutputDestinationPinOps == {OutField[f] : f \in {"lockingBytecode", "codeScript", "stateScript"}}
OutputPinOps == OutputDestinationPinOps \cup {OutField["value"]}
OutputFieldOps == OutputPinOps \cup
  {OutField[f] : f \in {"refHashDataSummary", "refDataSummary", "stateSeparatorIndex"}}

ValueSums == {"refHashValueSum", "refValueSum", "codeScriptValueSum"}
CodeCounts == {"codeScriptCount", "zeroValue.codeScriptCount"}
Counts == CodeCounts \cup {"refOutputCount", "zeroValue.refOutputCount"}
InputValueSums == {"tx.inputs." \o f : f \in ValueSums}
OutputValueSums == {"tx.outputs." \o f : f \in ValueSums}
InputCounts == {"tx.inputs." \o f : f \in Counts}
OutputCounts == {"tx.outputs." \o f : f \in Counts}
CodeScriptCounts == {"tx.inputs." \o f : f \in CodeCounts} \cup {"tx.outputs." \o f : f \in CodeCounts}
InputAggregates == InputValueSums \cup InputCounts
OutputAggregates == OutputValueSums \cup OutputCounts \cup {"tx.outputs.refType"}
AllAggregates == OutputAggregates \cup InputAggregates \cup {"tx.inputs.refType"}
CountFunctions == InputCounts \cup OutputCounts
SignatureChecks == {"checkSig", "checkMultiSig", "checkDataSig"}
Comparisons == {"==", "!=", "<", "<=", ">", ">="}

-----------------------------------------------------------------------------
(* AstTraversal: the nodes below a node, each before its children. *)
Children(n) ==
  CASE n.node \in {"VariableDefinition", "Require", "TimeOp", "UnaryOp"} -> <<n.expression>>
    [] n.node = "Cast" -> <<n.expression>> \o (IF n.size = None THEN <<>> ELSE <<n.size>>)
    [] n.node = "Assign" -> <<n.identifier, n.expression>>
    [] n.node = "TupleAssignment" -> <<n.tuple>>
    [] n.node = "Branch" ->
         <<n.condition, n.ifBlock>> \o (IF n.elseBlock = None THEN <<>> ELSE <<n.elseBlock>>)
    [] n.node = "Block" -> n.statements
    [] n.node \in {"FunctionCall", "Instantiation"} -> <<n.identifier>> \o n.parameters
    [] n.node = "TupleIndexOp" -> <<n.tuple>>
    [] n.node = "BinaryOp" -> <<n.left, n.right>>
    [] n.node = "Array" -> n.elements
    [] n.node = "PushRef" -> <<n.ref>>
    [] OTHER -> <<>>

RECURSIVE Preorder(_)
Preorder(n) ==
  LET children == Children(n)
      upTo[i \in 0 .. Len(children)] ==
        IF i = 0 THEN <<n>> ELSE upTo[i - 1] \o Preorder(children[i])
  IN  upTo[Len(children)]

SomeIn(n, Test(_)) == \E i \in DOMAIN Preorder(n) : Test(Preorder(n)[i])

IsUnary(n, ops) == n.node = "UnaryOp" /\ n.operator \in ops
IsNullary(n, op) == n.node = "NullaryOp" /\ n.operator = op
IsCall(n, names) == n.node = "FunctionCall" /\ n.identifier.name \in names
IsInt(n) == n.node = "IntLiteral"
indexesActiveInput(n) == IsNullary(n, "this.activeInputIndex")

(* Every node of a body in the order of the visit, with its line. *)
Visited(body) ==
  LET upTo[i \in 0 .. Len(body)] ==
        IF i = 0 THEN <<>>
        ELSE LET nodes == Preorder(body[i].statement)
             IN  upTo[i - 1] \o [j \in DOMAIN nodes |-> [line |-> body[i].line, node |-> nodes[j]]]
  IN  upTo[Len(body)]

Some(visited, Test(_)) == \E i \in DOMAIN visited : Test(visited[i].node)

(* `location ??= node.location`: the line of the first node that passes. *)
FirstLine(visited, Test(_)) ==
  LET i == SelectInSeq(visited, LAMBDA v : Test(v.node))
  IN  IF i = 0 THEN 0 ELSE visited[i].line

Or(line, other) == IF line # 0 THEN line ELSE other   \* line ?? other
Get(map, x, default) == IF x \in DOMAIN map THEN map[x] ELSE default

-----------------------------------------------------------------------------
(* What a local stands for.  Only top-level statements are looked at. *)
Token(n, localTokens) ==
  CASE IsUnary(n, {InField["value"]}) -> {"IN_VALUE"}
    [] IsUnary(n, {OutField["value"]}) -> {"OUT_VALUE"}
    [] IsCall(n, InputValueSums) -> {"IN_VALUESUM"}
    [] IsCall(n, OutputValueSums) -> {"OUT_VALUESUM"}
    [] IsCall(n, InputCounts) -> {"IN_COUNT"}
    [] IsCall(n, OutputCounts) -> {"OUT_COUNT"}
    [] n.node = "Identifier" -> Get(localTokens, n.name, {})
    [] OTHER -> {}

tokensOf(n, localTokens) ==
  LET nodes == Preorder(n) IN UNION {Token(nodes[i], localTokens) : i \in DOMAIN nodes}

(* Two passes over the statements; a definition replaces, an assignment adds. *)
buildLocalTokens(body) ==
  FoldLeft(LAMBDA map, s :
      CASE s.statement.node = "VariableDefinition" ->
             (s.statement.name :> tokensOf(s.statement.expression, map)) @@ map
        [] s.statement.node = "Assign" ->
             LET x == s.statement.identifier.name
             IN  (x :> (Get(map, x, {}) \cup tokensOf(s.statement.expression, map))) @@ map
        [] OTHER -> map,
    <<>>, body \o body)

Definitions(body) == SelectSeq(body, LAMBDA s : s.statement.node = "VariableDefinition")

isSelfCodeScriptHash(n) ==
  /\ IsCall(n, {"hash256"})
  /\ IsUnary(n.parameters[1], {InField["codeScript"]})
  /\ indexesActiveInput(n.parameters[1].expression)

cshLocals(body) ==
  {body[i].statement.name : i \in {j \in DOMAIN body :
     /\ body[j].statement.node = "VariableDefinition"
     /\ isSelfCodeScriptHash(body[j].statement.expression)}}

containsNullDataInstantiation(n) ==
  SomeIn(n, LAMBDA m : m.node = "Instantiation" /\ m.identifier.name = "LockingBytecodeNullData")

nullDataLocals(body) ==
  {body[i].statement.name : i \in {j \in DOMAIN body :
     /\ body[j].statement.node = "VariableDefinition"
     /\ containsNullDataInstantiation(body[j].statement.expression)}}

(* A fingerprint; Opaque never matches another. *)
Opaque == <<"opaque">>
keyFingerprintOf(n, csh) ==
  CASE isSelfCodeScriptHash(n) -> <<"csh-idiom">>
    [] n.node = "Identifier" -> IF n.name \in csh THEN <<"csh-idiom">> ELSE <<"id", n.name>>
    [] n.node = "IntLiteral" -> <<"lit", ToString(n.int)>>
    [] n.node = "StringLiteral" -> <<"lit", n.string>>
    [] OTHER -> Opaque

refFingerprintOf(n) ==
  CASE n.node = "Identifier" -> <<"id", n.name>>
    [] n.node = "HexLiteral" -> <<"hex", n.hex>>
    [] n.node = "StringLiteral" -> <<"hex", n.string>>
    [] OTHER -> Opaque

(* bytes36 ref = pushInputRef(REF) makes ref an alias of REF, one step deep. *)
refAliases(body) ==
  FoldLeft(LAMBDA map, s :
      IF s.statement.expression.node = "PushRef"
      THEN (<<"id", s.statement.name>> :> refFingerprintOf(s.statement.expression.ref)) @@ map
      ELSE map,
    <<>>, Definitions(body))

CanonicalRef(n, aliases) == Get(aliases, refFingerprintOf(n), refFingerprintOf(n))

NoAggregate == [kind |-> "none", key |-> Opaque]
aggregateRefOf(n, csh, locals) ==
  LET kind == CASE IsCall(n, InputValueSums) -> "IN_VALUESUM"
                [] IsCall(n, OutputValueSums) -> "OUT_VALUESUM"
                [] IsCall(n, InputCounts) -> "IN_COUNT"
                [] IsCall(n, OutputCounts) -> "OUT_COUNT"
                [] OTHER -> "none"
  IN  IF n.node = "Identifier" THEN Get(locals, n.name, NoAggregate)
      ELSE IF kind = "none" THEN NoAggregate
      ELSE [kind |-> kind, key |-> keyFingerprintOf(n.parameters[1], csh)]

localAggregates(body) ==
  FoldLeft(LAMBDA map, s :
      LET a == aggregateRefOf(s.statement.expression, cshLocals(body), map)
      IN  IF a = NoAggregate THEN map ELSE (s.statement.name :> a) @@ map,
    <<>>, Definitions(body))

-----------------------------------------------------------------------------
(* Readings of one comparison. *)
flipComparison(op) ==
  CASE op = "<" -> ">" [] op = "<=" -> ">=" [] op = ">" -> "<" [] op = ">=" -> "<="
    [] OTHER -> op

\* Mutant: a count that must exceed 0 is taken for a vacuous constraint.
MutIsVacuousCountConstraint(op, k) ==
  CASE op = "==" -> k = 0 [] op = "<" -> k = 1 [] op = "<=" -> k = 0
    [] op = ">=" -> k <= 0 [] op = ">" -> k <= 0 [] op = "!=" -> k < 0
    [] OTHER -> FALSE
isVacuousCountConstraint(op, k) ==
  CASE op = "==" -> k = 0
    [] op = "<" -> k = 1
    [] op = "<=" -> k = 0
    [] op = ">=" -> k <= 0
    [] op = ">" -> k < 0
    [] op = "!=" -> k < 0
    [] OTHER -> FALSE

referencesInputCount(n) == IsNullary(n, "tx.inputs.length")

\* Mutant: the operator is not flipped when the literal stands on the left.
MutForbidsTwoInputCospend(n) ==
  /\ referencesInputCount(n.left) # referencesInputCount(n.right)
  /\ LET k == IF referencesInputCount(n.left) THEN n.right ELSE n.left
     IN  /\ IsInt(k)
         /\ CASE n.operator = "==" -> k.int = 1
              [] n.operator = "<=" -> k.int <= 1
              [] n.operator = "<" -> k.int <= 2
              [] OTHER -> FALSE
forbidsTwoInputCospend(n) ==
  /\ referencesInputCount(n.left) # referencesInputCount(n.right)
  /\ LET onLeft == referencesInputCount(n.left)
         k == IF onLeft THEN n.right ELSE n.left
         op == IF onLeft THEN n.operator ELSE flipComparison(n.operator)
     IN  /\ IsInt(k)
         /\ CASE op = "==" -> k.int = 1
              [] op = "<=" -> k.int <= 1
              [] op = "<" -> k.int <= 2
              [] OTHER -> FALSE

asCountAggregate(n) == IsCall(n, CountFunctions)

(* Exactly one side is a count and the other an integer literal. *)
CountAgainstLiteral(n) ==
  \/ asCountAggregate(n.left) /\ IsInt(n.right)
  \/ asCountAggregate(n.right) /\ IsInt(n.left)
CountSide(n) == IF asCountAggregate(n.left) THEN n.left ELSE n.right
LiteralSide(n) == IF asCountAggregate(n.left) THEN n.right ELSE n.left

TrivialContinuity(n) ==
  /\ n.node = "BinaryOp"
  /\ CountAgainstLiteral(n)
  /\ isVacuousCountConstraint(
       IF asCountAggregate(n.left) THEN n.operator ELSE flipComparison(n.operator),
       LiteralSide(n).int)

CarriesRefForward(n) ==
  /\ n.node = "BinaryOp" /\ n.operator \in {"==", ">="}
  /\ CountAgainstLiteral(n)
  /\ IsCall(CountSide(n), OutputAggregates)
  /\ LiteralSide(n).int > 0

\* Mutant: any two keys balance, as before the key-aware matching.
MutIsBalancedValueSum(a, b) == {a.kind, b.kind} = {"IN_VALUESUM", "OUT_VALUESUM"}
isBalancedValueSum(a, b) ==
  /\ {a.kind, b.kind} = {"IN_VALUESUM", "OUT_VALUESUM"}
  /\ a.key # Opaque /\ a.key = b.key

mismatchedKeyAggregatePair(a, b) ==
  /\ a # NoAggregate /\ b # NoAggregate
  /\ a.key = Opaque \/ b.key = Opaque \/ a.key # b.key

relatesInputToOutputValue(n, localTokens) ==
  LET union == tokensOf(n.left, localTokens) \cup tokensOf(n.right, localTokens)
  IN  /\ union \cap {"IN_VALUE", "IN_VALUESUM"} # {}
      /\ union \cap {"OUT_VALUE", "OUT_VALUESUM"} # {}

(* tx.outputs[i].<one of ops> at a literal index. *)
IndexOf(n, ops) == IF IsUnary(n, ops) /\ IsInt(n.expression) THEN {n.expression.int} ELSE {}
EqualityIndex(n, ops) ==   \* the index on the left, or else on the right
  IF n.node # "BinaryOp" \/ n.operator # "==" THEN {}
  ELSE IF IndexOf(n.left, ops) # {} THEN IndexOf(n.left, ops) ELSE IndexOf(n.right, ops)

\* Mutant: the count of the inputs contains a ref in the outputs.
MutAsRefOutputCount(n) ==
  IsCall(n, {"tx.outputs.refOutputCount", "tx.outputs.zeroValue.refOutputCount",
             "tx.inputs.refOutputCount"})
asRefOutputCount(n) ==
  IsCall(n, {"tx.outputs.refOutputCount", "tx.outputs.zeroValue.refOutputCount"})

ContainedBy(n, count, other, aliases) ==
  IF /\ asRefOutputCount(count)
     /\ IsInt(other) \/ (n.operator = "==" /\ asCountAggregate(other))
  THEN {CanonicalRef(count.parameters[1], aliases)} \ {Opaque} ELSE {}

(* In a stitch of two ref counts the left one is contained, not the right. *)
collectRefContainment(n, aliases) ==
  IF n.node # "BinaryOp" \/ n.operator \notin Comparisons THEN {}
  ELSE LET left == ContainedBy(n, n.left, n.right, aliases)
       IN  IF asRefOutputCount(n.left) /\ asCountAggregate(n.right) /\ ~IsInt(n.right)
           THEN left ELSE left \cup ContainedBy(n, n.right, n.left, aliases)

-----------------------------------------------------------------------------
(* Dead stores: names written at the top level and not read afterwards by    *)
(* anything that binds them.                                                 *)
isValueType(type) == type \in {"int", "bool"}

namesIn(n) ==
  LET nodes == Preorder(n)
  IN  {nodes[i].name : i \in {j \in DOMAIN nodes : nodes[j].node = "Identifier"}}

containsOutputField(n) == SomeIn(n, LAMBDA m : IsUnary(m, OutputFieldOps))

isSelfTautology(n) ==
  n.left.node = "Identifier" /\ n.right.node = "Identifier" /\ n.left.name = n.right.name

(* What the visit of one node by the IdentifierUseCollector adds. *)
\* Mutant: x == x counts as a reading of x.
MutMeaningfulReadsAt(n) ==
  CASE n.node = "BinaryOp" /\ n.operator \in Comparisons ->
         (IF containsOutputField(n.left) /\ ~containsOutputField(n.right)
          THEN namesIn(n.right) ELSE {})
         \cup (IF containsOutputField(n.right) /\ ~containsOutputField(n.left)
               THEN namesIn(n.left) ELSE {})
         \cup (IF n.operator \in {"==", "!="} THEN namesIn(n.left) \cup namesIn(n.right) ELSE {})
    [] IsCall(n, AllAggregates) -> UNION {namesIn(n.parameters[i]) : i \in DOMAIN n.parameters}
    [] OTHER -> {}
meaningfulReadsAt(n) ==
  CASE n.node = "BinaryOp" /\ n.operator \in Comparisons ->
         (IF containsOutputField(n.left) /\ ~containsOutputField(n.right)
          THEN namesIn(n.right) ELSE {})
         \cup (IF containsOutputField(n.right) /\ ~containsOutputField(n.left)
               THEN namesIn(n.left) ELSE {})
         \cup (IF n.operator \in {"==", "!="} /\ ~isSelfTautology(n)
               THEN namesIn(n.left) \cup namesIn(n.right) ELSE {})
    [] IsCall(n, AllAggregates) -> UNION {namesIn(n.parameters[i]) : i \in DOMAIN n.parameters}
    [] OTHER -> {}

meaningfulReads(statement) ==
  LET nodes == Preorder(statement)
  IN  UNION {meaningfulReadsAt(nodes[i]) : i \in DOMAIN nodes}

Types(body) ==   \* of the names in scope, as the symbol table has them
  FoldLeft(LAMBDA map, s : (s.statement.name :> s.statement.type) @@ map,
           Parameters, Definitions(body))

(* The indices of the top-level statements that write x. *)
Writes(x, body) ==
  {i \in DOMAIN body :
     LET s == body[i].statement
     IN  \/ s.node = "VariableDefinition" /\ s.name = x /\ isValueType(s.type)
         \/ s.node = "Assign" /\ s.identifier.name = x /\ isValueType(Types(body)[x])}
Reads(x, body) == {i \in DOMAIN body : x \in meaningfulReads(body[i].statement)}

findDeadStores(body) ==
  {x \in DOMAIN Types(body) :
     /\ Writes(x, body) # {}
     /\ \A r \in Reads(x, body) : \E w \in Writes(x, body) : r <= w}

DeadStoreLine(x, body) ==
  body[CHOOSE i \in Writes(x, body) : \A j \in Writes(x, body) : i <= j].line

-----------------------------------------------------------------------------
(* The facts of a body. *)
BinaryNodes(visited) ==
  {i \in DOMAIN visited : visited[i].node.node = "BinaryOp"}
Equalities(visited) ==
  {i \in BinaryNodes(visited) : visited[i].node.operator = "=="}

(* The pins of an index to a recipient, script or state; with null data.     *)
PinnedOutputIndices(visited) ==
  UNION {EqualityIndex(visited[i].node, OutputDestinationPinOps) : i \in DOMAIN visited}
PinsNullDataOutput(visited, nullData) ==
  \E i \in Equalities(visited) :
    LET n == visited[i].node
        other == IF IndexOf(n.left, OutputDestinationPinOps) # {} THEN n.right ELSE n.left
    IN  /\ EqualityIndex(n, OutputDestinationPinOps) # {}
        /\ \/ containsNullDataInstantiation(other)
           \/ other.node = "Identifier" /\ other.name \in nullData

(* N of the last tx.outputs.length == N, as a set of at most one. *)
OutputCountBound(visited) ==
  LET count(n) == IsNullary(n, "tx.outputs.length")
      bound(n) == IF count(n.left) THEN n.right ELSE n.left
      last == SelectLastInSeq(visited, LAMBDA v :
                /\ v.node.node = "BinaryOp" /\ v.node.operator = "=="
                /\ count(v.node.left) \/ count(v.node.right)
                /\ IsInt(bound(v.node)))
  IN  IF last = 0 THEN {} ELSE {bound(visited[last].node).int}

StateBindLine(j, visited) ==
  FirstLine(visited, LAMBDA n : j \in EqualityIndex(n, {OutField["stateScript"]}))

ForwardedRef(n, aliases) ==
  IF n.node = "PushRef" /\ n.op \in {"pushInputRef", "requireInputRef"}
  THEN {CanonicalRef(n.ref, aliases)} \ {Opaque} ELSE {}

Facts(body) ==
  LET visited == Visited(body)
      tokens == buildLocalTokens(body)
      csh == cshLocals(body)
      locals == localAggregates(body)
      aliases == refAliases(body)
      head(n) == aggregateRefOf(n, csh, locals)
      isCount(n) == head(n).kind \in {"IN_COUNT", "OUT_COUNT"}
      equal(Test(_)) == \E i \in Equalities(visited) : Test(visited[i].node)
      activeValue(n) == IsUnary(n, {InField["value"]}) /\ indexesActiveInput(n.expression)
      ownCode(n) == IsUnary(n, {InField["codeScript"]}) \/ IsNullary(n, "this.activeBytecode")
      introspection(n) ==
        \/ IsUnary(n, InputOps \cup OutputFieldOps)
        \/ IsNullary(n, "tx.outputs.length") \/ IsNullary(n, "tx.inputs.length")
        \/ IsCall(n, AllAggregates) \/ n.node = "PushRef"
  IN [introspectsOutputField |-> Some(visited, LAMBDA n : IsUnary(n, OutputFieldOps)),
      pinsOutputField |-> Some(visited, LAMBDA n : IsUnary(n, OutputPinOps)),
      callsOutputAggregate |-> Some(visited, LAMBDA n : IsCall(n, OutputAggregates)),
      callsAnyAggregate |-> Some(visited, LAMBDA n : IsCall(n, AllAggregates)),
      callsCodeScriptCount |->
        Some(visited, LAMBDA n : IsCall(n, CodeScriptCounts)),
      callsInputAggregate |-> Some(visited, LAMBDA n : IsCall(n, InputAggregates)),
      readsOutputCount |-> Some(visited, LAMBDA n : IsNullary(n, "tx.outputs.length")),
      constrainsInputCount |-> Some(visited, LAMBDA n :
        n.node = "BinaryOp" /\ n.operator \in Comparisons /\ forbidsTwoInputCospend(n)),
      readsOwnCodeScript |-> Some(visited, ownCode),
      readsActiveInputValue |-> Some(visited, activeValue),
      callsSignatureCheck |-> Some(visited, LAMBDA n : IsCall(n, SignatureChecks)),
      usesPushRef |-> Some(visited, LAMBDA n : n.node = "PushRef"),
      introspectsAnything |-> Some(visited, introspection),
      hasBalancedValueSum |-> equal(LAMBDA n : isBalancedValueSum(head(n.left), head(n.right))),
      hasBalancedCount |-> equal(LAMBDA n : isCount(n.left) /\ isCount(n.right)),
      hasInputOutputValueRelation |-> equal(LAMBDA n :
        /\ relatesInputToOutputValue(n, tokens)
        /\ ~mismatchedKeyAggregatePair(head(n.left), head(n.right))),
      outputCountBound |-> OutputCountBound(visited),
      pinnedOutputIndices |-> PinnedOutputIndices(visited),
      pinsNullDataOutput |-> PinsNullDataOutput(visited, nullDataLocals(body)),
      carriesRefForward |-> Some(visited, CarriesRefForward),
      codeScriptPinIndices |->
        UNION {EqualityIndex(visited[i].node, {OutField["codeScript"]}) : i \in DOMAIN visited},
      stateBindIndices |->
        UNION {EqualityIndex(visited[i].node, {OutField["stateScript"]}) : i \in DOMAIN visited},
      forwardedRefs |-> UNION {ForwardedRef(visited[i].node, aliases) : i \in DOMAIN visited},
      containedRefs |->
        UNION {collectRefContainment(visited[i].node, aliases) : i \in DOMAIN visited},
      outputFieldLine |-> FirstLine(visited, LAMBDA n : IsUnary(n, OutputFieldOps)),
      outputAggregateLine |-> FirstLine(visited, LAMBDA n : IsCall(n, OutputAggregates)),
      anyAggregateLine |-> FirstLine(visited, LAMBDA n : IsCall(n, AllAggregates)),
      ownCodeScriptLine |-> FirstLine(visited, ownCode),
      signatureLine |-> FirstLine(visited, LAMBDA n : IsCall(n, SignatureChecks)),
      activeInputValueLine |-> FirstLine(visited, activeValue),
      trivialContinuityLine |-> FirstLine(visited, TrivialContinuity),
      forwardedRefLine |-> [fp \in UNION {ForwardedRef(visited[i].node, aliases) :
                                          i \in DOMAIN visited} |->
                             FirstLine(visited, LAMBDA n : fp \in ForwardedRef(n, aliases))]]

-----------------------------------------------------------------------------
(* The rules.  A warning is its rule and its line. *)
LINT_RULE_NAMES ==
  {"unconstrained-outputs", "dead-computed-value", "aggregate-only", "missing-continuity",
   "auth-only-spend", "missing-value-conservation", "per-active-input-conservation",
   "continuity-count-trivial", "state-bound-to-noncarrier", "forwarded-ref-uncontained"}

Warn(condition, rule, line) == IF condition THEN {[rule |-> rule, line |-> line]} ELSE {}

hasBalancedIdentity(c) == c.hasBalancedValueSum \/ c.hasBalancedCount

checkUnconstrainedOutputs(c) ==
  Warn((c.introspectsOutputField \/ c.callsOutputAggregate)
         /\ ~c.readsOutputCount /\ ~hasBalancedIdentity(c),
       "unconstrained-outputs", Or(c.outputFieldLine, c.outputAggregateLine))

checkDeadComputedValue(body) ==
  UNION {Warn(TRUE, "dead-computed-value", DeadStoreLine(x, body)) : x \in findDeadStores(body)}

checkAggregateOnly(c) ==
  Warn(c.callsAnyAggregate /\ ~c.introspectsOutputField /\ ~hasBalancedIdentity(c),
       "aggregate-only", c.anyAggregateLine)

checkMissingContinuity(c) ==
  Warn(c.readsOwnCodeScript /\ ~c.callsCodeScriptCount, "missing-continuity", c.ownCodeScriptLine)

checkAuthOnlySpend(c) ==
  Warn(c.callsSignatureCheck /\ ~c.introspectsAnything, "auth-only-spend", c.signatureLine)

\* Mutant: the last output of the bound is not looked at.
MutEveryIndexPinned(pinned, n) == \A i \in 0 .. n - 2 : i \in pinned
everyIndexPinned(pinned, n) == \A i \in 0 .. n - 1 : i \in pinned

FullyPinnedSweep(c) ==
  /\ \E bound \in c.outputCountBound : bound > 0 /\ everyIndexPinned(c.pinnedOutputIndices, bound)
  /\ ~c.carriesRefForward

checkMissingValueConservation(c) ==
  Warn(/\ c.pinsOutputField \/ c.usesPushRef \/ c.callsOutputAggregate
       /\ ~c.hasBalancedValueSum /\ ~c.hasInputOutputValueRelation
       /\ ~FullyPinnedSweep(c),
       "missing-value-conservation",
       Or(Or(c.outputFieldLine, c.outputAggregateLine), c.anyAggregateLine))

checkPerActiveInputConservation(c) ==
  Warn(c.readsActiveInputValue /\ ~c.callsInputAggregate /\ ~c.constrainsInputCount,
       "per-active-input-conservation", c.activeInputValueLine)

checkTrivialContinuity(c) ==
  Warn(c.trivialContinuityLine # 0 /\ ~c.pinsNullDataOutput,
       "continuity-count-trivial", c.trivialContinuityLine)

checkStateBoundToNoncarrier(c, body) ==
  UNION {Warn(\E carrier \in c.codeScriptPinIndices :
                c.codeScriptPinIndices = {carrier} /\ j # carrier,
              "state-bound-to-noncarrier", StateBindLine(j, Visited(body))) :
         j \in c.stateBindIndices}

checkForwardedRefUncontained(c) ==
  UNION {Warn(TRUE, "forwarded-ref-uncontained", c.forwardedRefLine[fp]) :
         fp \in c.forwardedRefs \ c.containedRefs}

(* What the rules make of the facts c of a body, and analyzeBody.  *)
runRules(c, body) ==
  [facts |-> c,
   dead |-> findDeadStores(body),
   warnings |->
     checkUnconstrainedOutputs(c) \cup checkDeadComputedValue(body) \cup checkAggregateOnly(c)
     \cup checkMissingContinuity(c) \cup checkAuthOnlySpend(c)
     \cup checkMissingValueConservation(c) \cup checkPerActiveInputConservation(c)
     \cup checkTrivialContinuity(c) \cup checkStateBoundToNoncarrier(c, body)
     \cup checkForwardedRefUncontained(c)]
analyzeBody(body) == runRules(Facts(body), body)
==========================================================================
