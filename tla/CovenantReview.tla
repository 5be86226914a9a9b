-------------------------- MODULE CovenantReview --------------------------
(* An author writes the body of a function and comments, line by line, and   *)
(* compiles it (compiler.ts); what the lint then reports is held against what *)
(* the function demands of transactions.                                     *)
EXTENDS LintSuppressions, CovenantMeaning

CONSTANTS Statements,      \* what the author may write
          Probes,          \* statements that fill a body on their own
          Comments,        \* directives the author may write
          Commented,       \* the statements of a text that has one
          MaxWeight,       \* bound: statements and comments in a text
          Transactions,    \* small transactions that spend the coin
          Environments     \* values of the parameters

VARIABLES lines,    \* the text: on each line a statement or None, a comment or NoComment
          report    \* what the last compileString gave
vars == <<lines, report>>

CommentsOf(text) == [i \in DOMAIN text |-> text[i].comment]
BodyOf(text) ==
  LET numbered == [i \in DOMAIN text |-> [line |-> i, statement |-> text[i].statement]]
  IN  SelectSeq(numbered, LAMBDA l : l.statement # None)
Body == BodyOf(lines)

Weight(text) ==
  Len(BodyOf(text)) + Cardinality({i \in DOMAIN text : text[i].comment # NoComment})

-----------------------------------------------------------------------------
(* What the passes before the lint let through: names are declared once and  *)
(* before they are read, every local is read, the last statement requires.   *)
Declared(body) == DOMAIN Types(body)
Operands(statement) ==   \* the names a statement reads or assigns
  LET nodes == Preorder(statement)
  IN  {nodes[i].name : i \in {j \in DOMAIN nodes :   \* and not the name of what is called
         /\ nodes[j].node = "Identifier"
         /\ j = 1 \/ nodes[j - 1].node \notin {"FunctionCall", "Instantiation"}}}

InScope(statement, body) ==
  /\ Operands(statement) \subseteq Declared(body)
  /\ statement.node = "VariableDefinition" => statement.name \notin Declared(body)

Compiles(body) ==
  /\ body # <<>>
  /\ body[Len(body)].statement.node = "Require"
  /\ \A i \in DOMAIN body : body[i].statement.node = "VariableDefinition" =>
       \E j \in DOMAIN body : body[i].statement.name \in Operands(body[j].statement)

-----------------------------------------------------------------------------
Unlinted == [facts |-> [linted |-> FALSE], dead |-> {}, warnings |-> {}]
Unreported == [mode |-> "none", status |-> "none", lint |-> Unlinted, warnings |-> {}]

Init == lines = <<>> /\ report = Unreported

WriteStatement(statement) ==
  /\ report = Unreported
  /\ Weight(lines) < MaxWeight
  /\ InScope(statement, Body)
  /\ (\E i \in DOMAIN lines : lines[i].comment # NoComment) => statement \in Commented
  /\ lines' = Append(lines, [statement |-> statement, comment |-> NoComment])
  /\ UNCHANGED report

(* A comment on a line of its own, or after the statement of the last line. *)
WriteComment(comment) ==
  /\ report = Unreported
  /\ Weight(lines) < MaxWeight
  /\ \A i \in DOMAIN Body : Body[i].statement \in Commented
  /\ \/ lines' = Append(lines, [statement |-> None, comment |-> comment])
     \/ /\ lines # <<>> /\ lines[Len(lines)].comment = NoComment
        /\ lines' = [lines EXCEPT ![Len(lines)].comment = comment]
  /\ UNCHANGED report

(* What the author gets: an artifact, or in mode error no more than the error. *)
Result(mode, lint, kept) ==
  [mode |-> mode, lint |-> lint, warnings |-> kept,
   status |-> IF mode = "error" /\ kept # {} THEN "CovenantLintError" ELSE "artifact"]
Reviewed(mode, lint) == Result(mode, lint, applySuppressions(lint.warnings, CommentsOf(lines)))

compileString(mode) ==
  /\ report = Unreported
  /\ Compiles(Body)
  /\ report' = IF mode = "off" THEN Result(mode, Unlinted, {})
               ELSE Reviewed(mode, analyzeBody(Body))
  /\ UNCHANGED lines

Open == lines # <<>> => lines[1].statement \notin Probes

Next ==
  \/ report = Unreported /\ Open /\ \E s \in Statements : WriteStatement(s)
  \/ lines = <<>> /\ \E s \in Probes : WriteStatement(s)
  \/ \E c \in Comments : WriteComment(c)
  \/ \E mode \in {"off", "warn", "error"} : compileString(mode)

Spec == Init /\ [][Next]_vars

-----------------------------------------------------------------------------
(* The lint reads comparisons wherever they stand.  It can only mean what it *)
(* says of a function in which every comparison is demanded: no branch, no   *)
(* disjunction or negation, no comparison that is only computed, and no name *)
(* that changes its value.                                                   *)
IsComparison(n) == n.node = "BinaryOp" /\ n.operator \in Comparisons
Straight == \A i \in DOMAIN Body : Body[i].statement.node # "Branch"
Demanding(statement) ==
  LET nodes == Preorder(statement)
  IN  /\ \A i \in DOMAIN nodes : nodes[i].node = "BinaryOp" => nodes[i].operator # "||"
      /\ statement.node # "Require" => \A i \in DOMAIN nodes : ~IsComparison(nodes[i])
Demanded == Straight /\ \A i \in DOMAIN Body : Demanding(Body[i].statement)
Plain == Demanded /\ \A i \in DOMAIN Body : Body[i].statement.node # "Assign"

Linted == report.mode = "warn"   \* the facts are those of the other modes
facts == report.lint.facts
dead == report.lint.dead
Accepted(env) ==
  LET body == Body IN {tx \in InRange(body, Transactions) : Accepts(body, tx, env)}
Nodes == LET visited == Visited(Body) IN {visited[i].node : i \in DOMAIN visited}
FinalValue(n, tx, env) == Value(n, tx, Run(Body, tx, env).env)

OneFamily ==   \* of sums: a ref hash and a code script hash have the same type
  \E f \in ValueSums : \A n \in Nodes :
    IsCall(n, InputValueSums \cup OutputValueSums) => IsCall(n, Both({f}))

(* A balanced *ValueSum identity is why `missing-value-conservation` stays   *)
(* silent: every transaction such a function accepts has as much value in    *)
(* its outputs as in its inputs for some key the function names on both sides. *)
Conserved(tx, env) ==
  \E a \in {n \in Nodes : IsCall(n, InputValueSums)},
     b \in {n \in Nodes : IsCall(n, OutputValueSums)} :
    /\ FinalValue(a.parameters[1], tx, env) = FinalValue(b.parameters[1], tx, env)
    /\ FinalValue(a, tx, env) = FinalValue(b, tx, env)
ConservedAsClaimed ==
  Linted /\ Plain /\ facts.hasBalancedValueSum /\ OneFamily =>
    \A env \in Environments : \A tx \in Accepted(env) : Conserved(tx, env)

(* The same of a function that assigns, for any key one of its names ever     *)
(* stood for: "A `KeyFingerprint` is a stable string that is EQUAL across two  *)
(* aggregate arguments iff we can prove they denote the same key"             *)
(* (CovenantLintTraversal.ts:252).  It does not hold.                         *)
KeysNamed(tx, env) ==
  UNION {LET now == Run(SubSeq(Body, 1, i), tx, env).env
         IN  {now[x] : x \in {y \in DOMAIN now : Types(Body)[y] = "bytes32"}} :
         i \in 0 .. Len(Body)}
ConservedThroughAssignments ==
  Linted /\ Demanded /\ facts.hasBalancedValueSum /\ OneFamily =>
    \A env \in Environments : \A tx \in Accepted(env) :
      \E key \in KeysNamed(tx, env) :
        \E a \in {n \in Nodes : IsCall(n, InputValueSums)},
           b \in {n \in Nodes : IsCall(n, OutputValueSums)} :
          Aggregate(a, key, tx) = Aggregate(b, key, tx)

(* A bound on tx.inputs.length silences `per-active-input-conservation` only  *)
(* when no accepted transaction spends a second coin along with this one.     *)
CoSpendForbidden ==
  Linted /\ Plain /\ facts.constrainsInputCount =>
    \A env \in Environments : \A tx \in Accepted(env) : Len(tx.inputs) = 1

(* In a bounded sweep the parameters alone decide how many outputs there are  *)
(* and which code guards each of them: nothing is left to a spender.  A pin   *)
(* of the state script alone does not do this, so it is left out here.        *)
SweepLeavesNoChoice ==
  Linted /\ Plain /\ FullyPinnedSweep(facts) /\ facts.stateBindIndices = {} =>
    \A env \in Environments :
      Cardinality({[i \in DOMAIN tx.outputs |-> tx.outputs[i].code] : tx \in Accepted(env)}) <= 1

(* `continuity-count-trivial` is reported exactly for a count compared with a *)
(* number so that it must be zero, or so that every count will do.            *)
SomeCounts == 0 .. 5   \* beyond every number the texts compare with
CountsThatPass(n) ==
  {k \in SomeCounts : IF asCountAggregate(n.left) THEN Compare(n.operator, k, n.right.int)
                                                  ELSE Compare(n.operator, n.left.int, k)}
TrivialMeansTrivial ==
  Linted =>
    (facts.trivialContinuityLine # 0 <=>
       \E n \in Nodes : /\ IsComparison(n) /\ CountAgainstLiteral(n)
                        /\ CountsThatPass(n) \in {{0}, SomeCounts})

(* A forwarded ref the lint takes for contained lies in exactly as many       *)
(* outputs as the function compares its count with.  Only equalities fix it,  *)
(* and a count of the outputs without value does not see the others.          *)
Carriers(ref, tx) == Len(SelectSeq(tx.outputs, LAMBDA c : ref \in c.refs))
CountedByEquality ==
  \A n \in Nodes : IsComparison(n) =>
    /\ asRefOutputCount(n.left) \/ asRefOutputCount(n.right) => n.operator = "=="
    /\ ~IsCall(n.left, ZeroValueCounts)
    /\ ~IsCall(n.right, ZeroValueCounts)
Fixes(n, ref, tx, env) ==
  /\ IsComparison(n)
  /\ \/ IsCall(n.left, {"tx.outputs.refOutputCount"}) /\ FinalValue(n.left.parameters[1], tx, env) = ref
     \/ IsCall(n.right, {"tx.outputs.refOutputCount"}) /\ FinalValue(n.right.parameters[1], tx, env) = ref
  /\ FinalValue(n.left, tx, env) = Carriers(ref, tx)
  /\ FinalValue(n.right, tx, env) = Carriers(ref, tx)
ContainedAsClaimed ==
  Linted /\ Plain /\ CountedByEquality
    /\ facts.forwardedRefs \subseteq facts.containedRefs =>
    \A env \in Environments : \A tx \in Accepted(env) :
      \A n \in {m \in Nodes : m.node = "PushRef" /\ m.op \in {"pushInputRef", "requireInputRef"}} :
        \E m \in Nodes : Fixes(m, FinalValue(n.ref, tx, env), tx, env)

(* A number or flag that `dead-computed-value` does not name matters: with    *)
(* another last value some demand would come out differently, or a local that *)
(* is reported would.                                                         *)
LastWrite(x) == CHOOSE i \in Writes(x, Body) : \A j \in Writes(x, Body) : j <= i
WithValue(x, value) ==   \* the body with another last value for x
  [Body EXCEPT ![LastWrite(x)].statement.expression =
     IF Types(Body)[x] = "bool" THEN BoolLiteralNode(value = 1) ELSE IntLiteralNode(value)]
Matters(x, value, tx, env) ==
  LET as == Run(Body, tx, env)
      other == Run(WithValue(x, value), tx, env)
  IN  as.demands # other.demands \/ \E y \in dead : as.env[y] # other.env[y]
UnreportedValuesMatter ==
  Linted /\ Straight =>
    \A x \in {y \in Declared(Body) : Writes(y, Body) # {}} \ dead :
      \E env \in Environments, tx \in InRange(Body, Transactions), value \in 0 .. 2 : Matters(x, value, tx, env)

(* A warning that is found and not handed on is one whose own line a          *)
(* directive is about, which names its rule or none, unless the file is       *)
(* disabled; and a directive whose rule is misspelled always shows up.        *)
SilencedAsAsked ==
  report.mode \in {"warn", "error"} =>
    /\ \A w \in report.lint.warnings \ report.warnings :
         \E i \in DOMAIN lines :
           LET c == lines[i].comment
           IN  /\ c # NoComment
               /\ \/ c.form = "disable"
                  \/ /\ c.rule \in {AnyRule, w.rule}
                     /\ \/ c.form = "disable-line" /\ w.line = i
                        \/ c.form = "disable-next-line" /\ w.line = i + 1
    /\ \A i \in DOMAIN lines :
         LET c == lines[i].comment
         IN  c # NoComment /\ c.form # "disable" /\ c.rule \notin LINT_RULE_NAMES \cup {AnyRule} =>
               \E w \in report.warnings : w.rule = "unknown-lint-rule" /\ w.line = i
==========================================================================
