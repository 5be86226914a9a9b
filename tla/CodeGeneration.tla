---------------------------- MODULE CodeGeneration ----------------------------
(***************************************************************************)
(* packages/cashc/src/generation/GenerateTargetTraversal.ts: the code      *)
(* generator visits the accepted contract and keeps a symbolic stack of    *)
(* names, from which it takes the depths it emits.                         *)
(*                                                                         *)
(* The operations it emits are executed at once on a ScriptMachine, along  *)
(* one path of the contract: every branch on that path may go either way,  *)
(* and one function is selected.  Next to it runs the contract itself: env *)
(* holds what each variable stands for.  A value is named for where it     *)
(* comes from, an argument or the node that computes it, so two values are *)
(* equal only if they are the same one.                                    *)
(***************************************************************************)
EXTENDS SemanticAnalysis, ScriptMachine

VARIABLES
    at,          \* the node to visit next
    stack,       \* this.stack: the symbolic stack, top first
    stackCopy,   \* visitContract's copy of it, restored after each function
    depths,      \* stackDepth of each visitBranch in progress: this.scopeDepth of them
    usedSymbols,
    crashed,     \* getStackIndex has thrown
    machine,     \* the script machine, before a trailing OP_VERIFY
    verify,      \* is OP_VERIFY the last operation emitted?
    taken,       \* for each open OP_IF: does the path execute this side of it?
    selected,    \* the function the path calls
    env,         \* what each variable stands for
    meant,       \* what the last expression on the path should have computed with
    lastRun      \* the kind of the last statement on the path

generator == <<at, stack, stackCopy, depths, usedSymbols, crashed>>
path      == <<machine, verify, taken, selected, env, meant, lastRun>>
vars      == <<analysis, generator, path>>

Argument(name) == <<name, 0>>
Computed(i)    == <<"first", i>>
ComputedToo(i) == <<"second", i>>
Selector       == <<"$$", 0>>
Value          == "(value)"   \* the name of an unnamed slot

Values(names) == [i \in DOMAIN names |-> Argument(names[i])]

\* Neither is an identifier.
ASSUME SlotsAssumption == \A h \in Headers : {Value, "$$"} \cap NamesOf(h) = {}

\* What is in a slot of the symbolic stack and of the machine's.
Slots    == Names \cup {Value, "$$"}
Contents == ((Names \cup {"$$", "OP_1"}) \X {0}) \cup ({"first", "second"} \X Nat) \cup {Missing}
Machines == [main : Seq(Contents), alt : Seq(Contents), operands : Seq(Contents)]

TypeOK ==
    /\ AnalysisTypeOK
    /\ at \in 1 .. header.maxNodes + 1
    /\ {stack, stackCopy} \subseteq Seq(Slots)
    /\ depths \in Seq(Nat)
    /\ usedSymbols \subseteq Names \X (0 .. header.maxNodes)
    /\ {crashed, verify} \subseteq BOOLEAN
    /\ machine \in Machines
    /\ taken \in Seq(BOOLEAN)
    /\ selected \in 0 .. Len(Functions)
    /\ env \in [Names -> Contents]
    /\ lastRun \in Kinds

\* createInputScript of the SDK pushes the arguments in reverse order and the
\* selector last; rad-scryptlib is external, its order is the one the comments in
\* the compiler refer to.  Top first, with the selector only if there is a choice.
Arguments ==
    LET own      == IF selected = 0 THEN <<>> ELSE Functions[selected]
        selector == IF Len(Functions) > 1 THEN <<Selector>> ELSE <<>>
    IN  IF header.argumentOrder = "sdk"
          THEN selector \o Values(own \o Params)
          ELSE Values(Reverse(Params)) \o selector \o Values(Reverse(own))

\* visitParameter: the parameters of the function clause; inline ones get no slot
Init ==
    /\ AnalysisInit
    /\ at = 1
    /\ stack = Reverse(Params) /\ stackCopy = <<>>
    /\ depths = <<>>
    /\ usedSymbols = {}
    /\ crashed = FALSE
    /\ selected \in (IF Functions = <<>> THEN {0} ELSE DOMAIN Functions)
    /\ machine = [main |-> Arguments, alt |-> <<>>, operands |-> <<>>]
    /\ verify = FALSE
    /\ taken = <<>>
    /\ env = [name \in Names |-> Argument(name)]
    /\ meant = <<>>
    /\ lastRun = "function"

-----------------------------------------------------------------------------
Live    == \A i \in DOMAIN taken : taken[i]
Settled == IF verify /\ Live THEN Run(machine, <<<<"DROP">>>>) ELSE machine
Node    == program[at]

\* getStackIndex
StackIndex(names, name) == SelectInSeq(names, LAMBDA n : n = name) - 1

Times(n, op)     == [i \in 1 .. n |-> op]
InTurn(n, a, b) == [i \in 1 .. 2 * n |-> IF i % 2 = 1 THEN a ELSE b]

\* Execute operations on the machine, if the path does.
Execute(ops) == machine' = IF Live THEN Run(Settled, ops) ELSE machine

\* The traversal goes on to the next node.
Visited ==
    /\ phase = "generate"
    /\ at' = at + 1
    /\ phase' = IF at = Len(program) THEN "done" ELSE "generate"
    /\ UNCHANGED <<header, program, tables, open, ends, crashed, selected>>

\* An Error that "Should not happen" ends the compilation.
Crash ==
    /\ phase = "generate"
    /\ crashed' = TRUE
    /\ phase' = "done"
    /\ UNCHANGED <<header, program, tables, open, ends, path>>
    /\ UNCHANGED <<at, stack, stackCopy, depths, usedSymbols>>

-----------------------------------------------------------------------------
(* Expressions.                                                            *)

\* isOpRoll for the k-th identifier of this node
IsOpRoll(name, k) ==
    /\ depths = <<>>
    /\ OpRoll(name, at) = at
    /\ \A later \in k + 1 .. Len(Node.operands) : Node.operands[later] # name

\* visitIdentifier; code is the symbolic stack, the operations so far, and whether
\* getStackIndex has thrown.
VisitIdentifier(code, k) ==
    LET name  == Node.operands[k]
        index == StackIndex(code.stack, name)
    IN  CASE name \in Inline ->
               [code EXCEPT !.stack = <<Value>> \o @,
                            !.ops = Append(@, <<"PUSH", <<Argument(name)>>>>)]
          [] name \notin Inline /\ index < 0 -> [code EXCEPT !.crashed = TRUE]
          [] name \notin Inline /\ index >= 0 /\ IsOpRoll(name, k) ->
               [code EXCEPT !.stack = <<Value>> \o Without(@, index),
                            !.ops = Append(@, <<"ROLL", index>>)]
          [] name \notin Inline /\ index >= 0 /\ ~IsOpRoll(name, k) ->
               [code EXCEPT !.stack = <<Value>> \o @, !.ops = Append(@, <<"PICK", index>>)]

\* The identifiers of the expression of this node, one after the other.
Identifiers ==
    LET visited[k \in 0 .. Len(Node.operands)] ==
          IF k = 0 THEN [stack |-> stack, ops |-> <<>>, crashed |-> FALSE]
                   ELSE VisitIdentifier(visited[k - 1], k)
    IN  visited[Len(Node.operands)]

\* An expression of this node that leaves results: its identifiers, then its
\* operators (visitBinaryOp, visitUnaryOp, visitFunctionCall, visitCast, ...).
Expression(results) ==
    LET n == Len(Node.operands)
    IN  [Identifiers EXCEPT !.stack = Times(Len(results), Value) \o From(@, n),
                            !.ops   = Append(@, <<"COMPUTE", n, results>>)]

OneResult == Expression(<<Computed(at)>>)

\* The history of a statement: what its expression stands for on the path.
Means ==
    /\ meant' = IF Live THEN [k \in DOMAIN Node.operands |-> env[Node.operands[k]]] ELSE meant
    /\ lastRun' = IF Live THEN Node.kind ELSE lastRun

Uses(names) == usedSymbols' = usedSymbols \cup
    {<<name, DeclarationOf(name, at)>> : name \in names \ Inline}

Becomes(name, value) == env' = IF Live THEN [env EXCEPT ![name] = value] ELSE env

-----------------------------------------------------------------------------
(* Statements.                                                             *)

\* A statement whose expression has been compiled to code.
Compile(code, ops, newStack) ==
    /\ ~code.crashed
    /\ Visited
    /\ Execute(code.ops \o ops)
    /\ stack' = newStack
    /\ Means
    /\ UNCHANGED stackCopy

GenerateDefinition ==
    LET code == OneResult
    IN  /\ Node.kind = "define"
        /\ Compile(code, <<>>, Node.targets \o Tail(code.stack))
        /\ Uses(Range(Node.operands))
        /\ Becomes(Node.targets[1], Computed(at))
        /\ verify' = FALSE
        /\ UNCHANGED <<depths, taken>>

\* .split() leaves its second part on top, so the second variable is pushed last.
TupleSlots == Reverse(Node.targets)

GenerateTupleAssignment ==
    LET code == Expression(<<ComputedToo(at), Computed(at)>>)
    IN  /\ Node.kind = "tuple"
        /\ Compile(code, <<>>, TupleSlots \o From(code.stack, 2))
        /\ Uses(Range(Node.operands))
        /\ env' = IF Live THEN [env EXCEPT ![Node.targets[1]] = Computed(at),
                                           ![Node.targets[2]] = ComputedToo(at)] ELSE env
        /\ verify' = FALSE
        /\ UNCHANGED <<depths, taken>>

\* one OP_SWAP short
MutEmitReplace(index) == <<<<"ROLL", index>>, <<"DROP">>>>

\* emitReplace: the value on top replaces the slot at a depth of index
EmitReplace(index) ==
    <<<<"ROLL", index>>, <<"DROP">>>>
      \o (IF index < 2 THEN <<>>
            ELSE InTurn(index - 2, <<"SWAP">>, <<"TOALTSTACK">>) \o <<<<"SWAP">>>>
                   \o Times(index - 2, <<"FROMALTSTACK">>))

\* a branch makes no difference
MutReplaces(name) ==
    InStateScript(at) /\ <<name, DeclarationOf(name, at)>> \in CodeScriptIdentifiers

\* In a branch the slot of the variable is overwritten, elsewhere the name moves to
\* a new slot; in the state script only variables of the code script are
\* overwritten.
Replaces(name) ==
    \/ depths # <<>>
    \/ InStateScript(at) /\ <<name, DeclarationOf(name, at)>> \in CodeScriptIdentifiers

GenerateAssign ==
    LET name  == Node.targets[1]
        code  == OneResult
        index == StackIndex(code.stack, name)
    IN  /\ Node.kind = "assign"
        /\ \/ /\ Replaces(name) /\ index >= 0
              /\ Compile(code, EmitReplace(index), Tail(code.stack))
           \/ /\ ~Replaces(name)
              /\ Compile(code, <<>>, <<name>> \o Tail(code.stack))
        /\ usedSymbols' = usedSymbols \cup
             {<<n, DeclarationOf(n, at)>> : n \in (Range(Node.operands) \ Inline) \cup {name}}
        /\ Becomes(name, Computed(at))
        /\ verify' = FALSE
        /\ UNCHANGED <<depths, taken>>

GenerateRequire ==
    LET code == OneResult
    IN  /\ Node.kind = "require"
        /\ Compile(code, <<>>, Tail(code.stack))
        /\ Uses(Range(Node.operands))
        /\ verify' = TRUE
        /\ UNCHANGED <<depths, taken, env>>

GenerateTimeOp ==
    LET code == OneResult
    IN  /\ Node.kind = "time"
        /\ Compile(code, <<<<"DROP">>>>, Tail(code.stack))
        /\ Uses(Range(Node.operands))
        /\ verify' = FALSE
        /\ UNCHANGED <<depths, taken, env>>

\* getStackIndex throws for an identifier, for the target of an assignment or for
\* the variable of an unset statement.
ShouldNotHappen ==
    /\ \/ /\ Node.kind \in StatementKinds
          /\ OneResult.crashed
       \/ /\ Node.kind = "assign"
          /\ Replaces(Node.targets[1]) /\ StackIndex(OneResult.stack, Node.targets[1]) < 0
       \/ /\ Node.kind = "unset"
          /\ StackIndex(stack, Node.targets[1]) < 0
    /\ Crash

UnsetSlot(index) == <<<<"ROLL", index>>, <<"DROP">>>>

GenerateUnset ==
    LET index == StackIndex(stack, Node.targets[1])
    IN  /\ Node.kind = "unset" /\ index >= 0
        /\ Visited
        /\ Execute(UnsetSlot(index))
        /\ stack' = Without(stack, index)
        /\ verify' = FALSE
        /\ UNCHANGED <<stackCopy, depths, usedSymbols, taken, env, meant, lastRun>>

-----------------------------------------------------------------------------
(* Branches.                                                               *)

\* stackDepth, once the condition is popped
StackDepth(code) == Len(code.stack) - 1

\* visitBranch up to its if block
GenerateIf ==
    LET code == OneResult
    IN  /\ Node.kind = "if"
        /\ Compile(code, <<<<"DROP">>>>, Tail(code.stack))
        /\ Uses(Range(Node.operands))
        /\ depths' = <<StackDepth(code)>> \o depths
        /\ \E side \in (IF Live THEN BOOLEAN ELSE {FALSE}) : taken' = <<side>> \o taken
        /\ verify' = FALSE
        /\ UNCHANGED env

\* the slots stay
MutScoped == 0

\* slots above the depth of before the block
Scoped == Max({0, Len(stack) - Head(depths)})

\* removeScopedVariables, and what follows the block
LeaveBlock ==
    /\ Visited
    /\ Execute(Times(Scoped, <<"DROP">>))
    /\ stack' = From(stack, Scoped)
    /\ verify' = FALSE
    /\ UNCHANGED <<stackCopy, usedSymbols, env, meant, lastRun>>

GenerateElse ==
    /\ Node.kind = "else"
    /\ LeaveBlock
    /\ depths' = <<Len(stack) - Scoped>> \o Tail(depths)
    /\ taken' = <<~Head(taken)>> \o Tail(taken)

GenerateEndIf ==
    /\ Node.kind = "endif"
    /\ LeaveBlock
    /\ depths' = Tail(depths)
    /\ taken' = Tail(taken)

-----------------------------------------------------------------------------
(* The state script, the functions and the end of a body.                  *)

\* visitStateScript drops the slots of the names it used, if their symbols are not
\* used by the code script.
DeadNames == {symbol[1] : symbol \in usedSymbols \ CodeScriptIdentifiers}

Dropped(k) == k <= Len(stack) /\ stack[k] \in DeadNames

Kept(slots) ==
    LET kept[k \in 0 .. Len(slots)] ==
          IF k = 0 THEN <<>>
            ELSE kept[k - 1] \o IF Dropped(k) THEN <<>> ELSE <<slots[k]>>
    IN  kept[Len(slots)]

GenerateStateSeparator ==
    /\ Node.kind = "separator"
    /\ Visited
    /\ machine' = [Settled EXCEPT !.main = Kept(@)]
    /\ stack' = Kept(stack)
    /\ verify' = FALSE
    /\ UNCHANGED <<stackCopy, depths, usedSymbols, taken, env, meant, lastRun>>

\* pushToStack('$$', true)
WithSelector(slots) == Append(slots, "$$")

\* One element of visitContract's map, up to the body: with several functions it
\* compares the selector, and only the last one consumes it.
GenerateFunction ==
    LET f       == FunctionOf(at)
        many    == Len(Functions) > 1
        slots   == IF many /\ f = 1 THEN WithSelector(stack) ELSE stack
        index   == StackIndex(slots, "$$")
        isLast  == f = Len(Functions)
        compare == <<<<"COMPUTE", 1, <<>>>>>>
    IN  /\ Node.kind = "function"
        /\ Visited
        /\ Execute(IF ~many THEN <<>>
                   ELSE <<<<IF isLast THEN "ROLL" ELSE "PICK", index>>>> \o compare)
        /\ meant' = IF many /\ Live THEN <<Selector>> ELSE meant
        /\ taken' = <<Live /\ f = selected>>
        /\ env' = IF Live /\ f = selected
                    THEN [name \in Names |-> IF name \in Range(Node.targets) THEN Argument(name)
                                                                           ELSE env[name]]
                    ELSE env
        /\ stackCopy' = slots
        /\ stack' = (IF many /\ isLast THEN Without(slots, index) ELSE slots)
                      \o Reverse(Node.targets)
        /\ verify' = FALSE
        /\ UNCHANGED <<depths, usedSymbols, lastRun>>

\* removeFinalVerify takes a trailing OP_VERIFY back if the stack is small; otherwise
\* OP_1 is the result.
KeepsValue == verify /\ Len(stack) < 4

\* the loop stops one early
MutCleanStack == Times(IF stack = <<>> THEN 0 ELSE Len(stack) - 1, <<"NIP">>)

\* cleanStack: everything below the result is removed
CleanStack == Times(Len(stack), <<"NIP">>)

StackAfter == IF Len(Functions) > 1 THEN stackCopy ELSE <<Value>>

GenerateEnd ==
    LET before == IF KeepsValue THEN machine
                    ELSE Run(Settled, <<<<"PUSH", <<<<"OP_1", 0>>>>>>>>)
    IN  /\ Node.kind = "end"
        /\ Visited
        /\ machine' = IF Live THEN Run(before, CleanStack) ELSE machine
        /\ stack' = StackAfter
        /\ verify' = FALSE
        /\ taken' = <<FunctionOf(at) < selected>>
        /\ UNCHANGED <<stackCopy, depths, usedSymbols, env, meant, lastRun>>

-----------------------------------------------------------------------------
Generate ==
    \/ GenerateDefinition \/ GenerateTupleAssignment \/ GenerateAssign
    \/ GenerateRequire \/ GenerateTimeOp \/ GenerateUnset
    \/ GenerateIf \/ GenerateElse \/ GenerateEndIf
    \/ GenerateStateSeparator \/ GenerateFunction \/ GenerateEnd
    \/ ShouldNotHappen

Next ==
    \/ Analyse /\ UNCHANGED <<generator, path>>
    \/ phase = "generate" /\ Generate

Spec == Init /\ [][Next]_vars

-----------------------------------------------------------------------------
(* What the emitted code is worth.                                         *)

Following == phase = "generate" /\ Live

\* Arguments below the symbolic stack that no function has named yet.
Unnamed ==
    IF FunctionOf(at - 1) = selected THEN 0
      ELSE Len(Functions[selected])
             + (IF Len(Functions) > 1 /\ FunctionOf(at - 1) = 0 THEN 1 ELSE 0)

\* Variables the path may still mention.
Needed ==
    {name \in Names \ Inline :
       \E i \in at .. Len(program) :
         /\ name \in Range(Mentions(i))
         /\ FunctionOf(i) \in {FunctionOf(at), selected, 0}
         /\ FunctionOf(at - 1) = 0 \/ FunctionOf(i) = FunctionOf(at - 1)
         /\ DeclarationOf(name, i) < at}

\* The symbolic stack is as deep as the machine's on every path to a node, whichever
\* branches were taken on the way: so the depths emitted for one path hold for all.
StacksAgree ==
    Following => Len(Settled.main) = Len(stack) + Unnamed /\ Settled.alt = <<>>

\* No traversal resolves the identifier of an unset statement, so a contract that has
\* one may mention a variable it has dropped, or find a value it had before.
NoUnset == \A i \in Nodes : ~IsNode(i, "unset")

\* What the state script drops is selected by symbol and dropped by name, so with two
\* variables of one name it may drop the one the code script still needs.
Regular == NoUnset /\ StateNamesOnce

\* A variable that is still mentioned is found, at the depth the generator would
\* emit, with the value it was last given on this path: rolling it away at its last
\* use, replacing it in a branch and dropping scoped or state variables never
\* strikes one that is needed.
SlotsHoldVariables ==
    Following /\ Regular => \A name \in Needed :
      LET index == StackIndex(stack, name)
      IN  index >= 0 /\ At(Settled.main, index) = env[name]

\* Every operator computes with the values the contract says, in their order.
OperandsAreMeant == Regular => machine.operands = meant

\* A branch the writer left empty: its last statement is none.
SomeEmptyBlock ==
    \E i \in 1 .. Len(program) - 1 :
      program[i].kind \in {"if", "else"} /\ program[i + 1].kind \in {"else", "endif"}

\* A path that was not aborted ends with nothing on the stacks but its result, OP_1 or
\* the value its last require() checks (the clean stack rule of the network); and a
\* check is the last thing it does, whichever branches it took, unless one is empty.
CleanFinish ==
    phase = "done" /\ ~crashed =>
      /\ machine.alt = <<>>
      /\ SomeEmptyBlock \/ lastRun \in {"require", "time"}
      /\ \/ machine.main = <<<<"OP_1", 0>>>>
         \/ \E i \in Nodes : IsNode(i, "require") /\ machine.main = <<Computed(i)>>

\* The comment in getStackIndex: "Should not happen".  What the analysis accepts, the
\* generator compiles.
NeverCrashes == Regular => ~crashed

\* The comment in ensureFinalStatementIsRequire: "If the final statement is a branch
\* node, then both branches need to end with a require()."
EveryPathRequires ==
    phase = "done" /\ ~crashed => lastRun \in {"require", "time"}
=============================================================================
