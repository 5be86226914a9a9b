--------------------------- MODULE SemanticAnalysis ---------------------------
(***************************************************************************)
(* packages/cashc/src/semantic: what SymbolTableTraversal and              *)
(* EnsureFinalRequireTraversal make of a contract.                         *)
(*                                                                         *)
(* The contract is written node by node, in the order the traversals visit *)
(* it, and a node is added only if neither of them would reject it, so     *)
(* every accepted contract within the bounds is reached.  A node is a      *)
(* statement, a bracket of a branch ("if", "else", "endif"), the           *)
(* separator of the state script, or a bracket of a body ("function",      *)
(* "end").  An expression is abstracted to the identifiers it mentions,    *)
(* in order: its operators are the code generator's business.              *)
(***************************************************************************)
EXTENDS Integers, Sequences, FiniteSets, SequencesExt

CONSTANT Headers  \* the contracts to be written, as records of what follows

StatementKinds == {"define", "tuple", "assign", "require", "time", "if"}

\* The identifiers a contract of the header may have.
NamesOf(h) ==
    h.inline \cup Range(h.params) \cup h.locals \cup UNION {Range(f) : f \in Range(h.functions)}

\* inline         the parameters of the contract, placed inline
\* params         the parameters of its function clause, in order
\* functions      the parameters of each returned function, in order
\* argumentOrder  who pushes the arguments: "rad-scryptlib" or "sdk"
\* and bounds on what is written under the header:
\* locals         names for variables
\* arities        numbers of identifiers in the expression of each kind of statement
\* assigned       names it assigns to
\* unsettable     names it may unset
\* separateStates may it have a state script?
\* maxNodes       how long it may become
\* visitParameter rejects a parameter whose name is taken.
ASSUME HeadersAssumption ==
    \A h \in Headers :
      /\ {"inline", "params", "functions", "argumentOrder", "locals", "arities", "assigned",
          "unsettable", "separateStates", "maxNodes"} = DOMAIN h
      /\ h.params \in Seq(NamesOf(h)) /\ h.functions \in Seq(Seq(NamesOf(h)))
      /\ IsInjective(h.params) /\ \A f \in DOMAIN h.functions : IsInjective(h.functions[f])
      /\ h.inline \cap Range(h.params) = {}
      /\ h.unsettable \subseteq NamesOf(h)
      /\ h.argumentOrder \in {"rad-scryptlib", "sdk"}
      /\ h.arities \in [StatementKinds -> SUBSET Nat]
      /\ h.separateStates \in BOOLEAN
      /\ h.maxNodes \in Nat

\* What the theorems about the generator assume: either no contract of a header has a
\* branch or none has an unset statement, which in a branch would drop a slot on one
\* side of it only.
NoUnsetWithBranches == \A h \in Headers : h.unsettable = {} \/ h.arities["if"] = {}

\* And the theorems about values: the arguments are pushed in the order the compiled
\* code expects, and no parameter of the contract is assigned to.
ValuesTraceable(headers) ==
    \A h \in headers : h.argumentOrder = "rad-scryptlib" /\ h.assigned \cap h.inline = {}

VARIABLES
    header,  \* of the contract: never changes
    phase,   \* "analyse", then "generate", then "done"
    program, \* the nodes visited so far
    tables,  \* this.symbolTables without the global one: the names of each
    open,    \* "if" or "else" for each branch that is being visited
    ends     \* for each block: does it pass ensureFinalStatementIsRequire?

analysis == <<header, phase, program, tables, open, ends>>

Inline    == header.inline
Params    == header.params
Functions == header.functions
Names     == NamesOf(header)

Kinds == StatementKinds \cup {"unset", "else", "endif", "separator", "function", "end"}

AnalysisTypeOK ==
    /\ header \in Headers
    /\ phase \in {"analyse", "generate", "done"}
    /\ program \in Seq([kind : Kinds, targets : Seq(Names), operands : Seq(Names)])
    /\ tables \in Seq(SUBSET Names)
    /\ open \in Seq({"if", "else"})
    /\ ends \in Seq(BOOLEAN)

AnalysisInit ==
    /\ header \in Headers
    /\ phase = "analyse"
    /\ program = <<>>
    /\ tables = <<Inline \cup Range(Params)>>
    /\ open = <<>>
    /\ ends = <<TRUE>>

-----------------------------------------------------------------------------
(* What the traversals know of a node.                                     *)

Nodes == DOMAIN program

IsNode(i, kind) == program[i].kind = kind

\* SymbolTable.get
Visible == UNION Range(tables)

\* The identifiers the traversal resolves, in its order: visitAssign takes the
\* target first, and unset(x) is no reference to x.
Mentions(i) ==
    (IF IsNode(i, "assign") THEN program[i].targets ELSE <<>>) \o program[i].operands

\* The node that declares the name a mention at node i refers to; 0 for the
\* parameters of the contract.
DeclarationOf(name, i) ==
    Max({0} \cup {j \in Nodes : /\ j < i
                                /\ program[j].kind \in {"define", "tuple", "function"}
                                /\ name \in Range(program[j].targets)})

Referenced(name) ==
    \E i \in Nodes : i > DeclarationOf(name, Len(program) + 1) /\ name \in Range(Mentions(i))

\* 0 for the statements before the returned functions
FunctionOf(i) == Cardinality({j \in 1 .. i : IsNode(j, "function")})

\* opRolls: the node that holds the last mention of the name in the function of
\* node i, or in all of the contract for a statement outside the functions.
OpRoll(name, i) ==
    Max({j \in Nodes : /\ name \in Range(Mentions(j))
                       /\ FunctionOf(i) \in {0, FunctionOf(j)}})

Separators == {i \in Nodes : IsNode(i, "separator")}

InStateScript(i) == \E s \in Separators : i < s

\* A name is declared once in the state script, blocks included.
StateNamesOnce ==
    \A i, j \in Nodes :
      /\ i < j /\ InStateScript(j)
      /\ {program[i].kind, program[j].kind} \subseteq {"define", "tuple"}
      => Range(program[i].targets) \cap Range(program[j].targets) = {}

\* the set is cleared at the end of the contract
MutCodeScriptIdentifiers == {}

\* A symbol is a name with its declaration.  The set is cleared at the end of the
\* state script.
CodeScriptIdentifiers ==
    UNION {{<<name, DeclarationOf(name, i)>> : name \in Range(Mentions(i))} :
             i \in {j \in Nodes : ~InStateScript(j)}}

-----------------------------------------------------------------------------
(* The nodes.                                                              *)

Expressions(kind) == UNION {[1 .. n -> Visible] : n \in header.arities[kind]}

\* Add a node, with the tables, open branches and block results that follow.
Visit(kind, targets, operands) ==
    /\ phase = "analyse"
    /\ program' = Append(program, [kind |-> kind, targets |-> targets, operands |-> operands])

\* Between two functions there are no statements.
InBody == \A i \in Nodes : i = Len(program) => ~IsNode(i, "end")

\* A statement that leaves its block ending with a require, or not.
Statement(kind, targets, operands, isRequire) ==
    /\ InBody
    /\ Visit(kind, targets, operands)
    /\ ends' = <<isRequire>> \o Tail(ends)

Declare(names) == tables' = <<Head(tables) \cup names>> \o Tail(tables)

VisitVariableDefinition ==
    \E name \in header.locals \ Visible, expression \in Expressions("define") :
      /\ Statement("define", <<name>>, expression, FALSE)
      /\ Declare({name})
      /\ UNCHANGED <<phase, open>>

VisitTupleAssignment ==
    \E first, second \in header.locals \ Visible, expression \in Expressions("tuple") :
      /\ first # second
      /\ Statement("tuple", <<first, second>>, expression, FALSE)
      /\ Declare({first, second})
      /\ UNCHANGED <<phase, open>>

VisitAssign ==
    \E name \in header.assigned \cap Visible, expression \in Expressions("assign") :
      /\ Statement("assign", <<name>>, expression, FALSE)
      /\ UNCHANGED <<phase, tables, open>>

VisitRequire ==
    \E kind \in {"require", "time"} : \E expression \in Expressions(kind) :
      /\ Statement(kind, <<>>, expression, TRUE)
      /\ UNCHANGED <<phase, tables, open>>

\* The traversals do not look at the name of an unset statement.
VisitUnset ==
    \E name \in header.unsettable :
      /\ Statement("unset", <<name>>, <<>>, FALSE)
      /\ UNCHANGED <<phase, tables, open>>

-----------------------------------------------------------------------------
(* Branches and bodies.                                                    *)

\* SymbolTable.unusedSymbols of the innermost table is empty
AllUsed == \A name \in Head(tables) : Referenced(name)

\* an empty block passes, like a block that ends with a require
VisitIf ==
    \E expression \in Expressions("if") :
      /\ InBody
      /\ Visit("if", <<>>, expression)
      /\ tables' = <<{}>> \o tables
      /\ open' = <<"if">> \o open
      /\ ends' = <<TRUE>> \o ends
      /\ UNCHANGED phase

VisitElse ==
    /\ open # <<>> /\ Head(open) = "if"
    /\ AllUsed
    /\ Visit("else", <<>>, <<>>)
    /\ tables' = <<{}>> \o Tail(tables)
    /\ open' = <<"else">> \o Tail(open)
    /\ ends' = <<TRUE>> \o ends
    /\ UNCHANGED phase

\* A branch ends its block with a require if both of its blocks do; without an
\* else block it does not.
VisitEndIf ==
    /\ open # <<>>
    /\ AllUsed
    /\ Visit("endif", <<>>, <<>>)
    /\ tables' = Tail(tables)
    /\ open' = Tail(open)
    /\ ends' = IF Head(open) = "else"
                 THEN <<ends[1] /\ ends[2]>> \o SubSeq(ends, 4, Len(ends))
                 ELSE <<FALSE>> \o SubSeq(ends, 3, Len(ends))
    /\ UNCHANGED phase

\* The state script has at least one statement, and is not checked for a require.
VisitStateScript ==
    /\ header.separateStates
    /\ Separators = {} /\ program # <<>>
    /\ open = <<>> /\ FunctionOf(Len(program)) = 0
    /\ Visit("separator", <<>>, <<>>)
    /\ ends' = <<TRUE>>
    /\ UNCHANGED <<phase, tables, open>>

VisitFunctionDefinition ==
    LET f == FunctionOf(Len(program)) + 1
    IN  /\ f <= Len(Functions)
        /\ f = 1 \/ ~InBody
        /\ open = <<>>
        /\ Range(Functions[f]) \cap Visible = {}
        /\ Visit("function", Functions[f], <<>>)
        /\ tables' = <<Range(Functions[f])>> \o tables
        /\ ends' = <<TRUE>>
        /\ UNCHANGED <<phase, open>>

\* The body is not empty and passes ensureFinalStatementIsRequire.
VisitEnd ==
    LET last == FunctionOf(Len(program)) = Len(Functions)
    IN  /\ Functions # <<>> => FunctionOf(Len(program)) > 0
        /\ InBody /\ open = <<>>
        /\ program # <<>> /\ Last(program).kind \notin {"separator", "function"}
        /\ ends = <<TRUE>>
        /\ \A table \in (IF last THEN Range(tables) ELSE {Head(tables)}) :
             \A name \in table : Referenced(name)
        /\ Visit("end", <<>>, <<>>)
        /\ tables' = Tail(tables)
        /\ phase' = IF last THEN "generate" ELSE "analyse"
        /\ UNCHANGED <<open, ends>>

\* There is room for the brackets that are still to be closed.
Room ==
    Len(program) + Len(open) + (IF phase = "analyse" THEN 1 ELSE 0) <= header.maxNodes

Analyse ==
    /\ \/ VisitVariableDefinition \/ VisitTupleAssignment \/ VisitAssign
       \/ VisitRequire \/ VisitUnset
       \/ VisitIf \/ VisitElse \/ VisitEndIf
       \/ VisitStateScript \/ VisitFunctionDefinition \/ VisitEnd
    /\ UNCHANGED header
    /\ Room'
=============================================================================
