------------------------ MODULE SemanticAnalysisProofs ------------------------
(***************************************************************************)
(* What every contract the analysis accepts looks like: its brackets match *)
(* and its functions come in order.  The proofs about the code generator   *)
(* rest on it.                                                             *)
(***************************************************************************)
EXTENDS SemanticAnalysis, SumsProofs, FiniteSetTheorems, TLAPS

AnyNode == [kind : Kinds, targets : Seq(Names), operands : Seq(Names)]

\* Nodes of a kind among the first i of p, and branches open before the i-th.
Count(p, kind, i) == Cardinality({j \in 1 .. i : p[j].kind = kind})
Opened(p, i)      == Count(p, "if", i - 1) - Count(p, "endif", i - 1)

\* What holds of a node under so many open branches, in the f-th function, behind a
\* node of the kind before.
NodeFits(h, node, opened, f, before) ==
    /\ node.kind \in {"define", "assign", "unset"} => Len(node.targets) = 1
    /\ node.kind = "tuple" => Len(node.targets) = 2
    /\ node.kind \in {"else", "endif"} => opened > 0
    /\ node.kind \in {"unset", "separator", "function", "end"} => opened = 0
    /\ node.kind = "separator" => f = 0
    /\ node.kind = "function" => f <= Len(h.functions) /\ node.targets = h.functions[f]
    /\ node.kind = "function" => f = 1 \/ before = "end"
    /\ node.kind # "function" => before # "end"
    /\ node.kind = "end" => f > 0 \/ h.functions = <<>>

KindBefore(p, i) == IF i = 1 THEN "none" ELSE p[i - 1].kind

Structured(h, p) ==
    \A i \in 1 .. Len(p) : NodeFits(h, p[i], Opened(p, i), Count(p, "function", i), KindBefore(p, i))

\* The state while the contract is written.
Written ==
    /\ ~InBody => open = <<>> /\ FunctionOf(Len(program)) > 0
    /\ Len(tables) = 1 + Len(open) + (IF InBody /\ FunctionOf(Len(program)) > 0 THEN 1 ELSE 0)
    /\ ends # <<>>

AnalysisInv ==
    /\ AnalysisTypeOK
    /\ Len(program) <= header.maxNodes
    /\ Structured(header, program)
    /\ Len(open) = Opened(program, Len(program) + 1)
    /\ header.arities["if"] = {} => open = <<>>
    /\ phase = "analyse" => Written
    /\ phase # "analyse" => program # <<>>

-----------------------------------------------------------------------------
(* Counting.                                                               *)

LEMMA CountNext ==
  ASSUME NEW p, NEW kind, NEW i \in Nat
  PROVE  /\ Count(p, kind, i) \in Nat
         /\ Count(p, kind, 0) = 0
         /\ Count(p, kind, i + 1) = Count(p, kind, i) + (IF p[i + 1].kind = kind THEN 1 ELSE 0)
  <1> DEFINE Set(n) == {j \in 1 .. n : p[j].kind = kind}
  <1>1. \A n \in Nat : IsFiniteSet(Set(n)) /\ Cardinality(Set(n)) \in Nat
    <2> TAKE n \in Nat
    <2>1. IsFiniteSet(1 .. n) /\ Set(n) \subseteq 1 .. n
      BY FS_Interval
    <2> QED
      BY <2>1, FS_Subset, FS_CardinalityType
  <1>2. Set(0) = {}
    OBVIOUS
  <1>3. Cardinality(Set(0)) = 0
    BY <1>2, FS_EmptySet
  <1>4. ASSUME p[i + 1].kind = kind PROVE Cardinality(Set(i + 1)) = Cardinality(Set(i)) + 1
    <2>1. Set(i + 1) = Set(i) \cup {i + 1} /\ i + 1 \notin Set(i)
      BY <1>4
    <2>2. Cardinality(Set(i) \cup {i + 1}) = Cardinality(Set(i)) + 1
      BY <1>1, <2>1, FS_AddElement
    <2> QED
      BY <1>4, <2>1, <2>2
  <1>5. ASSUME p[i + 1].kind # kind PROVE Cardinality(Set(i + 1)) = Cardinality(Set(i)) + 0
    <2>1. Set(i + 1) = Set(i)
      BY <1>5
    <2> QED
      <3> HIDE DEF Set
      <3> QED
        BY <1>1, <2>1
  <1>6. \A n : Count(p, kind, n) = Cardinality(Set(n))
    BY DEF Count
  <1> HIDE DEF Set
  <1>7. Cardinality(Set(i + 1)) = Cardinality(Set(i)) + (IF p[i + 1].kind = kind THEN 1 ELSE 0)
    BY <1>4, <1>5
  <1> QED
    BY <1>1, <1>3, <1>6, <1>7

LEMMA CountAppended ==
  ASSUME NEW S, NEW p \in Seq(S), NEW node, NEW kind, NEW i \in Nat, i <= Len(p)
  PROVE  Count(Append(p, node), kind, i) = Count(p, kind, i)
  <1>1. \A j \in 1 .. i : Append(p, node)[j] = p[j]
    OBVIOUS
  <1>2. {j \in 1 .. i : Append(p, node)[j].kind = kind} = {j \in 1 .. i : p[j].kind = kind}
    BY <1>1
  <1> QED
    BY <1>2 DEF Count

LEMMA FunctionOfIsCount == \A i : FunctionOf(i) = Count(program, "function", i)
  BY DEF FunctionOf, Count, IsNode

\* A contract with one more node.
LEMMA StructuredAppended ==
  ASSUME NEW S, NEW p \in Seq(S), NEW h, Structured(h, p), NEW node \in S, NEW n, n = Len(p),
         NodeFits(h, node, Opened(p, n + 1),
                  Count(p, "function", n) + (IF node.kind = "function" THEN 1 ELSE 0),
                  KindBefore(p, n + 1))
  PROVE  /\ Structured(h, Append(p, node))
         /\ Opened(Append(p, node), n + 2) =
              Opened(p, n + 1) + (IF node.kind = "if" THEN 1 ELSE 0)
                - (IF node.kind = "endif" THEN 1 ELSE 0)
         /\ Count(Append(p, node), "function", n + 1) =
              Count(p, "function", n) + (IF node.kind = "function" THEN 1 ELSE 0)
  <1> DEFINE q == Append(p, node)
  <1>1. n \in Nat /\ Len(q) = n + 1 /\ q[n + 1] = node /\ \A i \in 1 .. n : q[i] = p[i]
    BY AppendProperties, LenProperties
  <1>2. \A kind : \A i \in 0 .. n : Count(q, kind, i) = Count(p, kind, i)
    BY CountAppended, <1>1
  <1>3. \A kind : /\ Count(q, kind, n + 1) =
                       Count(p, kind, n) + (IF node.kind = kind THEN 1 ELSE 0)
                  /\ Count(p, kind, n) \in Nat
    <2> HIDE DEF q
    <2> TAKE kind
    <2>0. n \in Nat /\ n \in 0 .. n
      BY <1>1
    <2>1. Count(q, kind, n + 1) = Count(q, kind, n) + (IF q[n + 1].kind = kind THEN 1 ELSE 0)
      BY <2>0, CountNext
    <2>2. Count(q, kind, n) = Count(p, kind, n) /\ Count(p, kind, n) \in Nat
      BY <2>0, <1>2, CountNext
    <2> QED
      BY <1>1, <2>1, <2>2
  <1>4. \A i \in 1 .. n + 1 : Opened(q, i) = Opened(p, i)
    <2> TAKE i \in 1 .. n + 1
    <2>1. i - 1 \in 0 .. n
      BY <1>1
    <2> QED
      BY <2>1, <1>2 DEF Opened
  <1>5. \A i \in 1 .. n + 1 : KindBefore(q, i) = KindBefore(p, i)
    BY <1>1 DEF KindBefore
  <1>6. ASSUME NEW i \in 1 .. n + 1
        PROVE  NodeFits(h, q[i], Opened(q, i), Count(q, "function", i), KindBefore(q, i))
    <2> HIDE DEF q
    <2>1. CASE i = n + 1
      BY <2>1, <1>1, <1>3, <1>4, <1>5
    <2>2. CASE i # n + 1
      <3>1. i \in 1 .. n /\ i \in 0 .. n
        BY <2>2, <1>1
      <3>2. NodeFits(h, p[i], Opened(p, i), Count(p, "function", i), KindBefore(p, i))
        BY <3>1, <1>1 DEF Structured
      <3> QED
        BY <3>1, <3>2, <1>1, <1>2, <1>4, <1>5
    <2> QED
      BY <2>1, <2>2
  <1>7. Structured(h, q)
    BY <1>1, <1>6 DEF Structured
  <1>8. Opened(q, n + 2) = Opened(p, n + 1) + (IF node.kind = "if" THEN 1 ELSE 0)
                             - (IF node.kind = "endif" THEN 1 ELSE 0)
    <2>1. n + 2 - 1 = n + 1 /\ n + 1 - 1 = n
      BY <1>1
    <2>2. PICK a, b : a = Count(p, "if", n) /\ b = Count(p, "endif", n)
      OBVIOUS
    <2>3. /\ Count(q, "if", n + 1) = a + (IF node.kind = "if" THEN 1 ELSE 0)
          /\ Count(q, "endif", n + 1) = b + (IF node.kind = "endif" THEN 1 ELSE 0)
          /\ a \in Nat /\ b \in Nat
      BY <1>3, <2>2
    <2> HIDE DEF q
    <2>4. Opened(q, n + 2) = Count(q, "if", n + 1) - Count(q, "endif", n + 1)
      BY <2>1 DEF Opened
    <2>5. Opened(p, n + 1) = a - b
      BY <2>1, <2>2 DEF Opened
    <2> QED
      BY <2>3, <2>4, <2>5
  <1> QED
    BY <1>3, <1>7, <1>8

-----------------------------------------------------------------------------
(* One node more.                                                          *)

LEMMA NodeAdded ==
  ASSUME AnalysisInv, phase = "analyse", header' = header, Room', open' \in Seq({"if", "else"}),
         phase' \in {"analyse", "generate", "done"},
         NEW node \in AnyNode, program' = Append(program, node),
         NodeFits(header, node, Len(open),
                  FunctionOf(Len(program)) + (IF node.kind = "function" THEN 1 ELSE 0),
                  KindBefore(program, Len(program) + 1))
  PROVE  /\ program' \in Seq(AnyNode') /\ program' # <<>>
         /\ Len(program') <= header'.maxNodes
         /\ Structured(header', program')
         /\ Opened(program', Len(program') + 1) =
              Len(open) + (IF node.kind = "if" THEN 1 ELSE 0)
                - (IF node.kind = "endif" THEN 1 ELSE 0)
         /\ FunctionOf(Len(program))' =
              FunctionOf(Len(program)) + (IF node.kind = "function" THEN 1 ELSE 0)
         /\ InBody' <=> node.kind # "end"
  <1>1. program \in Seq(AnyNode) /\ Len(program) \in Nat
    BY LenProperties DEF AnalysisInv, AnalysisTypeOK, AnyNode
  <1>2. AnyNode' = AnyNode
    BY DEF AnyNode, Names
  <1>3. program' \in Seq(AnyNode) /\ Len(program') = Len(program) + 1 /\ program' # <<>>
        /\ program'[Len(program')] = node
    BY <1>1, AppendProperties
  <1>4. Len(program') <= header'.maxNodes
    <2>1. Len(open') \in Nat /\ Len(program') \in Nat /\ header'.maxNodes \in Nat
      BY <1>3, LenProperties, HeadersAssumption DEF AnalysisInv, AnalysisTypeOK
    <2>2. PICK extra \in {0, 1} : Len(program') + Len(open') + extra <= header'.maxNodes
      BY DEF Room
    <2> QED
      BY <2>1, <2>2
  <1>5. Structured(header, program) /\ Opened(program, Len(program) + 1) = Len(open)
        /\ Count(program, "function", Len(program)) = FunctionOf(Len(program))
    BY FunctionOfIsCount DEF AnalysisInv
  <1>6. /\ Structured(header, Append(program, node))
        /\ Opened(Append(program, node), Len(program) + 2) =
             Opened(program, Len(program) + 1) + (IF node.kind = "if" THEN 1 ELSE 0)
               - (IF node.kind = "endif" THEN 1 ELSE 0)
        /\ Count(Append(program, node), "function", Len(program) + 1) =
             Count(program, "function", Len(program)) + (IF node.kind = "function" THEN 1 ELSE 0)
    BY <1>1, <1>5, StructuredAppended
  <1>7. FunctionOf(Len(program))' = Count(program', "function", Len(program'))
    BY DEF FunctionOf, Count, IsNode
  <1>8. Len(program) + 2 = Len(program') + 1
    BY <1>1, <1>3
  <1>9. InBody' <=> node.kind # "end"
    <2>1. DOMAIN program' = 1 .. Len(program')
      BY <1>3, LenProperties
    <2>2. Len(program') \in DOMAIN program'
      BY <2>1, <1>1, <1>3
    <2> QED
      BY <2>2, <1>3 DEF InBody, IsNode, Nodes
  <1> QED
    BY <1>2, <1>3, <1>4, <1>5, <1>6, <1>7, <1>8, <1>9

LEMMA InBodyIs ==
  ASSUME AnalysisTypeOK
  PROVE  InBody <=> KindBefore(program, Len(program) + 1) # "end"
  <1>1. Len(program) \in Nat /\ DOMAIN program = 1 .. Len(program)
    BY LenProperties DEF AnalysisTypeOK
  <1> QED
    BY <1>1 DEF InBody, IsNode, Nodes, KindBefore

LEMMA ExpressionType ==
  ASSUME AnalysisTypeOK
  PROVE  /\ Visible \subseteq Names
         /\ \A kind \in StatementKinds : \A e \in Expressions(kind) : e \in Seq(Names)
  <1>1. Visible \subseteq Names
    <2>1. Range(tables) \subseteq SUBSET Names
      BY RangeOfSeq DEF AnalysisTypeOK
    <2> QED
      BY <2>1 DEF Visible
  <1>2. ASSUME NEW kind \in StatementKinds, NEW e \in Expressions(kind) PROVE e \in Seq(Names)
    <2>1. header.arities[kind] \subseteq Nat
      BY HeadersAssumption DEF AnalysisTypeOK
    <2>2. PICK n \in Nat : e \in [1 .. n -> Visible]
      BY <2>1 DEF Expressions
    <2> QED
      BY <1>1, <2>2
  <1> QED
    BY <1>1, <1>2

\* Names that stay what they are.
LEMMA HeaderKept ==
  ASSUME header' = header
  PROVE  Names' = Names /\ AnyNode' = AnyNode
  BY DEF Names, AnyNode

\* Statements other than branches.
LEMMA StatementKeeps ==
  ASSUME AnalysisInv, header' = header, Room',
         NEW kind \in Kinds \ {"if", "else", "endif", "separator", "function", "end"},
         NEW targets \in Seq(Names), NEW operands \in Seq(Names), NEW isRequire \in BOOLEAN,
         Statement(kind, targets, operands, isRequire),
         kind \in {"define", "assign", "unset"} => Len(targets) = 1,
         kind = "tuple" => Len(targets) = 2,
         kind = "unset" => open = <<>>,
         UNCHANGED <<phase, open>>,
         tables' \in Seq(SUBSET Names), Len(tables') = Len(tables)
  PROVE  AnalysisInv'
  <1> DEFINE node == [kind |-> kind, targets |-> targets, operands |-> operands]
  <1>1. node \in AnyNode /\ program' = Append(program, node) /\ phase = "analyse" /\ InBody
        /\ ends' = <<isRequire>> \o Tail(ends)
    BY DEF Statement, Visit, AnyNode
  <1>2. KindBefore(program, Len(program) + 1) # "end"
    BY <1>1, InBodyIs DEF AnalysisInv
  <1>3. open = <<>> => Len(open) = 0
    OBVIOUS
  <1>4. NodeFits(header, node, Len(open),
                 FunctionOf(Len(program)) + (IF node.kind = "function" THEN 1 ELSE 0),
                 KindBefore(program, Len(program) + 1))
    BY <1>2, <1>3 DEF NodeFits
  <1>5. open' \in Seq({"if", "else"}) /\ phase' \in {"analyse", "generate", "done"}
    BY DEF AnalysisInv, AnalysisTypeOK
  <1>6. /\ program' \in Seq(AnyNode') /\ program' # <<>>
        /\ Len(program') <= header'.maxNodes
        /\ Structured(header', program')
        /\ Opened(program', Len(program') + 1) = Len(open) + 0 - 0
        /\ FunctionOf(Len(program))' = FunctionOf(Len(program)) + 0
        /\ InBody'
    <2> HIDE DEF node
    <2>1. /\ node.kind # "function" /\ node.kind # "if" /\ node.kind # "endif"
          /\ node.kind # "end"
      BY DEF node
    <2> QED
      BY <2>1, <1>1, <1>4, <1>5, NodeAdded
  <1>7. Len(open) \in Nat /\ FunctionOf(Len(program)) \in Nat
    BY LenProperties, CountNext, FunctionOfIsCount DEF AnalysisInv, AnalysisTypeOK
  <1>8. ends' \in Seq(BOOLEAN) /\ ends' # <<>>
    <2>1. ends \in Seq(BOOLEAN) /\ ends # <<>>
      BY <1>1 DEF AnalysisInv, AnalysisTypeOK, Written
    <2>2. Tail(ends) \in Seq(BOOLEAN) /\ <<isRequire>> \in Seq(BOOLEAN)
      BY <2>1
    <2>3. <<isRequire>> \o Tail(ends) \in Seq(BOOLEAN)
      BY <2>2, ConcatProperties
    <2>4. Len(<<isRequire>> \o Tail(ends)) = 1 + Len(Tail(ends)) /\ Len(Tail(ends)) \in Nat
      BY <2>2, ConcatProperties, LenProperties
    <2> QED
      BY <1>1, <2>3, <2>4
  <1>9. AnalysisTypeOK'
    BY <1>5, <1>6, <1>8, HeaderKept DEF AnalysisInv, AnalysisTypeOK, AnyNode
  <1>10. Written'
    BY <1>1, <1>6, <1>7, <1>8 DEF AnalysisInv, Written
  <1> QED
    BY <1>6, <1>7, <1>9, <1>10 DEF AnalysisInv

LEMMA DeclareType ==
  ASSUME AnalysisInv, phase = "analyse", NEW names \in SUBSET Names, Declare(names)
  PROVE  tables' \in Seq(SUBSET Names) /\ Len(tables') = Len(tables)
  <1>1. Len(tables) > 0 /\ Len(tables) \in Nat /\ tables \in Seq(SUBSET Names) /\ tables # <<>>
    <2>1. Len(tables) \in Nat /\ Len(open) \in Nat /\ tables \in Seq(SUBSET Names)
      BY LenProperties DEF AnalysisInv, AnalysisTypeOK
    <2>2. Len(tables) = 1 + Len(open) + 1 \/ Len(tables) = 1 + Len(open) + 0
      BY DEF AnalysisInv, Written
    <2>3. tables = <<>> => Len(tables) = 0
      OBVIOUS
    <2> QED
      BY <2>1, <2>2, <2>3
  <1>2. Head(tables) \in SUBSET Names /\ Tail(tables) \in Seq(SUBSET Names)
        /\ Len(Tail(tables)) = Len(tables) - 1
    BY <1>1, HeadTailProperties
  <1>3. <<Head(tables) \cup names>> \in Seq(SUBSET Names) /\ Len(<<Head(tables) \cup names>>) = 1
    BY <1>2
  <1> QED
    BY <1>1, <1>2, <1>3, ConcatProperties DEF Declare

LEMMA StatementsKeep ==
  ASSUME NoUnsetWithBranches, AnalysisInv, header' = header, Room',
         \/ VisitVariableDefinition \/ VisitTupleAssignment \/ VisitAssign
         \/ VisitRequire \/ VisitUnset
  PROVE  AnalysisInv'
  <1>1. header \in Headers /\ AnalysisTypeOK /\ tables \in Seq(SUBSET Names)
    BY DEF AnalysisInv, AnalysisTypeOK
  <1>2. header.locals \subseteq Names
    BY DEF Names, NamesOf
  <1>3. CASE VisitVariableDefinition
    <2>1. PICK name \in header.locals \ Visible, expression \in Expressions("define") :
            /\ Statement("define", <<name>>, expression, FALSE)
            /\ Declare({name})
            /\ UNCHANGED <<phase, open>>
      BY <1>3 DEF VisitVariableDefinition
    <2>2. expression \in Seq(Names) /\ <<name>> \in Seq(Names) /\ {name} \in SUBSET Names
          /\ Len(<<name>>) = 1
      BY <1>1, <1>2, ExpressionType DEF StatementKinds
    <2>3. phase = "analyse"
      BY <2>1 DEF Statement, Visit
    <2>4. tables' \in Seq(SUBSET Names) /\ Len(tables') = Len(tables)
      BY <2>1, <2>2, <2>3, DeclareType
    <2>5. "define" \in Kinds \ {"if", "else", "endif", "separator", "function", "end"}
      BY DEF Kinds, StatementKinds
    <2> QED
      BY <2>1, <2>2, <2>4, <2>5, StatementKeeps
  <1>4. CASE VisitTupleAssignment
    <2>1. PICK first \in header.locals \ Visible, second \in header.locals \ Visible,
               expression \in Expressions("tuple") :
            /\ Statement("tuple", <<first, second>>, expression, FALSE)
            /\ Declare({first, second})
            /\ UNCHANGED <<phase, open>>
      BY <1>4 DEF VisitTupleAssignment
    <2>2. expression \in Seq(Names) /\ <<first, second>> \in Seq(Names)
          /\ {first, second} \in SUBSET Names /\ Len(<<first, second>>) = 2
      BY <1>1, <1>2, ExpressionType DEF StatementKinds
    <2>3. phase = "analyse"
      BY <2>1 DEF Statement, Visit
    <2>4. tables' \in Seq(SUBSET Names) /\ Len(tables') = Len(tables)
      BY <2>1, <2>2, <2>3, DeclareType
    <2>5. "tuple" \in Kinds \ {"if", "else", "endif", "separator", "function", "end"}
      BY DEF Kinds, StatementKinds
    <2> QED
      BY <2>1, <2>2, <2>4, <2>5, StatementKeeps
  <1>5. CASE VisitAssign
    <2>1. PICK name \in header.assigned \cap Visible, expression \in Expressions("assign") :
            /\ Statement("assign", <<name>>, expression, FALSE)
            /\ UNCHANGED <<phase, tables, open>>
      BY <1>5 DEF VisitAssign
    <2>2. expression \in Seq(Names) /\ <<name>> \in Seq(Names) /\ Len(<<name>>) = 1
      BY <1>1, ExpressionType DEF StatementKinds
    <2>3. "assign" \in Kinds \ {"if", "else", "endif", "separator", "function", "end"}
      BY DEF Kinds, StatementKinds
    <2>4. tables' \in Seq(SUBSET Names) /\ Len(tables') = Len(tables)
      BY <1>1, <2>1
    <2> QED
      BY <2>1, <2>2, <2>3, <2>4, StatementKeeps
  <1>6. CASE VisitRequire
    <2>1. PICK kind \in {"require", "time"} : \E expression \in Expressions(kind) :
            /\ Statement(kind, <<>>, expression, TRUE)
            /\ UNCHANGED <<phase, tables, open>>
      BY <1>6 DEF VisitRequire
    <2>2. PICK expression \in Expressions(kind) :
            /\ Statement(kind, <<>>, expression, TRUE)
            /\ UNCHANGED <<phase, tables, open>>
      BY <2>1
    <2>3. expression \in Seq(Names) /\ <<>> \in Seq(Names)
      BY <1>1, ExpressionType DEF StatementKinds
    <2>4. kind \in Kinds \ {"if", "else", "endif", "separator", "function", "end"}
      BY DEF Kinds, StatementKinds
    <2>5. tables' \in Seq(SUBSET Names) /\ Len(tables') = Len(tables)
      BY <1>1, <2>2
    <2> QED
      BY <2>2, <2>3, <2>4, <2>5, StatementKeeps
  <1>7. CASE VisitUnset
    <2>1. PICK name \in header.unsettable :
            /\ Statement("unset", <<name>>, <<>>, FALSE)
            /\ UNCHANGED <<phase, tables, open>>
      BY <1>7 DEF VisitUnset
    <2>2. name \in Names
      BY <1>1, HeadersAssumption DEF Names
    <2>3. <<name>> \in Seq(Names) /\ <<>> \in Seq(Names) /\ Len(<<name>>) = 1
      BY <2>2
    <2>4. open = <<>>
      BY <1>1 DEF NoUnsetWithBranches, AnalysisInv
    <2>5. "unset" \in Kinds \ {"if", "else", "endif", "separator", "function", "end"}
      BY DEF Kinds, StatementKinds
    <2>6. tables' \in Seq(SUBSET Names) /\ Len(tables') = Len(tables)
      BY <1>1, <2>1
    <2> QED
      BY <2>1, <2>3, <2>4, <2>5, <2>6, StatementKeeps
  <1> QED
    BY <1>3, <1>4, <1>5, <1>6, <1>7

-----------------------------------------------------------------------------
(* Brackets.                                                               *)

LEMMA WrittenTypes ==
  ASSUME AnalysisInv, phase = "analyse"
  PROVE  /\ tables \in Seq(SUBSET Names) /\ tables # <<>> /\ Len(tables) \in Nat \ {0}
         /\ Tail(tables) \in Seq(SUBSET Names) /\ Len(Tail(tables)) = Len(tables) - 1
         /\ open \in Seq({"if", "else"}) /\ Len(open) \in Nat
         /\ ends \in Seq(BOOLEAN) /\ ends # <<>> /\ Len(ends) \in Nat \ {0}
         /\ FunctionOf(Len(program)) \in Nat
         /\ header \in Headers
  <1>1. /\ tables \in Seq(SUBSET Names) /\ open \in Seq({"if", "else"}) /\ ends \in Seq(BOOLEAN)
        /\ program \in Seq(AnyNode) /\ header \in Headers
    BY DEF AnalysisInv, AnalysisTypeOK, AnyNode
  <1>2. Len(tables) \in Nat /\ Len(open) \in Nat /\ Len(ends) \in Nat /\ Len(program) \in Nat
    BY <1>1, LenProperties
  <1>3. Len(tables) = 1 + Len(open) + 1 \/ Len(tables) = 1 + Len(open) + 0
    BY DEF AnalysisInv, Written
  <1>4. tables # <<>>
    BY <1>2, <1>3
  <1>5. Tail(tables) \in Seq(SUBSET Names) /\ Len(Tail(tables)) = Len(tables) - 1
    BY <1>1, <1>4, HeadTailProperties
  <1>6. ends # <<>>
    BY DEF AnalysisInv, Written
  <1>7. Len(ends) # 0
    BY <1>1, <1>6
  <1>8. FunctionOf(Len(program)) \in Nat
    BY <1>2, CountNext, FunctionOfIsCount
  <1>9. Len(tables) # 0
    BY <1>2, <1>3
  <1>10. Len(tables) \in Nat \ {0} /\ Len(ends) \in Nat \ {0}
    BY <1>2, <1>7, <1>9
  <1> QED
    BY <1>1, <1>2, <1>4, <1>5, <1>6, <1>8, <1>10

LEMMA IfKeeps ==
  ASSUME AnalysisInv, header' = header, Room', VisitIf
  PROVE  AnalysisInv'
  <1>1. PICK expression \in Expressions("if") :
          /\ InBody
          /\ Visit("if", <<>>, expression)
          /\ tables' = <<{}>> \o tables
          /\ open' = <<"if">> \o open
          /\ ends' = <<TRUE>> \o ends
          /\ UNCHANGED phase
    BY DEF VisitIf
  <1> DEFINE node == [kind |-> "if", targets |-> <<>>, operands |-> expression]
  <1>2. phase = "analyse" /\ program' = Append(program, node)
    BY <1>1 DEF Visit
  <1>3. node \in AnyNode
    BY ExpressionType DEF AnyNode, AnalysisInv, Kinds, StatementKinds
  <1>4. KindBefore(program, Len(program) + 1) # "end"
    BY <1>1, InBodyIs DEF AnalysisInv
  <1>5. NodeFits(header, node, Len(open),
                 FunctionOf(Len(program)) + (IF node.kind = "function" THEN 1 ELSE 0),
                 KindBefore(program, Len(program) + 1))
    BY <1>4 DEF NodeFits
  <1>6. /\ tables' \in Seq(SUBSET Names) /\ Len(tables') = 1 + Len(tables)
        /\ open' \in Seq({"if", "else"}) /\ Len(open') = 1 + Len(open)
        /\ ends' \in Seq(BOOLEAN) /\ ends' # <<>>
    <2>1. /\ <<{}>> \in Seq(SUBSET Names) /\ Len(<<{}>>) = 1
          /\ <<"if">> \in Seq({"if", "else"}) /\ Len(<<"if">>) = 1
          /\ <<TRUE>> \in Seq(BOOLEAN) /\ Len(<<TRUE>>) = 1
      OBVIOUS
    <2>2. Len(<<TRUE>> \o ends) = 1 + Len(ends) /\ <<TRUE>> \o ends \in Seq(BOOLEAN)
      BY <1>2, <2>1, WrittenTypes, ConcatProperties
    <2>3. <<TRUE>> \o ends # <<>>
      BY <1>2, <2>2, WrittenTypes
    <2> QED
      BY <1>1, <1>2, <2>1, <2>2, <2>3, WrittenTypes, ConcatProperties
  <1>7. phase' \in {"analyse", "generate", "done"}
    BY <1>1, <1>2
  <1>8. /\ program' \in Seq(AnyNode') /\ program' # <<>>
        /\ Len(program') <= header'.maxNodes
        /\ Structured(header', program')
        /\ Opened(program', Len(program') + 1) = Len(open) + 1 - 0
        /\ FunctionOf(Len(program))' = FunctionOf(Len(program)) + 0
        /\ InBody'
    <2>1. /\ node.kind # "function" /\ node.kind = "if" /\ node.kind # "endif"
          /\ node.kind # "end"
      OBVIOUS
    <2> HIDE DEF node
    <2> QED
      BY <2>1, <1>2, <1>3, <1>5, <1>6, <1>7, NodeAdded
  <1>9. AnalysisTypeOK'
    BY <1>2, <1>6, <1>7, <1>8, HeaderKept, WrittenTypes DEF AnalysisInv, AnalysisTypeOK, AnyNode
  <1>10. Written'
    BY <1>1, <1>2, <1>6, <1>8, WrittenTypes DEF AnalysisInv, Written
  <1>11. header'.arities["if"] # {}
    BY <1>1 DEF Expressions
  <1>12. Len(open') = Opened(program', Len(program') + 1) /\ phase' = "analyse"
    BY <1>1, <1>2, <1>6, <1>8, WrittenTypes
  <1> QED
    BY <1>8, <1>9, <1>10, <1>11, <1>12 DEF AnalysisInv

LEMMA BracketKeeps ==
  ASSUME AnalysisInv, header' = header, Room',
         NEW kind \in {"else", "endif", "separator", "function", "end"},
         NEW targets \in Seq(Names), Visit(kind, targets, <<>>), phase' \in {"analyse", "generate"},
         NodeFits(header, [kind |-> kind, targets |-> targets, operands |-> <<>>], Len(open),
                  FunctionOf(Len(program)) + (IF kind = "function" THEN 1 ELSE 0),
                  KindBefore(program, Len(program) + 1)),
         tables' \in Seq(SUBSET Names), open' \in Seq({"if", "else"}), ends' \in Seq(BOOLEAN),
         ends' # <<>>,
         Len(open') = Len(open) - (IF kind = "endif" THEN 1 ELSE 0),
         open = <<>> => open' = <<>>,
         phase' = "analyse" =>
           /\ kind = "end" => open' = <<>> /\ FunctionOf(Len(program)) > 0
           /\ Len(tables') = 1 + Len(open') +
                (IF kind = "function" \/ (kind # "end" /\ FunctionOf(Len(program)) > 0) THEN 1 ELSE 0)
  PROVE  AnalysisInv'
  <1> DEFINE node == [kind |-> kind, targets |-> targets, operands |-> <<>>]
  <1>1. node \in AnyNode /\ program' = Append(program, node) /\ phase = "analyse"
    BY DEF Visit, AnyNode, Kinds
  <1>2. node.kind = kind
    OBVIOUS
  <1>3. phase' \in {"analyse", "generate", "done"}
    OBVIOUS
  <1>4. NodeFits(header, node, Len(open),
                 FunctionOf(Len(program)) + (IF node.kind = "function" THEN 1 ELSE 0),
                 KindBefore(program, Len(program) + 1))
    OBVIOUS
  <1>5. /\ program' \in Seq(AnyNode') /\ program' # <<>>
        /\ Len(program') <= header'.maxNodes
        /\ Structured(header', program')
        /\ Opened(program', Len(program') + 1) =
              Len(open) + (IF kind = "if" THEN 1 ELSE 0) - (IF kind = "endif" THEN 1 ELSE 0)
        /\ FunctionOf(Len(program))' =
              FunctionOf(Len(program)) + (IF kind = "function" THEN 1 ELSE 0)
        /\ InBody' <=> kind # "end"
    <2> HIDE DEF node
    <2> QED
      BY <1>1, <1>2, <1>3, <1>4, NodeAdded
  <1>6. AnalysisTypeOK'
    BY <1>1, <1>3, <1>5, HeaderKept, WrittenTypes DEF AnalysisInv, AnalysisTypeOK, AnyNode
  <1>7. ASSUME phase' = "analyse" PROVE Written'
    <2>1. FunctionOf(Len(program)) \in Nat
      BY <1>1, WrittenTypes
    <2>2. CASE kind = "function"
      <3>1. InBody' /\ FunctionOf(Len(program))' > 0
        BY <1>5, <2>1, <2>2
      <3>2. Len(tables') = 1 + Len(open') + 1
        BY <1>7, <2>2
      <3> QED
        BY <3>1, <3>2 DEF Written
    <2>3. CASE kind = "end"
      <3>1. ~InBody' /\ FunctionOf(Len(program))' > 0 /\ open' = <<>>
        BY <1>5, <1>7, <2>1, <2>3
      <3>2. Len(tables') = 1 + Len(open') + 0
        BY <1>7, <2>3
      <3> QED
        BY <3>1, <3>2 DEF Written
    <2>4. CASE kind # "function" /\ kind # "end"
      <3>1. InBody' /\ FunctionOf(Len(program))' = FunctionOf(Len(program))
        BY <1>5, <2>1, <2>4
      <3>2. Len(tables') = 1 + Len(open') + (IF FunctionOf(Len(program)) > 0 THEN 1 ELSE 0)
        BY <1>7, <2>4
      <3> QED
        BY <3>1, <3>2 DEF Written
    <2> QED
      BY <2>2, <2>3, <2>4
  <1>8. Len(open') = Opened(program', Len(program') + 1)
    <2>1. kind # "if" /\ Len(open) \in Nat
      BY <1>1, WrittenTypes
    <2> QED
      BY <1>5, <2>1
  <1>9. header'.arities["if"] = {} => open' = <<>>
    BY DEF AnalysisInv
  <1> QED
    BY <1>5, <1>6, <1>7, <1>8, <1>9 DEF AnalysisInv

LEMMA ElseKeeps ==
  ASSUME AnalysisInv, header' = header, Room', VisitElse
  PROVE  AnalysisInv'
  <1>1. /\ open # <<>> /\ Visit("else", <<>>, <<>>) /\ phase = "analyse"
        /\ tables' = <<{}>> \o Tail(tables)
        /\ open' = <<"else">> \o Tail(open)
        /\ ends' = <<TRUE>> \o ends
        /\ phase' = phase
    BY DEF VisitElse, Visit
  <1>2. Written
    BY <1>1 DEF AnalysisInv
  <1>3. InBody /\ KindBefore(program, Len(program) + 1) # "end"
    BY <1>1, <1>2, InBodyIs DEF Written, AnalysisInv
  <1>4. Len(open) > 0
    BY <1>1, WrittenTypes
  <1>5. <<>> \in Seq(Names)
    OBVIOUS
  <1>6. NodeFits(header, [kind |-> "else", targets |-> <<>>, operands |-> <<>>], Len(open),
                 FunctionOf(Len(program)) + (IF "else" = "function" THEN 1 ELSE 0),
                 KindBefore(program, Len(program) + 1))
    BY <1>3, <1>4 DEF NodeFits
  <1>7. /\ tables' \in Seq(SUBSET Names) /\ Len(tables') = Len(tables)
        /\ open' \in Seq({"if", "else"}) /\ Len(open') = Len(open)
        /\ ends' \in Seq(BOOLEAN) /\ ends' # <<>>
    <2>1. /\ <<{}>> \in Seq(SUBSET Names) /\ Len(<<{}>>) = 1
          /\ <<"else">> \in Seq({"if", "else"}) /\ Len(<<"else">>) = 1
          /\ <<TRUE>> \in Seq(BOOLEAN) /\ Len(<<TRUE>>) = 1
      OBVIOUS
    <2>2. Len(<<TRUE>> \o ends) = 1 + Len(ends) /\ <<TRUE>> \o ends \in Seq(BOOLEAN)
      BY <1>1, <2>1, WrittenTypes, ConcatProperties
    <2>3. <<TRUE>> \o ends # <<>>
      BY <1>1, <2>2, WrittenTypes
    <2>4. Tail(open) \in Seq({"if", "else"}) /\ Len(Tail(open)) = Len(open) - 1
      BY <1>1, WrittenTypes, HeadTailProperties
    <2>5. <<"else">> \o Tail(open) \in Seq({"if", "else"})
          /\ Len(<<"else">> \o Tail(open)) = Len(open)
      BY <1>1, <2>1, <2>4, WrittenTypes, ConcatProperties
    <2>6. <<{}>> \o Tail(tables) \in Seq(SUBSET Names)
          /\ Len(<<{}>> \o Tail(tables)) = Len(tables)
      BY <1>1, <2>1, WrittenTypes, ConcatProperties
    <2> QED
      BY <1>1, <2>2, <2>3, <2>5, <2>6
  <1>8. Len(tables') = 1 + Len(open') + (IF FunctionOf(Len(program)) > 0 THEN 1 ELSE 0)
    BY <1>2, <1>3, <1>7 DEF Written
  <1>9. Len(open') = Len(open) - 0
    BY <1>1, <1>7, WrittenTypes
  <1> QED
    BY <1>1, <1>5, <1>6, <1>7, <1>8, <1>9, BracketKeeps

LEMMA EndIfKeeps ==
  ASSUME AnalysisInv, header' = header, Room', VisitEndIf
  PROVE  AnalysisInv'
  <1>1. /\ open # <<>> /\ Visit("endif", <<>>, <<>>) /\ phase = "analyse"
        /\ tables' = Tail(tables)
        /\ open' = Tail(open)
        /\ ends' = IF Head(open) = "else"
                     THEN <<ends[1] /\ ends[2]>> \o SubSeq(ends, 4, Len(ends))
                     ELSE <<FALSE>> \o SubSeq(ends, 3, Len(ends))
        /\ phase' = phase
    BY DEF VisitEndIf, Visit
  <1>2. Written
    BY <1>1 DEF AnalysisInv
  <1>3. InBody /\ KindBefore(program, Len(program) + 1) # "end"
    BY <1>1, <1>2, InBodyIs DEF Written, AnalysisInv
  <1>4. Len(open) > 0
    BY <1>1, WrittenTypes
  <1>5. <<>> \in Seq(Names)
    OBVIOUS
  <1>6. NodeFits(header, [kind |-> "endif", targets |-> <<>>, operands |-> <<>>], Len(open),
                 FunctionOf(Len(program)) + (IF "endif" = "function" THEN 1 ELSE 0),
                 KindBefore(program, Len(program) + 1))
    BY <1>3, <1>4 DEF NodeFits
  <1>7. /\ tables' \in Seq(SUBSET Names) /\ Len(tables') = Len(tables) - 1
        /\ open' \in Seq({"if", "else"}) /\ Len(open') = Len(open) - 1
    BY <1>1, WrittenTypes, HeadTailProperties
  <1>8. ends' \in Seq(BOOLEAN) /\ ends' # <<>>
    <2>1. \A m \in {3, 4} : SubSeq(ends, m, Len(ends)) \in Seq(BOOLEAN)
      <3> TAKE m \in {3, 4}
      <3>1. \A i \in m .. Len(ends) : ends[i] \in BOOLEAN
        BY <1>1, WrittenTypes
      <3>2. m \in Int /\ Len(ends) \in Int
        BY <1>1, WrittenTypes
      <3> QED
        BY <3>1, <3>2, SubSeqProperties
    <2>2. PICK final \in BOOLEAN, rest \in Seq(BOOLEAN) : ends' = <<final>> \o rest
      BY <1>1, <2>1
    <2>3. <<final>> \in Seq(BOOLEAN) /\ Len(<<final>>) = 1 /\ Len(rest) \in Nat
      BY <2>2
    <2>4. <<final>> \o rest \in Seq(BOOLEAN) /\ Len(<<final>> \o rest) = 1 + Len(rest)
      BY <2>2, <2>3, ConcatProperties
    <2> QED
      BY <2>2, <2>3, <2>4
  <1>9. Len(tables') = 1 + Len(open') + (IF FunctionOf(Len(program)) > 0 THEN 1 ELSE 0)
    <2>1. Len(tables) = 1 + Len(open) + (IF FunctionOf(Len(program)) > 0 THEN 1 ELSE 0)
      BY <1>2, <1>3 DEF Written
    <2> QED
      BY <1>1, <1>7, <2>1, WrittenTypes
  <1>10. Len(open') = Len(open) - (IF "endif" = "endif" THEN 1 ELSE 0)
    BY <1>7
  <1> QED
    BY <1>1, <1>5, <1>6, <1>7, <1>8, <1>9, <1>10, BracketKeeps

LEMMA StateScriptKeeps ==
  ASSUME AnalysisInv, header' = header, Room', VisitStateScript
  PROVE  AnalysisInv'
  <1>1. /\ open = <<>> /\ FunctionOf(Len(program)) = 0
        /\ Visit("separator", <<>>, <<>>) /\ phase = "analyse"
        /\ ends' = <<TRUE>>
        /\ UNCHANGED <<phase, tables, open>>
    BY DEF VisitStateScript, Visit
  <1>2. Written
    BY <1>1 DEF AnalysisInv
  <1>3. InBody /\ KindBefore(program, Len(program) + 1) # "end"
    BY <1>1, <1>2, InBodyIs DEF Written, AnalysisInv
  <1>4. Len(open) = 0 /\ <<>> \in Seq(Names)
    BY <1>1
  <1>5. NodeFits(header, [kind |-> "separator", targets |-> <<>>, operands |-> <<>>], Len(open),
                 FunctionOf(Len(program)) + (IF "separator" = "function" THEN 1 ELSE 0),
                 KindBefore(program, Len(program) + 1))
    BY <1>1, <1>3, <1>4 DEF NodeFits
  <1>6. ends' \in Seq(BOOLEAN) /\ ends' # <<>>
    BY <1>1
  <1>7. Len(tables') = 1 + Len(open') + (IF FunctionOf(Len(program)) > 0 THEN 1 ELSE 0)
    BY <1>1, <1>2 DEF Written
  <1>8. tables' \in Seq(SUBSET Names) /\ open' \in Seq({"if", "else"}) /\ Len(open') = Len(open)
    BY <1>1, WrittenTypes
  <1>9. Len(open') = Len(open) - 0
    BY <1>1, <1>8, WrittenTypes
  <1> QED
    BY <1>1, <1>4, <1>5, <1>6, <1>7, <1>8, <1>9, BracketKeeps

LEMMA FunctionParameters ==
  ASSUME header \in Headers, NEW f \in 1 .. Len(Functions)
  PROVE  Functions[f] \in Seq(Names) /\ Len(Functions[f]) \in Nat
  <1>1. Functions \in Seq(Seq(Names))
    BY HeadersAssumption DEF Names, Functions
  <1> QED
    BY <1>1, ElementOfSeq, LenProperties

LEMMA FunctionKeeps ==
  ASSUME AnalysisInv, header' = header, Room', VisitFunctionDefinition
  PROVE  AnalysisInv'
  <1> DEFINE f == FunctionOf(Len(program)) + 1
  <1>1. /\ f <= Len(Functions) /\ (f = 1 \/ ~InBody) /\ open = <<>>
        /\ Visit("function", Functions[f], <<>>) /\ phase = "analyse"
        /\ tables' = <<Range(Functions[f])>> \o tables
        /\ ends' = <<TRUE>>
        /\ UNCHANGED <<phase, open>>
    BY DEF VisitFunctionDefinition, Visit
  <1>2. Written
    BY <1>1 DEF AnalysisInv
  <1>3. FunctionOf(Len(program)) \in Nat /\ f \in Nat \ {0} /\ f \in 1 .. Len(Functions)
    <2>1. FunctionOf(Len(program)) \in Nat
      BY <1>1, WrittenTypes
    <2>2. Len(Functions) \in Nat
      BY <1>1, WrittenTypes, HeadersAssumption, LenProperties DEF Functions
    <2> QED
      BY <1>1, <2>1, <2>2
  <1>4. Functions[f] \in Seq(Names)
    BY <1>1, <1>3, WrittenTypes, FunctionParameters
  <1>5. InBody <=> KindBefore(program, Len(program) + 1) # "end"
    BY InBodyIs DEF AnalysisInv
  <1>6. Len(open) = 0
    BY <1>1
  <1>7. NodeFits(header, [kind |-> "function", targets |-> Functions[f], operands |-> <<>>],
                 Len(open), f, KindBefore(program, Len(program) + 1))
    <2> HIDE DEF f
    <2> QED
      BY <1>1, <1>5, <1>6 DEF NodeFits, Functions
  <1>8. ends' \in Seq(BOOLEAN) /\ ends' # <<>>
    BY <1>1
  <1>9. tables' \in Seq(SUBSET Names) /\ Len(tables') = 1 + Len(tables)
    <2>1. Range(Functions[f]) \in SUBSET Names
      BY <1>4, RangeOfSeq
    <2>2. <<Range(Functions[f])>> \in Seq(SUBSET Names) /\ Len(<<Range(Functions[f])>>) = 1
      BY <2>1
    <2> QED
      BY <1>1, <2>2, WrittenTypes, ConcatProperties
  <1>10. Len(tables') = 1 + Len(open') + 1
    <2>1. Len(tables) = 1 + Len(open) + 0
      BY <1>1, <1>2, <1>3 DEF Written
    <2> QED
      BY <1>1, <1>6, <1>9, <2>1
  <1>11. open' \in Seq({"if", "else"}) /\ Len(open') = Len(open)
    BY <1>1, WrittenTypes
  <1>12. FunctionOf(Len(program)) + (IF "function" = "function" THEN 1 ELSE 0) = f
    BY <1>3
  <1> HIDE DEF f
  <1> QED
    BY <1>1, <1>4, <1>6, <1>7, <1>8, <1>9, <1>10, <1>11, <1>12, BracketKeeps

LEMMA EndKeeps ==
  ASSUME AnalysisInv, header' = header, Room', VisitEnd
  PROVE  AnalysisInv'
  <1>1. /\ Functions # <<>> => FunctionOf(Len(program)) > 0
        /\ InBody /\ open = <<>>
        /\ Visit("end", <<>>, <<>>) /\ phase = "analyse"
        /\ tables' = Tail(tables)
        /\ phase' = IF FunctionOf(Len(program)) = Len(Functions) THEN "generate" ELSE "analyse"
        /\ UNCHANGED <<open, ends>>
    BY DEF VisitEnd, Visit
  <1>2. Written
    BY <1>1 DEF AnalysisInv
  <1>3. KindBefore(program, Len(program) + 1) # "end"
    BY <1>1, InBodyIs DEF AnalysisInv
  <1>4. Len(open) = 0 /\ <<>> \in Seq(Names) /\ FunctionOf(Len(program)) \in Nat
    BY <1>1, WrittenTypes
  <1>5. NodeFits(header, [kind |-> "end", targets |-> <<>>, operands |-> <<>>], Len(open),
                 FunctionOf(Len(program)) + (IF "end" = "function" THEN 1 ELSE 0),
                 KindBefore(program, Len(program) + 1))
    BY <1>1, <1>3, <1>4 DEF NodeFits, Functions
  <1>6. ends' \in Seq(BOOLEAN) /\ ends' # <<>>
    BY <1>1, WrittenTypes
  <1>7. tables' \in Seq(SUBSET Names) /\ Len(tables') = Len(tables) - 1
    BY <1>1, WrittenTypes
  <1>8. ASSUME phase' = "analyse"
        PROVE  /\ FunctionOf(Len(program)) > 0
               /\ Len(tables') = 1 + Len(open') + 0
    <2>1. FunctionOf(Len(program)) # Len(Functions)
      BY <1>1, <1>8
    <2>2. FunctionOf(Len(program)) > 0
      BY <1>1, <1>4, <2>1
    <2>3. Len(tables) = 1 + Len(open) + 1
      BY <1>1, <1>2, <2>2 DEF Written
    <2> QED
      BY <1>1, <1>4, <1>7, <2>2, <2>3
  <1>9. open' \in Seq({"if", "else"}) /\ Len(open') = Len(open) - 0 /\ open' = <<>>
    BY <1>1, <1>4, WrittenTypes
  <1>10. phase' \in {"analyse", "generate"}
    BY <1>1
  <1> QED
    BY <1>1, <1>4, <1>5, <1>6, <1>7, <1>8, <1>9, <1>10, BracketKeeps

LEMMA AnalyseKeeps == NoUnsetWithBranches /\ AnalysisInv /\ Analyse => AnalysisInv'
  <1> SUFFICES ASSUME NoUnsetWithBranches, AnalysisInv, Analyse PROVE AnalysisInv'
    OBVIOUS
  <1>1. header' = header /\ Room'
    BY DEF Analyse
  <1> QED
    BY <1>1, StatementsKeep, IfKeeps, ElseKeeps, EndIfKeeps, StateScriptKeeps, FunctionKeeps,
       EndKeeps DEF Analyse

LEMMA AnalysisInitInv == AnalysisInit => AnalysisInv
  <1> SUFFICES ASSUME AnalysisInit PROVE AnalysisInv
    OBVIOUS
  <1>1. header \in Headers /\ phase = "analyse" /\ program = <<>> /\ open = <<>> /\ ends = <<TRUE>>
        /\ tables = <<Inline \cup Range(Params)>>
    BY DEF AnalysisInit
  <1>2. Inline \cup Range(Params) \in SUBSET Names
    BY DEF Inline, Params, Names, NamesOf
  <1>3. AnalysisTypeOK
    BY <1>1, <1>2 DEF AnalysisTypeOK
  <1>4. Len(program) = 0 /\ Len(open) = 0 /\ header.maxNodes \in Nat
    BY <1>1, HeadersAssumption
  <1>5. \A kind : Count(program, kind, 0) = 0
    BY CountNext
  <1>6. FunctionOf(Len(program)) = 0 /\ Opened(program, Len(program) + 1) = 0
    BY <1>4, <1>5, FunctionOfIsCount DEF Opened
  <1>7. Structured(header, program)
    BY <1>4 DEF Structured
  <1>8. InBody
    BY <1>1 DEF InBody, Nodes
  <1>9. Len(tables) = 1 /\ ends # <<>>
    BY <1>1
  <1>10. Written
    BY <1>4, <1>6, <1>8, <1>9 DEF Written
  <1> QED
    BY <1>1, <1>3, <1>4, <1>6, <1>7, <1>10 DEF AnalysisInv


-----------------------------------------------------------------------------
(* Scopes.                                                                 *)

\* How many tables above the one of the parameters a node stands in, and what closes
\* the innermost of them.
Level(p, i)  == Opened(p, i) + (IF Count(p, "function", i) > 0 THEN 1 ELSE 0)
Closes(p, i) == p[i].kind \in {"else", "endif", "end"}

Declares(p, i, name) ==
    p[i].kind \in {"define", "tuple", "function"} /\ name \in Range(p[i].targets)

\* No block around node j is closed before node i.
InScope(p, j, i) == \A k \in j + 1 .. i - 1 : Closes(p, k) => Level(p, j) < Level(p, k)

Outermost == Inline \cup Range(Params)

VisibleAt(p, name, i) ==
    \/ name \in Outermost
    \/ \E j \in 1 .. i - 1 : Declares(p, j, name) /\ InScope(p, j, i)

MentionedBy(p, i, name) ==
    \/ p[i].kind = "assign" /\ name \in Range(p[i].targets)
    \/ name \in Range(p[i].operands)

\* A node mentions only what is visible, and declares nothing that is.
NodeScoped(p, i) ==
    /\ \A name : MentionedBy(p, i, name) => VisibleAt(p, name, i)
    /\ \A name : Declares(p, i, name) => ~VisibleAt(p, name, i)
    /\ p[i].kind = "tuple" => p[i].targets[1] # p[i].targets[2]
    /\ p[i].kind = "assign" => p[i].targets[1] \in header.assigned
    /\ p[i].kind = "separator" => \A j \in 1 .. i - 1 : p[j].kind # "separator"

WellScoped == \A i \in 1 .. Len(program) : NodeScoped(program, i)

\* What the nodes before node i declare at a level, in scope at i.
Declared(p, i, l) ==
    {name \in Names : \E j \in 1 .. i - 1 : /\ Declares(p, j, name) /\ InScope(p, j, i)
                                            /\ Level(p, j) = l}

\* The symbol tables hold just that.
TablesAre ==
    /\ \A l \in 0 .. Len(tables) - 1 :
         tables[Len(tables) - l] =
           Declared(program, Len(program) + 1, l) \cup (IF l = 0 THEN Outermost ELSE {})
    /\ \A j \in 1 .. Len(program) :
         /\ ~Closes(program, j)
         /\ InScope(program, j, Len(program) + 1)
         => Level(program, j) \in 0 .. Len(tables) - 1

ScopeInv == AnalysisInv /\ WellScoped /\ (phase = "analyse" => TablesAre)

\* A contract with one more node.
IsLonger(q, p, n, node) ==
    /\ Len(q) = n + 1 /\ q[n + 1] = node /\ \A i \in 1 .. n : q[i] = p[i]

LEMMA CountsNext ==
  \A p, kind : \A n \in Nat :
    Count(p, kind, n + 1) = Count(p, kind, n) + (IF p[n + 1].kind = kind THEN 1 ELSE 0)
  <1> TAKE p, kind
  <1> TAKE n \in Nat
  <1> QED
    BY CountNext

LEMMA ScopeAppended ==
  ASSUME NEW p, NEW n \in Nat, n = Len(p), NEW node, NEW q, IsLonger(q, p, n, node)
  PROVE  /\ \A i \in 1 .. n : Level(q, i) = Level(p, i) /\ (Closes(q, i) <=> Closes(p, i))
         /\ Level(q, n + 1) =
              Opened(p, n + 1) +
                (IF Count(p, "function", n) + (IF node.kind = "function" THEN 1 ELSE 0) > 0
                   THEN 1 ELSE 0)
         /\ \A j \in 1 .. n : \A i \in 1 .. n + 1 : InScope(q, j, i) <=> InScope(p, j, i)
         /\ \A j \in 1 .. n :
              InScope(q, j, n + 2) <=>
                InScope(p, j, n + 1) /\ (Closes(q, n + 1) => Level(p, j) < Level(q, n + 1))
         /\ InScope(q, n + 1, n + 2)
         /\ \A i \in 1 .. n + 1 : \A name : VisibleAt(q, name, i) <=> VisibleAt(p, name, i)
         /\ \A i \in 1 .. n : NodeScoped(p, i) => NodeScoped(q, i)
  <1>1. n \in Nat /\ Len(q) = n + 1 /\ q[n + 1] = node /\ \A i \in 1 .. n : q[i] = p[i]
    BY DEF IsLonger
  <1>2. \A kind : \A i \in 0 .. n : Count(q, kind, i) = Count(p, kind, i)
    <2> TAKE kind
    <2> TAKE i \in 0 .. n
    <2>1. \A j \in 1 .. i : q[j] = p[j]
      BY <1>1
    <2>2. {j \in 1 .. i : q[j].kind = kind} = {j \in 1 .. i : p[j].kind = kind}
      BY <2>1
    <2> QED
      BY <2>2 DEF Count
  <1>3. \A i \in 1 .. n + 1 : Opened(q, i) = Opened(p, i)
    <2> TAKE i \in 1 .. n + 1
    <2>1. i - 1 \in 0 .. n
      BY <1>1
    <2> QED
      BY <2>1, <1>2 DEF Opened
  <1>4. \A i \in 1 .. n : Level(q, i) = Level(p, i) /\ (Closes(q, i) <=> Closes(p, i))
    BY <1>1, <1>2, <1>3 DEF Level, Closes
  <1>5. Level(q, n + 1) =
          Opened(p, n + 1) +
            (IF Count(p, "function", n) + (IF node.kind = "function" THEN 1 ELSE 0) > 0
               THEN 1 ELSE 0)
    <2>1. Count(q, "function", n + 1) =
            Count(q, "function", n) + (IF q[n + 1].kind = "function" THEN 1 ELSE 0)
      <3>1. \A kind :
                     Count(q, kind, n + 1) =
                       Count(q, kind, n) + (IF q[n + 1].kind = kind THEN 1 ELSE 0)
        BY CountsNext
      <3> QED
        BY <3>1
    <2>2. Count(q, "function", n) = Count(p, "function", n)
      BY <1>1, <1>2
    <2> QED
      BY <1>1, <1>3, <2>1, <2>2 DEF Level
  <1>6. \A j \in 1 .. n : \A i \in 1 .. n + 1 : InScope(q, j, i) <=> InScope(p, j, i)
    <2> TAKE j \in 1 .. n
    <2> TAKE i \in 1 .. n + 1
    <2>1. \A k \in j + 1 .. i - 1 : k \in 1 .. n
      BY <1>1
    <2> QED
      BY <1>4, <2>1 DEF InScope
  <1>7. ASSUME NEW j \in 1 .. n
        PROVE  InScope(q, j, n + 2) <=>
                 InScope(p, j, n + 1) /\ (Closes(q, n + 1) => Level(p, j) < Level(q, n + 1))
    <2>1. InScope(p, j, n + 1) <=> InScope(q, j, n + 1)
      BY <1>1, <1>6
    <2>2. \A k : k \in j + 1 .. n + 2 - 1 <=> k \in j + 1 .. n + 1 - 1 \/ k = n + 1
      BY <1>1
    <2> QED
      BY <1>4, <2>1, <2>2 DEF InScope
  <1>8. InScope(q, n + 1, n + 2)
    <2>1. \A k : k \notin n + 1 + 1 .. n + 2 - 1
      BY <1>1
    <2> QED
      BY <2>1 DEF InScope
  <1>9. \A i \in 1 .. n + 1 : \A name : VisibleAt(q, name, i) <=> VisibleAt(p, name, i)
    <2> TAKE i \in 1 .. n + 1
    <2> TAKE name
    <2>1. \A j \in 1 .. i - 1 : j \in 1 .. n
      BY <1>1
    <2>2. \A j \in 1 .. n : Declares(q, j, name) <=> Declares(p, j, name)
      BY <1>1 DEF Declares
    <2> QED
      BY <1>6, <2>1, <2>2 DEF VisibleAt
  <1>10. ASSUME NEW i \in 1 .. n, NodeScoped(p, i) PROVE NodeScoped(q, i)
    <2>1. i \in 1 .. n + 1 /\ q[i] = p[i] /\ \A j \in 1 .. i - 1 : q[j] = p[j]
      BY <1>1
    <2> QED
      BY <1>9, <1>10, <2>1 DEF NodeScoped, MentionedBy, Declares
  <1> QED
    BY <1>1, <1>4, <1>5, <1>6, <1>7, <1>8, <1>9, <1>10

LEMMA DeclaredAppended ==
  ASSUME NEW p, NEW n \in Nat, n = Len(p), NEW node, NEW q, IsLonger(q, p, n, node), NEW l
  PROVE  Declared(q, n + 2, l) =
           {name \in Declared(p, n + 1, l) : Closes(q, n + 1) => l < Level(q, n + 1)}
             \cup {name \in Names : Declares(q, n + 1, name) /\ l = Level(q, n + 1)}
  <1>1. n \in Nat /\ \A i \in 1 .. n : q[i] = p[i]
    BY DEF IsLonger
  <1>6. \A i \in 1 .. n : Level(q, i) = Level(p, i)
    BY ScopeAppended
  <1>4. \A j \in 1 .. n :
              InScope(q, j, n + 2) <=>
                InScope(p, j, n + 1) /\ (Closes(q, n + 1) => Level(p, j) < Level(q, n + 1))
    BY ScopeAppended
  <1>5. InScope(q, n + 1, n + 2)
    BY ScopeAppended
  <1>2. \A j : /\ j \in 1 .. n + 2 - 1 <=> j \in 1 .. n \/ j = n + 1
               /\ j \in 1 .. n + 1 - 1 <=> j \in 1 .. n
    BY <1>1
  <1>3. \A name : \A j \in 1 .. n : Declares(q, j, name) <=> Declares(p, j, name)
    BY <1>1 DEF Declares
  <1> QED
    BY <1>1, <1>2, <1>3, <1>4, <1>5, <1>6 DEF Declared

\* What is visible to the next node.
LEMMA VisibleIs ==
  ASSUME AnalysisInv, phase = "analyse", TablesAre, NEW name
  PROVE  name \in Visible <=> VisibleAt(program, name, Len(program) + 1)
  <1>1. /\ Len(program) \in Nat /\ program \in Seq(AnyNode)
        /\ tables \in Seq(SUBSET Names) /\ Len(tables) \in Nat /\ Len(tables) >= 1
        /\ DOMAIN tables = 1 .. Len(tables)
    BY WrittenTypes, LenProperties DEF AnalysisInv, AnalysisTypeOK, AnyNode
  <1>2. name \in Visible <=> \E t \in 1 .. Len(tables) : name \in tables[t]
    BY <1>1 DEF Visible, Range
  <1>3. ASSUME NEW t \in 1 .. Len(tables), name \in tables[t]
        PROVE  VisibleAt(program, name, Len(program) + 1)
    <2>1. PICK l \in 0 .. Len(tables) - 1 : t = Len(tables) - l
      <3>1. Len(tables) - t \in 0 .. Len(tables) - 1 /\ t = Len(tables) - (Len(tables) - t)
        BY <1>1
      <3> QED
        BY <3>1
    <2>2. name \in Declared(program, Len(program) + 1, l) \/ name \in Outermost
      BY <1>3, <2>1 DEF TablesAre
    <2> QED
      BY <2>2 DEF VisibleAt, Declared
  <1>4. ASSUME name \in Outermost PROVE \E t \in 1 .. Len(tables) : name \in tables[t]
    <2>1. 0 \in 0 .. Len(tables) - 1 /\ Len(tables) - 0 \in 1 .. Len(tables)
      BY <1>1
    <2>2. name \in tables[Len(tables) - 0]
      BY <1>4, <2>1 DEF TablesAre
    <2> QED
      BY <2>1, <2>2
  <1>5. ASSUME NEW j \in 1 .. Len(program) + 1 - 1, Declares(program, j, name),
               InScope(program, j, Len(program) + 1)
        PROVE  \E t \in 1 .. Len(tables) : name \in tables[t]
    <2>1. j \in 1 .. Len(program)
      BY <1>1
    <2>2. Range(program[j].targets) \subseteq Names
      <3>1. program[j] \in AnyNode
        BY <1>1, <2>1, ElementOfSeq
      <3> QED
        BY <3>1, RangeOfSeq DEF AnyNode
    <2>3. ~Closes(program, j) /\ name \in Names
      BY <1>5, <2>2 DEF Closes, Declares
    <2>4. PICK l \in 0 .. Len(tables) - 1 : l = Level(program, j)
      BY <1>5, <2>1, <2>3 DEF TablesAre
    <2>5. name \in Declared(program, Len(program) + 1, l)
      BY <1>5, <2>3, <2>4 DEF Declared
    <2>6. Len(tables) - l \in 1 .. Len(tables)
      BY <1>1
    <2> QED
      BY <2>5, <2>6 DEF TablesAre
  <1> QED
    BY <1>2, <1>3, <1>4, <1>5 DEF VisibleAt

\* The tables behind one more node, at level d: a closing node empties or removes the
\* table of its level, another one adds to it what it declares.
TablesFollow(node, s, r, d) ==
    /\ d \in Nat /\ s \in Nat /\ r \in Nat
    /\ node.kind \in {"else", "endif", "end"} => d > 0 /\ d < s /\ d <= r
    /\ node.kind \notin {"else", "endif", "end"} => d < r /\ s <= r
    /\ \A l \in 0 .. r - 1 :
         tables'[r - l] =
           (IF l < s /\ (node.kind \in {"else", "endif", "end"} => l < d) THEN tables[s - l] ELSE {})
             \cup {name \in Names : /\ node.kind \in {"define", "tuple", "function"}
                                   /\ name \in Range(node.targets) /\ l = d}

LEMMA NodeScopedAdded ==
  ASSUME ScopeInv, phase = "analyse", AnalysisInv', header' = header,
         NEW node, program' = Append(program, node),
         \A name : \/ node.kind = "assign" /\ name \in Range(node.targets)
                   \/ name \in Range(node.operands)
                   => name \in Visible,
         \A name : node.kind \in {"define", "tuple", "function"} /\ name \in Range(node.targets)
                   => name \notin Visible,
         node.kind = "tuple" => node.targets[1] # node.targets[2],
         node.kind = "assign" => node.targets[1] \in header.assigned,
         node.kind = "separator" => Separators = {},
         NEW d, d = Len(open) + (IF FunctionOf(Len(program)) > 0 \/ node.kind = "function"
                                   THEN 1 ELSE 0),
         phase' = "analyse" => TablesFollow(node, Len(tables), Len(tables'), d)
  PROVE  ScopeInv'
  <1>1. /\ AnalysisInv /\ WellScoped /\ TablesAre
        /\ Len(open) = Opened(program, Len(program) + 1)
        /\ Count(program, "function", Len(program)) = FunctionOf(Len(program))
        /\ FunctionOf(Len(program)) \in Nat
    BY WrittenTypes, FunctionOfIsCount DEF ScopeInv, AnalysisInv
  <1>2. PICK p : p = program
    OBVIOUS
  <1>0. PICK n \in Nat : n = Len(p)
    BY <1>2, LenProperties DEF ScopeInv, AnalysisInv, AnalysisTypeOK
  <1>3. PICK q : q = program' /\ IsLonger(q, p, n, node)
    <2>1. program \in Seq(AnyNode)
      BY <1>1 DEF AnalysisInv, AnalysisTypeOK, AnyNode
    <2>2. /\ Len(program') = Len(program) + 1 /\ program'[Len(program) + 1] = node
          /\ \A i \in 1 .. Len(program) : program'[i] = program[i]
      BY <2>1, AppendProperties
    <2> QED
      BY <1>0, <1>2, <2>2 DEF IsLonger
  <1>4. Level(q, n + 1) = d
    <2>1. Level(q, n + 1) =
            Opened(p, n + 1) +
              (IF Count(p, "function", n) + (IF node.kind = "function" THEN 1 ELSE 0) > 0
                 THEN 1 ELSE 0)
      BY <1>0, <1>2, <1>3, ScopeAppended
    <2> QED
      BY <1>0, <1>1, <1>2, <2>1
  <1>5. Len(q) = n + 1 /\ q[n + 1] = node /\ \A i \in 1 .. n : q[i] = p[i]
    BY <1>3 DEF IsLonger
  <1>6. \A i \in 1 .. n + 1 : NodeScoped(q, i)
    <2>1. \A i \in 1 .. n : NodeScoped(q, i)
      <3>1. \A i \in 1 .. n : NodeScoped(p, i) => NodeScoped(q, i)
        BY <1>0, <1>2, <1>3, ScopeAppended
      <3> QED
        BY <1>0, <1>1, <1>2, <3>1 DEF WellScoped
    <2>2. NodeScoped(q, n + 1)
      <3>1. \A name : VisibleAt(q, name, n + 1) <=> VisibleAt(p, name, n + 1)
        <4>1. n + 1 \in 1 .. n + 1
          OBVIOUS
        <4> QED
          BY <1>0, <1>2, <1>3, <4>1, ScopeAppended
      <3>2. \A name : name \in Visible <=> VisibleAt(p, name, n + 1)
        BY <1>0, <1>1, <1>2, VisibleIs
      <3> QED
        <4>1. Separators = {} => \A j \in 1 .. n : p[j].kind # "separator"
          BY <1>0, <1>2 DEF Separators, Nodes, IsNode
        <4> QED
          BY <1>5, <3>1, <3>2, <4>1 DEF NodeScoped, MentionedBy, Declares
    <2>3. \A i \in 1 .. n + 1 : i \in 1 .. n \/ i = n + 1
      OBVIOUS
    <2> QED
      BY <2>1, <2>2, <2>3
  <1>7. WellScoped'
    <2>1. Len(program') = n + 1
      BY <1>3, <1>5
    <2>2. \A i \in 1 .. n + 1 : NodeScoped(program, i)'
      <3> TAKE i \in 1 .. n + 1
      <3>1. NodeScoped(q, i)
        BY <1>6
      <3>2. \A name : VisibleAt(program, name, i)' <=> VisibleAt(q, name, i)
        <4>1. \A j : /\ InScope(program, j, i)' <=> InScope(q, j, i)
                     /\ \A name : Declares(program, j, name)' <=> Declares(q, j, name)
          BY <1>3 DEF Declares, InScope, Closes, Level, Opened, Count
        <4> QED
          BY <1>3, <4>1 DEF VisibleAt, Outermost, Inline, Params
      <3> QED
        BY <1>3, <3>1, <3>2 DEF NodeScoped, MentionedBy, Declares
    <2> QED
      BY <2>1, <2>2 DEF WellScoped
  <1>8. ASSUME phase' = "analyse" PROVE TablesAre'
    <2>1. PICK s, r : s = Len(tables) /\ r = Len(tables')
      OBVIOUS
    <2>2. TablesFollow(node, s, r, d)
      BY <1>8, <2>1
    <2>3. ASSUME NEW l \in 0 .. r - 1
          PROVE  tables'[r - l] = Declared(q, n + 2, l) \cup (IF l = 0 THEN Outermost ELSE {})
      <3>1. Declared(q, n + 2, l) =
              {name \in Declared(p, n + 1, l) : Closes(q, n + 1) => l < d}
                \cup {name \in Names : Declares(q, n + 1, name) /\ l = d}
        BY <1>0, <1>2, <1>3, <1>4, DeclaredAppended
      <3>2. \A name : Declares(q, n + 1, name) <=>
                        node.kind \in {"define", "tuple", "function"} /\ name \in Range(node.targets)
        BY <1>5 DEF Declares
      <3>3. Closes(q, n + 1) <=> node.kind \in {"else", "endif", "end"}
        BY <1>5 DEF Closes
      <3>4. CASE l < s
        <4>1. tables[s - l] = Declared(p, n + 1, l) \cup (IF l = 0 THEN Outermost ELSE {})
          <5>1. l \in 0 .. s - 1
            BY <2>2, <3>4 DEF TablesFollow
          <5> QED
            BY <1>0, <1>1, <1>2, <2>1, <5>1 DEF TablesAre
        <4>2. Closes(q, n + 1) /\ l = 0 => l < d
          BY <2>2, <3>3 DEF TablesFollow
        <4>3. tables'[r - l] =
                (IF Closes(q, n + 1) => l < d THEN tables[s - l] ELSE {})
                  \cup {name \in Names : Declares(q, n + 1, name) /\ l = d}
          BY <2>2, <3>2, <3>3, <3>4 DEF TablesFollow
        <4> QED
          BY <3>1, <4>1, <4>2, <4>3
      <3>5. CASE ~(l < s)
        <4>1. Declared(p, n + 1, l) = {}
          <5> SUFFICES ASSUME NEW j \in 1 .. n + 1 - 1, NEW name, Declares(p, j, name),
                              InScope(p, j, n + 1), Level(p, j) = l
                       PROVE  FALSE
            BY DEF Declared
          <5>1. j \in 1 .. n /\ ~Closes(p, j)
            BY DEF Declares, Closes
          <5>2. l \in 0 .. s - 1
            BY <1>0, <1>1, <1>2, <2>1, <5>1 DEF TablesAre
          <5> QED
            BY <3>5, <5>2, <2>2 DEF TablesFollow
        <4>2. l # 0
          BY <1>1, <2>1, <3>5, WrittenTypes
        <4>3. tables'[r - l] = {name \in Names : Declares(q, n + 1, name) /\ l = d}
          BY <2>2, <3>2, <3>5 DEF TablesFollow
        <4> QED
          BY <3>1, <4>1, <4>2, <4>3
      <3> QED
        BY <3>4, <3>5
    <2>4. ASSUME NEW j \in 1 .. n + 1, ~Closes(q, j), InScope(q, j, n + 2)
          PROVE  Level(q, j) \in 0 .. r - 1
      <3>1. CASE j = n + 1
        BY <1>4, <1>5, <2>2, <2>4, <3>1 DEF TablesFollow, Closes
      <3>2. CASE j # n + 1
        <4>1. j \in 1 .. n
          BY <3>2
        <4>2. Level(q, j) = Level(p, j) /\ (Closes(q, j) <=> Closes(p, j))
          <5>1. \A i \in 1 .. n : Level(q, i) = Level(p, i) /\ (Closes(q, i) <=> Closes(p, i))
            BY <1>0, <1>3, ScopeAppended
          <5> QED
            BY <4>1, <5>1
        <4>3. InScope(p, j, n + 1) /\ (Closes(q, n + 1) => Level(p, j) < Level(q, n + 1))
          BY <1>0, <1>2, <1>3, <2>4, <4>1, ScopeAppended
        <4>4. Level(p, j) \in 0 .. s - 1
          BY <1>0, <1>1, <1>2, <2>1, <2>4, <4>1, <4>2, <4>3 DEF TablesAre
        <4> QED
          BY <1>4, <1>5, <2>2, <4>2, <4>3, <4>4 DEF TablesFollow, Closes
      <3> QED
        BY <3>1, <3>2
    <2>5. Len(program') = n + 1 /\ Len(program') + 1 = n + 2 /\ Names' = Names /\ Outermost' = Outermost
      BY <1>3, <1>5, HeaderKept DEF Outermost, Inline, Params
    <2>6. \A l : Declared(program, Len(program) + 1, l)' = Declared(q, n + 2, l)
      <3> TAKE l
      <3>1. \A i, j : /\ InScope(program, j, i)' <=> InScope(q, j, i)
                      /\ Level(program, j)' = Level(q, j)
                      /\ \A name : Declares(program, j, name)' <=> Declares(q, j, name)
        BY <1>3 DEF Declares, InScope, Closes, Level, Opened, Count
      <3> QED
        BY <1>3, <2>5, <3>1 DEF Declared
    <2> QED
      BY <1>3, <2>1, <2>3, <2>4, <2>5, <2>6 DEF TablesAre
  <1> QED
    BY <1>7, <1>8 DEF ScopeInv

LEMMA TableMoves ==
  ASSUME NEW S, NEW slots \in Seq(S), slots # <<>>, NEW D \in S, NEW s, s = Len(slots)
  PROVE  /\ s \in Nat \ {0}
         /\ Len(<<D>> \o Tail(slots)) = s /\ (<<D>> \o Tail(slots))[1] = D
         /\ \A t \in 2 .. s : (<<D>> \o Tail(slots))[t] = slots[t]
         /\ Len(<<D>> \o slots) = s + 1 /\ (<<D>> \o slots)[1] = D
         /\ \A t \in 2 .. s + 1 : (<<D>> \o slots)[t] = slots[t - 1]
         /\ Len(Tail(slots)) = s - 1 /\ \A t \in 1 .. s - 1 : Tail(slots)[t] = slots[t + 1]
         /\ Head(slots) = slots[1] /\ Head(slots) \in S
  <1>1. /\ s \in Nat \ {0} /\ Tail(slots) \in Seq(S) /\ Len(Tail(slots)) = s - 1
        /\ \A t \in 1 .. s - 1 : Tail(slots)[t] = slots[t + 1]
        /\ Head(slots) = slots[1] /\ Head(slots) \in S
    BY HeadTailProperties, LenProperties, EmptySeq
  <1>2. <<D>> \in Seq(S) /\ Len(<<D>>) = 1 /\ <<D>>[1] = D
    OBVIOUS
  <1>3. ASSUME NEW b \in Seq(S), NEW k \in Nat, k = Len(b)
        PROVE  /\ Len(<<D>> \o b) = k + 1 /\ (<<D>> \o b)[1] = D
               /\ \A t \in 2 .. k + 1 : (<<D>> \o b)[t] = b[t - 1]
    <2>1. /\ Len(<<D>> \o b) = 1 + k
          /\ \A i \in 1 .. 1 + k : (<<D>> \o b)[i] = IF i <= 1 THEN <<D>>[i] ELSE b[i - 1]
      BY <1>2, <1>3, ConcatProperties
    <2> QED
      BY <1>2, <2>1
  <1>4. /\ Len(<<D>> \o Tail(slots)) = s /\ (<<D>> \o Tail(slots))[1] = D
        /\ \A t \in 2 .. s : (<<D>> \o Tail(slots))[t] = slots[t]
    <2>1. /\ Len(<<D>> \o Tail(slots)) = (s - 1) + 1 /\ (<<D>> \o Tail(slots))[1] = D
          /\ \A t \in 2 .. (s - 1) + 1 : (<<D>> \o Tail(slots))[t] = Tail(slots)[t - 1]
      <3>1. s - 1 \in Nat
        BY <1>1
      <3> QED
        BY <1>1, <1>3, <3>1
    <2> QED
      BY <1>1, <2>1
  <1>5. /\ Len(<<D>> \o slots) = s + 1 /\ (<<D>> \o slots)[1] = D
        /\ \A t \in 2 .. s + 1 : (<<D>> \o slots)[t] = slots[t - 1]
    BY <1>1, <1>3
  <1> QED
    BY <1>1, <1>4, <1>5

LEMMA ExpressionScoped ==
  ASSUME AnalysisTypeOK, NEW kind \in StatementKinds, NEW expression \in Expressions(kind)
  PROVE  Range(expression) \subseteq Visible
  <1>1. header.arities[kind] \subseteq Nat
    BY HeadersAssumption DEF AnalysisTypeOK
  <1>2. PICK n \in Nat : expression \in [1 .. n -> Visible]
    BY <1>1 DEF Expressions
  <1> QED
    BY <1>2 DEF Range

\* Statements other than branches.
LEMMA StatementScoped ==
  ASSUME ScopeInv, AnalysisInv', header' = header, NEW names \in SUBSET Names,
         NEW kind \in {"define", "tuple", "assign", "require", "time", "unset"},
         NEW targets, NEW operands, NEW isRequire,
         Statement(kind, targets, operands, isRequire), UNCHANGED open,
         names = IF kind \in {"define", "tuple"} THEN Range(targets) ELSE {},
         \/ Declare(names)
         \/ UNCHANGED tables /\ names = {},
         names \cap Visible = {},
         kind = "assign" => Range(targets) \subseteq Visible /\ targets[1] \in header.assigned,
         kind = "tuple" => targets[1] # targets[2],
         Range(operands) \subseteq Visible
  PROVE  ScopeInv'
  <1> DEFINE node == [kind |-> kind, targets |-> targets, operands |-> operands]
  <1>1. phase = "analyse" /\ program' = Append(program, node) /\ InBody
    BY DEF Statement, Visit
  <1>2. PICK d : d = Len(open) + (IF FunctionOf(Len(program)) > 0 \/ node.kind = "function" THEN 1 ELSE 0)
    OBVIOUS
  <1>3. PICK s : s = Len(tables)
    OBVIOUS
  <1>4. /\ s \in Nat \ {0} /\ tables \in Seq(SUBSET Names) /\ tables # <<>>
        /\ Len(open) \in Nat /\ FunctionOf(Len(program)) \in Nat
    BY <1>1, <1>3, WrittenTypes DEF ScopeInv
  <1>5. s = 1 + Len(open) + (IF FunctionOf(Len(program)) > 0 THEN 1 ELSE 0)
    BY <1>1, <1>3 DEF ScopeInv, AnalysisInv, Written
  <1>6. d = s - 1
    BY <1>2, <1>4, <1>5
  <1>7. /\ Len(tables') = s /\ tables'[1] = tables[1] \cup names
        /\ \A t \in 2 .. s : tables'[t] = tables[t]
    <2>1. CASE Declare(names)
      <3>1. Head(tables) \cup names \in SUBSET Names /\ Head(tables) = tables[1]
        BY <1>3, <1>4, TableMoves
      <3> QED
        BY <1>3, <1>4, <2>1, <3>1, TableMoves DEF Declare
    <2>2. CASE UNCHANGED tables /\ names = {}
      BY <1>3, <2>2
    <2> QED
      BY <2>1, <2>2
  <1>8. node.kind = kind /\ node.targets = targets /\ node.operands = operands
    OBVIOUS
  <1> HIDE DEF node
  <1>9. {name \in Names : node.kind \in {"define", "tuple", "function"} /\ name \in Range(node.targets)} = names
    BY <1>8
  <1>10. TablesFollow(node, Len(tables), Len(tables'), d)
    <2>1. \A l \in 0 .. s - 1 :
            tables'[s - l] = tables[s - l] \cup (IF l = d THEN names ELSE {})
      <3> TAKE l \in 0 .. s - 1
      <3>1. CASE l = d
        <4>1. s - l = 1
          BY <1>4, <1>6, <3>1
        <4> QED
          BY <1>7, <3>1, <4>1
      <3>2. CASE l # d
        <4>1. s - l \in 2 .. s
          BY <1>4, <1>6, <3>2
        <4> QED
          BY <1>7, <3>2, <4>1
      <3> QED
        BY <3>1, <3>2
    <2>2. d \in Nat /\ d < s /\ s <= s /\ s \in Nat
      BY <1>4, <1>6
    <2>3. \A l \in 0 .. s - 1 : l < s
      BY <1>4
    <2>4. \A l : {name \in Names : /\ node.kind \in {"define", "tuple", "function"}
                                   /\ name \in Range(node.targets) /\ l = d}
                  = IF l = d THEN names ELSE {}
      BY <1>9
    <2>5. node.kind \notin {"else", "endif", "end"}
      BY <1>8
    <2>6. Len(tables) = s /\ Len(tables') = s
      BY <1>3, <1>7
    <2>7. \A l \in 0 .. s - 1 :
            tables'[s - l] =
              (IF l < s /\ (node.kind \in {"else", "endif", "end"} => l < d) THEN tables[s - l] ELSE {})
                \cup {name \in Names : /\ node.kind \in {"define", "tuple", "function"}
                                      /\ name \in Range(node.targets) /\ l = d}
      BY <2>1, <2>3, <2>4, <2>5
    <2> QED
      BY <2>2, <2>5, <2>6, <2>7 DEF TablesFollow
  <1>11. \A name : \/ node.kind = "assign" /\ name \in Range(node.targets)
                   \/ name \in Range(node.operands)
                   => name \in Visible
    BY <1>8
  <1>12. \A name : node.kind \in {"define", "tuple", "function"} /\ name \in Range(node.targets)
                   => name \notin Visible
    BY <1>8
  <1>13. /\ node.kind = "tuple" => node.targets[1] # node.targets[2]
         /\ node.kind = "assign" => node.targets[1] \in header.assigned
         /\ node.kind # "separator"
    BY <1>8
  <1> QED
    BY <1>1, <1>2, <1>10, <1>11, <1>12, <1>13, NodeScopedAdded

LEMMA DeclaringScoped ==
  ASSUME ScopeInv, AnalysisInv', header' = header, NEW kind \in {"define", "tuple"},
         NEW targets, NEW operands, NEW isRequire,
         Statement(kind, targets, operands, isRequire), UNCHANGED open,
         NEW names \in SUBSET Names, names = Range(targets), Declare(names),
         names \cap Visible = {},
         kind = "tuple" => targets[1] # targets[2],
         Range(operands) \subseteq Visible
  PROVE  ScopeInv'
  <1>1. /\ kind \in {"define", "tuple", "assign", "require", "time", "unset"}
        /\ names = IF kind \in {"define", "tuple"} THEN Range(targets) ELSE {}
        /\ kind # "assign"
    OBVIOUS
  <1> QED
    BY <1>1, StatementScoped

LEMMA UndeclaringScoped ==
  ASSUME ScopeInv, AnalysisInv', header' = header,
         NEW kind \in {"assign", "require", "time", "unset"},
         NEW targets, NEW operands, NEW isRequire,
         Statement(kind, targets, operands, isRequire), UNCHANGED <<tables, open>>,
         kind = "assign" => Range(targets) \subseteq Visible /\ targets[1] \in header.assigned,
         Range(operands) \subseteq Visible
  PROVE  ScopeInv'
  <1>1. PICK names \in SUBSET Names : names = {}
    OBVIOUS
  <1>2. /\ kind \in {"define", "tuple", "assign", "require", "time", "unset"}
        /\ names = IF kind \in {"define", "tuple"} THEN Range(targets) ELSE {}
        /\ UNCHANGED tables /\ names = {}
        /\ UNCHANGED open
        /\ names \cap Visible = {}
        /\ kind # "tuple"
    BY <1>1
  <1> QED
    BY <1>2, StatementScoped

LEMMA StatementsScoped ==
  ASSUME ScopeInv, AnalysisInv', header' = header,
         \/ VisitVariableDefinition \/ VisitTupleAssignment \/ VisitAssign
         \/ VisitRequire \/ VisitUnset
  PROVE  ScopeInv'
  <1>1. AnalysisTypeOK /\ header.locals \subseteq Names /\ header.unsettable \subseteq Names
        /\ Visible \subseteq Names
    BY HeadersAssumption, ExpressionType DEF ScopeInv, AnalysisInv, AnalysisTypeOK, Names, NamesOf
  <1>2. \A x, y : Range(<<x>>) = {x} /\ Range(<<x, y>>) = {x, y} /\ <<x>>[1] = x
                  /\ <<x, y>>[1] = x /\ <<x, y>>[2] = y
    BY DEF Range
  <1>3. Range(<<>>) = {}
    BY DEF Range
  <1>4. ASSUME VisitVariableDefinition PROVE ScopeInv'
    <2>1. PICK name \in header.locals \ Visible, expression \in Expressions("define") :
            /\ Statement("define", <<name>>, expression, FALSE) /\ Declare({name}) /\ UNCHANGED open
      BY <1>4 DEF VisitVariableDefinition
    <2>2. Range(expression) \subseteq Visible
      BY <1>1, ExpressionScoped DEF StatementKinds
    <2>3. {name} \in SUBSET Names /\ {name} = Range(<<name>>) /\ {name} \cap Visible = {}
      BY <1>1, <1>2, <2>1
    <2> QED
      BY <2>1, <2>2, <2>3, DeclaringScoped
  <1>5. ASSUME VisitTupleAssignment PROVE ScopeInv'
    <2>1. PICK first \in header.locals \ Visible, second \in header.locals \ Visible,
               expression \in Expressions("tuple") :
            /\ first # second
            /\ Statement("tuple", <<first, second>>, expression, FALSE) /\ Declare({first, second})
            /\ UNCHANGED open
      BY <1>5 DEF VisitTupleAssignment
    <2>2. Range(expression) \subseteq Visible
      BY <1>1, ExpressionScoped DEF StatementKinds
    <2>3. /\ {first, second} \in SUBSET Names /\ {first, second} = Range(<<first, second>>)
          /\ {first, second} \cap Visible = {} /\ <<first, second>>[1] # <<first, second>>[2]
      BY <1>1, <1>2, <2>1
    <2> QED
      BY <2>1, <2>2, <2>3, DeclaringScoped
  <1>6. ASSUME VisitAssign PROVE ScopeInv'
    <2>1. PICK name \in header.assigned \cap Visible, expression \in Expressions("assign") :
            Statement("assign", <<name>>, expression, FALSE) /\ UNCHANGED <<tables, open>>
      BY <1>6 DEF VisitAssign
    <2>2. Range(expression) \subseteq Visible
      BY <1>1, ExpressionScoped DEF StatementKinds
    <2>3. Range(<<name>>) \subseteq Visible /\ <<name>>[1] \in header.assigned
      BY <1>2, <2>1
    <2> QED
      BY <2>1, <2>2, <2>3, UndeclaringScoped
  <1>7. ASSUME VisitRequire PROVE ScopeInv'
    <2>1. PICK kind \in {"require", "time"} : \E expression \in Expressions(kind) :
            Statement(kind, <<>>, expression, TRUE) /\ UNCHANGED <<tables, open>>
      BY <1>7 DEF VisitRequire
    <2>2. PICK expression \in Expressions(kind) :
            Statement(kind, <<>>, expression, TRUE) /\ UNCHANGED <<tables, open>>
      BY <2>1
    <2>3. kind \in StatementKinds /\ kind # "assign"
      BY DEF StatementKinds
    <2>4. Range(expression) \subseteq Visible
      BY <1>1, <2>3, ExpressionScoped
    <2> QED
      BY <2>2, <2>3, <2>4, UndeclaringScoped
  <1>8. ASSUME VisitUnset PROVE ScopeInv'
    <2>1. PICK name \in header.unsettable :
            Statement("unset", <<name>>, <<>>, FALSE) /\ UNCHANGED <<tables, open>>
      BY <1>8 DEF VisitUnset
    <2>2. Range(<<>>) \subseteq Visible
      BY <1>3
    <2> QED
      BY <2>1, <2>2, UndeclaringScoped
  <1> QED
    BY <1>4, <1>5, <1>6, <1>7, <1>8

LEMMA BracketScoped ==
  ASSUME ScopeInv, AnalysisInv', header' = header, phase = "analyse", InBody,
         NEW kind \in {"if", "else", "endif", "separator"}, NEW operands,
         program' = Append(program, [kind |-> kind, targets |-> <<>>, operands |-> operands]),
         Range(operands) \subseteq Visible,
         kind = "separator" => Separators = {},
         kind \in {"else", "endif"} => open # <<>>,
         kind = "if" => tables' = <<{}>> \o tables,
         kind = "else" => tables' = <<{}>> \o Tail(tables),
         kind = "endif" => tables' = Tail(tables),
         kind = "separator" => tables' = tables
  PROVE  ScopeInv'
  <1>2. PICK s : s = Len(tables)
    OBVIOUS
  <1>3. /\ s \in Nat \ {0} /\ tables \in Seq(SUBSET Names) /\ tables # <<>>
        /\ Len(open) \in Nat /\ FunctionOf(Len(program)) \in Nat
    BY <1>2, WrittenTypes DEF ScopeInv
  <1> DEFINE node == [kind |-> kind, targets |-> <<>>, operands |-> operands]
  <1>5. node.kind = kind /\ node.targets = <<>> /\ node.operands = operands
        /\ program' = Append(program, node)
    OBVIOUS
  <1> HIDE DEF node
  <1>6. PICK d : d = Len(open) + (IF FunctionOf(Len(program)) > 0 \/ node.kind = "function" THEN 1 ELSE 0)
    OBVIOUS
  <1>7. /\ d = s - 1
        /\ kind \in {"else", "endif"} => d > 0
    <2>1. s = 1 + Len(open) + (IF FunctionOf(Len(program)) > 0 THEN 1 ELSE 0)
      BY <1>2 DEF ScopeInv, AnalysisInv, Written
    <2>2. d = s - 1
      BY <1>3, <1>5, <1>6, <2>1
    <2>3. open # <<>> => Len(open) # 0
      BY WrittenTypes DEF ScopeInv
    <2> QED
      BY <1>3, <2>1, <2>2, <2>3
  <1>8. TablesFollow(node, s, Len(tables'), d)
    <2>1. \A l : {name \in Names : /\ node.kind \in {"define", "tuple", "function"}
                                   /\ name \in Range(node.targets) /\ l = d} = {}
      BY <1>5
    <2>2. PICK D \in SUBSET Names : D = {}
      OBVIOUS
    <2>3. /\ Len(<<D>> \o Tail(tables)) = s /\ (<<D>> \o Tail(tables))[1] = D
          /\ \A t \in 2 .. s : (<<D>> \o Tail(tables))[t] = tables[t]
          /\ Len(<<D>> \o tables) = s + 1 /\ (<<D>> \o tables)[1] = D
          /\ \A t \in 2 .. s + 1 : (<<D>> \o tables)[t] = tables[t - 1]
          /\ Len(Tail(tables)) = s - 1 /\ \A t \in 1 .. s - 1 : Tail(tables)[t] = tables[t + 1]
      BY <1>2, <1>3, TableMoves
    <2>4. CASE kind = "if"
      <3>1. Len(tables') = s + 1 /\ tables'[1] = {} /\ \A t \in 2 .. s + 1 : tables'[t] = tables[t - 1]
        BY <2>2, <2>3, <2>4
      <3>2. \A l \in 0 .. s + 1 - 1 : tables'[s + 1 - l] = IF l < s THEN tables[s - l] ELSE {}
        <4> TAKE l \in 0 .. s + 1 - 1
        <4>1. CASE l < s
          <5>1. PICK t : t = s + 1 - l
            OBVIOUS
          <5>2. t \in 2 .. s + 1 /\ t - 1 = s - l
            BY <1>3, <4>1, <5>1
          <5>3. tables'[t] = tables[t - 1]
            BY <3>1, <5>2
          <5> QED
            BY <4>1, <5>1, <5>2, <5>3
        <4>2. CASE ~(l < s)
          <5>1. s + 1 - l = 1
            BY <1>3, <4>2
          <5> QED
            BY <3>1, <4>2, <5>1
        <4> QED
          BY <4>1, <4>2
      <3> QED
        BY <1>3, <1>5, <1>7, <2>1, <2>4, <3>1, <3>2 DEF TablesFollow
    <2>5. CASE kind = "else"
      <3>1. Len(tables') = s /\ tables'[1] = {} /\ \A t \in 2 .. s : tables'[t] = tables[t]
        BY <2>2, <2>3, <2>5
      <3>2. \A l \in 0 .. s - 1 : tables'[s - l] = IF l < d THEN tables[s - l] ELSE {}
        <4> TAKE l \in 0 .. s - 1
        <4>1. CASE l < d
          <5>1. s - l \in 2 .. s
            BY <1>3, <1>7, <4>1
          <5> QED
            BY <3>1, <4>1, <5>1
        <4>2. CASE ~(l < d)
          <5>1. s - l = 1
            BY <1>3, <1>7, <4>2
          <5> QED
            BY <3>1, <4>2, <5>1
        <4> QED
          BY <4>1, <4>2
      <3>3. \A l \in 0 .. s - 1 : l < s
        BY <1>3
      <3> QED
        BY <1>3, <1>5, <1>7, <2>1, <2>5, <3>1, <3>2, <3>3 DEF TablesFollow
    <2>6. CASE kind = "endif"
      <3>1. Len(tables') = s - 1 /\ \A t \in 1 .. s - 1 : tables'[t] = tables[t + 1]
        BY <2>3, <2>6
      <3>2. \A l \in 0 .. s - 1 - 1 : tables'[s - 1 - l] = tables[s - l] /\ l < s /\ l < d
        <4> TAKE l \in 0 .. s - 1 - 1
        <4>1. s - 1 - l \in 1 .. s - 1 /\ s - 1 - l + 1 = s - l
          BY <1>3
        <4> QED
          BY <1>3, <1>7, <3>1, <4>1
      <3> QED
        BY <1>3, <1>5, <1>7, <2>1, <2>6, <3>1, <3>2 DEF TablesFollow
    <2>7. CASE kind = "separator"
      <3>1. tables' = tables /\ \A l \in 0 .. s - 1 : l < s
        BY <1>3, <2>7
      <3> QED
        BY <1>2, <1>3, <1>5, <1>7, <2>1, <2>7, <3>1 DEF TablesFollow
    <2> QED
      BY <2>4, <2>5, <2>6, <2>7
  <1>9. \A name : \/ node.kind = "assign" /\ name \in Range(node.targets)
                  \/ name \in Range(node.operands)
                  => name \in Visible
    BY <1>5
  <1>10. /\ \A name : node.kind \in {"define", "tuple", "function"} /\ name \in Range(node.targets)
                      => name \notin Visible
         /\ node.kind # "tuple" /\ node.kind # "assign"
         /\ node.kind = "separator" => Separators = {}
    BY <1>5
  <1> QED
    BY <1>2, <1>5, <1>6, <1>8, <1>9, <1>10, NodeScopedAdded

LEMMA BracketsScoped ==
  ASSUME ScopeInv, AnalysisInv', header' = header,
         VisitIf \/ VisitElse \/ VisitEndIf \/ VisitStateScript
  PROVE  ScopeInv'
  <1>1. phase = "analyse" /\ Range(<<>>) = {}
    <2>1. phase = "analyse"
      BY DEF VisitIf, VisitElse, VisitEndIf, VisitStateScript, Visit
    <2>2. Range(<<>>) = {}
      BY DEF Range
    <2> QED
      BY <2>1, <2>2
  <1>2. Written /\ AnalysisTypeOK /\ FunctionOf(Len(program)) \in Nat
    BY <1>1, WrittenTypes DEF ScopeInv, AnalysisInv
  <1>3. ASSUME VisitIf PROVE ScopeInv'
    <2>1. PICK expression \in Expressions("if") :
            InBody /\ Visit("if", <<>>, expression) /\ tables' = <<{}>> \o tables
      BY <1>3 DEF VisitIf
    <2>2. Range(expression) \subseteq Visible
      BY <1>2, ExpressionScoped DEF StatementKinds
    <2> QED
      BY <1>1, <2>1, <2>2, BracketScoped DEF Visit
  <1>4. ASSUME VisitElse PROVE ScopeInv'
    <2>1. InBody /\ open # <<>> /\ Visit("else", <<>>, <<>>) /\ tables' = <<{}>> \o Tail(tables)
      BY <1>2, <1>4 DEF VisitElse, Written
    <2> QED
      BY <1>1, <2>1, BracketScoped DEF Visit
  <1>5. ASSUME VisitEndIf PROVE ScopeInv'
    <2>1. InBody /\ open # <<>> /\ Visit("endif", <<>>, <<>>) /\ tables' = Tail(tables)
      BY <1>2, <1>5 DEF VisitEndIf, Written
    <2> QED
      BY <1>1, <2>1, BracketScoped DEF Visit
  <1>6. ASSUME VisitStateScript PROVE ScopeInv'
    <2>1. InBody /\ Visit("separator", <<>>, <<>>) /\ tables' = tables /\ Separators = {}
      BY <1>2, <1>6 DEF VisitStateScript, Written
    <2> QED
      BY <1>1, <2>1, BracketScoped DEF Visit
  <1> QED
    BY <1>3, <1>4, <1>5, <1>6

LEMMA FunctionScoped ==
  ASSUME ScopeInv, AnalysisInv', header' = header, VisitFunctionDefinition
  PROVE  ScopeInv'
  <1>1. PICK f : f = FunctionOf(Len(program)) + 1
    OBVIOUS
  <1>2. /\ f <= Len(Functions) /\ (f = 1 \/ ~InBody) /\ open = <<>>
        /\ Range(Functions[f]) \cap Visible = {}
        /\ program' = Append(program, [kind |-> "function", targets |-> Functions[f], operands |-> <<>>])
        /\ phase = "analyse"
        /\ tables' = <<Range(Functions[f])>> \o tables
    BY <1>1 DEF VisitFunctionDefinition, Visit
  <1>3. PICK s : s = Len(tables)
    OBVIOUS
  <1>4. /\ s \in Nat \ {0} /\ tables \in Seq(SUBSET Names) /\ tables # <<>>
        /\ FunctionOf(Len(program)) \in Nat /\ header \in Headers /\ Len(open) = 0
    BY <1>2, <1>3, WrittenTypes DEF ScopeInv
  <1>5. Range(Functions[f]) \in SUBSET Names
    <2>1. f \in 1 .. Len(Functions)
      <3>1. Len(Functions) \in Nat
        BY <1>4, HeadersAssumption, LenProperties DEF Functions
      <3> QED
        BY <1>1, <1>2, <1>4, <3>1
    <2> QED
      BY <1>4, <2>1, FunctionParameters, RangeOfSeq
  <1> DEFINE node == [kind |-> "function", targets |-> Functions[f], operands |-> <<>>]
  <1>6. node.kind = "function" /\ node.targets = Functions[f] /\ Range(node.operands) = {}
        /\ program' = Append(program, node)
    BY <1>2 DEF Range
  <1> HIDE DEF node
  <1>7. s = 1
    BY <1>1, <1>2, <1>3, <1>4 DEF ScopeInv, AnalysisInv, Written
  <1>8. Len(tables') = 2 /\ tables'[1] = Range(Functions[f]) /\ tables'[2] = tables[1]
    <2>1. /\ Len(tables') = s + 1 /\ tables'[1] = Range(Functions[f])
          /\ \A t \in 2 .. s + 1 : tables'[t] = tables[t - 1]
      BY <1>2, <1>3, <1>4, <1>5, TableMoves
    <2> QED
      BY <1>7, <2>1
  <1>9. PICK d : d = Len(open) + (IF FunctionOf(Len(program)) > 0 \/ node.kind = "function" THEN 1 ELSE 0)
    OBVIOUS
  <1>10. d = 1
    BY <1>4, <1>6, <1>9
  <1>11. TablesFollow(node, s, Len(tables'), d)
    <2>1. \A l \in 0 .. 2 - 1 :
         tables'[2 - l] =
           (IF l < 1 THEN tables[1 - l] ELSE {}) \cup (IF l = 1 THEN Range(Functions[f]) ELSE {})
      <3> TAKE l \in 0 .. 2 - 1
      <3>1. l = 0 \/ l = 1
        OBVIOUS
      <3> QED
        BY <1>8, <3>1
    <2>2. \A l : {name \in Names : /\ node.kind \in {"define", "tuple", "function"}
                                   /\ name \in Range(node.targets) /\ l = d}
                  = IF l = 1 THEN Range(Functions[f]) ELSE {}
      BY <1>5, <1>6, <1>10
    <2>3. node.kind \notin {"else", "endif", "end"}
      BY <1>6
    <2> QED
      BY <1>7, <1>8, <1>10, <2>1, <2>2, <2>3 DEF TablesFollow
  <1> QED
    BY <1>2, <1>3, <1>6, <1>9, <1>11, NodeScopedAdded

LEMMA EndScoped ==
  ASSUME ScopeInv, AnalysisInv', header' = header, VisitEnd
  PROVE  ScopeInv'
  <1>1. /\ InBody /\ open = <<>>
        /\ program' = Append(program, [kind |-> "end", targets |-> <<>>, operands |-> <<>>])
        /\ phase = "analyse"
        /\ tables' = Tail(tables)
        /\ Functions # <<>> => FunctionOf(Len(program)) > 0
    BY DEF VisitEnd, Visit
  <1>2. PICK s : s = Len(tables)
    OBVIOUS
  <1>3. /\ s \in Nat \ {0} /\ tables \in Seq(SUBSET Names) /\ tables # <<>>
        /\ FunctionOf(Len(program)) \in Nat /\ header \in Headers /\ Len(open) = 0
    BY <1>1, <1>2, WrittenTypes DEF ScopeInv
  <1> DEFINE node == [kind |-> "end", targets |-> <<>>, operands |-> <<>>]
  <1>4. node.kind = "end" /\ Range(node.operands) = {} /\ program' = Append(program, node)
    BY <1>1 DEF Range
  <1> HIDE DEF node
  <1>5. PICK d : d = Len(open) + (IF FunctionOf(Len(program)) > 0 \/ node.kind = "function" THEN 1 ELSE 0)
    OBVIOUS
  <1>6. ASSUME phase' = "analyse" PROVE TablesFollow(node, s, Len(tables'), d)
    <2>1. FunctionOf(Len(program)) > 0
      <3>1. FunctionOf(Len(program)) # Len(Functions)
        BY <1>6 DEF VisitEnd
      <3> QED
        BY <1>1, <1>3, <3>1
    <2>2. s = 2 /\ d = 1
      BY <1>1, <1>2, <1>3, <1>5, <2>1 DEF ScopeInv, AnalysisInv, Written
    <2>3. Len(tables') = 1 /\ tables'[1] = tables[2]
      <3>1. {} \in SUBSET Names
        OBVIOUS
      <3>2. Len(Tail(tables)) = s - 1 /\ \A t \in 1 .. s - 1 : Tail(tables)[t] = tables[t + 1]
        BY <1>2, <1>3, <3>1, TableMoves
      <3> QED
        BY <1>1, <2>2, <3>2
    <2>4. \A l : {name \in Names : /\ node.kind \in {"define", "tuple", "function"}
                                   /\ name \in Range(node.targets) /\ l = d} = {}
      BY <1>4
    <2>5. \A l \in 0 .. 1 - 1 : l = 0 /\ tables'[1 - l] = tables[2 - l]
      <3> TAKE l \in 0 .. 1 - 1
      <3>1. l = 0
        OBVIOUS
      <3> QED
        BY <2>3, <3>1
    <2> QED
      BY <1>4, <2>2, <2>3, <2>4, <2>5 DEF TablesFollow
  <1>7. /\ \A name : \/ node.kind = "assign" /\ name \in Range(node.targets)
                     \/ name \in Range(node.operands)
                     => name \in Visible
        /\ \A name : node.kind \in {"define", "tuple", "function"} /\ name \in Range(node.targets)
                     => name \notin Visible
        /\ node.kind # "tuple" /\ node.kind # "assign" /\ node.kind # "separator"
    BY <1>4
  <1> QED
    BY <1>1, <1>2, <1>4, <1>5, <1>6, <1>7, NodeScopedAdded

LEMMA AnalyseScoped ==
  ASSUME NoUnsetWithBranches, ScopeInv, Analyse
  PROVE  ScopeInv'
  <1>1. AnalysisInv' /\ header' = header
    BY AnalyseKeeps DEF ScopeInv, Analyse
  <1> QED
    BY <1>1, StatementsScoped, BracketsScoped, FunctionScoped, EndScoped DEF Analyse

LEMMA ScopeInitInv == AnalysisInit => ScopeInv
  <1> SUFFICES ASSUME AnalysisInit PROVE ScopeInv
    OBVIOUS
  <1>1. AnalysisInv /\ program = <<>> /\ tables = <<Outermost>>
    BY AnalysisInitInv DEF AnalysisInit, Outermost
  <1>2. Len(program) = 0 /\ Len(tables) = 1 /\ tables[1] = Outermost
    BY <1>1
  <1>3. WellScoped
    BY <1>2 DEF WellScoped
  <1>4. \A l : Declared(program, Len(program) + 1, l) = {}
    BY <1>2 DEF Declared
  <1>5. TablesAre
    <2>1. \A l \in 0 .. 1 - 1 : l = 0 /\ 1 - l = 1
      OBVIOUS
    <2>2. \A l \in 0 .. 1 - 1 : tables[1 - l] = {} \cup (IF l = 0 THEN Outermost ELSE {})
      BY <1>2, <2>1
    <2> QED
      BY <1>2, <1>4, <2>2 DEF TablesAre
  <1> QED
    BY <1>1, <1>3, <1>5 DEF ScopeInv
=============================================================================
