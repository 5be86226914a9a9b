------------------------- MODULE MCCovenantReview -------------------------
(* A pool of statements as the contracts of the repository write them.      *)
EXTENDS CovenantReview

Id(x) == IdentifierNode(x)
Num(n) == IntLiteralNode(n)
Call(f, x) == FunctionCallNode(IdentifierNode(f), <<x>>)
Bin(a, op, b) == BinaryOpNode(a, op, b)
Req(a, op, b) == RequireNode(Bin(a, op, b))
Def(type, x, e) == VariableDefinitionNode(type, "", x, e)

Active == NullaryOpNode("this.activeInputIndex")
InputCount == NullaryOpNode("tx.inputs.length")
OutputCount == NullaryOpNode("tx.outputs.length")
ActiveValue == UnaryOpNode("tx.inputs[i].value", Active)
ActiveCode == UnaryOpNode("tx.inputs[i].codeScript", Active)
Output(i, f) == UnaryOpNode(OutField[f], Num(i))
InSum(k) == Call("tx.inputs.codeScriptValueSum", k)
OutSum(k) == Call("tx.outputs.codeScriptValueSum", k)
RefCount(r) == Call("tx.outputs.refOutputCount", r)
P2PKH == InstantiationNode(Id("LockingBytecodeP2PKH"), <<Id("owner")>>)
NullData == InstantiationNode(Id("LockingBytecodeNullData"), <<Id("owner")>>)

MCParameters ==
  [x \in {"A", "B", "REF", "owner", "next"} |->
    CASE x \in {"A", "B"} -> "bytes32" [] x = "REF" -> "bytes36" [] OTHER -> "bytes"]
MCEnvironments ==
  {[x \in DOMAIN MCParameters |->
     CASE x = "A" -> <<a>> [] x = "B" -> <<b>> [] x = "REF" -> "ref"
       [] x = "owner" -> "owner" [] x = "next" -> "s1"] : a \in {"self"}, b \in {"self", "p2pkh"}}

Statement1 ==
  {Def("bytes32", "csh", Call("hash256", ActiveCode)),
   Def("int", "in", InSum(Id("csh"))),
   Def("int", "sum", InSum(Id("A"))),
   Req(OutSum(Id("A")), "==", Id("sum")),
   Req(Id("in"), "==", OutSum(Id("csh"))),
   Req(InSum(Id("A")), "==", OutSum(Id("A"))),
   Req(InSum(Id("A")), "==", OutSum(Id("B"))),
   Req(Call("tx.inputs.refHashValueSum", Id("A")), "==", OutSum(Id("A"))),
   AssignNode(Id("A"), Id("B"))}
Statement2 ==
  {Def("bytes36", "ref", PushRefNode("pushInputRef", Id("REF"), FALSE)),
   Req(RefCount(Id("ref")), "==", Num(1)),
   Req(Num(1), ">=", RefCount(Id("REF"))),
   Req(Call("tx.inputs.refOutputCount", Id("ref")), "==", Num(1)),
   Req(Call("tx.outputs.codeScriptCount", Id("A")), "==", RefCount(Id("REF"))),
   Req(Output(0, "lockingBytecode"), "==", NullData)}
Statement3 ==
  {Req(OutputCount, "==", Num(1)),
   Req(OutputCount, "==", Num(2)),
   Req(Output(0, "codeScript"), "==", ActiveCode),
   Req(P2PKH, "==", Output(1, "lockingBytecode")),
   Req(Output(0, "stateScript"), "==", Id("next")),
   Req(Output(1, "stateScript"), "==", Id("next"))}
Statement4 ==
  {Def("int", "value", ActiveValue),
   Req(Output(0, "value"), ">=", Id("value")),
   Req(Id("value"), "==", Id("value")),
   Req(Num(2), ">", InputCount),
   Def("bool", "ok", Bin(OutputCount, "==", Num(1))),
   AssignNode(Id("ok"), Bin(Id("ok"), "!=", BoolLiteralNode(TRUE))),
   RequireNode(Id("ok")),
   BranchNode(Bin(InputCount, "==", Num(1)),
              BlockNode(<<Req(OutputCount, "==", Num(2))>>), None),
   RequireNode(Bin(Bin(InputCount, "<=", Num(1)), "||", Bin(OutputCount, "==", Num(1)))),
   RequireNode(Call("checkSig", Id("owner")))}
MCStatements == Statement1 \cup Statement2 \cup Statement3 \cup Statement4

MCCommented ==
  {Req(OutputCount, "==", Num(1)), Req(Output(0, "codeScript"), "==", ActiveCode),
   Req(InSum(Id("A")), "==", OutSum(Id("B"))), Req(Output(0, "stateScript"), "==", Id("next"))}

Measured == {InputCount, RefCount(Id("REF")), Call("tx.inputs.codeScriptCount", Id("A"))}
MCProbes ==
  {Req(m, op, Num(k)) : m \in Measured, op \in Comparisons, k \in -1 .. 3}
  \cup {Req(Num(k), op, m) : m \in Measured, op \in Comparisons, k \in -1 .. 3}

MCComments ==
  {Comment("disable", AnyRule), Comment("disable", "unconstrained-outputs"),
   Comment("disable-line", AnyRule), Comment("disable-line", "missing-value-conservation"),
   Comment("disable-next-line", "unconstrained-outputs"), Comment("disable-next-line", AnyRule),
   Comment("disable-line", "uncontrained-outputs")}

Coin(value, guard, refs) == [value |-> value, state |-> guard[1], code |-> guard[2], refs |-> refs]
Guards == {<<"s0", "self">>, <<"s1", "self">>, <<"", "p2pkh">>, <<"", "null">>}
Coins == {Coin(v, g, r) : v \in 0 .. 1, g \in Guards, r \in SUBSET {"ref"}}
Others ==   \* what may stand beside another output
  {Coin(1, <<"s0", "self">>, {}), Coin(0, <<"s0", "self">>, {"ref"}), Coin(1, <<"s1", "self">>, {"ref"}),
   Coin(0, <<"", "p2pkh">>, {}), Coin(1, <<"", "p2pkh">>, {"ref"}), Coin(1, <<"", "null">>, {})}
Spent == Coin(1, <<"s0", "self">>, {"ref"})
MCTransactions ==
  {[inputs |-> i, outputs |-> o] :
     i \in {<<Spent>>, <<Spent, Coin(1, <<"s0", "self">>, {})>>,
            <<Spent, Coin(1, <<"", "p2pkh">>, {"ref"})>>},
     o \in {<<>>} \cup {<<a>> : a \in Coins} \cup {<<a, b>> : a \in Coins, b \in Others}}
MCNoComment == [form |-> "none", rule |-> "none"]
==========================================================================
