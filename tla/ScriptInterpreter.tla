-------------------------- MODULE ScriptInterpreter --------------------------
(***************************************************************************)
(* The interpreter of a node, for the opcodes the rules of the optimiser   *)
(* mention and the conditionals around them.  A script is a sequence of    *)
(* opcodes, named without OP_, and of data pushes.  A value is a number,   *)
(* or bytes that encode none (more than a number may have, say); a hash, a *)
(* concatenation and a bitwise result are named by their arguments.        *)
(* Stacks are written top first.                                           *)
(***************************************************************************)
EXTENDS Integers, Sequences, SequencesExt, TLC

Num(n)      == <<"num", n>>
Bytes(name) == <<"bytes", name>>
Bit(b)      == IF b THEN Num(1) ELSE Num(0)
IsNum(v)    == v[1] = "num"
Truthy(v)   == v # Num(0)

\* Data pushes and their values: bytes that encode a number are that number.
Pushed ==
    "0x"   :> Num(0) @@ "0x01" :> Num(1) @@ "0x02" :> Num(2) @@ "0x03" :> Num(3) @@
    "0xdata" :> Bytes("data") @@ "0xsig" :> Bytes("sig") @@ "0xpk" :> Bytes("pk")

Pushes == DOMAIN Pushed

\* Opcodes whose operand follows them in the script: the 255 of a placeholder and a
\* reference operation.  The operand ends up on the stack like a push.
Inline == {"255", "PUSHINPUTREF"}

\* OP_0 to OP_16, in their order
Numerals == <<"0", "1", "2", "3", "4", "5", "6", "7", "8", "9", "10", "11", "12", "13", "14",
              "15", "16">>
NumberOf == [s \in Range(Numerals) |-> CHOOSE n \in 0 .. 16 : Numerals[n + 1] = s]

\* Opcodes that rearrange the stack: how many values they take, and the places of
\* those they leave among them (1 is the top).
Moves ==
    "DUP"   :> <<1, <<1, 1>>>>             @@ "DROP"  :> <<1, <<>>>> @@
    "NIP"   :> <<2, <<1>>>>                @@ "SWAP"  :> <<2, <<2, 1>>>> @@
    "OVER"  :> <<2, <<2, 1, 2>>>>          @@ "ROT"   :> <<3, <<3, 1, 2>>>> @@
    "2DROP" :> <<2, <<>>>>                 @@ "2DUP"  :> <<2, <<1, 2, 1, 2>>>> @@
    "2SWAP" :> <<4, <<3, 4, 1, 2>>>>       @@ "2OVER" :> <<4, <<3, 4, 1, 2, 3, 4>>>> @@
    "3DUP"  :> <<3, <<1, 2, 3, 1, 2, 3>>>> @@ "2ROT"  :> <<6, <<5, 6, 1, 2, 3, 4>>>>

\* Opcodes that stand for two others.
Merged ==
    "EQUALVERIFY"         :> <<"EQUAL", "VERIFY">>         @@
    "NUMEQUALVERIFY"      :> <<"NUMEQUAL", "VERIFY">>      @@
    "CHECKSIGVERIFY"      :> <<"CHECKSIG", "VERIFY">>      @@
    "CHECKDATASIGVERIFY"  :> <<"CHECKDATASIG", "VERIFY">>  @@
    "CHECKMULTISIGVERIFY" :> <<"CHECKMULTISIG", "VERIFY">> @@
    "HASH256"             :> <<"SHA256", "SHA256">>        @@
    "HASH160"             :> <<"SHA256", "RIPEMD160">>

\* Opcodes that compute: how many values they take.
Arity ==
    [op \in {"1ADD", "1SUB", "NEGATE", "NOT", "0NOTEQUAL", "VERIFY", "SHA256", "RIPEMD160"}
       |-> 1] @@
    [op \in {"ADD", "SUB", "NUMEQUAL", "NUMNOTEQUAL", "LESSTHAN", "GREATERTHAN",
             "LESSTHANOREQUAL", "GREATERTHANOREQUAL", "EQUAL", "CAT", "AND", "OR", "XOR",
             "CHECKSIG"} |-> 2] @@
    "CHECKDATASIG" :> 3 @@ "CHECKMULTISIG" :> 5

OnNumbers == {"1ADD", "1SUB", "NEGATE", "NOT", "0NOTEQUAL", "ADD", "SUB", "NUMEQUAL",
              "NUMNOTEQUAL", "LESSTHAN", "GREATERTHAN", "LESSTHANOREQUAL",
              "GREATERTHANOREQUAL"}

\* The result of an opcode on numbers; a is below b, and unary opcodes take b.
Computed(op, a, b) ==
    CASE op = "1ADD"                -> Num(b + 1)
      [] op = "1SUB"                -> Num(b - 1)
      [] op = "NEGATE"              -> Num(-b)
      [] op = "NOT"                 -> Bit(b = 0)
      [] op = "0NOTEQUAL"           -> Bit(b # 0)
      [] op = "ADD"                 -> Num(a + b)
      [] op = "SUB"                 -> Num(a - b)
      [] op = "NUMEQUAL"            -> Bit(a = b)
      [] op = "NUMNOTEQUAL"         -> Bit(a # b)
      [] op = "LESSTHAN"            -> Bit(a < b)
      [] op = "GREATERTHAN"         -> Bit(a > b)
      [] op = "LESSTHANOREQUAL"     -> Bit(a <= b)
      [] op = "GREATERTHANOREQUAL"  -> Bit(a >= b)

\* One signature is valid, for one key.
Valid(sig, pk) == Bit(sig = Bytes("sig") /\ pk = Bytes("pk"))

\* The values an opcode leaves in place of those it takes, or no outcome if it fails.
Outcomes(op, taken) ==
    LET b == taken[1]
        a == taken[2]
    IN  CASE op \in OnNumbers ->
               IF \A i \in DOMAIN taken : IsNum(taken[i])
                 THEN {<<Computed(op, IF Len(taken) = 2 THEN a[2] ELSE 0, b[2])>>} ELSE {}
          [] op = "VERIFY" -> IF Truthy(b) THEN {<<>>} ELSE {}
          [] op = "EQUAL"  -> {<<Bit(a = b)>>}
          [] op = "CAT"    -> {<<<<"CAT", a, b>>>>}
          [] op \in {"SHA256", "RIPEMD160"} -> {<<<<op, b>>>>}
          \* strings of one length; AND and OR of a string with itself change nothing
          [] op \in {"AND", "OR"} /\ a = b -> {<<a>>}
          [] op \in {"AND", "OR", "XOR"} /\ ~(op # "XOR" /\ a = b) ->
               IF IsNum(a) = IsNum(b) THEN {<<<<op, {a, b}>>>>} ELSE {}
          [] op = "CHECKSIG"     -> {<<Valid(a, b)>>}
          [] op = "CHECKDATASIG" -> {<<Valid(taken[3], b)>>}
          \* of one key and one signature
          [] op = "CHECKMULTISIG" ->
               IF b = Num(1) /\ taken[3] = Num(1) THEN {<<Valid(taken[4], a)>>} ELSE {}

\* The stacks an opcode may leave: one, or none if it fails.
StacksAfter(op, stack) ==
    LET n == Len(stack)
        under(k) == SubSeq(stack, k + 1, n)
        arity == IF op \in DOMAIN Moves THEN Moves[op][1] ELSE Arity[op]
    IN  CASE op \in DOMAIN NumberOf -> {<<Num(NumberOf[op])>> \o stack}
          [] op = "1NEGATE"        -> {<<Num(-1)>> \o stack}
          [] op \in {"PICK", "ROLL"} ->
               IF n = 0 \/ ~IsNum(stack[1]) \/ stack[1][2] \notin 0 .. n - 2 THEN {}
                 ELSE LET depth == stack[1][2] + 1
                          rest  == under(1)
                      IN  {<<rest[depth]>>
                             \o (IF op = "PICK" THEN rest ELSE RemoveAt(rest, depth))}
          [] op \in DOMAIN Moves ->
               IF n < arity THEN {}
                 ELSE {[i \in DOMAIN Moves[op][2] |-> stack[Moves[op][2][i]]] \o under(arity)}
          [] op \in DOMAIN Arity ->
               IF n < arity THEN {}
                 ELSE {left \o under(arity) : left \in Outcomes(op, SubSeq(stack, 1, arity))}

-----------------------------------------------------------------------------
(* A machine is a stack and, innermost first, whether each conditional it  *)
(* is in executes.  An element leads to one machine, or to none if it fails. *)

Live(machine) == \A i \in DOMAIN machine.branches : machine.branches[i]

Controls == {"IF", "NOTIF", "ELSE", "ENDIF"}

Control(machine, op) ==
    CASE op \in {"IF", "NOTIF"} /\ ~Live(machine) ->
           {[machine EXCEPT !.branches = <<FALSE>> \o @]}
      [] op \in {"IF", "NOTIF"} /\ Live(machine) ->
           IF machine.stack = <<>> THEN {}
             ELSE {[branches |-> <<Truthy(machine.stack[1]) = (op = "IF")>> \o machine.branches,
                    stack    |-> Tail(machine.stack)]}
      [] op \in {"ELSE", "ENDIF"} /\ machine.branches = <<>> -> {}
      [] op = "ELSE"  /\ machine.branches # <<>> -> {[machine EXCEPT !.branches[1] = ~@]}
      [] op = "ENDIF" /\ machine.branches # <<>> -> {[machine EXCEPT !.branches = Tail(@)]}

Element(machine, e) ==
    CASE e \in Controls -> Control(machine, e)
      [] e \notin Controls /\ (~Live(machine) \/ e \in Inline) -> {machine}
      [] e \notin Controls \cup Inline /\ Live(machine) ->
           {[machine EXCEPT !.stack = stack] :
              stack \in IF e \in Pushes THEN {<<Pushed[e]>> \o machine.stack}
                          ELSE StacksAfter(e, machine.stack)}

ExecuteNext(machines, e) ==
    LET opcodes == IF e \in DOMAIN Merged THEN Merged[e] ELSE <<e>>
        one(ms, op) == UNION {Element(m, op) : m \in ms}
    IN  FoldLeft(one, machines, opcodes)

\* The stack a script leaves when it starts from the given one: none if it fails.
Execute(script, stack) ==
    {m.stack : m \in {n \in FoldLeft(ExecuteNext, {[stack |-> stack, branches |-> <<>>]}, script) :
                        n.branches = <<>>}}
=============================================================================
