---------------------------- MODULE ScriptMachine ----------------------------
(***************************************************************************)
(* The stack machine of the Radiant node, as far as the operations the     *)
(* compiler emits around an expression rely on it.  A machine has a main   *)
(* and an alternative stack, top first, and the operands of the last       *)
(* operation it computed with.  An operation is a tuple: its opcode and    *)
(* its argument (the depth OP_PICK and OP_ROLL take from the stack).       *)
(***************************************************************************)
EXTENDS Naturals, Sequences, SequencesExt

Missing == <<"missing">>  \* what an operation finds below the bottom

At(stack, depth) == IF depth < Len(stack) THEN stack[depth + 1] ELSE Missing

Without(stack, depth) ==
    IF depth < Len(stack) THEN RemoveAt(stack, depth + 1) ELSE stack

From(stack, depth) == SubSeq(stack, depth + 1, Len(stack))

\* One operation.  <<"PUSH", values>> stands for data pushes, the last value
\* first; <<"COMPUTE", n, results>> for the opcode of an expression: it takes n
\* operands, the last one from the top, and leaves its results.
Exec(machine, op) ==
    LET main == machine.main
        to(stack) == [machine EXCEPT !.main = stack]
    IN  CASE op[1] = "PUSH"        -> to(op[2] \o main)
          [] op[1] = "PICK"        -> to(<<At(main, op[2])>> \o main)
          [] op[1] = "ROLL"        -> to(<<At(main, op[2])>> \o Without(main, op[2]))
          [] op[1] = "DROP"        -> to(Without(main, 0))
          [] op[1] = "NIP"         -> to(Without(main, 1))
          [] op[1] = "SWAP"        -> to(<<At(main, 1), At(main, 0)>> \o From(main, 2))
          [] op[1] = "TOALTSTACK"  -> [machine EXCEPT !.main = Without(main, 0),
                                                      !.alt  = <<At(main, 0)>> \o @]
          [] op[1] = "FROMALTSTACK" -> [machine EXCEPT !.main = <<At(machine.alt, 0)>> \o @,
                                                       !.alt  = Without(@, 0)]
          [] op[1] = "COMPUTE"     ->
               [machine EXCEPT !.main     = op[3] \o From(main, op[2]),
                               !.operands = [i \in 1 .. op[2] |-> At(main, op[2] - i)]]

Run(machine, ops) ==
    LET after[n \in 0 .. Len(ops)] == IF n = 0 THEN machine ELSE Exec(after[n - 1], ops[n])
    IN  after[Len(ops)]
=============================================================================
