--------------------------- MODULE OptimiserMeaning ---------------------------
(***************************************************************************)
(* The optimiser with its rules, next to the interpreter of the node.      *)
(***************************************************************************)
EXTENDS Optimiser, OptimisationRules

CONSTANT Stacks \* the stacks scripts are executed on

\* What the table of rules keeps to: a rule makes a script lighter, and has no opcode with
\* an operand on either side.
ASSUME RulesAssumption ==
    \A r \in DOMAIN Rules :
      /\ Weight(Rules[r].rhs) < Weight(Rules[r].lhs)
      /\ \A k \in DOMAIN Rules[r].lhs : Rules[r].lhs[k] \notin Inline
      /\ \A k \in DOMAIN Rules[r].rhs : Rules[r].rhs[k] \notin Inline

\* The generator emits an inline opcode and its operand, which is not empty, together.
ASSUME OperandsAssumption ==
    \A s \in Scripts : \A k \in DOMAIN s : s[k] \in Inline =>
      k < Len(s) /\ s[k + 1] \in Data \ {"0x"}

\* The cap on the passes is above three times the length of every script.
CapSuffices == \A s \in Scripts : 3 * Len(s) < Runs

\* On every stack on which the original succeeds the optimised script does, with the
\* same result.  (It may succeed where the original runs out of values or finds one
\* that is no number.)
SameResults ==
    \A stack \in Stacks :
      LET results == Execute(original, stack)
      IN  results # {} => Execute(script, stack) = results

\* The rule OP_0 OP_EQUAL OP_NOT <=> OP_0NOTEQUAL
NullComparison == {r \in DOMAIN Rules : Rules[r].rhs = <<"0NOTEQUAL">>}

\* Whatever rules are applied, in whatever order one makes room for the next, to any
\* part of a script with conditionals, reference operations and pushes, the script
\* keeps its meaning: but for the one rule that does not.
MeaningKept == done /\ applied \cap NullComparison = {} => SameResults

\* The operand of an inline opcode still follows it.
OperandsFollow ==
    \A k \in DOMAIN script : script[k] \in Inline =>
      k < Len(script) /\ script[k + 1] \in Data

\* The header of the rules: "This file can be run with CashProof to prove that the
\* optimisations preserve exact functionality".
ExactFunctionality == done => SameResults
=============================================================================
