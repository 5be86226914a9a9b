------------------------------ MODULE Optimiser ------------------------------
(***************************************************************************)
(* The peephole optimiser of the compiler: optimiseBytecode rewrites a     *)
(* script with one rule after the other, pass after pass, until a pass     *)
(* changes nothing.  A step is one replacement of a rule's left-hand side, *)
(* the move to the next rule that has one, or the end of a pass.           *)
(***************************************************************************)
EXTENDS Naturals, Sequences, FiniteSets

CONSTANTS
    Rules,   \* OPTIMISATION_RULES: records with the sequences lhs and rhs
    Opcodes, \* elements of a script that are numbers
    Data,    \* elements that are byte strings
    Runs,    \* the cap on the number of passes
    Scripts  \* what optimiseBytecode is called with

Elements == Opcodes \cup Data

\* What parseOptimisationRules accepts.
ASSUME ParsedRules ==
    /\ Rules \in Seq([lhs : Seq(Opcodes), rhs : Seq(Opcodes)])
    /\ \A r \in DOMAIN Rules : /\ Len(Rules[r].lhs) > 0
                               /\ Len(Rules[r].rhs) <= Len(Rules[r].lhs)

ASSUME ScriptsAssumption ==
    /\ Scripts \subseteq Seq(Elements)
    /\ Opcodes \cap Data = {}
    /\ "0" \in Opcodes
    /\ Runs \in Nat \ {0}

VARIABLES
    original,         \* the argument, never changed
    script,           \* result followed by the part of the script not yet scanned
    rule,             \* the index of the rule being applied; past the last at the end of a pass
    position,         \* where the scan for it goes on
    iterationChanged,
    i,                \* the number of passes that are over
    done,
    applied           \* history: the rules that replaced something

vars == <<original, script, rule, position, iterationChanged, i, done, applied>>

TypeOK ==
    /\ original \in Seq(Elements)
    /\ script \in Seq(Elements)
    /\ rule \in 1 .. Len(Rules) + 1
    /\ position \in 1 .. Len(script) + 1
    /\ iterationChanged \in BOOLEAN
    /\ i \in 0 .. Runs
    /\ done \in BOOLEAN
    /\ applied \subseteq DOMAIN Rules

-----------------------------------------------------------------------------
\* An empty push is the opcode OP_0.  (SubSeq has TLC compute the sequence once.)
canonicaliseScript(s) ==
    SubSeq([k \in 1 .. Len(s) |-> IF s[k] = "0x" THEN "0" ELSE s[k]], 1, Len(s))

\* the left-hand side of rule r stands at place k
Matches(s, r, k) ==
    LET end == k + Len(Rules[r].lhs) - 1
    IN  end <= Len(s) /\ SubSeq(s, k, end) = Rules[r].lhs

MatchesFrom(s, r, k) == {m \in k .. Len(s) : Matches(s, r, m)}

\* Mutant: the element before goes with the left-hand side.
MutReplacedBefore(s, r, k) ==
    SubSeq(s, 1, k - 2) \o Rules[r].rhs \o SubSeq(s, k + Len(Rules[r].lhs), Len(s))

\* Mutant: what follows is taken from behind the right-hand side.
MutReplacedAfter(s, r, k) ==
    SubSeq(s, 1, k - 1) \o Rules[r].rhs \o SubSeq(s, k + Len(Rules[r].rhs), Len(s))

Replaced(s, r, k) ==
    SubSeq(s, 1, k - 1) \o Rules[r].rhs \o SubSeq(s, k + Len(Rules[r].lhs), Len(s))

Stretches(s) == UNION {{SubSeq(s, from, to) : to \in DOMAIN s} : from \in DOMAIN s}

\* The first rule from k on that has something to replace in s, or one past the last
\* rule: a set with that one element.
NextRule(s, k) ==
    LET stretches == Stretches(s)
        left == {r \in k .. Len(Rules) : Rules[r].lhs \in stretches} \cup {Len(Rules) + 1}
    IN  {r \in left : \A m \in left : r <= m}

Init ==
    /\ original \in Scripts
    /\ script = canonicaliseScript(original)
    /\ rule = 1
    /\ position = 1
    /\ iterationChanged = FALSE
    /\ i = 0
    /\ done = FALSE
    /\ applied = {}

\* Mutant: the scan goes on as if the right-hand side were as long as the left-hand side.
MutReplace ==
    /\ rule <= Len(Rules)
    /\ \E k \in MatchesFrom(script, rule, position) :
         /\ \A m \in MatchesFrom(script, rule, position) : k <= m
         /\ script' = Replaced(script, rule, k)
         /\ position' = k + Len(Rules[rule].lhs)
    /\ iterationChanged' = TRUE
    /\ applied' = applied \cup {rule}
    /\ UNCHANGED <<original, rule, i, done>>

\* applyOpcodeListRule, one match: the leftmost one that does not overlap what was
\* already replaced.
Replace ==
    /\ rule <= Len(Rules)
    /\ \E k \in MatchesFrom(script, rule, position) :
         /\ \A m \in MatchesFrom(script, rule, position) : k <= m
         /\ script' = Replaced(script, rule, k)
         /\ position' = k + Len(Rules[rule].rhs)
    /\ iterationChanged' = TRUE
    /\ applied' = applied \cup {rule}
    /\ UNCHANGED <<original, rule, i, done>>

\* The rule has nothing more to replace: on to the next one that has.
ToNextRule ==
    /\ rule <= Len(Rules)
    /\ MatchesFrom(script, rule, position) = {}
    /\ rule' \in NextRule(script, rule + 1)
    /\ position' = 1
    /\ UNCHANGED <<original, script, iterationChanged, i, done, applied>>

\* Mutant: one pass is enough.
MutEndPass ==
    /\ rule = Len(Rules) + 1
    /\ ~done
    /\ i' = i + 1
    /\ done' = TRUE
    /\ iterationChanged' = FALSE
    /\ UNCHANGED <<original, script, rule, position, applied>>

\* A pass is over: another one, if this one changed something and the cap allows it.
EndPass ==
    /\ rule = Len(Rules) + 1
    /\ ~done
    /\ i' = i + 1
    /\ done' = (~iterationChanged \/ i + 1 = Runs)
    /\ iterationChanged' = FALSE
    /\ rule' = IF done' THEN rule ELSE 1
    /\ position' = 1
    /\ UNCHANGED <<original, script, applied>>

Next == Replace \/ ToNextRule \/ EndPass

Spec == Init /\ [][Next]_vars

-----------------------------------------------------------------------------
\* Rules never make a script longer (script-optimise.test.ts: "optimiseBytecode never
\* grows the script"), so it ends with a script no longer than it began with.
NeverGrows == Len(script) <= Len(original)

\* Rules may also keep the length; the optimiser ends because such a rule takes away an
\* OP_OVER or an OP_NIP and adds none: every replacement makes progress in this order.
Untidy(s) == Cardinality({k \in DOMAIN s : s[k] \in {"OVER", "NIP"}})

\* The same order as one number, and so a bound on the replacements a script can take.
Weight(s) == 2 * Len(s) + Untidy(s)

EveryRewriteProgresses ==
    [][ Replace => \/ Len(script') < Len(script)
                   \/ Len(script') = Len(script) /\ Untidy(script') < Untidy(script) ]_vars

\* "match only at exact opcode equality (never on data pushes)": what the script pushes
\* stays, in its order, and with it the operands that follow their opcodes.
PushesKept ==
    LET pushes(s) == SelectSeq(s, LAMBDA e : e \in Data \ {"0x"})
    IN  pushes(script) = pushes(original)

\* When it ends nothing is left to rewrite: a second call would change nothing, and
\* the cap on the passes is never what ends it.
ReachesFixedPoint ==
    done => \A r \in DOMAIN Rules : MatchesFrom(script, r, 1) = {}
=============================================================================
