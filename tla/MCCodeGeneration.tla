--------------------------- MODULE MCCodeGeneration ---------------------------
(* Headers and bounds of the contracts for model-checking CodeGeneration.     *)
EXTENDS CodeGeneration

\* The numbers of identifiers in an expression; {} leaves out statements of a kind.
Sizes(define, tuple, assign, require, time, if) ==
    [define |-> define, tuple |-> tuple, assign |-> assign,
     require |-> require, time |-> time, if |-> if]

\* Branches, assignments and block-scoped variables.
Branching ==
    [inline |-> {}, params |-> <<"a">>, functions |-> <<>>, argumentOrder |-> "rad-scryptlib",
     locals |-> {"x"}, arities |-> Sizes({1}, {}, {1}, {2}, {}, {0}),
     assigned |-> {"a", "x"}, unsettable |-> {}, separateStates |-> FALSE, maxNodes |-> 7]

\* Straight-line code: tuples and reassigned variables.
Straight ==
    [Branching EXCEPT !.params = <<"a", "b">>, !.locals = {"x", "y"}, !.assigned = {"x"},
                      !.arities = Sizes({1}, {1}, {1}, {2}, {}, {}), !.maxNodes = 5]

\* Two functions, a parameter they share and statements before them.
Dispatching ==
    [Branching EXCEPT !.functions = <<<<"p">>, <<"q">>>>, !.locals = {}, !.assigned = {},
                      !.arities = Sizes({}, {}, {}, {1}, {}, {1}), !.maxNodes = 9]

\* A state script in front of the code script, and time checks in both.
Stateful ==
    [Branching EXCEPT !.arities = Sizes({1}, {}, {1}, {1}, {1}, {0}), !.separateStates = TRUE,
                      !.maxNodes = 6]

\* Unset statements outside branches.
Unsetting ==
    [Stateful EXCEPT !.arities = Sizes({1}, {}, {1}, {1}, {}, {}), !.unsettable = {"a", "x"}]

\* A name for variables in blocks of the state script and behind them.
Renaming ==
    [Branching EXCEPT !.arities = Sizes({1}, {}, {}, {1}, {}, {0}), !.assigned = {},
                      !.separateStates = TRUE, !.maxNodes = 8]

Accepted == {Branching, Straight, Dispatching, Stateful, Unsetting, Renaming}

\* A short contract with a branch.
Short == {[Branching EXCEPT !.maxNodes = 5]}

\* Assignments to a parameter of the contract itself.
Inlined ==
    {[Straight EXCEPT !.inline = {"k"}, !.params = <<"a">>, !.locals = {},
                      !.assigned = {"k"}, !.maxNodes = 4]}

ASSUME HeadersUnsetAssumption == NoUnsetWithBranches
ASSUME HeadersTraceableAssumption == ValuesTraceable(Accepted)
=============================================================================
