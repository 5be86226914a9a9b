----------------------------- MODULE MCOptimiser -----------------------------
(* Scripts and stacks for model-checking OptimiserMeaning.                    *)
EXTENDS OptimiserMeaning, SequencesExt

AllOpcodes ==
    UNION {Range(each.lhs) \cup Range(each.rhs) : each \in Range(OPTIMISATION_RULES)}
    \cup Controls \cup Inline

AllData == Pushes

\* The left-hand sides of the rules, of each family with a number the first and last.
Middle == Range(SubSeq(Numerals, 6, 16))
LeftSides == {lhs \in {OPTIMISATION_RULES[r].lhs : r \in DOMAIN OPTIMISATION_RULES} :
                lhs[1] \notin Middle \/ lhs[2] = "ROLL"}

\* Any short sequence of the opcodes that rules both take and leave.
Shuffles == UNION {[1 .. n -> {"DUP", "SWAP", "OVER", "ROT", "DROP", "NIP", "2DUP"}] : n \in 1 .. 4}

\* What the code generator emits for a variable, with the empty push for depth 0.
Reads == {<<d, op>> : d \in {"0x", "0x01", "1", "2", "3"}, op \in {"PICK", "ROLL"}}

Fragments == {<<"1">>, <<"0x">>, <<"NOT">>, <<"EQUAL">>, <<"EQUAL", "NOT">>, <<"NUMEQUAL", "NOT">>,
              <<"VERIFY">>, <<"DROP">>, <<"255", "0xdata">>, <<"PUSHINPUTREF", "0xdata", "DROP">>}

Conditionals ==
    {test \o <<"IF">> \o then \o <<"ELSE">> \o else \o <<"ENDIF">> \o after :
       test  \in {<<>>, <<"NOT">>, <<"NUMEQUAL", "NOT">>, <<"0x", "PICK">>},
       then  \in {<<"SWAP">>, <<"NIP">>, <<"0xdata", "DROP">>},
       else  \in {<<"SWAP">>, <<"DROP", "1">>, <<"DUP", "ROT", "DROP">>},
       after \in {<<"SWAP">>, <<"NIP">>, <<"DROP">>, <<"OVER", "ROT", "DROP">>}}

AllScripts ==
    {a \o b : a \in LeftSides \cup Fragments, b \in LeftSides \cup Fragments}
    \cup {a \o b \o c : a \in Reads, b \in Reads, c \in Reads \cup Fragments}
    \cup Shuffles \cup Conditionals

ASSUME CapSuffices

\* Deep stacks of distinct numbers, of distinct byte strings, of both, of few different
\* values, and with a valid signature.
Deep(value(_)) == [k \in 1 .. 24 |-> value(k)]
DeepStacks == {
    Deep(LAMBDA k : Num(k + 2)),
    Deep(LAMBDA k : <<"item", k>>),
    Deep(LAMBDA k : IF k % 3 = 2 THEN <<"item", k>> ELSE Num(3 - k)),
    Deep(LAMBDA k : Num(k \div 3 % 2)),
    Deep(LAMBDA k : IF k % 2 = 1 THEN Bytes("pk") ELSE Bytes("sig")),
    Deep(LAMBDA k : IF k \in {1, 3} THEN Num(1)
                      ELSE IF k = 2 THEN Bytes("pk") ELSE Bytes("sig")) }
=============================================================================
