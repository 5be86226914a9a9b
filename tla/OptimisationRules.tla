-------------------------- MODULE OptimisationRules --------------------------
(***************************************************************************)
(* The rules of the peephole optimiser, in the order in which they are     *)
(* tried.  An opcode is named without its prefix OP_; a rule replaces one  *)
(* sequence of opcodes by another.                                         *)
(***************************************************************************)
EXTENDS ScriptInterpreter, Naturals, Sequences

Rule(lhs, rhs) == [lhs |-> lhs, rhs |-> rhs]

HardcodedArithmetic == <<
    Rule(<<"1", "ADD">>,            <<"1ADD">>),
    Rule(<<"1", "SUB">>,            <<"1SUB">>),
    Rule(<<"1", "NEGATE">>,         <<"1NEGATE">>),
    Rule(<<"0", "EQUAL", "NOT">>,   <<"0NOTEQUAL">>),
    Rule(<<"NUMEQUAL", "NOT">>,     <<"NUMNOTEQUAL">>),
    Rule(<<"SHA256", "SHA256">>,    <<"HASH256">>),
    Rule(<<"SHA256", "RIPEMD160">>, <<"HASH160">>) >>

HardcodedStackOps == <<
    Rule(<<"2", "PICK", "1", "PICK", "3", "PICK">>, <<"3DUP", "SWAP">>),
    Rule(<<"2", "PICK", "2", "PICK", "2", "PICK">>, <<"3DUP">>),
    Rule(<<"0", "PICK", "2", "PICK">>, <<"2DUP", "SWAP">>),
    Rule(<<"2", "PICK", "4", "PICK">>, <<"2OVER", "SWAP">>),
    Rule(<<"3", "PICK", "3", "PICK">>, <<"2OVER">>),
    Rule(<<"2", "ROLL", "3", "ROLL">>, <<"2SWAP", "SWAP">>),
    Rule(<<"3", "ROLL", "3", "ROLL">>, <<"2SWAP">>),
    Rule(<<"4", "ROLL", "5", "ROLL">>, <<"2ROT", "SWAP">>),
    Rule(<<"5", "ROLL", "5", "ROLL">>, <<"2ROT">>),
    Rule(<<"0", "PICK">>,    <<"DUP">>),
    Rule(<<"1", "PICK">>,    <<"OVER">>),
    Rule(<<"0", "ROLL">>,    <<>>),
    Rule(<<"1", "ROLL">>,    <<"SWAP">>),
    Rule(<<"2", "ROLL">>,    <<"ROT">>),
    Rule(<<"DROP", "DROP">>, <<"2DROP">>) >>

SecondaryEffects == <<
    Rule(<<"DUP", "SWAP">>,           <<"DUP">>),
    Rule(<<"SWAP", "SWAP">>,          <<>>),
    Rule(<<"2SWAP", "2SWAP">>,        <<>>),
    Rule(<<"ROT", "ROT", "ROT">>,     <<>>),
    Rule(<<"2ROT", "2ROT", "2ROT">>,  <<>>),
    Rule(<<"OVER", "OVER">>,          <<"2DUP">>),
    Rule(<<"DUP", "DROP">>,           <<>>),
    Rule(<<"DUP", "NIP">>,            <<>>) >>

EnablingSecondaryEffects == << Rule(<<"DUP", "OVER">>, <<"DUP", "DUP">>) >>

MergeVerify == <<
    Rule(<<"EQUAL", "VERIFY">>,        <<"EQUALVERIFY">>),
    Rule(<<"NUMEQUAL", "VERIFY">>,     <<"NUMEQUALVERIFY">>),
    Rule(<<"CHECKSIG", "VERIFY">>,     <<"CHECKSIGVERIFY">>),
    Rule(<<"CHECKDATASIG", "VERIFY">>, <<"CHECKDATASIGVERIFY">>) >>

\* Mutant: a SWAP before GREATERTHAN is dropped as one before ADD is.
MutExtraneousSwap == <<
    Rule(<<"SWAP", "ADD">>,         <<"ADD">>),
    Rule(<<"SWAP", "EQUAL">>,       <<"EQUAL">>),
    Rule(<<"SWAP", "GREATERTHAN">>, <<"GREATERTHAN">>) >>

ExtraneousSwapAndDup == <<
    Rule(<<"SWAP", "ADD">>,                <<"ADD">>),
    Rule(<<"SWAP", "EQUAL">>,              <<"EQUAL">>),
    Rule(<<"SWAP", "NUMEQUAL">>,           <<"NUMEQUAL">>),
    Rule(<<"SWAP", "NUMNOTEQUAL">>,        <<"NUMNOTEQUAL">>),
    Rule(<<"SWAP", "GREATERTHANOREQUAL">>, <<"LESSTHANOREQUAL">>),
    Rule(<<"SWAP", "LESSTHANOREQUAL">>,    <<"GREATERTHANOREQUAL">>),
    Rule(<<"SWAP", "GREATERTHAN">>,        <<"LESSTHAN">>),
    Rule(<<"SWAP", "LESSTHAN">>,           <<"GREATERTHAN">>),
    Rule(<<"SWAP", "DROP">>,               <<"NIP">>),
    Rule(<<"SWAP", "NIP">>,                <<"DROP">>),
    Rule(<<"DUP", "DROP">>,                <<>>),
    Rule(<<"DUP", "NIP">>,                 <<>>) >>

RandomOptimisations == <<
    Rule(<<"2DUP", "DROP">>, <<"OVER">>),
    Rule(<<"2DUP", "NIP">>,  <<"DUP">>),
    Rule(<<"CAT", "DROP">>,  <<"2DROP">>),
    Rule(<<"NIP", "DROP">>,  <<"2DROP">>) >>

FarFetched ==
    << Rule(<<"DUP", "ROT", "SWAP", "DROP">>,  <<"SWAP">>),
       Rule(<<"OVER", "ROT", "SWAP", "DROP">>, <<"SWAP">>) >>
    \o [i \in 1 .. 15 |->
         Rule(<<Numerals[i + 2], "PICK", "ROT", "SWAP", "DROP">>, <<"SWAP">>)]
    \o << Rule(<<"DUP", "ROT", "DROP">>,       <<"NIP", "DUP">>),
          Rule(<<"OVER", "ROT", "DROP">>,      <<"SWAP">>),
          Rule(<<"2", "PICK", "ROT", "DROP">>, <<"NIP", "OVER">>) >>
    \o [i \in 1 .. 17 |->
         Rule(<<Numerals[i], "NIP">>, <<"DROP", Numerals[i]>>)]
    \o << Rule(<<"2", "PICK", "SWAP", "2", "PICK", "NIP">>, <<"DROP", "2DUP">>) >>

HARDCODED_RULES == <<
    Rule(<<"NOT", "IF">>,               <<"NOTIF">>),
    Rule(<<"CHECKMULTISIG", "VERIFY">>, <<"CHECKMULTISIGVERIFY">>),
    Rule(<<"SWAP", "AND">>,             <<"AND">>),
    Rule(<<"SWAP", "OR">>,              <<"OR">>),
    Rule(<<"SWAP", "XOR">>,             <<"XOR">>),
    Rule(<<"DUP", "AND">>,              <<>>),
    Rule(<<"DUP", "OR">>,               <<>>),
    Rule(<<"SWAP", "EQUALVERIFY">>,     <<"EQUALVERIFY">>),
    Rule(<<"SWAP", "NUMEQUALVERIFY">>,  <<"NUMEQUALVERIFY">>) >>

OPTIMISATION_RULES ==
    HardcodedArithmetic \o HardcodedStackOps \o SecondaryEffects
    \o EnablingSecondaryEffects \o MergeVerify \o ExtraneousSwapAndDup
    \o RandomOptimisations \o FarFetched \o HARDCODED_RULES
=============================================================================
