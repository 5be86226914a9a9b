--------------------------- MODULE MCContractCalls ---------------------------
EXTENDS ContractCalls

IntArg(n)   == [kind |-> "number", value |-> Natural(n)]
Minus(n)   == [kind |-> "number", value |-> [Natural(n) EXCEPT !.negative = TRUE]]
Bytes(b)   == [kind |-> "bytes", value |-> b]
Entry(type, name, params) ==
    [type |-> type, name |-> name, params |-> params, covenant |-> FALSE]

\* Three pushes of 75 bytes and one of the given size: 229 + size bytes.
Filler(size) == [n \in 1 .. 4 |-> Data(Filled(IF n < 4 THEN 75 ELSE size, 7))]

\* With a cut; its sizes lie around 252 bytes, with and without what the cut adds.
Cutting(cut, size) ==
    [asm |-> <<Op(118), Op(OP_NOP), cut>> \o Filler(size),
     abi |-> <<Entry("function", "spend", <<>>), Entry("constructor", "", <<>>)>>]

MCArtifacts ==
    { [asm |-> <<Op(118), Op(169)>>,
       abi |-> <<Entry("function", "spend", <<"int", "bytes">>),
                 Entry("constructor", "", <<"bytes", "int">>)>>],
      [asm |-> <<Op(118), Op(OP_STATESEPARATOR), Op(169)>>,
       abi |-> <<Entry("function", "spend", <<"sig", "string">>),
                 Entry("function", "reclaim", <<"bytes4", "bool">>),
                 Entry("constructor", "", <<"Ripemd160">>)>>],
      [asm |-> <<Op(118)>>,
       abi |-> <<Entry("constructor", "", <<"bytes", "bytes">>),
                 Entry("function", "spend", <<"sig">>),
                 Entry("function", "spend", <<"sig", "datasig">>)>>] }
    \cup {Cutting(cut, size) : cut \in {Op(OP_0), Op(95), Op(OP_16), Data(<<124>>), Data(<<126>>)},
                               size \in 20 .. 23}
    \cup {Cutting(Op(OP_16), 75)}

MCArguments ==
    {IntArg(0), IntArg(1), IntArg(16), IntArg(17), Minus(1), IntArg(128), Minus(32768),
     Bytes(<<>>), Bytes(<<0>>), Bytes(<<16>>), Bytes(<<129>>), Bytes(Filled(4, 189)),
     Bytes(Filled(20, 1)), Bytes(Filled(64, 5)), Bytes(Filled(65, 5)), Bytes(Filled(75, 5)),
     Bytes(Filled(76, 5)), Bytes(Filled(255, 5)), Bytes(Filled(256, 5)),
     [kind |-> "boolean", value |-> TRUE], [kind |-> "boolean", value |-> FALSE],
     [kind |-> "text", value |-> <<104, 105>>], [kind |-> "template", value |-> 0]}

MCTypical ==
    {IntArg(17), Bytes(Filled(4, 189)), Bytes(Filled(76, 5)), Bytes(Filled(65, 5)),
     [kind |-> "boolean", value |-> TRUE],
     [kind |-> "text", value |-> <<104, 105>>], [kind |-> "template", value |-> 0]}

MCOutputs ==
    { [to |-> [version |-> 0, payload |-> Filled(20, 9)]],
      [to |-> [version |-> 5, payload |-> Filled(20, 9)]],
      [to |-> [raw |-> Filled(40, 1)]],
      createOpReturnOutput(<<Filled(0, 1), Filled(75, 1), Filled(76, 1)>>) }

MCStates ==
    {Bytes(Filled(size, byte)) : size \in {0, 1, 75, 76, 160}, byte \in {76, 189}}
      \cup {IntArg(n) : n \in {0, 127, 128, 256}}
      \cup {Minus(n) : n \in {1, 128, 32768}}
      \cup { [kind |-> "number", value |-> [negative |-> negative, bytes |-> bytes]] :
               negative \in BOOLEAN, bytes \in {<<0, 0, 128>>, <<255, 255, 255, 127>>} }

\* Every locking bytecode of up to 5 of the bytes that matter.
MCForeign == SeqOf({0, 1, 2, OP_PUSHDATA1, OP_PUSHDATA2, OP_STATESEPARATOR}, 5) \ {<<>>}
=============================================================================
