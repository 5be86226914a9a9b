----------------------------- MODULE MCTypeCheck -----------------------------
(* Types, arguments and sizes for model-checking TypeCheckTraversal.         *)
EXTENDS TypeCheckTraversal

Widths == {8, 20, 32, 36}
Opaque == {StringType, AnyBytes, Plain("sig"), Plain("pubkey"), Plain("datasig")}
Declared == {IntType, BoolType} \cup Opaque \cup {BytesType(n) : n \in Widths}

\* Numbers of the smallest and the largest size, a run of bytes that is no number of a
\* size a number may have, and longer ones.
NumberOf(n) == [size |-> n, number |-> TRUE]
RunOf(n) == [size |-> n, number |-> FALSE]
Passed ==
  {[type |-> t, value |-> NumberOf(1)] : t \in {IntType, BoolType}}
    \cup {[type |-> IntType, value |-> NumberOf(8)], [type |-> AnyBytes, value |-> RunOf(80)]}
    \cup {[type |-> t, value |-> RunOf(9)] : t \in Opaque}
    \cup {[type |-> BytesType(n), value |-> RunOf(n)] : n \in Widths \ {36}}
=============================================================================
