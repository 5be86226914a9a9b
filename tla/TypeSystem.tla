----------------------------- MODULE TypeSystem -----------------------------
(***************************************************************************)
(* The types of the language (utils/src/types.ts): which type may stand    *)
(* where another is expected, which may be cast, and the common type of    *)
(* two operands.  A type is a record: `form` tells a plain type from an    *)
(* array or a pair of them, `bound` is the width of a bytesN (0 when the   *)
(* width is not known, the undefined bound of the code).  Arrays of        *)
(* arrays, which no operation takes, are left out.                         *)
(***************************************************************************)
EXTENDS Integers, Sequences

Bases == {"int", "bool", "string", "pubkey", "sig", "datasig", "any", "bytes"}

Plain(base) == [form |-> "plain", base |-> base, bound |-> 0]
BytesType(bound) == [form |-> "plain", base |-> "bytes", bound |-> bound]
ArrayType(t) == [t EXCEPT !.form = "array"]
TupleType(t) == [t EXCEPT !.form = "tuple"]

IntType == Plain("int")
BoolType == Plain("bool")
StringType == Plain("string")
AnyBytes == BytesType(0)
Undefined == [form |-> "undefined", base |-> "any", bound |-> 0]

(* Every type the compiler can build.  Only bytes carry a bound.           *)
Type ==
  {t \in [form : {"plain", "array", "tuple"}, base : Bases, bound : Nat] :
     t.base # "bytes" => t.bound = 0}

IsBytes(t) == t.form = "plain" /\ t.base = "bytes"

(* The element of an array or of a pair.                                   *)
ElementType(t) == [t EXCEPT !.form = "plain"]

-----------------------------------------------------------------------------

ImplicitlyCastable(actual, expected) ==
  /\ actual.form = expected.form
  /\ actual.form \in {"plain", "array"}
  /\ \/ expected.base = "any"
     \/ /\ expected.base = "bytes"
        /\ actual.base \notin {"bool", "int", "string"}
        /\ expected.bound = 0 \/ actual = expected
     \/ expected.base # "bytes" /\ actual = expected

(* The casts between types of which neither is bytes.                      *)
ExplicitlyCastableTo(from, to) ==
  \/ from.base = to.base /\ from.base # "any"
  \/ {from.base, to.base} = {"int", "bool"}

\* Mutant: bytes of any width are cast to int.
MutShortEnough(from) == TRUE

(* Bytes of unknown width, and those short enough, are cast to int.        *)
ShortEnough(from) == from.bound <= 8

ExplicitlyCastable(from, to) ==
  /\ from.form = to.form
  /\ from.form \in {"plain", "array"}
  /\ CASE to.base = "bytes" ->
            \/ from.base = "int"
            \/ from.base # "bool" /\ to.bound = 0
            \/ from.base = "bytes" /\ from.bound \in {0, to.bound}
       [] to.base # "bytes" /\ from.base = "bytes" ->
            \/ to.base = "int" /\ ShortEnough(from)
            \/ to.base \notin {"int", "bool", "string"}
       [] OTHER -> ExplicitlyCastableTo(from, to)

ResultingType(left, right) ==
  CASE ImplicitlyCastable(left, right) -> right
    [] ~ImplicitlyCastable(left, right) /\ ImplicitlyCastable(right, left) -> left
    [] OTHER -> IF IsBytes(left) /\ IsBytes(right) THEN AnyBytes ELSE Undefined

(* The common type of the elements of an array, folded from the left.      *)
ArrayElementType(types) ==
  LET fold[i \in 1 .. Len(types)] ==
        IF i = 1 THEN types[1] ELSE ResultingType(fold[i - 1], types[i])
  IN  fold[Len(types)]

ImplicitlyCastableSignature(actual, expected) ==
  /\ Len(actual) = Len(expected)
  /\ \A i \in 1 .. Len(expected) : ImplicitlyCastable(actual[i], expected[i])

-----------------------------------------------------------------------------
(* What a type promises of a value.  A value is a run of `size` bytes; it  *)
(* is a `number` when it is the shortest encoding of an integer of at most *)
(* MaxNumber bytes, which is what the arithmetic opcodes take.  Booleans   *)
(* are numbers, of which only zero is false.                               *)

MaxNumber == 8

Value == {v \in [size : Nat, number : BOOLEAN] : v.number => v.size <= MaxNumber}

Fits(v, t) ==
  CASE t.base \in {"int", "bool"} -> v.number
    [] t.base = "bytes" /\ t.bound > 0 -> v.size = t.bound
    [] OTHER -> TRUE

=============================================================================
