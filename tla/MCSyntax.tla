----------------------------- MODULE MCSyntax -----------------------------
(* Two operators with their operands, or one with two statements, or four   *)
(* statements, functions and the contract around them.                       *)
EXTENDS Syntax

MCInfixOps == {"*", "-", ">>", "<=", "==", "&", "^", "|", "&&", "||"}
MCNumerals == ("1" :> 1) @@ ("-1" :> -1) @@ ("2" :> 2) @@ ("0" :> 0) @@ ("9" :> 9) @@ ("120" :> 120)
MCHexValues == ("0x1" :> "01") @@ ("0x01" :> "01")
MCDates == "date('1970-01-01T00:00:09')" :> 9
=============================================================================
