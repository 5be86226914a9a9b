--------------------------------- MODULE Sums ---------------------------------
(* The sum of a sequence of numbers, as the reduce() of the code takes it: from *)
(* the first to the last, on top of zero.                                       *)
EXTENDS Integers, Sequences

SumOf(numbers) ==
    LET sum[n \in 0 .. Len(numbers)] == IF n = 0 THEN 0 ELSE sum[n - 1] + numbers[n]
    IN  sum[Len(numbers)]
===============================================================================
