-------------------------------- MODULE Sums --------------------------------
(***************************************************************************)
(* The sum of a sequence of numbers, as a function of how many are added.  *)
(***************************************************************************)
EXTENDS Naturals, Sequences

SumOf(ns) == LET
    sum[n \in 0..Len(ns)] == IF n = 0 THEN 0 ELSE sum[n - 1] + ns[n]
    IN sum[Len(ns)]

=============================================================================
