-------------------------------- MODULE Sums --------------------------------
(***************************************************************************)
(* Totals over rows numbered 1..n, the right-hand side of every "this      *)
(* column is the sum of those rows" statement in the project.              *)
(***************************************************************************)
EXTENDS Integers

PrefixSum(c, n) ==
    LET s[i \in 0..n] == IF i = 0 THEN 0 ELSE s[i - 1] + c[i]
    IN  s

Total(c, n) == PrefixSum(c, n)[n]
=============================================================================
