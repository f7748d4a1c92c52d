-------------------------------- MODULE Sums --------------------------------
(* The sum of a sequence of integers and of its first n elements.          *)
EXTENDS Integers, Sequences

SumTo(f, n) ==
    LET upTo[k \in Nat] == IF k = 0 THEN 0 ELSE upTo[k - 1] + f[k]
    IN  upTo[n]

Total(f) == SumTo(f, Len(f))
=============================================================================
