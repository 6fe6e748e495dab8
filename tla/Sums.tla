-------------------------------- MODULE Sums --------------------------------
(* Sums of sequences of numbers.                                            *)
EXTENDS Integers, Sequences

\* The sums of the first 0, 1, ..., Len(s) numbers of s.
PartialSums(s) ==
  LET sum[i \in 0 .. Len(s)] == IF i = 0 THEN 0 ELSE sum[i - 1] + s[i]
  IN  sum

\* The sum of all of them.
Total(s) == PartialSums(s)[Len(s)]
=============================================================================
