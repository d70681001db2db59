------------------------------- MODULE Totals -------------------------------
(* Sums over sequences of sizes: what the pools and caches retain.         *)
EXTENDS Integers, Sequences

\* The sum of the first n elements.
UpTo(s, n) ==
  LET sum[k \in 0..n] == IF k = 0 THEN 0 ELSE sum[k - 1] + s[k]
  IN  sum[n]

Total(s) == UpTo(s, Len(s))
=============================================================================
