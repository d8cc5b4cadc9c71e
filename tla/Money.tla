-------------------------------- MODULE Money --------------------------------
(***************************************************************************)
(* Sums over the rows of a table: the aggregate(total=Sum('amount'))       *)
(* queries of the refund code.  Rows are numbered 1..n; f[i] is what row i *)
(* contributes (0 for a row the query filters out).  Written as a          *)
(* recursive function, so that TLAPS can reason about it.                  *)
(***************************************************************************)
EXTENDS Integers

Total(f, n) ==
    LET sum[i \in 0..n] == IF i = 0 THEN 0 ELSE sum[i - 1] + f[i]
    IN  sum[n]
=============================================================================
