-------------------------------- MODULE Sums --------------------------------
(***************************************************************************)
(* Totals over a table: the sum of the values a function gives to a finite *)
(* set of its keys, as the services compute with reduce over the rows of a *)
(* query.  SumTheorems proves what the other proofs need of it.            *)
(***************************************************************************)
EXTENDS Integers, FiniteSetsExt

SumOver(f, S) == MapThenSumSet(LAMBDA x : f[x], S)
=============================================================================
