----------------------------- MODULE TableSums -----------------------------
(***************************************************************************)
(* SELECT SUM(column) over a table whose rows are numbered 1..n.  The      *)
(* ledger recomputes every balance from its rows, so the sum is a          *)
(* definition of the model and not a counter it maintains.  The folds of   *)
(* the community modules would do for TLC; this recursive function over    *)
(* row numbers is the form whose unfolding TableSumProofs can prove.       *)
(***************************************************************************)
EXTENDS Integers

\* The sum f[1] + ... + f[n]; 0 for an empty table (SQL's COALESCE(SUM(..),0)).
SumUpTo(f, n) ==
  LET s[i \in 0..n] == IF i = 0 THEN 0 ELSE s[i - 1] + f[i] IN s[n]

\* Python's max(a, b), used for the greatest cost a provider row ever showed.
Larger(a, b) == IF a >= b THEN a ELSE b
=============================================================================
