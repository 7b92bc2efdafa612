------------------------------ MODULE Ordering ------------------------------
(***************************************************************************)
(* Lists in order: what Python's sorted() makes of a set, SQL's ORDER BY   *)
(* of the rows of a table, and a boolean mask of an array.  A list is      *)
(* given by what it is, not by a way to compute it, so that it can be      *)
(* reasoned about (OrderingProofs).                                        *)
(***************************************************************************)
EXTENDS Integers, FiniteSets

\* The elements of a finite set in the order of the relation R.
Sorted(S, R) ==
  CHOOSE s \in [1..Cardinality(S) -> S] :
    \A i, k \in DOMAIN s : i < k => <<s[i], s[k]>> \in R

Increasing == {p \in Int \X Int : p[1] < p[2]}

\* The elements of a finite set of numbers from the least to the greatest.
Ascending(S) == Sorted(S, Increasing)

=============================================================================
