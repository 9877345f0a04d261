------------------------------ MODULE Ordering -------------------------------
(***************************************************************************)
(* Sorting a list: its elements are pairs of a key and the position they   *)
(* had, so that of equals the first comes first.                           *)
(***************************************************************************)
EXTENDS Integers, FiniteSets

Precedes(x, y) == x[1] < y[1] \/ (x[1] = y[1] /\ x[2] < y[2])

Rank(x, pairs) == Cardinality({y \in pairs : Precedes(y, x)})

\* g_list_sort(): the place of each is the number of those before it.
Ranked(pairs) ==
  [k \in 1..Cardinality(pairs) |-> CHOOSE x \in pairs : Rank(x, pairs) = k - 1]
=============================================================================
