------------------------------ MODULE Ranking ------------------------------
(***************************************************************************)
(* A finite set put in order, as the sorts of the code do it: each element *)
(* comes at the place its rank says, the number of elements that are not   *)
(* after it.                                                               *)
(***************************************************************************)
EXTENDS Integers, FiniteSets

\* The elements of S in the total order "before".
Ranked(S, before(_, _)) ==
  [i \in 1 .. Cardinality(S) |-> CHOOSE x \in S : Cardinality({y \in S : before(y, x)}) = i]

\* Numbers from the lowest to the highest.
Ascending(S) == Ranked(S, <=)

\* The elements of a list at these positions, in their order.
Sublist(list, positions) ==
  [i \in 1 .. Cardinality(positions) |-> list[Ascending(positions)[i]]]

=============================================================================
