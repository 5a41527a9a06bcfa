-------------------------- MODULE MCCoursePlanning --------------------------
(***************************************************************************)
(* CoursePlanning for TLC.  The requests are interchangeable: nothing      *)
(* orders planners, reviews or updates among themselves.                   *)
(***************************************************************************)
EXTENDS CoursePlanning_ledger, TLC

Symmetry ==
  Permutations(Planners) \cup Permutations(Reviews) \cup Permutations(Updates)

=============================================================================
