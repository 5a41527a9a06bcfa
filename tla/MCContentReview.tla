--------------------------- MODULE MCContentReview ---------------------------
(* A small instance of ContentReview: of the three weeks one is an exam.     *)
(* The consoles are alike, and so are the other two weeks.                   *)
EXTENDS ContentReview, TLC

CONSTANTS lecture1, lecture2, exam

ThreeWeeks == {lecture1, lecture2, exam}
Lectures == {lecture1, lecture2}

Symmetry == Permutations(Consoles) \cup Permutations(Lectures)
=============================================================================
