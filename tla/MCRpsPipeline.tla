--------------------------- MODULE MCRpsPipeline ---------------------------
(***************************************************************************)
(* RpsPipeline for TLC.  Requests of the same kind are interchangeable.    *)
(***************************************************************************)
EXTENDS RpsPipeline, TLC

Symmetry == Permutations(Processes) \cup Permutations(Reanalyses)

=============================================================================
