--------------------------- MODULE MCCheckerRead ---------------------------
(* TLC instance of CheckerRead: interchangeable checks and advisories. *)
EXTENDS CheckerRead, TLC

Symmetry == Permutations(Ids) \cup Permutations(Checks)
=============================================================================
