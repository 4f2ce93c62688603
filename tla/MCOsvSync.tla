---------------------------- MODULE MCOsvSync ----------------------------
(* TLC instance of OsvSync: interchangeable advisories and runners. *)
EXTENDS OsvSync, TLC

Symmetry == Permutations(Ids) \cup Permutations(Runners)
=============================================================================
