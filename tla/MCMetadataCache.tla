-------------------------- MODULE MCMetadataCache --------------------------
(* TLC instance of MetadataCache: two paths, of which one fills half the cache. *)
EXTENDS MetadataCache, TLC

CONSTANTS small, large

SmallAndLarge == {small, large}
Weights == [p \in SmallAndLarge |-> IF p = small THEN 1 ELSE 2]
OnlySmall == {small}
SmallWeight == [p \in OnlySmall |-> 1]
Symmetry == Permutations(Requests)
=============================================================================
