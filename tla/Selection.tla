----------------------------- MODULE Selection ------------------------------
(* What is taken from a sequence: by policy, by adapters and by Maven's trimming. *)
EXTENDS Integers, FiniteSets

\* The members of a sequence at some of its indices, in their order.
AtIndices(items, indices) ==
  [n \in 1..Cardinality(indices) |->
     items[CHOOSE i \in indices : Cardinality({j \in indices : j <= i}) = n]]
=============================================================================
