--------------------- MODULE MCResourceInstanceLeaks ------------------------
(* A small instance of ResourceInstance_leaks for TLC. *)
EXTENDS ResourceInstance_leaks

CONSTANTS n1, n2, n3, w1, w2, site1, rg1, c1, o1, ta

MCUserSpecs ==
  {[site |-> site1, group |-> rg1, config |-> c1, opts |-> Unset, tags |-> Unset]}

MCTags == {}

MCSymmetry == Permutations(Names) \cup Permutations(Workers)
=============================================================================
