------------------------ MODULE MCResourceInstance ------------------------
(* Small instances of ResourceInstance for TLC. *)
EXTENDS ResourceInstance

CONSTANTS n1, n2, n3, w1, w2, site1, rg1, rg2, c1, c2, o1, o2, ta, tb

MCTags == {ta, tb}

MCOneTag == {ta}

Apply(rg, c, o, t) ==
  [site |-> site1, group |-> rg, config |-> c, opts |-> o, tags |-> t]

\* Optional fields left out, then a new plan and explicit tags.
MCUserSpecs == {Apply(Unset, c1, Unset, Unset), Apply(rg1, c2, o2, <<ta>>)}

\* Only one, for the instances with two replicas.
MCOneSpec == {Apply(Unset, c1, Unset, <<ta>>)}

\* The names the cloud assigns are interchangeable.
MCSymmetry == Permutations(Names)

MCReplicaSymmetry == Permutations(Names) \cup Permutations(Workers)
=============================================================================
