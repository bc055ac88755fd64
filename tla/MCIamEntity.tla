---------------------------- MODULE MCIamEntity -----------------------------
(* Small instances of IamEntity for TLC. *)
EXTENDS IamEntity, TLC

CONSTANTS n1, n2, n3, w1, w2, d, e, acc, x, y, g1, g2, p, q, id1, id2,
          r1, r2, at1, at2, eq, match

AskGroup(name, desc) ==
  [kind |-> "AccessGroup", account |-> acc, name |-> name, description |-> desc]

AskRule(g, conditions) ==
  [kind |-> "AccessGroupRule", group |-> g, grant |-> x, conditions |-> conditions]

AskRole(id, rights, desc) ==
  [kind |-> "CustomRole", identity |-> id, rights |-> rights, description |-> desc]

AskPolicy(roles, resource, desc) ==
  [kind |-> "Policy", roles |-> roles, resource |-> resource, description |-> desc]

At(a, op) == [attribute |-> a, operator |-> op]

\* Of each kind, a spec that leaves out what is optional and one that changes
\* and gives everything that updates can change.
MCAllKinds ==
  {AskGroup(x, Unset), AskGroup(y, d),
   AskRule(Unset, {p}), AskRule(Unset, {q}),
   AskRole(id1, x, Unset), AskRole(id1, y, d),
   AskPolicy(<<r1>>, <<At(at1, Unset)>>, Unset),
   AskPolicy(<<r2>>, <<At(at1, match), At(at2, eq)>>, d)}

\* A policy is given a second attribute, without an operator; a rule refers to an
\* access group, which may come to mean another one.
MCReplicated ==
  {AskPolicy(<<r1>>, <<At(at1, eq)>>, d),
   AskPolicy(<<r1>>, <<At(at1, eq), At(at2, Unset)>>, d),
   AskRule(Unset, {p})}

\* A policy with two roles.
MCTwoRoles == {AskPolicy(<<r1, r2>>, <<At(at1, eq)>>, d)}

MCSymmetry ==
  Permutations(Names) \cup Permutations(Workers) \cup Permutations(AccessGroups)
=============================================================================
