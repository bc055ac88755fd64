--------------------------- MODULE AccessGroupRule ---------------------------
(***************************************************************************)
(* What the client of access group rules (pkg/clients/accessgrouprule)     *)
(* sends, fills in and compares.  Every call names the rule together with  *)
(* the access group of the spec, and a rule is only found in its own.      *)
(***************************************************************************)
CONSTANTS AccessGroups,  \* IDs of access groups
          Grants,        \* name, realm and expiration
          Conditions,    \* what a rule's condition may be
          Unset

Content ==
  [kind : {"AccessGroupRule"}, group : AccessGroups, grant : Grants,
   conditions : SUBSET Conditions]

\* A spec names its group or refers to an AccessGroup.
SpecType ==
  [kind : {"AccessGroupRule"}, group : AccessGroups \cup {Unset}, grant : Grants,
   conditions : SUBSET Conditions]

\* ResolveReferences: the ID in the status of the AccessGroup.
Resolved(spec, id) == [spec EXCEPT !.group = id]

Created(spec) == spec

\* Mutated: conditions are only ever added.
UpdatedMore(spec, rule) ==
  [rule EXCEPT !.grant = spec.grant, !.conditions = @ \cup spec.conditions]

\* ReplaceAccessGroupRule replaces all but the group.
Updated(spec, rule) == [rule EXCEPT !.grant = spec.grant, !.conditions = spec.conditions]

\* What others may change: everything but the group.
Edited(rule) == {r \in Content : r.group = rule.group} \ {rule}

Reaches(spec, rule) == spec.group = rule.group

LateInitializeSpec(spec, rule) == spec

\* The group is not compared; conditions are, in the order of their claims.
IsUpToDate(spec, rule) == spec.grant = rule.grant /\ spec.conditions = rule.conditions

\* The rest of Observe: what it fills in, and whether that is what there is.
Observe(spec, rule) ==
  LET filled == LateInitializeSpec(spec, rule)
  IN  [spec |-> filled, current |-> IsUpToDate(filled, rule)]
=============================================================================
