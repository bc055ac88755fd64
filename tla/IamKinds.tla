------------------------------ MODULE IamKinds -------------------------------
(***************************************************************************)
(* The kinds that IamEntity's controllers manage: each handler calls the   *)
(* client of its kind.                                                     *)
(***************************************************************************)

CONSTANTS Descriptions, Unset,                          \* of groups, roles, policies
          Accounts, GroupNames,                         \* of access groups
          AccessGroups, Grants, Conditions,             \* of access group rules
          Identities, Rights,                           \* of custom roles
          Roles, Attributes, Operators, DefaultOperator \* of policies

Group == INSTANCE AccessGroup

Rule == INSTANCE AccessGroupRule

Role == INSTANCE CustomRole

Pol == INSTANCE Policy

Content == Group!Content \cup Rule!Content \cup Role!Content \cup Pol!Content

SpecType == Group!SpecType \cup Rule!SpecType \cup Role!SpecType \cup Pol!SpecType

SameKind(spec, other) == spec.kind = other.kind

\* Only a rule may refer to another CR, for its access group.
Refers(spec) == spec.kind = "AccessGroupRule" /\ spec.group = Unset

Resolved(spec, id) == Rule!Resolved(spec, id)

\* The options of the creation that each kind's Create generates.
Created(spec) ==
  CASE spec.kind = "AccessGroup" -> Group!Created(spec)
    [] spec.kind = "AccessGroupRule" -> Rule!Created(spec)
    [] spec.kind = "CustomRole" -> Role!Created(spec)
    [] spec.kind = "Policy" -> Pol!Created(spec)

\* The options of the update that each kind's Update generates.
Updated(spec, is) ==
  CASE spec.kind = "AccessGroup" -> Group!Updated(spec, is)
    [] spec.kind = "AccessGroupRule" -> Rule!Updated(spec, is)
    [] spec.kind = "CustomRole" -> Role!Updated(spec, is)
    [] spec.kind = "Policy" -> Pol!Updated(spec, is)

Edited(is) ==
  CASE is.kind = "AccessGroup" -> Group!Edited(is)
    [] is.kind = "AccessGroupRule" -> Rule!Edited(is)
    [] is.kind = "CustomRole" -> Role!Edited(is)
    [] is.kind = "Policy" -> Pol!Edited(is)

\* Only rules are looked up by more than their ID.
Reaches(spec, is) == spec.kind = "AccessGroupRule" => Rule!Reaches(spec, is)

\* What a pass that has found it fills in, and whether it takes it for current.
Observe(spec, is) ==
  CASE spec.kind = "AccessGroup" -> Group!Observe(spec, is)
    [] spec.kind = "AccessGroupRule" -> Rule!Observe(spec, is)
    [] spec.kind = "CustomRole" -> Role!Observe(spec, is)
    [] spec.kind = "Policy" -> Pol!Observe(spec, is)

LateInitPanics(spec, is) == spec.kind = "Policy" /\ Pol!LateInitPanics(spec, is)

\* A pass would neither fill in nor update anything.
IsCurrent(spec, is) == LET o == Observe(spec, is) IN o.current /\ o.spec = spec
=============================================================================
