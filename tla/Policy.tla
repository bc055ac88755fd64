-------------------------------- MODULE Policy -------------------------------
(***************************************************************************)
(* What the client of policies (pkg/clients/policy) sends, fills in and    *)
(* compares.  Of a policy the model keeps its roles, the attributes of its *)
(* one resource with their optional operators, and the optional            *)
(* description; type and subjects are required, sent and compared like     *)
(* roles.                                                                  *)
(***************************************************************************)
EXTENDS SequencesExt

CONSTANTS Roles,                \* role CRNs
          Attributes,           \* an attribute's name and value
          Operators,            \* how an attribute is compared
          DefaultOperator,      \* what the cloud takes for an operator left out
          Descriptions, Unset   \* optional descriptions

Resource(ops) == Seq([attribute : Attributes, operator : ops])

Content ==
  [kind : {"Policy"}, roles : Seq(Roles),
   resource : Resource(Operators), description : Descriptions \cup {Unset}]

SpecType ==
  [kind : {"Policy"}, roles : Seq(Roles),
   resource : Resource(Operators \cup {Unset}), description : Descriptions \cup {Unset}]

\* GenerateSDKRoles takes the address of a field of the loop variable, which Go
\* before 1.22 has only one of: all roles that are sent are the last one.
GenerateSDKRoles(roles) == [i \in DOMAIN roles |-> Last(roles)]

\* The cloud gives an operator to attributes that are sent without one.
GenerateSDKResources(resource) ==
  [i \in DOMAIN resource |->
     [resource[i] EXCEPT !.operator = IF @ = Unset THEN DefaultOperator ELSE @]]

Created(spec) ==
  [kind |-> "Policy",
   roles |-> GenerateSDKRoles(spec.roles),
   resource |-> GenerateSDKResources(spec.resource),
   description |-> spec.description]

Updated(spec, policy) ==
  [Created(spec) EXCEPT !.description = IF @ = Unset THEN policy.description ELSE @]

\* Others may take the roles away or write a description.
Edited(policy) ==
  {[policy EXCEPT !.roles = <<>>]} \cup
  {[policy EXCEPT !.description = d] : d \in Descriptions \ {policy.description}}

\* An operator left out is taken from the attribute at the same place ...
OperatorsFilled(resource, other) ==
  [i \in DOMAIN resource |->
     [resource[i] EXCEPT !.operator = IF @ = Unset THEN other[i].operator ELSE @]]

LateInitializeSpec(spec, policy) ==
  [spec EXCEPT !.resource = OperatorsFilled(@, policy.resource),
               !.description = IF @ = Unset THEN policy.description ELSE @]

\* ... which the policy need not have: index out of range.
LateInitPanics(spec, policy) ==
  \E i \in DOMAIN spec.resource :
    spec.resource[i].operator = Unset /\ i > Len(policy.resource)

IsUpToDate(spec, policy) == spec = policy

\* The rest of Observe: what it fills in, and whether that is what there is.
Observe(spec, policy) ==
  LET filled == LateInitializeSpec(spec, policy)
  IN  [spec |-> filled, current |-> IsUpToDate(filled, policy)]
=============================================================================
