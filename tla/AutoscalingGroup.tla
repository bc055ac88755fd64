-------------------------- MODULE AutoscalingGroup ---------------------------
(***************************************************************************)
(* What the client of autoscaling groups (pkg/clients/autoscalinggroup)    *)
(* sends, fills in and compares.  The source is the ID of the database     *)
(* deployment.  The conditions of disk, memory and CPU are each given as a *)
(* whole or left out.                                                      *)
(***************************************************************************)
CONSTANTS Sources,
          Scaled,         \* disk, memory, CPU
          Scalers,        \* the conditions of one of them
          Unset

Content == [kind : {"AutoscalingGroup"}, scalers : [Scaled -> Scalers]]

SpecType ==
  [kind : {"AutoscalingGroup"}, source : Sources \cup {Unset},
   scalers : [Scaled -> Scalers \cup {Unset}]]

Deployed == Content

\* Create sends nothing: the deployment's ID becomes the external name.
Creations(spec, entity) == {[name |-> spec.source]}

Filled(scalers, others) ==
  [r \in Scaled |-> IF scalers[r] = Unset THEN others[r] ELSE scalers[r]]

\* What is given is sent.
Updated(spec, group) == [group EXCEPT !.scalers = Filled(spec.scalers, @)]

Edited(group) == Deployed \ {group}

LateInitializeSpec(spec, group) == [spec EXCEPT !.scalers = Filled(@, group.scalers)]

IsUpToDate(spec, group) == spec.scalers = group.scalers

\* The rest of Observe: what it fills in, and whether that is what there is.
Observe(spec, group) ==
  LET filled == LateInitializeSpec(spec, group)
  IN  [spec |-> filled, current |-> IsUpToDate(filled, group), ready |-> TRUE]
=============================================================================
