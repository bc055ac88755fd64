---------------------------- MODULE ScalingGroup -----------------------------
(***************************************************************************)
(* What the client of scaling groups (pkg/clients/scalinggroup) sends,     *)
(* fills in and compares.  The source is the ID of the database deployment.*)
(* The cloud keeps the memory of a group as a total; a spec says what each *)
(* member gets.  CPU and disk are converted in the same way as memory.     *)
(***************************************************************************)
EXTENDS Naturals

CONSTANTS Sources, MemberCounts,
          Totals,         \* memory of a group that somebody else scaled
          Unset

Content == [kind : {"ScalingGroup"}, members : MemberCounts, memory : Nat]

SpecType ==
  [kind : {"ScalingGroup"}, source : Sources \cup {Unset},
   members : MemberCounts \cup {Unset}, memberMemory : Nat \cup {Unset}]

Deployed ==
  {[kind |-> "ScalingGroup", members |-> m, memory |-> t] : m \in MemberCounts, t \in Totals}

\* Create sends nothing: the deployment's ID becomes the external name.
Creations(spec, entity) == {[name |-> spec.source]}

MemberMemory(group) == group.memory \div group.members

\* Mutated: the total is computed for the members asked for.
TotalAsked(spec, found) == spec.memberMemory * spec.members

\* The total that is asked for, by the members the pass has observed.
Total(spec, found) == spec.memberMemory * found.members

\* The cloud gives the new members what the total means for each old one.
Updated(spec, found, group) ==
  [group EXCEPT !.members = spec.members,
                !.memory = (Total(spec, found) \div group.members) * spec.members]

Edited(group) == Deployed \ {group}

LateInitializeSpec(spec, group) ==
  [spec EXCEPT !.members = IF @ = Unset THEN group.members ELSE @,
               !.memberMemory = IF @ = Unset THEN MemberMemory(group) ELSE @]

IsUpToDate(spec, group) ==
  spec.members = group.members /\ spec.memberMemory = MemberMemory(group)

\* The rest of Observe: what it fills in, and whether that is what there is.
Observe(spec, group) ==
  LET filled == LateInitializeSpec(spec, group)
  IN  [spec |-> filled, current |-> IsUpToDate(filled, group), ready |-> TRUE]
=============================================================================
