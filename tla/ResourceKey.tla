---------------------------- MODULE ResourceKey ------------------------------
(***************************************************************************)
(* What the client of resource keys (pkg/clients/resourcekey) sends, fills *)
(* in and compares.  The source is the GUID of the instance the key gives  *)
(* access to; the parameters, which only the creation sends, are left out. *)
(***************************************************************************)
CONSTANTS Sources, KeyNames, Roles, DefaultRole, Unset

Content == [kind : {"ResourceKey"}, source : Sources, name : KeyNames, role : Roles]

SpecType ==
  [kind : {"ResourceKey"}, source : Sources \cup {Unset}, name : KeyNames,
   role : Roles \cup {Unset}]

Created(spec) == [spec EXCEPT !.role = IF @ = Unset THEN DefaultRole ELSE @]

\* The new key's ID becomes the external name.
Creations(spec, entity) ==
  {[name |-> n, is |-> Created(spec)] :
     n \in {m \in DOMAIN entity : entity[m].state = "unknown"}}

\* Mutated: nothing is sent.
UpdatedNothing(spec, key) == key

\* Only the name is sent.
Updated(spec, key) == [key EXCEPT !.name = spec.name]

Edited(key) == {[key EXCEPT !.name = k] : k \in KeyNames \ {key.name}}

LateInitializeSpec(spec, key) == [spec EXCEPT !.role = IF @ = Unset THEN key.role ELSE @]

\* Source and parameters are ignored.
IsUpToDate(spec, key) == spec.name = key.name /\ spec.role = key.role

\* The rest of Observe: what it fills in, and whether that is what there is.
Observe(spec, key) ==
  LET filled == LateInitializeSpec(spec, key)
  IN  [spec |-> filled, current |-> IsUpToDate(filled, key), ready |-> TRUE]
=============================================================================
