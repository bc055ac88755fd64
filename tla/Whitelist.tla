----------------------------- MODULE Whitelist -------------------------------
(***************************************************************************)
(* What the client of whitelists (pkg/clients/whitelist) sends, fills in   *)
(* and compares.  The source is the ID of the database deployment, whose   *)
(* whitelist is always there and may be empty.                             *)
(***************************************************************************)
EXTENDS Sequences

CONSTANTS Sources,
          Addresses,      \* addresses with their descriptions
          Unset

Content == [kind : {"Whitelist"}, addresses : Seq(Addresses)]

SpecType ==
  [kind : {"Whitelist"}, source : Sources \cup {Unset},
   addresses : Seq(Addresses) \cup {Unset}]

Deployed == {[kind |-> "Whitelist", addresses |-> <<>>]}

\* The whole list is replaced.
Replace(spec, list) ==
  [list EXCEPT !.addresses = IF spec.addresses = Unset THEN <<>> ELSE spec.addresses]

\* The deployment's ID becomes the external name, if it is there.
Creations(spec, entity) ==
  {[name |-> n, is |-> Replace(spec, entity[n].is)] :
     n \in {m \in {spec.source} : entity[m].state = "live"}}

Updated(spec, list) == Replace(spec, list)

\* Delete leaves an empty list.
Emptied(list) == [list EXCEPT !.addresses = <<>>]

Edited(list) ==
  {[list EXCEPT !.addresses = s] : s \in {<<>>} \cup {<<a>> : a \in Addresses}} \ {list}

\* An empty list is what is not there.
Reaches(list) == list.addresses # <<>>

LateInitializeSpec(spec, list) ==
  [spec EXCEPT !.addresses = IF @ = Unset THEN list.addresses ELSE @]

IsUpToDate(spec, list) == spec.addresses = list.addresses

\* The rest of Observe: what it fills in, and whether that is what there is.
Observe(spec, list) ==
  LET filled == LateInitializeSpec(spec, list)
  IN  [spec |-> filled, current |-> IsUpToDate(filled, list), ready |-> TRUE]
=============================================================================
