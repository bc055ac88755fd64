----------------------------- MODULE CustomRole ------------------------------
(***************************************************************************)
(* What the client of custom roles (pkg/clients/customrole) sends, fills   *)
(* in and compares.  Of a role the model keeps what it is known by         *)
(* (name, service and account, which no update sends), what it lets do     *)
(* (actions and display name) and the optional description.  Required      *)
(* fields are not empty, so that late initialisation leaves them alone.    *)
(***************************************************************************)
CONSTANTS Identities,          \* name, service name and account
          Rights,              \* actions and display name
          Descriptions, Unset  \* optional descriptions

Content ==
  [kind : {"CustomRole"}, identity : Identities, rights : Rights,
   description : Descriptions \cup {Unset}]

\* A spec and what the cloud keeps have the same fields.
SpecType == Content

Created(spec) == spec

\* The identity is not sent; a description that is left out is not either.
Updated(spec, role) ==
  [role EXCEPT !.rights = spec.rights,
               !.description = IF spec.description = Unset THEN @ ELSE spec.description]

\* What others may change: everything but the identity.
Edited(role) == {r \in Content : r.identity = role.identity} \ {role}

LateInitializeSpec(spec, role) ==
  [spec EXCEPT !.description = IF @ = Unset THEN role.description ELSE @]

IsUpToDate(spec, role) == spec = role

\* The rest of Observe: what it fills in, and whether that is what there is.
Observe(spec, role) ==
  LET filled == LateInitializeSpec(spec, role)
  IN  [spec |-> filled, current |-> IsUpToDate(filled, role)]
=============================================================================
