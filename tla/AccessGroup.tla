----------------------------- MODULE AccessGroup -----------------------------
(***************************************************************************)
(* What the client of access groups (pkg/clients/accessgroup) sends, fills *)
(* in and compares.                                                        *)
(***************************************************************************)
CONSTANTS Accounts,            \* account identifiers
          GroupNames,          \* names of access groups
          Descriptions, Unset  \* optional descriptions

Content ==
  [kind : {"AccessGroup"}, account : Accounts, name : GroupNames,
   description : Descriptions \cup {Unset}]

\* A spec and what the cloud keeps have the same fields.
SpecType == Content

Created(spec) == spec

\* The account is not sent; a description that is left out is not either.
Updated(spec, group) ==
  [group EXCEPT !.name = spec.name,
                !.description = IF spec.description = Unset THEN @ ELSE spec.description]

\* What others may change: everything but the account.
Edited(group) == {g \in Content : g.account = group.account} \ {group}

LateInitializeSpec(spec, group) ==
  [spec EXCEPT !.description = IF @ = Unset THEN group.description ELSE @]

IsUpToDate(spec, group) == spec = group

\* The rest of Observe: what it fills in, and whether that is what there is.
Observe(spec, group) ==
  LET filled == LateInitializeSpec(spec, group)
  IN  [spec |-> filled, current |-> IsUpToDate(filled, group)]
=============================================================================
