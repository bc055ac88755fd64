-------------------------- MODULE MCGroupMembership --------------------------
(* Small instances of GroupMembership for TLC. *)
EXTENDS GroupMembership

CONSTANTS g1, g2, w1, w2, u1, u2, s1, x, user, service

MCTypeOf == [i \in Ids |-> IF i = s1 THEN service ELSE user]

Asks(items) == [group |-> g1, members |-> items]

\* The group is given by a reference.
AsksBy(items) == [Asks(items) EXCEPT !.group = Unset]

It(i) == [id |-> i, type |-> TypeOf[i]]

\* One user replaced by a service ID.
MCUserSpecs == {AsksBy(<<It(u1)>>), Asks(<<It(s1), It(u2)>>)}

\* The service ID is given as a user's: the cloud refuses it.
MCWrongType == {AsksBy(<<It(u1)>>), Asks(<<[id |-> s1, type |-> user]>>)}

\* Both kinds of replacement, in a group that only references give.
MCAllSpecs == {[s EXCEPT !.group = Unset] : s \in MCUserSpecs \cup MCWrongType}
=============================================================================
