--------------------------- MODULE GroupMembership ---------------------------
(***************************************************************************)
(* The GroupMembership controller (pkg/controller/iamaccessgroupsv2/       *)
(* groupmembership.go and pkg/clients/groupmembership) run by the managed  *)
(* reconcile loop against IBM Cloud's access groups (external).            *)
(*                                                                         *)
(* A CR lists the members an access group should have.  Its external name  *)
(* is the group's ID.  The CR "exists" while the group has any member.     *)
(* The cloud knows by itself whether an ID is a user's or a service's and  *)
(* reports, member by member, those it refuses; adding a member again or   *)
(* removing one that is not there changes nothing.                         *)
(***************************************************************************)
EXTENDS ManagedReconciler, SequencesExt

CONSTANTS Ids,     \* IAM IDs
          Types,   \* "user" and "service"
          TypeOf,  \* TypeOf[i]: what ID i really is
          Unset    \* a spec refers to an AccessGroup instead of giving an ID

Groups == Names

Item == [id : Ids, type : Types]

SpecType == [group : Groups \cup {Unset}, members : Seq(Item)]

ASSUME GroupMembershipAssumption ==
  /\ UserSpecs \subseteq SpecType
  /\ TypeOf \in [Ids -> Types]
  /\ NoName \notin Ids
  /\ Unset \notin Groups

\* What is left of an access group that is deleted.
Gone == {NoName}

VARIABLES members,  \* members[g]: the IDs in access group g, or Gone
          seen      \* seen[w]: the IDs that worker w's Observe listed

vars == <<cr, cache, mem, pc, faults, edits, members, seen>>

-----------------------------------------------------------------------------
Idents(items) == {m.id : m \in ToSet(items)}

Listed(ids) == {[id |-> i, type |-> TypeOf[i]] : i \in ids}

\* IsUpToDate sorts both lists by ID and compares them; the cloud lists an ID once.
IsUpToDate(spec, ids) ==
  /\ Len(spec.members) = Cardinality(ids)
  /\ ToSet(spec.members) = Listed(ids)

\* Mutated: whoever is in the group already stays.
MembersToAdd(spec, ids) ==
  [add |-> {m \in ToSet(spec.members) : m.id \notin ids}, remove |-> {}]

\* MembersDiff goes by the ID alone.
MembersDiff(spec, ids) ==
  [add |-> {m \in ToSet(spec.members) : m.id \notin ids},
   remove |-> ids \ Idents(spec.members)]

-----------------------------------------------------------------------------
Init ==
  /\ ReconcilerInit
  /\ members = [g \in Groups |-> {}]
  /\ seen = [w \in Workers |-> {}]

\* A worker whose pass is over has forgotten what it saw.
Forget ==
  seen' = [w \in Workers |-> IF pc'[w] = "idle" THEN {} ELSE seen[w]]

Group(w) == mem[w].obj.extName

Wanted(w) == mem[w].obj.spec

\* ResolveReferences: the ID in the status of the AccessGroup the spec refers to;
\* a value that is there already is kept.  The spec is written to the API server.
Resolve(w) ==
  /\ pc[w] = "observe" /\ ~mem[w].obj.deleting
  /\ Wanted(w).group = Unset
  /\ \E g \in Groups : ClientUpdate(w, [Sent(w) EXCEPT !.spec.group = g], "observe")
  /\ UNCHANGED <<faults, edits, members, seen>>

\* The AccessGroup cannot be read, or has no ID yet.
ResolveFails(w) ==
  /\ pc[w] = "observe" /\ ~mem[w].obj.deleting
  /\ Wanted(w).group = Unset
  /\ Fault("error")
  /\ Go(w, "finish")
  /\ UNCHANGED <<cr, cache, mem, edits, members, seen>>

\* A pass gets to Observe with its references resolved, unless the CR is being
\* deleted.
Observing(w) ==
  /\ pc[w] = "observe"
  /\ mem[w].obj.deleting \/ Wanted(w).group # Unset

\* Mutated: a group that has no members exists.
HasGroup(g) == g # NoName /\ members[g] # Gone

\* The group the CR names has members for Observe to find.
HasMembers(g) == g # NoName /\ members[g] \notin {Gone, {}}

\* Connect and Observe: one call lists the members, the rest is in memory.
Observe(w) ==
  /\ Observing(w)
  /\ IF HasMembers(Group(w))
     THEN /\ seen' = [seen EXCEPT ![w] = members[Group(w)]]
          /\ mem' = [mem EXCEPT ![w].obj.ready = TRUE]
          /\ Go(w, IF IsUpToDate(Wanted(w), members[Group(w)])
                   THEN "current" ELSE "outdated")
     ELSE Go(w, "absent") /\ UNCHANGED <<mem, seen>>
  /\ UNCHANGED <<cr, cache, faults, edits, members>>

\* The list fails with an error whose text says "not found": taken for absence.
ObserveMisread(w) ==
  /\ Observing(w) /\ Group(w) # NoName
  /\ Fault("misread")
  /\ Go(w, "absent")
  /\ UNCHANGED <<cr, cache, mem, edits, members, seen>>

ObserveFails(w) ==
  /\ Observing(w)
  /\ Fault("error")
  /\ Go(w, "finish")
  /\ UNCHANGED <<cr, cache, mem, edits, members, seen>>

-----------------------------------------------------------------------------
\* The reply to adding items to group g is an error, or reports one for an item.
Refused(g, items) == members[g] = Gone \/ \E m \in items : m.type # TypeOf[m.id]

Accepted(items) == {m.id : m \in {k \in items : k.type = TypeOf[k.id]}}

AddTo(g, ids) ==
  members' = IF members[g] = Gone THEN members ELSE [members EXCEPT ![g] = @ \cup ids]

RemoveFrom(g, ids) ==
  members' = IF members[g] = Gone THEN members ELSE [members EXCEPT ![g] = @ \ ids]

\* The Creating and Deleting conditions.
NotReady(w) == mem' = [mem EXCEPT ![w].obj.ready = FALSE]

\* Mutated: the external name is not set.
CreateUnnamed(w) ==
  /\ pc[w] = "create"
  /\ AddTo(Wanted(w).group, Accepted(ToSet(Wanted(w).members)))
  /\ NotReady(w)
  /\ Go(w, IF Refused(Wanted(w).group, ToSet(Wanted(w).members))
           THEN "createFailed" ELSE "created")
  /\ UNCHANGED <<cr, cache, faults, edits, seen>>

\* AddMembersToAccessGroup with all the spec's members.  If one is refused, the
\* others are added and Create returns an error, with the name not set.
Create(w) ==
  /\ pc[w] = "create"
  /\ AddTo(Wanted(w).group, Accepted(ToSet(Wanted(w).members)))
  /\ IF Refused(Wanted(w).group, ToSet(Wanted(w).members))
     THEN NotReady(w) /\ Go(w, "createFailed")
     ELSE /\ mem' = [mem EXCEPT ![w].obj = [@ EXCEPT !.extName = Wanted(w).group,
                                                     !.ready = FALSE]]
          /\ Go(w, "created")
  /\ UNCHANGED <<cr, cache, faults, edits, seen>>

\* The call fails before it takes effect.
CreateFails(w) ==
  /\ pc[w] = "create"
  /\ Fault("error")
  /\ NotReady(w)
  /\ Go(w, "createFailed")
  /\ UNCHANGED <<cr, cache, edits, members, seen>>

\* The cloud fails to add some of the members, or the reply is lost.
CreatePartly(w) ==
  /\ pc[w] = "create"
  /\ Fault("partialCreate")
  /\ \E S \in SUBSET Accepted(ToSet(Wanted(w).members)) : AddTo(Wanted(w).group, S)
  /\ NotReady(w)
  /\ Go(w, "createFailed")
  /\ UNCHANGED <<cr, cache, edits, seen>>

\* An error whose text IsResourceInactive matches is success without a name.
CreateIgnored(w) ==
  /\ pc[w] = "create"
  /\ Fault("inactive")
  /\ NotReady(w)
  /\ Go(w, "created")
  /\ UNCHANGED <<cr, cache, edits, members, seen>>

-----------------------------------------------------------------------------
Diff(w) == MembersDiff(Wanted(w), seen[w])

Updating(w) == pc[w] = "outdated" /\ ~mem[w].obj.deleting /\ mem[w].obj.finalizer

\* Mutated: what the reply reports about single members is not looked at.
UpdateAddUnchecked(w) ==
  /\ Updating(w)
  /\ \E S \in SUBSET Accepted(Diff(w).add) : AddTo(Wanted(w).group, S)
  /\ Go(w, "remove")
  /\ UNCHANGED <<cr, cache, mem, faults, edits, seen>>

\* UpdateAccessGroupMembers: what is missing is added to the spec's group ...
UpdateAdd(w) ==
  /\ Updating(w)
  /\ AddTo(Wanted(w).group, Accepted(Diff(w).add))
  /\ Go(w, IF Diff(w).add # {} /\ Refused(Wanted(w).group, Diff(w).add)
           THEN "finish" ELSE "remove")
  /\ UNCHANGED <<cr, cache, mem, faults, edits, seen>>

\* ... or some of it, and then the update stops ...
UpdateAddPartly(w) ==
  /\ Updating(w) /\ Diff(w).add # {}
  /\ Fault("partial")
  /\ \E S \in SUBSET Accepted(Diff(w).add) : AddTo(Wanted(w).group, S)
  /\ Go(w, "finish")
  /\ UNCHANGED <<cr, cache, mem, edits, seen>>

\* ... and then what was listed and is not wanted is removed from that group.
UpdateRemove(w) ==
  /\ pc[w] = "remove"
  /\ RemoveFrom(Wanted(w).group, Diff(w).remove)
  /\ Go(w, "finish")
  /\ UNCHANGED <<cr, cache, mem, faults, edits, seen>>

UpdateRemovePartly(w) ==
  /\ pc[w] = "remove"
  /\ Fault("partial")
  /\ \E S \in SUBSET Diff(w).remove : RemoveFrom(Wanted(w).group, S)
  /\ Go(w, "finish")
  /\ UNCHANGED <<cr, cache, mem, edits, seen>>

UpdateFails(w) ==
  /\ Updating(w) \/ pc[w] = "remove"
  /\ Fault("error")
  /\ Go(w, "finish")
  /\ UNCHANGED <<cr, cache, mem, edits, members, seen>>

\* Mutated: a group that cannot be brought up to date is emptied.
DeleteOutdated(w) ==
  /\ pc[w] = "outdated" \/ (pc[w] = "current" /\ mem[w].obj.deleting)
  /\ RemoveFrom(Group(w), Idents(Wanted(w).members))
  /\ NotReady(w)
  /\ Go(w, "finish")
  /\ UNCHANGED <<cr, cache, faults, edits, seen>>

\* RemoveMembersFromAccessGroup: the spec's members leave the named group.  That
\* group or members are gone is no error, and nor is a member that stays.
Delete(w) ==
  /\ pc[w] \in {"current", "outdated"} /\ mem[w].obj.deleting
  /\ RemoveFrom(Group(w), Idents(Wanted(w).members))
  /\ NotReady(w)
  /\ Go(w, "finish")
  /\ UNCHANGED <<cr, cache, faults, edits, seen>>

\* The call fails, or has removed only some of the members.
DeleteFails(w) ==
  /\ pc[w] \in {"current", "outdated"} /\ mem[w].obj.deleting
  /\ Fault("error")
  /\ \E S \in SUBSET Idents(Wanted(w).members) : RemoveFrom(Group(w), S)
  /\ NotReady(w)
  /\ Go(w, "finish")
  /\ UNCHANGED <<cr, cache, edits, seen>>

-----------------------------------------------------------------------------
\* What others do to a group.
Others(k) == Fault(k) /\ UNCHANGED <<cr, cache, mem, pc, edits, seen>>

\* Somebody adds a member that no spec of the CR lists.
Joins(g, i) ==
  /\ Others("join")
  /\ i \notin UNION {Idents(s.members) : s \in UserSpecs}
  /\ AddTo(g, {i})

Leaves(g, i) ==
  /\ Others("leave")
  /\ members[g] # Gone /\ i \in members[g]
  /\ RemoveFrom(g, {i})

GroupDeleted(g) ==
  /\ Others("group")
  /\ members[g] # Gone
  /\ members' = [members EXCEPT ![g] = Gone]

-----------------------------------------------------------------------------
ExternalStep(w) ==
  \/ Resolve(w) \/ Observe(w) \/ Create(w) \/ UpdateAdd(w) \/ UpdateRemove(w) \/ Delete(w)

ExternalFault(w) ==
  \/ ResolveFails(w) \/ ObserveMisread(w) \/ ObserveFails(w)
  \/ CreateFails(w) \/ CreatePartly(w) \/ CreateIgnored(w)
  \/ UpdateAddPartly(w) \/ UpdateRemovePartly(w) \/ UpdateFails(w)
  \/ DeleteFails(w)

\* An apply leaves alone the value of a reference.
UserEdits ==
  \/ UserDeletes
  \/ \E s \in UserSpecs :
       UserApplies(IF cr.present /\ s.group = Unset THEN [s EXCEPT !.group = cr.spec.group]
                   ELSE s)

WorkerStep(w) ==
  \/ ReconcilerStep(w) /\ Forget /\ UNCHANGED members
  \/ ExternalStep(w)

Next ==
  \/ \E w \in Workers :
       \/ WorkerStep(w) \/ ExternalFault(w)
       \/ (SyncCache(w) \/ ReconcilerFault(w)) /\ Forget /\ UNCHANGED members
  \/ UserEdits /\ Forget /\ UNCHANGED members
  \/ \E g \in Groups :
       GroupDeleted(g) \/ \E i \in Ids : Joins(g, i) \/ Leaves(g, i)

Spec == Init /\ [][Next]_vars

\* A running worker goes on (a pass that ends is requeued or polled) and the
\* informer catches up.
Fairness ==
  \A w \in Workers :
    WF_vars(WorkerStep(w)) /\ WF_vars(SyncCache(w) /\ Forget /\ UNCHANGED members)

FairSpec == Spec /\ Fairness

-----------------------------------------------------------------------------
(***************************************************************************)
(* Properties                                                              *)
(***************************************************************************)
\* Every variable has its type, and a pass that found members has seen some of
\* a group the CR names.
TypeOK ==
  /\ cr \in Objects(SpecType)
  /\ cache \in [Workers -> Copies(SpecType)]
  /\ mem \in [Workers -> Copies(SpecType)]
  /\ pc \in [Workers -> ReconcilerPhases \cup {"remove"}]
  /\ faults \in Nat
  /\ edits \in Nat
  /\ members \in [Groups -> {Gone} \cup SUBSET Ids]
  /\ seen \in [Workers -> SUBSET Ids]
  /\ \A w \in Workers : pc[w] \in {"current", "outdated", "remove"} =>
       Group(w) \in Groups /\ seen[w] # {}

\* The IDs in group g that only this CR can have brought there.
Granted(g) ==
  IF members[g] = Gone THEN {}
  ELSE members[g] \cap UNION {Idents(s.members) : s \in UserSpecs}

\* No access is left behind: while a group has a member the CR asked for, the CR
\* is there with the finalizer and names the group, or its creation is pending.
Accounted ==
  \A g \in Groups : Granted(g) # {} =>
    /\ cr.present /\ cr.finalizer
    /\ cr.extName = g \/ cr.creation = "pending"

\* Replacing members never empties the group in between, not even when some of
\* the new ones are refused: an empty group would be taken for a missing one.
NeverEmptied ==
  [][\A w \in Workers, g \in Groups :
       (Updating(w) \/ pc[w] = "remove") /\ members[g] \notin {Gone, {}}
         => members'[g] # {}]_vars

\* The steps of a pass that take members out of a group.
TakesOut(w) == UpdateRemove(w) \/ UpdateRemovePartly(w) \/ Delete(w) \/ DeleteFails(w)

\* Nobody's access is revoked unasked, though a pass may work from an older copy of the
\* CR, and its calls may fail half-way: when one takes an ID out of a group, the CR that
\* is there now names the group, and it is being deleted or the spec that the pass works
\* from leaves the ID out (groupmembership.go:183-213).  An update may go by a spec that
\* was replaced since; by the spec of now if its copy is current.
RevokedOnRequest ==
  [][\A w \in Workers, g \in Groups, i \in Ids :
       TakesOut(w) /\ i \in members[g] \ members'[g] =>
         /\ cr.present /\ cr.extName = g
         /\ \/ cr.deleting
            \/ /\ i \notin Idents(Wanted(w).members)
               /\ mem[w].fresh => i \notin Idents(cr.spec.members)]_vars

\* Deletion propagates to the cloud (examples/cos/README.md:148 on deletionPolicy;
\* groupmembership.go:100, "... or deletes an external resource to ensure it
\* reflects the managed resource's desired state"): when the CR is gone nobody
\* has access through it.
DeletionPropagates == ~cr.present => \A g \in Groups : Granted(g) = {}

\* The IDs that are in the CR's group though its spec does not list them.
Strangers ==
  IF cr.extName = NoName \/ members[cr.extName] = Gone THEN {}
  ELSE members[cr.extName] \ Idents(cr.spec.members)

\* Deletion takes away the spec's members as last written and waits for the group
\* to be empty: it is over in the end unless somebody else is in the group.
DeletionFinishesAlone == cr.deleting ~> (~cr.present \/ Strangers # {})

-----------------------------------------------------------------------------
(***************************************************************************)
(* The inductive invariant behind the safety properties                    *)
(***************************************************************************)
\* A pass that goes on has its reference resolved, one that creates or removes members
\* works on a CR that was not being deleted, and one that removes them on a CR with the
\* finalizer.
PassRight(w) ==
  /\ pc[w] \in {"absent", "current", "outdated", "create", "remove"} =>
       mem[w].obj.deleting \/ Wanted(w).group # Unset
  /\ pc[w] \in {"create", "remove"} => ~mem[w].obj.deleting
  /\ pc[w] = "remove" => mem[w].obj.finalizer

\* What holds with any replicas, specs and faults.
BaseInv == TypeOK /\ LoopInv({}) /\ \A w \in Workers : PassRight(w)

\* One replica runs: with a second one an update that was computed before a deletion
\* brings members back after it.
OneReplica == \A v, w \in Workers : v = w

\* A failed addition of members adds none, and an error is not taken for absence.
Trustworthy == FaultKinds \cap {"partialCreate", "misread"} = {}

\* The cloud refuses all the members of a spec or none.
RefusedWhole ==
  \A s \in UserSpecs : \A m, n \in ToSet(s.members) :
    m.type = TypeOf[m.id] => n.type = TypeOf[n.id]

\* The specs that are applied for one CR are of one group, given or referred to.
GroupKept == \A s, t \in UserSpecs : s.group = t.group

\* The groups in which somebody has access through the CR.
Held == {g \in Groups : Granted(g) # {}}

\* Spec and name of a CR, or of a copy of one, are about one group.
Placed(o) ==
  /\ o.spec.members \in {s.members : s \in UserSpecs}
  /\ \A s \in UserSpecs : s.group \in {Unset, o.spec.group}
  /\ o.extName \in {NoName, o.spec.group}

\* The CR that o is a copy of is still there, with all that o says of it but its name.
StillThere(o) ==
  /\ cr.present
  /\ o.deleting => cr.deleting
  /\ o.finalizer => cr.finalizer
  /\ o.spec.group \in {Unset, cr.spec.group}

NameKept(o) == o.extName \in {NoName, cr.extName}

\* A copy that an update may go by.
Managed(o) == o.present /\ o.finalizer /\ ~o.deleting

\* No CR but the one there now has access, and the copies of a replica, however
\* old, that let it grant or revoke access are copies of that one.  A copy that
\* can be written back is, or one that has the finalizer, and so is the one in the
\* cache, which is never the older of the two.
CopiesKnow(w, held) ==
  /\ Placed(cache[w].obj) /\ Placed(mem[w].obj)
  /\ CopyRight(cache[w].obj, held)
  /\ Managed(cache[w].obj) => StillThere(cache[w].obj) /\ NameKept(cache[w].obj)
  /\ pc[w] \notin {"created", "finish"} => CopyRight(mem[w].obj, held)
  /\ pc[w] # "idle" /\ Managed(mem[w].obj) =>
       /\ StillThere(mem[w].obj)
       /\ pc[w] \notin {"created", "finish"} => NameKept(mem[w].obj)
  /\ pc[w] # "idle" /\ (mem[w].fresh \/ Managed(mem[w].obj)) =>
       StillThere(cache[w].obj) /\ NameKept(cache[w].obj)
  /\ pc[w] # "idle" /\ mem[w].fresh /\ mem[w].obj.deleting => cache[w].obj.deleting
  /\ Creating(w) => Managed(mem[w].obj)

\* What the CR and its copies say of the groups that are held.
Known(held) ==
  /\ LoopInv(held)
  /\ Placed(cr) /\ held \subseteq {cr.spec.group}
  /\ \A w \in Workers : CopiesKnow(w, held)

\* The inductive invariant behind Accounted and RevokedOnRequest.
IInv == BaseInv /\ Known(Held)

-----------------------------------------------------------------------------
\* What settled means: the group has exactly the members the spec lists.
Settled ==
  \/ ~cr.present
  \/ /\ ~cr.deleting
     /\ HasMembers(cr.extName)
     /\ IsUpToDate(cr.spec, members[cr.extName])

\* Once users and faults leave the system alone it settles for good, unless the
\* CR is stuck in its deletion.
Settles == <>[](Settled \/ (cr.deleting /\ Strangers # {}))
=============================================================================
