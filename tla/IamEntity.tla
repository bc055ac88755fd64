------------------------------ MODULE IamEntity ------------------------------
(***************************************************************************)
(* The controllers of the IAM kinds whose updates are guarded by an ETag   *)
(* (AccessGroup, AccessGroupRule, Policy, CustomRole), run by the managed  *)
(* reconcile loop against IBM Cloud's IAM services (external).  The four   *)
(* controllers are the same text but for the types; what differs is in the *)
(* kinds' clients, which IamKinds calls.                                   *)
(*                                                                         *)
(* Observe keeps the ETag of its GET in an annotation and Update sends it  *)
(* as If-Match.  ETags are not counted: what a pass has seen carries a     *)
(* flag "match" that every later change of the entity clears.              *)
(***************************************************************************)
EXTENDS ManagedReconciler, IamKinds

\* Users apply well-formed specs; what the cloud gives an attribute is an operator;
\* no access group has the ID of a field left out.
ASSUME IamAssumption ==
  /\ UserSpecs \subseteq SpecType
  /\ DefaultOperator \in Operators
  /\ Unset \notin AccessGroups

VARIABLES entity,  \* entity[n]: what the cloud knows by ID n
          seen     \* seen[w]: what worker w's GET returned

vars == <<cr, cache, mem, pc, faults, edits, entity, seen>>

-----------------------------------------------------------------------------
\* An ID that is not assigned yet, and one whose entity is gone.
Unknown == [state |-> "unknown"]

Deleted == [state |-> "deleted"]

Entities == {Unknown, Deleted} \cup [state : {"live"}, is : Content]

NotSeen == [match |-> FALSE]

\* What a GET returned, with its ETag in the annotation.
Tagged(is) == [match |-> TRUE, is |-> is]

Init ==
  /\ ReconcilerInit
  /\ entity = [n \in Names |-> Unknown]
  /\ seen = [w \in Workers |-> NotSeen]

Id(w) == mem[w].obj.extName

Live(n) == n # NoName /\ entity[n].state = "live"

\* A worker whose pass is over has forgotten what it saw.
Forget == seen' = [w \in Workers |-> IF pc'[w] = "idle" THEN NotSeen ELSE seen[w]]

\* Entity n becomes e; no earlier ETag matches it.
Write(n, e) ==
  /\ entity' = [entity EXCEPT ![n] = e]
  /\ seen' = [w \in Workers |->
                IF Id(w) = n THEN [seen[w] EXCEPT !.match = FALSE] ELSE seen[w]]

\* Mutated: a reference is resolved again in every pass.
ResolveAgain(w) ==
  /\ pc[w] = "observe" /\ ~mem[w].obj.deleting
  /\ mem[w].obj.spec.kind = "AccessGroupRule"
  /\ \E g \in AccessGroups :
       ClientUpdate(w, [Sent(w) EXCEPT !.spec = Resolved(@, g)], "observe")
  /\ UNCHANGED <<faults, edits, entity, seen>>

\* ResolveReferences: a value that is there already is kept.  The resolved spec is
\* written to the API server.
Resolve(w) ==
  /\ pc[w] = "observe" /\ ~mem[w].obj.deleting
  /\ Refers(mem[w].obj.spec)
  /\ \E g \in AccessGroups :
       ClientUpdate(w, [Sent(w) EXCEPT !.spec = Resolved(@, g)], "observe")
  /\ UNCHANGED <<faults, edits, entity, seen>>

\* The AccessGroup cannot be read, or has no ID yet.
ResolveFails(w) ==
  /\ pc[w] = "observe" /\ ~mem[w].obj.deleting
  /\ Refers(mem[w].obj.spec)
  /\ Fault("error")
  /\ Go(w, "finish")
  /\ UNCHANGED <<cr, cache, mem, edits, entity, seen>>

\* A pass gets to Observe with its references resolved, unless the CR is being
\* deleted.
Observing(w) ==
  /\ pc[w] = "observe"
  /\ mem[w].obj.deleting \/ ~Refers(mem[w].obj.spec)

\* Mutated: that there is no such entity is an error like any other.
ObserveStrict(w) ==
  /\ Observing(w)
  /\ IF Live(Id(w))
     THEN /\ seen' = [seen EXCEPT ![w] = Tagged(entity[Id(w)].is)]
          /\ Go(w, "compare")
     ELSE Go(w, IF Id(w) = NoName THEN "absent" ELSE "finish") /\ UNCHANGED seen
  /\ UNCHANGED <<cr, cache, mem, faults, edits, entity>>

\* Connect (credentials, client) and Observe's GET.
ObserveGet(w) ==
  /\ Observing(w)
  /\ IF Live(Id(w)) /\ Reaches(mem[w].obj.spec, entity[Id(w)].is)
     THEN /\ seen' = [seen EXCEPT ![w] = Tagged(entity[Id(w)].is)]
          /\ Go(w, "compare")
     ELSE Go(w, "absent") /\ UNCHANGED seen
  /\ UNCHANGED <<cr, cache, mem, faults, edits, entity>>

\* A GET that fails with an error whose text IsResourceNotFound matches.
ObserveMisread(w) ==
  /\ Observing(w) /\ Id(w) # NoName
  /\ Fault("misread")
  /\ Go(w, "absent")
  /\ UNCHANGED <<cr, cache, mem, edits, entity, seen>>

\* The rest of Observe: late initialisation, whose result is written to the API
\* server if it is any, and the comparison.
ObserveCompare(w) ==
  /\ pc[w] = "compare"
  /\ ~LateInitPanics(mem[w].obj.spec, seen[w].is)
  /\ LET pass == Observe(mem[w].obj.spec, seen[w].is)
         spec == pass.spec
         o    == [Sent(w) EXCEPT !.spec = spec]
         next == IF pass.current THEN "current" ELSE "outdated"
     IN  \/ /\ spec = mem[w].obj.spec
            /\ mem' = [mem EXCEPT ![w].obj.ready = TRUE]
            /\ Go(w, next)
            /\ UNCHANGED <<cr, cache>>
         \/ /\ spec # mem[w].obj.spec /\ mem[w].fresh
            /\ Put(w, o, [obj |-> [o EXCEPT !.ready = TRUE], fresh |-> TRUE])
            /\ Go(w, next)
         \/ /\ spec # mem[w].obj.spec /\ ~mem[w].fresh
            /\ Go(w, "finish")
            /\ UNCHANGED <<cr, cache, mem>>
  /\ UNCHANGED <<faults, edits, entity, seen>>

\* The panic takes the process down; it is started again.
ObservePanics(w) ==
  /\ pc[w] = "compare"
  /\ LateInitPanics(mem[w].obj.spec, seen[w].is)
  /\ Go(w, "idle")
  /\ mem' = [mem EXCEPT ![w] = NoCopy]
  /\ seen' = [seen EXCEPT ![w] = NotSeen]
  /\ UNCHANGED <<cr, cache, faults, edits, entity>>

ObserveFails(w) ==
  /\ Observing(w)
  /\ Fault("error")
  /\ Go(w, "finish")
  /\ UNCHANGED <<cr, cache, mem, edits, entity, seen>>

-----------------------------------------------------------------------------
\* The Creating and Deleting conditions.
NotReady(w) == mem' = [mem EXCEPT ![w].obj.ready = FALSE]

\* Mutated: the external name is not set.
CreateUnnamed(w) ==
  /\ pc[w] = "create"
  /\ \E n \in Names :
       /\ entity[n] = Unknown
       /\ Write(n, [state |-> "live", is |-> Created(mem[w].obj.spec)])
  /\ NotReady(w)
  /\ Go(w, "created")
  /\ UNCHANGED <<cr, cache, faults, edits>>

\* The ID of the new entity becomes the external name.
Create(w) ==
  /\ pc[w] = "create"
  /\ \E n \in Names :
       /\ entity[n] = Unknown
       /\ Write(n, [state |-> "live", is |-> Created(mem[w].obj.spec)])
       /\ mem' = [mem EXCEPT ![w].obj = [@ EXCEPT !.extName = n, !.ready = FALSE]]
  /\ Go(w, "created")
  /\ UNCHANGED <<cr, cache, faults, edits>>

\* The call fails before it takes effect; an error whose text IsResourceInactive
\* matches is success without a name.
CreateFails(w) ==
  /\ pc[w] = "create"
  /\ \/ Fault("error") /\ Go(w, "createFailed")
     \/ Fault("inactive") /\ Go(w, "created")
  /\ NotReady(w)
  /\ UNCHANGED <<cr, cache, edits, entity, seen>>

\* The entity is created and the reply is lost: Create returns an error.
CreateLost(w) ==
  /\ pc[w] = "create"
  /\ Fault("lost")
  /\ \E n \in Names :
       /\ entity[n] = Unknown
       /\ Write(n, [state |-> "live", is |-> Created(mem[w].obj.spec)])
  /\ NotReady(w)
  /\ Go(w, "createFailed")
  /\ UNCHANGED <<cr, cache, edits>>

-----------------------------------------------------------------------------
Updating(w) == pc[w] = "outdated" /\ ~mem[w].obj.deleting /\ mem[w].obj.finalizer

\* Mutated: the ETag is not sent.
UpdateUnconditional(w) ==
  /\ Updating(w)
  /\ IF Live(Id(w))
     THEN Write(Id(w), [state |-> "live",
                        is |-> Updated(mem[w].obj.spec, entity[Id(w)].is)])
     ELSE UNCHANGED <<entity, seen>>
  /\ Go(w, "finish")
  /\ UNCHANGED <<cr, cache, mem, faults, edits>>

\* The update takes effect if the ETag still matches; the pass ends either way.
Update(w) ==
  /\ Updating(w)
  /\ IF Live(Id(w)) /\ seen[w].match
     THEN Write(Id(w), [state |-> "live",
                        is |-> Updated(mem[w].obj.spec, entity[Id(w)].is)])
     ELSE UNCHANGED <<entity, seen>>
  /\ Go(w, "finish")
  /\ UNCHANGED <<cr, cache, mem, faults, edits>>

UpdateFails(w) ==
  /\ Updating(w)
  /\ Fault("error")
  /\ Go(w, "finish")
  /\ UNCHANGED <<cr, cache, mem, edits, entity, seen>>

\* Mutated: an entity that differs is deleted to be created anew.
DeleteOutdated(w) ==
  /\ \/ pc[w] = "outdated" /\ mem[w].obj.finalizer
     \/ pc[w] = "current" /\ mem[w].obj.deleting
  /\ IF Live(Id(w)) THEN Write(Id(w), Deleted) ELSE UNCHANGED <<entity, seen>>
  /\ mem' = [mem EXCEPT ![w].obj.ready = FALSE]
  /\ Go(w, "finish")
  /\ UNCHANGED <<cr, cache, faults, edits>>

\* Deletion is not conditional; that the entity is gone already is no error.
Delete(w) ==
  /\ pc[w] \in {"current", "outdated"} /\ mem[w].obj.deleting
  /\ IF Live(Id(w)) THEN Write(Id(w), Deleted) ELSE UNCHANGED <<entity, seen>>
  /\ NotReady(w)
  /\ Go(w, "finish")
  /\ UNCHANGED <<cr, cache, faults, edits>>

DeleteFails(w) ==
  /\ pc[w] \in {"current", "outdated"} /\ mem[w].obj.deleting
  /\ Fault("error")
  /\ NotReady(w)
  /\ Go(w, "finish")
  /\ UNCHANGED <<cr, cache, edits, entity, seen>>

\* Somebody else edits or deletes the entity.
Drifts(n) ==
  /\ Live(n)
  /\ Fault("drift")
  /\ \/ Write(n, Deleted)
     \/ \E c \in Edited(entity[n].is) : Write(n, [state |-> "live", is |-> c])
  /\ UNCHANGED <<cr, cache, mem, pc, edits>>

-----------------------------------------------------------------------------
ExternalStep(w) ==
  \/ Resolve(w) \/ ObserveGet(w) \/ ObserveCompare(w) \/ ObservePanics(w)
  \/ Create(w) \/ Update(w) \/ Delete(w)

ExternalFault(w) ==
  \/ ResolveFails(w) \/ ObserveMisread(w) \/ ObserveFails(w)
  \/ CreateFails(w) \/ CreateLost(w) \/ UpdateFails(w) \/ DeleteFails(w)

\* No edit changes the kind of a CR, and an apply leaves alone the value of a
\* reference.
UserEdits ==
  \/ UserDeletes
  \/ \E s \in UserSpecs :
       /\ cr.present => SameKind(cr.spec, s)
       /\ UserApplies(IF cr.present /\ Refers(s) THEN [s EXCEPT !.group = cr.spec.group]
                      ELSE s)

WorkerStep(w) ==
  \/ ReconcilerStep(w) /\ Forget /\ UNCHANGED entity
  \/ ExternalStep(w)

Next ==
  \/ \E w \in Workers :
       \/ WorkerStep(w) \/ ExternalFault(w)
       \/ (SyncCache(w) \/ ReconcilerFault(w)) /\ Forget /\ UNCHANGED entity
  \/ UserEdits /\ Forget /\ UNCHANGED entity
  \/ \E n \in Names : Drifts(n)

Spec == Init /\ [][Next]_vars

\* A running worker goes on (a pass that ends is requeued or polled) and the
\* informer catches up.
Fairness ==
  \A w \in Workers :
    WF_vars(WorkerStep(w)) /\ WF_vars(SyncCache(w) /\ Forget /\ UNCHANGED entity)

FairSpec == Spec /\ Fairness

-----------------------------------------------------------------------------
(***************************************************************************)
(* Properties                                                              *)
(***************************************************************************)
\* Every variable has its type, and a pass that is past its GET has seen an
\* entity and knows its ID.
TypeOK ==
  /\ cr \in Objects(SpecType)
  /\ cache \in [Workers -> Copies(SpecType)]
  /\ mem \in [Workers -> Copies(SpecType)]
  /\ pc \in [Workers -> ReconcilerPhases \cup {"compare"}]
  /\ faults \in Nat
  /\ edits \in Nat
  /\ entity \in [Names -> Entities]
  /\ seen \in [Workers -> {NotSeen} \cup [match : BOOLEAN, is : Content]]
  /\ \A w \in Workers : pc[w] \in {"compare", "current", "outdated"} =>
       Id(w) \in Names /\ seen[w] # NotSeen

\* No entity is orphaned: while one is there its CR exists with the finalizer
\* and either names it or is blocked by the pending annotation.
Accounted ==
  \A n \in Names : Live(n) =>
    /\ cr.present /\ cr.finalizer
    /\ cr.extName = n \/ cr.creation = "pending"

\* An update never overwrites a change that the pass that sends it has not seen,
\* whether it was made in the cloud or by another replica (policy.go:188-195).
NoLostUpdate ==
  [][\A w \in Workers, n \in Names :
       Update(w) /\ entity'[n] # entity[n] => entity[n].is = seen[w].is]_vars

\* An entity is taken down only if the CR that names it is being deleted now.
DeletedOnRequest ==
  [][\A n \in Names :
       (\E w \in Workers : Delete(w)) /\ entity'[n] # entity[n]
         => cr.deleting /\ cr.extName = n]_vars

Alive == {n \in Names : Live(n)}

Given == {n \in Names : entity[n] # Unknown}

\* A CR and what it names are of one kind, and so is what a pass has seen; a pass
\* that goes on to create or update has its references resolved.
KindRight(o) == o.extName \in Alive => o.spec.kind = entity[o.extName].is.kind

KindsRight ==
  /\ KindRight(cr)
  /\ \A w \in Workers :
       /\ KindRight(mem[w].obj) /\ KindRight(cache[w].obj)
       /\ Creating(w) => SameKind(mem[w].obj.spec, cr.spec)
       /\ pc[w] \in {"compare", "current", "outdated"} =>
            SameKind(mem[w].obj.spec, seen[w].is)
       /\ pc[w] \in {"absent", "compare", "current", "outdated", "create"} =>
            mem[w].obj.deleting \/ ~Refers(mem[w].obj.spec)

\* A pass whose ETag still matches has seen what its entity is now.
SeenRight ==
  \A w \in Workers :
    pc[w] \in {"compare", "current", "outdated"} /\ seen[w].match /\ Live(Id(w)) =>
      entity[Id(w)].is = seen[w].is

\* What holds whatever the cloud's replies are worth.
BaseInv == TypeOK /\ LoopInv({}) /\ CopiesInv({}, Given) /\ KindsRight /\ SeenRight

\* Rules that are applied for one CR are of one access group (its fields are
\* +immutable, accessgrouprule_types.go:32), whether given or referred to.
GroupKept ==
  \A s, t \in UserSpecs :
    s.kind = "AccessGroupRule" /\ t.kind = "AccessGroupRule" => s.group = t.group

\* A creation that took effect was reported, and what was not found is not there.
Trustworthy == FaultKinds \cap {"lost", "misread"} = {}

SameGroup(spec, other) == spec.kind = "AccessGroupRule" => spec.group = other.group

\* A rule that is alive is in the group its CR names, so that Observe finds it.
GroupsRight ==
  /\ \A n \in Alive : SameKind(cr.spec, entity[n].is) /\ SameGroup(cr.spec, entity[n].is)
  /\ \A w \in Workers : Creating(w) => SameGroup(mem[w].obj.spec, cr.spec)
  /\ \A s \in UserSpecs :
       SameKind(s, cr.spec) /\ s.kind = "AccessGroupRule" => s.group \in {Unset, cr.spec.group}

\* The inductive invariant behind Accounted, DeletedOnRequest and KeepsPromise, for
\* GroupKept specs and Trustworthy replies.
IInv == BaseInv /\ LoopInv(Alive) /\ CopiesInv(Alive, Given) /\ GroupsRight

Resource ==
  INSTANCE ExternalResource WITH claim <- Claim, alive <- Alive,
                                 CanVanish <- "drift" \in FaultKinds

\* The four controllers keep the promise of ExternalResource.
KeepsPromise == Resource!Spec

\* A CR being deleted is released.
DeletionFinishes == cr.deleting ~> ~cr.present

\* What settled means: the CR is gone, or its entity is what the spec asks for.
Settled ==
  \/ ~cr.present
  \/ /\ ~cr.deleting
     /\ Live(cr.extName)
     /\ IsCurrent(cr.spec, entity[cr.extName].is)

\* Once users and faults leave the system alone it settles for good.
Settles == <>[]Settled
=============================================================================
