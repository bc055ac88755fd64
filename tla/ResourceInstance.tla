-------------------------- MODULE ResourceInstance --------------------------
(***************************************************************************)
(* The ResourceInstance controller (pkg/controller/resourcecontrollerv2/   *)
(* resourceinstance.go with its helpers in pkg/clients) run by the managed *)
(* reconcile loop against IBM Cloud's resource controller and tagging      *)
(* services (external).                                                    *)
(*                                                                         *)
(* Of a spec the model keeps five parts, which the code treats differently:*)
(*   site    target and service name: compared, never sent by an update    *)
(*   group   resource group: the same, but optional and then filled by     *)
(*           late initialisation                                           *)
(*   config  name and plan: compared and sent by an update                 *)
(*   opts    parameters, allowCleanup: optional, filled by late            *)
(*           initialisation, compared and sent                             *)
(*   tags    optional, late-initialised, kept by another service           *)
(***************************************************************************)
EXTENDS ManagedReconciler, SequencesExt

CONSTANTS Sites, ResourceGroups, Configs, Opts, Tags,
          Unset,         \* an optional field the user left out
          DefaultGroup,  \* what the cloud chooses for an unset group ...
          DefaultOpts    \* ... and for unset options

SpecType ==
  [site : Sites, group : ResourceGroups \cup {Unset}, config : Configs,
   opts : Opts \cup {Unset}, tags : Seq(Tags) \cup {Unset}]

ASSUME ResourceInstanceAssumption ==
  /\ UserSpecs \subseteq SpecType
  /\ Unset \notin ResourceGroups \cup Opts \cup Seq(Tags)
  /\ DefaultGroup \in ResourceGroups
  /\ DefaultOpts \in Opts
  /\ IsFiniteSet(Tags)

VARIABLES inst,  \* inst[n]: the instance the cloud knows by ID n
          seen,  \* seen[w]: the instance as worker w's GET returned it
          diff   \* diff[w]: the tags worker w's update attaches and detaches

vars == <<cr, cache, mem, pc, faults, edits, inst, seen, diff>>

-----------------------------------------------------------------------------
\* The states in which the cloud keeps the instance for its account.
LiveStates == {"active", "inactive", "provisioning"}

\* Mutated: an instance that is being provisioned is not there yet.
ExistsWhenProvisioned == {"active", "inactive"}

\* Mutated: whatever the cloud still answers for exists.
ExistsWhenKnown == {"active", "inactive", "provisioning", "pending_reclamation",
                    "failed", "removed"}

\* The states in which Observe takes the instance to exist.
ExistsStates == {"active", "inactive", "provisioning"}

States == LiveStates \cup {"none", "pending_reclamation", "failed", "removed"}

Content == [site : Sites, group : ResourceGroups, config : Configs, opts : Opts,
            tags : SUBSET Tags]

\* An ID that was never assigned, or whose instance is removed for good.
NoContent == [site |-> NoName, group |-> NoName, config |-> NoName,
              opts |-> NoName, tags |-> {}]

Instances ==
  [state : {"none", "removed"}, is : {NoContent}] \cup
  [state : States \ {"none", "removed"}, is : Content]

Blank(s) == [state |-> s, is |-> NoContent]

Live(n) == n # NoName /\ inst[n].state \in LiveStates

Exists(n) == n # NoName /\ inst[n].state \in ExistsStates

NoDiff == [attach |-> {}, detach |-> {}]

\* GetResourceInstanceTags: the tagging service lists an instance's tags in
\* an order of its own.
ListTags(n) == SetToSeq(inst[n].is.tags)

\* An empty list and an unset one compare equal (cmpopts.EquateEmpty).
EquateEmpty(tags) == IF tags = Unset THEN <<>> ELSE tags

TagSet(tags) == ToSet(EquateEmpty(tags))

\* Mutated: tags are only ever attached.
TagsToAttach(desired, actual) ==
  [attach |-> TagSet(desired) \ TagSet(actual), detach |-> {}]

TagsDiff(desired, actual) ==
  [attach |-> TagSet(desired) \ TagSet(actual),
   detach |-> TagSet(actual) \ TagSet(desired)]

\* LateInitializeSpec: optional fields the user left out take the cloud's values.
LateInitializeSpec(spec, instance, tags) ==
  [spec EXCEPT !.group = IF @ = Unset THEN instance.group ELSE @,
               !.opts = IF @ = Unset THEN instance.opts ELSE @,
               !.tags = IF @ = Unset /\ tags # <<>> THEN tags ELSE @]

\* IsUpToDate: every part is compared, the tags as lists.
IsUpToDate(spec, instance, tags) ==
  /\ spec.site = instance.site
  /\ spec.group = instance.group
  /\ spec.config = instance.config
  /\ spec.opts = instance.opts
  /\ EquateEmpty(spec.tags) = tags

-----------------------------------------------------------------------------
Init ==
  /\ ReconcilerInit
  /\ inst = [n \in Names |-> Blank("none")]
  /\ seen = [w \in Workers |-> NoContent]
  /\ diff = [w \in Workers |-> NoDiff]

\* A worker whose pass is over has forgotten what it saw.
Forget ==
  /\ seen' = [w \in Workers |-> IF pc'[w] = "idle" THEN NoContent ELSE seen[w]]
  /\ diff' = [w \in Workers |-> IF pc'[w] = "idle" THEN NoDiff ELSE diff[w]]

Id(w) == mem[w].obj.extName

\* Connect (credentials, client) and Observe's GET of the instance.
ObserveGet(w) ==
  /\ pc[w] = "observe"
  /\ IF Exists(Id(w))
     THEN Go(w, "lateInit") /\ seen' = [seen EXCEPT ![w] = inst[Id(w)].is]
     ELSE Go(w, "absent") /\ UNCHANGED seen
  /\ UNCHANGED <<cr, cache, mem, faults, edits, inst, diff>>

\* A GET that fails with an error whose text IsResourceNotFound matches
\* ("unable to get ...") although the instance is there.
ObserveMisread(w) ==
  /\ pc[w] = "observe" /\ Id(w) # NoName
  /\ Fault("misread")
  /\ Go(w, "absent")
  /\ UNCHANGED <<cr, cache, mem, edits, inst, seen, diff>>

\* Mutated: the spec is written whatever has become of the CR meanwhile.
ObserveLateInitForced(w) ==
  /\ pc[w] = "lateInit"
  /\ LET spec == LateInitializeSpec(mem[w].obj.spec, seen[w], ListTags(Id(w)))
     IN  IF spec = mem[w].obj.spec
         THEN Go(w, "compare") /\ UNCHANGED <<cr, cache, mem>>
         ELSE /\ Put(w, [cr EXCEPT !.spec = spec],
                        [obj |-> [cr EXCEPT !.spec = spec], fresh |-> TRUE])
              /\ Go(w, "compare")
  /\ UNCHANGED <<faults, edits, inst, seen, diff>>

\* Late initialisation; a spec it changed is written to the API server.
ObserveLateInit(w) ==
  /\ pc[w] = "lateInit"
  /\ LET spec == LateInitializeSpec(mem[w].obj.spec, seen[w], ListTags(Id(w)))
     IN  IF spec = mem[w].obj.spec
         THEN Go(w, "compare") /\ UNCHANGED <<cr, cache, mem>>
         ELSE ClientUpdate(w, [Sent(w) EXCEPT !.spec = spec], "compare")
  /\ UNCHANGED <<faults, edits, inst, seen, diff>>

\* The status is filled in, Ready whatever the state, and the spec compared.
ObserveCompare(w) ==
  /\ pc[w] = "compare"
  /\ mem' = [mem EXCEPT ![w].obj.ready = TRUE]
  /\ Go(w, IF IsUpToDate(mem[w].obj.spec, seen[w], ListTags(Id(w)))
           THEN "current" ELSE "outdated")
  /\ UNCHANGED <<cr, cache, faults, edits, inst, seen, diff>>

\* Any call Connect and Observe make may fail; the status that is written
\* then is Ready if the failure came after the status was filled in.
ObserveFails(w) ==
  /\ pc[w] \in {"observe", "lateInit", "compare"}
  /\ Fault("error")
  /\ Go(w, "finish")
  /\ mem' = [mem EXCEPT ![w].obj.ready = IF pc[w] = "compare" THEN TRUE ELSE @]
  /\ UNCHANGED <<cr, cache, edits, inst, seen, diff>>

\* Mutated: options left out are sent as they are.
CreatedUnset(spec) ==
  [state |-> "provisioning",
   is |-> [site |-> spec.site, group |-> spec.group, config |-> spec.config,
           opts |-> spec.opts, tags |-> TagSet(spec.tags)]]

\* The instance that GenerateCreateResourceInstanceOptions asks for.
Created(spec) ==
  [state |-> "provisioning",
   is |-> [site |-> spec.site,
           group |-> IF spec.group = Unset THEN DefaultGroup ELSE spec.group,
           config |-> spec.config,
           opts |-> IF spec.opts = Unset THEN DefaultOpts ELSE spec.opts,
           tags |-> TagSet(spec.tags)]]

\* Mutated: the external name is not set.
CreateUnnamed(w) ==
  /\ pc[w] = "create"
  /\ \E n \in Names :
       /\ inst[n].state = "none"
       /\ inst' = [inst EXCEPT ![n] = Created(mem[w].obj.spec)]
  /\ Go(w, "created")
  /\ UNCHANGED <<cr, cache, mem, faults, edits, seen, diff>>

\* CreateResourceInstance: the ID the cloud assigns becomes the external name.
Create(w) ==
  /\ pc[w] = "create"
  /\ \E n \in Names :
       /\ inst[n].state = "none"
       /\ inst' = [inst EXCEPT ![n] = Created(mem[w].obj.spec)]
       /\ mem' = [mem EXCEPT ![w].obj = [@ EXCEPT !.extName = n, !.ready = FALSE]]
  /\ Go(w, "created")
  /\ UNCHANGED <<cr, cache, faults, edits, seen, diff>>

\* A lookup (of the plan in the catalog, of the resource group) or the call itself
\* fails before it takes effect.
CreateFails(w) ==
  /\ pc[w] = "create"
  /\ Fault("error")
  /\ mem' = [mem EXCEPT ![w].obj.ready = FALSE]
  /\ Go(w, "createFailed")
  /\ UNCHANGED <<cr, cache, edits, inst, seen, diff>>

\* The instance is created and the reply is lost: Create returns an error.
CreateLost(w) ==
  /\ pc[w] = "create"
  /\ Fault("lost")
  /\ \E n \in Names :
       /\ inst[n].state = "none"
       /\ inst' = [inst EXCEPT ![n] = Created(mem[w].obj.spec)]
  /\ mem' = [mem EXCEPT ![w].obj.ready = FALSE]
  /\ Go(w, "createFailed")
  /\ UNCHANGED <<cr, cache, edits, seen, diff>>

\* UpdateResourceInstance, by the ID that was observed in this pass.
UpdateInstance(w) ==
  /\ pc[w] = "outdated" /\ ~mem[w].obj.deleting /\ mem[w].obj.finalizer
  /\ IF Live(Id(w))
     THEN /\ inst' = [inst EXCEPT ![Id(w)].is.config = mem[w].obj.spec.config,
                                  ![Id(w)].is.opts = IF mem[w].obj.spec.opts = Unset
                                                     THEN @ ELSE mem[w].obj.spec.opts]
          /\ Go(w, "listTags")
     ELSE Go(w, "finish") /\ UNCHANGED inst
  /\ UNCHANGED <<cr, cache, mem, faults, edits, seen, diff>>

\* UpdateResourceInstanceTags: list, then attach, then detach.
UpdateListTags(w) ==
  /\ pc[w] = "listTags"
  /\ diff' = [diff EXCEPT ![w] = TagsDiff(mem[w].obj.spec.tags, ListTags(Id(w)))]
  /\ Go(w, "attach")
  /\ UNCHANGED <<cr, cache, mem, faults, edits, inst, seen>>

UpdateAttach(w) ==
  /\ pc[w] = "attach"
  /\ IF diff[w].attach = {} \/ Live(Id(w))
     THEN /\ inst' = IF diff[w].attach = {} THEN inst
                     ELSE [inst EXCEPT ![Id(w)].is.tags = @ \cup diff[w].attach]
          /\ Go(w, "detach")
     ELSE Go(w, "finish") /\ UNCHANGED inst
  /\ UNCHANGED <<cr, cache, mem, faults, edits, seen, diff>>

UpdateDetach(w) ==
  /\ pc[w] = "detach"
  /\ inst' = IF diff[w].detach # {} /\ Live(Id(w))
             THEN [inst EXCEPT ![Id(w)].is.tags = @ \ diff[w].detach] ELSE inst
  /\ Go(w, "finish")
  /\ UNCHANGED <<cr, cache, mem, faults, edits, seen, diff>>

UpdateFails(w) ==
  /\ \/ pc[w] = "outdated" /\ ~mem[w].obj.deleting /\ mem[w].obj.finalizer
     \/ pc[w] \in {"listTags", "attach", "detach"}
  /\ Fault("error")
  /\ Go(w, "finish")
  /\ UNCHANGED <<cr, cache, mem, edits, inst, seen, diff>>

\* Mutated: an instance that cannot be brought up to date is taken down.
DeleteOutdated(w) ==
  /\ pc[w] = "outdated" \/ (pc[w] = "current" /\ mem[w].obj.deleting)
  /\ Live(Id(w))
  /\ inst' = [inst EXCEPT ![Id(w)] = Blank("removed")]
  /\ Go(w, "finish")
  /\ UNCHANGED <<cr, cache, mem, faults, edits, seen, diff>>

\* DeleteResourceInstance; that the instance is gone already is no error.
Delete(w) ==
  /\ pc[w] \in {"current", "outdated"} /\ mem[w].obj.deleting
  /\ IF Live(Id(w))
     THEN \/ inst' = [inst EXCEPT ![Id(w)] = Blank("removed")]
          \/ inst' = [inst EXCEPT ![Id(w)].state = "pending_reclamation"]
     ELSE UNCHANGED inst
  /\ mem' = [mem EXCEPT ![w].obj.ready = FALSE]
  /\ Go(w, "finish")
  /\ UNCHANGED <<cr, cache, faults, edits, seen, diff>>

DeleteFails(w) ==
  /\ pc[w] \in {"current", "outdated"} /\ mem[w].obj.deleting
  /\ Fault("error")
  /\ mem' = [mem EXCEPT ![w].obj.ready = FALSE]
  /\ Go(w, "finish")
  /\ UNCHANGED <<cr, cache, edits, inst, seen, diff>>

-----------------------------------------------------------------------------
\* What the cloud does by itself.
Changes(n, i) ==
  /\ inst' = [inst EXCEPT ![n] = i]
  /\ UNCHANGED <<cr, cache, mem, pc, edits, seen, diff>>

Provisioned(n) ==
  /\ inst[n].state = "provisioning"
  /\ Changes(n, [inst[n] EXCEPT !.state = "active"])
  /\ UNCHANGED faults

Reclaimed(n) ==
  /\ inst[n].state = "pending_reclamation"
  /\ Changes(n, Blank("removed"))
  /\ UNCHANGED faults

\* What happens to an instance behind the provider's back: provisioning
\* fails, somebody deletes, suspends or resumes it, edits it or its tags.
Drifts(n) ==
  /\ Live(n)
  /\ Fault("drift")
  /\ \/ inst[n].state = "provisioning" /\ Changes(n, [inst[n] EXCEPT !.state = "failed"])
     \/ Changes(n, Blank("removed"))
     \/ Changes(n, [inst[n] EXCEPT !.state = "pending_reclamation"])
     \/ inst[n].state = "active" /\ Changes(n, [inst[n] EXCEPT !.state = "inactive"])
     \/ inst[n].state = "inactive" /\ Changes(n, [inst[n] EXCEPT !.state = "active"])
     \/ \E c \in Configs \ {inst[n].is.config} :
          Changes(n, [inst[n] EXCEPT !.is.config = c])
     \/ \E t \in (SUBSET Tags) \ {inst[n].is.tags} :
          Changes(n, [inst[n] EXCEPT !.is.tags = t])

\* Somebody restores an instance that was deleted but not yet reclaimed.
Restored(n) ==
  /\ inst[n].state = "pending_reclamation"
  /\ Fault("restore")
  /\ Changes(n, [inst[n] EXCEPT !.state = "active"])

-----------------------------------------------------------------------------
ExternalStep(w) ==
  \/ ObserveGet(w) \/ ObserveLateInit(w) \/ ObserveCompare(w)
  \/ Create(w) \/ UpdateInstance(w) \/ UpdateListTags(w) \/ UpdateAttach(w)
  \/ UpdateDetach(w) \/ Delete(w)

ExternalFault(w) ==
  \/ ObserveMisread(w) \/ ObserveFails(w) \/ CreateFails(w) \/ CreateLost(w)
  \/ UpdateFails(w) \/ DeleteFails(w)

\* The steps of worker w that need no fault to happen.
WorkerStep(w) ==
  \/ ReconcilerStep(w) /\ Forget /\ UNCHANGED inst
  \/ ExternalStep(w)

CloudStep == \E n \in Names : Provisioned(n) \/ Reclaimed(n)

Next ==
  \/ \E w \in Workers :
       \/ WorkerStep(w) \/ ExternalFault(w)
       \/ (SyncCache(w) \/ ReconcilerFault(w)) /\ Forget /\ UNCHANGED inst
  \/ UserStep /\ Forget /\ UNCHANGED inst
  \/ CloudStep
  \/ \E n \in Names : Drifts(n) \/ Restored(n)

Spec == Init /\ [][Next]_vars

\* A running worker goes on (a pass that ends is requeued or polled), the
\* informer catches up, and the cloud finishes what it started.
Fairness ==
  /\ \A w \in Workers : WF_vars(WorkerStep(w))
  /\ \A w \in Workers : WF_vars(SyncCache(w) /\ Forget /\ UNCHANGED inst)
  /\ WF_vars(CloudStep)

FairSpec == Spec /\ Fairness

-----------------------------------------------------------------------------
(***************************************************************************)
(* Properties                                                              *)
(***************************************************************************)
KindPhases == {"lateInit", "compare", "listTags", "attach", "detach"}

\* A pass that is past its GET works on an instance it has seen.
PassSaw(w) ==
  /\ pc[w] \in {"lateInit", "compare"} => seen[w] \in Content
  /\ pc[w] \in KindPhases \cup {"current", "outdated"} => Id(w) \in Names

\* Every variable has its type: the CR and its copies, what the cloud keeps, and
\* what a pass remembers at each of its phases.
TypeOK ==
  /\ cr \in Objects(SpecType)
  /\ cache \in [Workers -> Copies(SpecType)]
  /\ mem \in [Workers -> Copies(SpecType)]
  /\ pc \in [Workers -> ReconcilerPhases \cup KindPhases]
  /\ faults \in Nat
  /\ edits \in Nat
  /\ inst \in [Names -> Instances]
  /\ seen \in [Workers -> Content \cup {NoContent}]
  /\ diff \in [Workers -> [attach : SUBSET Tags, detach : SUBSET Tags]]
  /\ \A w \in Workers : PassSaw(w)

\* A CR never has two instances alive at once: whatever the order of passes of
\* two replicas, however stale their caches, and wherever a process crashes,
\* Create (resourceinstance.go:170) is not called while an earlier one lives.
AtMostOneLive == \A m, n \in Names : Live(m) /\ Live(n) => m = n

\* No instance is orphaned: while one is alive its CR exists with the
\* finalizer and either names it or is blocked by the pending annotation.
Accounted ==
  \A n \in Names : Live(n) =>
    /\ cr.present /\ cr.finalizer
    /\ cr.extName = n \/ cr.creation = "pending"

\* No copy of the CR, however old, names an instance that does not exist yet.
Known(n) == n = NoName \/ inst[n].state # "none"

NamesAreKnown ==
  /\ Known(cr.extName)
  /\ \A w \in Workers : Known(mem[w].obj.extName) /\ Known(cache[w].obj.extName)

\* One replica creates at a time, under the pending annotation, and what it
\* knows about the instances alive is right.
CreatorKnows(w) ==
  /\ Creating(w) => /\ cr.creation = "pending"
                    /\ \A v \in Workers : Creating(v) => v = w
  /\ pc[w] = "absent" => ~Live(mem[w].obj.extName)
  /\ pc[w] \in {"create", "createFailed"} => \A n \in Names : ~Live(n)
  /\ pc[w] = "created" => /\ mem[w].obj.extName \in Names
                          /\ \A n \in Names : Live(n) => n = mem[w].obj.extName
  /\ pc[w] \in {"observe", "lateInit", "compare", "absent", "current", "outdated"}
       => mem[w].obj.creation # "pending"

\* The inductive invariant behind AtMostOneLive and Accounted.
IInv ==
  /\ TypeOK
  /\ FreshIsCurrent
  /\ NamesAreKnown
  /\ \A w \in Workers : CreatorKnows(w)
  /\ cr.creation = "pending" => cr.present /\ cr.finalizer
  /\ Accounted
  /\ AtMostOneLive

\* The controller takes an instance down only if the CR that names it is being
\* deleted now, though the pass that does it works from an older copy of the CR.
DeletedOnRequest ==
  [][\A n \in Names :
       (\E w \in Workers : Delete(w)) /\ Live(n) /\ ~Live(n)'
         => cr.deleting /\ cr.extName = n]_vars

\* Whatever was leaked before, the controller never takes down the instance of a
\* CR that nobody asked to delete, though a replica may still hold a copy of the CR
\* as it was being deleted before it was released and applied again.
NeverDeletesWanted ==
  [][\A n \in Names :
       (\E w \in Workers : Delete(w)) /\ Live(n) /\ ~Live(n)'
         => ~(cr.present /\ ~cr.deleting /\ cr.extName = n)]_vars

\* Late initialisation fills fields the user left out and changes no other,
\* although it writes back the whole spec of an older copy.
UserFieldsKept ==
  [][cr'.present /\ ~UserStep =>
       \A f \in DOMAIN cr.spec :
         cr'.spec[f] # cr.spec[f] => cr.spec[f] = Unset]_vars

Marked(o) == o.deleting /\ Live(o.extName)

\* A copy, however old, that is marked for deletion and names an instance that is
\* alive is a copy of the CR that is being deleted now.
DeletionKnown ==
  \A w \in Workers :
    /\ Marked(mem[w].obj) \/ Marked(cache[w].obj) => cr.deleting
    /\ pc[w] = "create" => ~mem[w].obj.deleting

Alive == {n \in Names : Live(n)}

Resource ==
  INSTANCE ExternalResource WITH claim <- Claim, alive <- Alive,
                                 CanVanish <- "drift" \in FaultKinds

\* The controller and the loop that runs it keep the promise of ExternalResource: at
\* most one instance is made at a time, for a CR that is there, it is taken down for
\* one that is being deleted, and a CR goes, or comes back, when nothing is left.
KeepsPromise == Resource!Spec

\* A CR being deleted is released, whatever happens to the instance meanwhile.
DeletionFinishes == cr.deleting ~> ~cr.present

\* What settled means: the CR is gone, or its instance is alive and has
\* what the spec asks for.
Settled ==
  \/ ~cr.present
  \/ /\ ~cr.deleting
     /\ Live(cr.extName)
     /\ IsUpToDate(cr.spec, inst[cr.extName].is, ListTags(cr.extName))

\* Once users and faults leave the system alone it settles for good.
Settles == <>[]Settled
=============================================================================
