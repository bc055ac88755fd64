--------------------------- MODULE ServiceResource ---------------------------
(***************************************************************************)
(* The controllers of what lives in or beside a service instance           *)
(* (ResourceKey, Topic, CloudantDatabase, Bucket, ScalingGroup,            *)
(* AutoscalingGroup, Whitelist), run by the managed reconcile loop against *)
(* IBM Cloud's services (external).  The seven controllers follow one      *)
(* text; where they differ is in ServiceKinds.                             *)
(*                                                                         *)
(* The CR names the instance by a value in its spec, or refers to the      *)
(* ResourceInstance (or the ResourceKey) whose status (or secret) has it.  *)
(* That object is modelled by the value a reference resolves to: the       *)
(* instances that the CR comes to refer to are 1, 2, ...                   *)
(***************************************************************************)
EXTENDS ManagedReconciler, ServiceKinds, FiniteSets

ASSUME ServiceResourceAssumption ==
  /\ UserSpecs \subseteq SpecType
  /\ GivenNames \cup Sources \subseteq Names
  /\ Sources = 1 .. Cardinality(Sources) /\ 1 \in Sources

VARIABLES source,  \* the instance the CR refers to: its number, whether it can be
                   \* resolved; and which instances are up
          entity,  \* entity[n]: what the cloud knows by the name n
          seen     \* seen[w]: what worker w's GET returned

vars == <<cr, cache, mem, pc, faults, edits, source, entity, seen>>

-----------------------------------------------------------------------------
\* A name under which nothing was ever, and one whose bearer is gone.
Unknown == [state |-> "unknown"]

Deleted == [state |-> "deleted"]

Owners == {"cr", "others"}

Entities == {Unknown, Deleted} \cup [state : {"live"}, by : Owners, is : Content]

Bearer(by, is) == [state |-> "live", by |-> by, is |-> is]

NotSeen == [kind |-> "none"]

Init ==
  /\ ReconcilerInit
  /\ source = [kind |-> cr.spec.kind, at |-> 1, ready |-> FALSE, up |-> {}]
  /\ entity = [n \in Names |-> Unknown]
  /\ seen = [w \in Workers |-> NotSeen]

Live(n) == n # NoName /\ entity[n].state = "live"

\* What is known by the name n is in instance i; deployments are known by theirs.
In(n, i) == IF source.kind \in SettingKinds THEN n = i ELSE entity[n].is.source = i

\* The instance a resolved spec names is still there.
Up(spec) == spec.source \in source.up

Asked(w) == mem[w].obj.spec

ExtName(w) == mem[w].obj.extName

\* A worker whose pass is over has forgotten what it saw.
Forget == seen' = [w \in Workers |-> IF pc'[w] = "idle" THEN NotSeen ELSE seen[w]]

Write(n, e) == entity' = [entity EXCEPT ![n] = e]

-----------------------------------------------------------------------------
\* Mutated: a reference is resolved again in every pass.
ResolveAlways(w) ==
  /\ pc[w] = "observe" /\ ~mem[w].obj.deleting
  /\ Asked(w).source # source.at /\ source.ready
  /\ ClientUpdate(w, [Sent(w) EXCEPT !.spec = Resolved(@, source.at)], "observe")
  /\ UNCHANGED <<faults, edits, source, entity, seen>>

\* ResolveReferences: a value that is there already is kept.  The resolved spec
\* is written to the API server.
Resolve(w) ==
  /\ pc[w] = "observe" /\ ~mem[w].obj.deleting
  /\ Asked(w).source = Unset /\ source.ready
  /\ ClientUpdate(w, [Sent(w) EXCEPT !.spec = Resolved(@, source.at)], "observe")
  /\ UNCHANGED <<faults, edits, source, entity, seen>>

\* A reference to what is not ready (an instance without GUID, a key's secret that
\* is not there or has no URL) ends the pass with an error ...
Unresolved(w) ==
  /\ pc[w] = "observe" /\ ~mem[w].obj.deleting
  /\ Asked(w).source = Unset /\ ~source.ready
  /\ Go(w, "finish")
  /\ UNCHANGED <<cr, cache, mem, faults, edits, source, entity, seen>>

\* ... and so does a failure to read what it refers to.
ResolveFails(w) ==
  /\ pc[w] = "observe" /\ ~mem[w].obj.deleting
  /\ Asked(w).source = Unset
  /\ Fault("error")
  /\ Go(w, "finish")
  /\ UNCHANGED <<cr, cache, mem, edits, source, entity, seen>>

\* Settings of a deployment are absent as soon as the CR is being deleted.
Found(w, n) ==
  /\ ExtName(w) # NoName /\ Live(n)
  /\ Reaches(Asked(w), entity[n].is)
  /\ ~(Asked(w).kind \in ScalingKinds /\ mem[w].obj.deleting)

\* Mutated: that there is nothing is an error like any other.
ObserveStrict(w) ==
  /\ pc[w] = "observe"
  /\ mem[w].obj.deleting \/ Asked(w).source # Unset
  /\ LET n == Observed(Asked(w), ExtName(w))
     IN  IF Found(w, n)
         THEN Go(w, "compare") /\ seen' = [seen EXCEPT ![w] = entity[n].is]
         ELSE Go(w, IF ExtName(w) = NoName THEN "absent" ELSE "finish") /\ UNCHANGED seen
  /\ UNCHANGED <<cr, cache, mem, faults, edits, source, entity>>

\* Connect (credentials, client) and Observe's GET.
ObserveGet(w) ==
  /\ pc[w] = "observe"
  /\ mem[w].obj.deleting \/ Asked(w).source # Unset
  /\ LET n == Observed(Asked(w), ExtName(w))
     IN  IF Found(w, n)
         THEN Go(w, "compare") /\ seen' = [seen EXCEPT ![w] = entity[n].is]
         ELSE Go(w, "absent") /\ UNCHANGED seen
  /\ UNCHANGED <<cr, cache, mem, faults, edits, source, entity>>

\* The rest of Observe: late initialisation, whose result is written to the API
\* server if it is any, the condition (a bucket gets none) and the comparison.
ObserveCompare(w) ==
  /\ pc[w] = "compare"
  /\ LET pass  == Observe(Asked(w), seen[w])
         spec  == pass.spec
         ready == mem[w].obj.ready \/ pass.ready
         o     == [Sent(w) EXCEPT !.spec = spec]
         next  == IF pass.current THEN "current" ELSE "outdated"
     IN  \/ /\ spec = Asked(w)
            /\ mem' = [mem EXCEPT ![w].obj.ready = ready]
            /\ Go(w, next)
            /\ UNCHANGED <<cr, cache>>
         \/ /\ spec # Asked(w) /\ mem[w].fresh
            /\ Put(w, o, [obj |-> [o EXCEPT !.ready = ready], fresh |-> TRUE])
            /\ Go(w, next)
         \/ /\ spec # Asked(w) /\ ~mem[w].fresh
            /\ Go(w, "finish")
            /\ UNCHANGED <<cr, cache, mem>>
  /\ UNCHANGED <<faults, edits, source, entity, seen>>

\* Connect gives no client: one of its services cannot be constructed.
ConnectFails(w) ==
  /\ pc[w] = "observe"
  /\ mem[w].obj.deleting \/ Asked(w).source # Unset
  /\ Fault("error")
  /\ Go(w, "finish")
  /\ UNCHANGED <<cr, cache, mem, edits, source, entity, seen>>

\* No credentials, or the GET fails.
ObserveFails(w) ==
  /\ pc[w] = "observe"
  /\ mem[w].obj.deleting \/ Asked(w).source # Unset
  /\ Fault("error")
  /\ Go(w, "finish")
  /\ UNCHANGED <<cr, cache, mem, edits, source, entity, seen>>

-----------------------------------------------------------------------------
\* The Creating and Deleting conditions.
NotReady(w) == mem' = [mem EXCEPT ![w].obj.ready = FALSE]

\* What is made in an instance needs the instance.
Creatable(spec) ==
  IF spec.kind \in SettingKinds \/ Up(spec) THEN Creations(spec, entity) ELSE {}

\* Only scaling and autoscaling groups send nothing when they are created.
Produce(w, c) ==
  IF Asked(w).kind \in ScalingKinds THEN UNCHANGED entity
  ELSE Write(c.name, Bearer("cr", c.is))

\* Mutated: that there is one of this name already is taken for success.
CreateAdopts(w) ==
  /\ pc[w] = "create"
  /\ LET taken == {[name |-> n] : n \in {m \in Names :
                     Asked(w).kind \in NamedKinds /\ Asked(w).name = m /\ Live(m)}}
     IN  \E c \in taken \cup Creatable(Asked(w)) :
           /\ IF c \in taken THEN UNCHANGED entity ELSE Produce(w, c)
           /\ mem' = [mem EXCEPT ![w].obj = [@ EXCEPT !.extName = c.name, !.ready = FALSE]]
  /\ Go(w, "created")
  /\ UNCHANGED <<cr, cache, faults, edits, source, seen>>

\* Mutated: the external name is not set.
CreateUnnamed(w) ==
  /\ pc[w] = "create"
  /\ \E c \in Creatable(Asked(w)) : Produce(w, c)
  /\ NotReady(w)
  /\ Go(w, "created")
  /\ UNCHANGED <<cr, cache, faults, edits, source, seen>>

\* Its ID, the name of the spec or the deployment's ID becomes the external name.
Create(w) ==
  /\ pc[w] = "create"
  /\ \E c \in Creatable(Asked(w)) :
       /\ Produce(w, c)
       /\ mem' = [mem EXCEPT ![w].obj = [@ EXCEPT !.extName = c.name, !.ready = FALSE]]
  /\ Go(w, "created")
  /\ UNCHANGED <<cr, cache, faults, edits, source, seen>>

\* The instance is gone or the name is taken, which is an error ...
CreateRefused(w) ==
  /\ pc[w] = "create"
  /\ Creatable(Asked(w)) = {}
  /\ NotReady(w)
  /\ Go(w, "createFailed")
  /\ UNCHANGED <<cr, cache, faults, edits, source, entity, seen>>

\* ... or the call fails before it takes effect.
CreateFails(w) ==
  /\ pc[w] = "create"
  /\ Fault("error")
  /\ NotReady(w)
  /\ Go(w, "createFailed")
  /\ UNCHANGED <<cr, cache, edits, source, entity, seen>>

-----------------------------------------------------------------------------
Updating(w) == pc[w] = "outdated" /\ ~mem[w].obj.deleting /\ mem[w].obj.finalizer

\* A topic is read again before it is updated.
UpdateGet(w) ==
  /\ Updating(w) /\ Asked(w).kind = "Topic"
  /\ IF Found(w, ExtName(w))
     THEN Go(w, "patch") /\ seen' = [seen EXCEPT ![w] = entity[ExtName(w)].is]
     ELSE Go(w, "finish") /\ UNCHANGED seen
  /\ UNCHANGED <<cr, cache, mem, faults, edits, source, entity>>

Patching(w) == pc[w] = "patch" \/ (Updating(w) /\ Asked(w).kind # "Topic")

\* The update takes effect if what it names is there; the pass ends either way.
Update(w) ==
  /\ Patching(w)
  /\ LET n == Patched(Asked(w), ExtName(w))
     IN  IF Live(n) /\ (Asked(w).kind = "Topic" => Reaches(Asked(w), entity[n].is))
            /\ Accepts(Asked(w), seen[w], entity[n].is)
         THEN Write(n, [entity[n] EXCEPT !.is = Updated(Asked(w), seen[w], @)])
         ELSE UNCHANGED entity
  /\ Go(w, "finish")
  /\ UNCHANGED <<cr, cache, mem, faults, edits, source, seen>>

UpdateFails(w) ==
  /\ Patching(w)
  /\ Fault("error")
  /\ Go(w, "finish")
  /\ UNCHANGED <<cr, cache, mem, edits, source, entity, seen>>

Deleting(w) == pc[w] \in {"current", "outdated"} /\ mem[w].obj.deleting

\* A whitelist is emptied, the rest is deleted.
TakeDown(spec, n) ==
  IF spec.kind = "Whitelist"
  THEN Write(n, Bearer("others", White!Emptied(entity[n].is)))
  ELSE Write(n, Deleted)

\* Mutated: what differs is taken down to be created anew.
DeleteOutdated(w) ==
  /\ \/ pc[w] = "outdated" /\ mem[w].obj.finalizer
     \/ pc[w] = "current" /\ mem[w].obj.deleting
  /\ LET n == Observed(Asked(w), ExtName(w))
     IN  IF Live(n) /\ Reaches(Asked(w), entity[n].is)
         THEN TakeDown(Asked(w), n) ELSE UNCHANGED entity
  /\ NotReady(w)
  /\ Go(w, "finish")
  /\ UNCHANGED <<cr, cache, faults, edits, source, seen>>

\* A bucket is deleted by the name of its spec, the rest by the external name;
\* that it is gone already ends the pass like success does.
Delete(w) ==
  /\ Deleting(w)
  /\ LET n == Observed(Asked(w), ExtName(w))
     IN  IF Live(n) /\ Reaches(Asked(w), entity[n].is)
         THEN TakeDown(Asked(w), n) ELSE UNCHANGED entity
  /\ NotReady(w)
  /\ Go(w, "finish")
  /\ UNCHANGED <<cr, cache, faults, edits, source, seen>>

DeleteFails(w) ==
  /\ Deleting(w)
  /\ Fault("error")
  /\ NotReady(w)
  /\ Go(w, "finish")
  /\ UNCHANGED <<cr, cache, edits, source, entity, seen>>

-----------------------------------------------------------------------------
\* The instance becomes ready; a deployment brings its settings.
SourceReady ==
  /\ ~source.ready
  /\ source' = [source EXCEPT !.ready = TRUE, !.up = @ \cup {source.at}]
  /\ IF source.kind \in SettingKinds
     THEN \E is \in Deployed(source.kind) : Write(source.at, Bearer("others", is))
     ELSE UNCHANGED entity
  /\ UNCHANGED <<cr, cache, mem, pc, faults, edits, seen>>

\* The CR comes to refer to another instance.
SourceReplaced ==
  /\ source.ready /\ source.at + 1 \in Sources
  /\ Fault("replace")
  /\ source' = [source EXCEPT !.ready = FALSE, !.at = @ + 1]
  /\ UNCHANGED <<cr, cache, mem, pc, edits, entity, seen>>

\* An instance is deleted with all that is in it; another one takes its place.
SourceDeleted(i) ==
  /\ i \in source.up /\ (i = source.at => i + 1 \in Sources)
  /\ Fault("replace")
  /\ source' = IF i # source.at THEN [source EXCEPT !.up = @ \ {i}]
               ELSE [source EXCEPT !.up = @ \ {i}, !.ready = FALSE, !.at = i + 1]
  /\ entity' = [n \in Names |-> IF Live(n) /\ In(n, i) THEN Deleted ELSE entity[n]]
  /\ UNCHANGED <<cr, cache, mem, pc, edits, seen>>

\* Somebody else edits or deletes a thing; deployments stay.
Drifts(n) ==
  /\ Live(n)
  /\ Fault("drift")
  /\ \/ source.kind \notin SettingKinds /\ Write(n, Deleted)
     \/ \E is \in Edited(entity[n].is) : Write(n, [entity[n] EXCEPT !.is = is])
  /\ UNCHANGED <<cr, cache, mem, pc, edits, source, seen>>

\* Somebody else takes a name that a spec asks for.
NameTaken(s) ==
  /\ source.ready /\ s.kind = source.kind /\ s.kind \in NamedKinds
  /\ Fault("taken")
  /\ \E c \in Creations(Resolved(s, source.at), entity) :
       Write(c.name, Bearer("others", c.is))
  /\ UNCHANGED <<cr, cache, mem, pc, edits, source, seen>>

\* The CR keeps its kind, and an apply leaves alone the value of a reference.
UserEdits ==
  \/ UserDeletes
  \/ \E s \in UserSpecs :
       /\ s.kind = source.kind
       /\ UserApplies(IF cr.present /\ s.source = Unset
                      THEN [s EXCEPT !.source = cr.spec.source] ELSE s)

-----------------------------------------------------------------------------
ExternalStep(w) ==
  \/ Resolve(w) \/ Unresolved(w) \/ ObserveGet(w) \/ ObserveCompare(w)
  \/ Create(w) \/ CreateRefused(w)
  \/ UpdateGet(w) \/ Update(w) \/ Delete(w)

ExternalFault(w) ==
  \/ ResolveFails(w) \/ ConnectFails(w) \/ ObserveFails(w) \/ CreateFails(w)
  \/ UpdateFails(w) \/ DeleteFails(w)

WorkerStep(w) ==
  \/ ReconcilerStep(w) /\ Forget /\ UNCHANGED <<source, entity>>
  \/ ExternalStep(w)

Next ==
  \/ \E w \in Workers :
       \/ WorkerStep(w) \/ ExternalFault(w)
       \/ (SyncCache(w) \/ ReconcilerFault(w)) /\ Forget /\ UNCHANGED <<source, entity>>
  \/ UserEdits /\ Forget /\ UNCHANGED <<source, entity>>
  \/ SourceReady \/ SourceReplaced
  \/ \E i \in Sources : SourceDeleted(i)
  \/ \E n \in Names : Drifts(n)
  \/ \E s \in UserSpecs : NameTaken(s)

Spec == Init /\ [][Next]_vars

\* A running worker goes on (a pass that ends is requeued or polled), the
\* informer catches up, and the instance is provided in the end.
Fairness ==
  /\ \A w \in Workers :
       /\ WF_vars(WorkerStep(w))
       /\ WF_vars(SyncCache(w) /\ Forget /\ UNCHANGED <<source, entity>>)
  /\ WF_vars(SourceReady)

FairSpec == Spec /\ Fairness

-----------------------------------------------------------------------------
(***************************************************************************)
(* Properties                                                              *)
(***************************************************************************)
\* Every variable has its type, and a pass that is past its GET has seen a
\* thing of the CR's kind and knows its name.
TypeOK ==
  /\ cr \in Objects(SpecType)
  /\ cache \in [Workers -> Copies(SpecType)]
  /\ mem \in [Workers -> Copies(SpecType)]
  /\ pc \in [Workers -> ReconcilerPhases \cup {"compare", "patch"}]
  /\ faults \in Nat
  /\ edits \in Nat
  /\ source \in [kind : {s.kind : s \in UserSpecs}, at : Sources, ready : BOOLEAN,
                 up : SUBSET Sources]
  /\ entity \in [Names -> Entities]
  /\ seen \in [Workers -> Content \cup {NotSeen}]
  /\ \A w \in Workers : pc[w] \in {"compare", "current", "outdated", "patch"} =>
       ExtName(w) \in Names /\ seen[w].kind = Asked(w).kind

Own(n) == Live(n) /\ entity[n].by = "cr"

\* Nothing the controllers made is orphaned, be it a key with access, a topic or
\* addresses let through: while it is there its CR exists with the finalizer and
\* either names it or is blocked by the pending annotation.
Accounted ==
  \A n \in Names : Own(n) =>
    /\ cr.present /\ cr.finalizer
    /\ cr.extName = n \/ cr.creation = "pending"

\* What a CR made in an instance is looked for in that instance, although the
\* reference may have come to mean another one since: the spec of the CR that
\* names it gives the instance it is in.
InItsSource ==
  \A n \in Names :
    Own(n) /\ cr.extName = n /\ source.kind \notin SettingKinds =>
      entity[n].is.source = cr.spec.source

\* What others have under a name that no copy of the CR gives, be it the API server's,
\* a cache's or one that a pass works from.
Strange(n) ==
  /\ Live(n) /\ entity[n].by = "others"
  /\ n \notin {cr.extName} \cup {mem[w].obj.extName : w \in Workers}
                           \cup {cache[w].obj.extName : w \in Workers}

\* What others made under the name that a spec asks for does not become the CR's: no
\* creation, record, copy or restart makes a CR know it for its own or puts another in
\* its place, and no update or deletion changes it.  A name that the CR has had already
\* is not protected: what others make under it once the CR's own is gone is found,
\* updated and deleted like the CR's.
NeverAdopted ==
  [][source.kind \notin SettingKinds =>
       \A n \in Names : Strange(n) =>
         /\ Strange(n)' \/ entity'[n] = Deleted
         /\ (\E w \in Workers : Update(w) \/ Delete(w)) => entity'[n] = entity[n]]_vars

\* What a CR made is taken down only if the CR that names it is being deleted now.
DeletedOnRequest ==
  [][\A n \in Names :
       (\E w \in Workers : Delete(w)) /\ Own(n) /\ entity'[n] # entity[n]
         => cr.deleting /\ cr.extName = n]_vars

Alive == {n \in Names : Own(n)}

\* A name that the spec gives is given again when the CR is applied again.  A replica
\* that still works from a copy of the CR before, which was being deleted, takes what
\* was made under it anew for what it has to delete.
NamesReused == \E s \in UserSpecs : s.kind \in NamedKinds

Resource ==
  INSTANCE ExternalResource WITH
    claim <- Claim, alive <- Alive,
    CanVanish <- FaultKinds \cap {"drift", "replace"} # {} \/ NamesReused

\* The controllers of keys, topics and buckets keep the promise of ExternalResource
\* as well, though for those whose names the user chooses it allows for one more way
\* to be taken down.
KeepsPromise == Resource!Spec

-----------------------------------------------------------------------------
(***************************************************************************)
(* The inductive invariant behind the safety properties                    *)
(***************************************************************************)
\* The CR keeps its kind, and so does what is known to the cloud; a bucket is known
\* by its own name.
KindRight(o) == o.present => o.spec.kind = source.kind

BearerRight(n) ==
  /\ entity[n].is.kind = source.kind
  /\ source.kind = "Bucket" => entity[n].is.name = n

\* A pass that goes on to create or update has its reference resolved, and one that
\* has compared a scaling group has filled in its numbers.
PassRight(w) ==
  /\ pc[w] \in {"absent", "compare", "current", "outdated", "patch", "create"} =>
       mem[w].obj.deleting \/ Asked(w).source # Unset
  /\ pc[w] \in {"current", "outdated", "patch"} /\ Asked(w).kind = "ScalingGroup" =>
       Unset \notin {Asked(w).members, Asked(w).memberMemory}

\* What holds of all seven kinds.
BaseInv ==
  /\ TypeOK /\ LoopInv({}) /\ CopiesInv({}, Names)
  /\ KindRight(cr)
  /\ \A n \in Names : Live(n) => BearerRight(n)
  /\ \A w \in Workers : KindRight(mem[w].obj) /\ KindRight(cache[w].obj) /\ PassRight(w)

\* Something is made for each CR; settings of deployments are not.
MadeKinds == \A s \in UserSpecs : s.kind \notin SettingKinds

\* Specs that are applied for one CR are of one instance, whether it is given or
\* referred to, and those of a bucket are of one name.
SamePlace(spec, other) ==
  /\ spec.source = other.source
  /\ spec.kind = "Bucket" => spec.name = other.name

PlaceKept == \A s, t \in UserSpecs : s.kind = t.kind => SamePlace(s, t)

\* What is alive is where its CR says, so that Observe finds it.
PlacesRight ==
  /\ \A n \in Alive : SamePlace(cr.spec, entity[n].is)
  /\ \A w \in Workers : Creating(w) => SamePlace(mem[w].obj.spec, cr.spec)
  /\ cr.present =>
       \A s \in UserSpecs : s.kind = cr.spec.kind =>
         /\ s.source \in {Unset, cr.spec.source}
         /\ s.kind = "Bucket" => s.name = cr.spec.name

Given == {n \in Names : entity[n] # Unknown}

\* The inductive invariant behind Accounted, InItsSource and KeepsPromise, for MadeKinds
\* and PlaceKept specs.  Only the names of keys are never given again.
IInv ==
  /\ BaseInv /\ LoopInv(Alive) /\ PlacesRight
  /\ source.kind = "ResourceKey" => CopiesInv(Alive, Given)

-----------------------------------------------------------------------------
Fills(old, new, f) ==
  \/ old[f] \in {Unset, new[f]}
  \/ /\ f \in {"configs", "scalers"}
     /\ \A c \in DOMAIN old[f] : old[f][c] \in {Unset, new[f][c]}

\* Late initialisation and the resolution of the reference fill fields the user
\* left out and change no other.
UserFieldsKept ==
  [][cr.present /\ cr'.present /\ edits' = edits =>
       \A f \in DOMAIN cr.spec : Fills(cr.spec, cr'.spec, f)]_vars

\* One update is enough: unless somebody changed the thing since the pass read it,
\* it is what the spec asks for once the update is through.
UpdateSuffices ==
  [][\A w \in Workers :
       Update(w) /\ Live(ExtName(w)) /\ entity[ExtName(w)].is = seen[w]
         => IsCurrent(Asked(w), entity'[ExtName(w)].is)]_vars

\* A CR being deleted is released.
DeletionFinishes == cr.deleting ~> ~cr.present

\* What settled means: the CR is gone, or what it names is what its spec asks for.
Settled ==
  \/ ~cr.present
  \/ /\ ~cr.deleting
     /\ Live(cr.extName)
     /\ IsCurrent(cr.spec, entity[cr.extName].is)

\* Once users and faults leave the system alone it settles for good.
Settles == <>[]Settled
=============================================================================
