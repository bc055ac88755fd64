# Verification of provider-ibm-cloud

TLA+ models of the Crossplane provider for IBM Cloud, the TLC runs that check
them on small instances, and TLAPS proofs of the most important properties for
every instance.  Paths are relative to the repository's root; line numbers are
those of the modelled commit.

## 1. The system

The provider is one process, or several (leader election is off unless
`--leader-election` is given, `cmd/provider/main.go:51`), that runs a controller
for each kind of managed resource.  A controller gives crossplane-runtime's
managed reconciler a Connect and four operations, Observe, Create, Update and
Delete; the reconciler calls them in passes over a custom resource (CR).

| part | state it keeps | operations | interacts with |
|---|---|---|---|
| managed reconciler (library, v0.16.1) | the CR in the API server: finalizer, create annotations, external name, spec, status; informer caches | a pass: read, observe, one of create / update / delete, write | every controller |
| ResourceInstance | the instance's ID as external name, status | Observe, Create, Update, Delete | resource controller, tagging, catalog, resource groups |
| ResourceKey | the key's ID as external name, connection secret | the same four | ResourceInstance's GUID by reference |
| GroupMembership | the access group's ID as external name | the same four | AccessGroup by reference; IAM's members |
| AccessGroup, AccessGroupRule, Policy, CustomRole | ID as external name, ETag annotation | the same four, updates with If-Match | IAM services |
| Topic | the topic's name | the same four | URL and key from a ResourceKey's secret |
| CloudantDatabase | the database's name | the same four, Update does nothing | URL and key from a ResourceKey's secret |
| ScalingGroup, AutoscalingGroup, Whitelist | the deployment's ID | Observe and Update of a part of a deployment; Create only sets the name | cloud databases service |
| Bucket | the bucket's name | Observe, Create, Delete | object storage |
| access-token controller | the provider config's secret | exchanges the API key for a token every 30 minutes | the Connect of every controller |
| reference resolvers | resolved IDs and URLs in specs | run before each pass, keep what is set already | other CRs' status and secrets |
| client helpers (`pkg/clients`) | none | classify errors by their text, difference of tags, ETag annotation, authentication | every controller |

How the parts interact.  Controllers share no memory.  They meet in the API
server: a write from a stale copy of a CR is refused (409), a reference copies a
value of one CR into another one's spec, a secret carries credentials from a
ResourceKey to Topic and CloudantDatabase and from the token controller to every
Connect.  And they meet in the cloud: members, rules and policies are about
groups that other CRs own, a key dies with its instance, and the name that a topic's or a
bucket's spec asks for may be somebody else's.

What is hard about it:

- **interleaving and staleness**: passes work on informer copies of any age, two
  replicas may run passes over the same CR, users edit the spec meanwhile, and
  late initialisation writes a whole spec back;
- **crashes** between the call to the cloud and the record of what it returned;
- **replies**: a lost reply to a creation; errors that are told apart by
  substrings of their text (`pkg/clients/ibmcloud.go:545-575`); a service that
  accepts some members and refuses others with status 207;
- **partial failure**: an update is up to four calls (instance, tags listed,
  attached, detached) or two (members added, removed), each of which may fail;
- **convergence**: what is compared, what is sent and what late initialisation
  fills in are written separately for each kind, and when they disagree a CR is
  never up to date;
- **deletion**: absence is the only end of a deletion, and "absent" is defined by
  each Observe in its own way (a state, an empty list, a 404, a deletion
  timestamp).

What makes each part correct: no external resource is orphaned or doubled
(reconciler with each kind), none is taken down unasked, an update overwrites
nothing unseen (ETag kinds), user-set fields survive late initialisation, an
edit or a drift settles, a deletion ends; for tokens: a pass never runs for good
on an expired token; for references: a dependent follows its source.

## 2. Plan

Written, in this order; each kind of managed resource runs on the same loop.

1. `ManagedReconciler`: the loop, alone, as a module to extend.
2. `ResourceInstance` on it, the most complete controller, with proofs
   (`ResourceInstance_proofs`).
3. `GroupMembership`: a set-valued resource with partial replies.
4. `IamEntity` over `IamKinds` over the clients `AccessGroup`, `AccessGroupRule`,
   `CustomRole`, `Policy`: updates guarded by ETags.
5. `ServiceResource` over `ServiceKinds` over `ResourceKey`, `Topic`,
   `CloudantDatabase`, `Bucket`, `ScalingGroup`, `AutoscalingGroup`, `Whitelist`: the
   kinds without ETags, in or beside a service instance.
6. References, in the modules of the kinds that have them: what they resolve to may
   be missing, become ready, be deleted or be replaced.
7. `TokenController`, with what the passes read of its result, and its proofs
   (`TokenController_proofs`).
8. `ExternalResource`, the contract of a managed resource, which three of the modules
   above are shown to implement, by TLC and by proof.
9. `ManagedReconciler_proofs`: what the loop does for every kind, as lemmas to cite;
   on it `IamEntity_proofs`, `ServiceResource_proofs`, `GroupMembership_proofs` and
   `ResourceInstance_faults`.

Left: the composition of AccessGroup and GroupMembership, of which one cannot be deleted
while the other has members; the pure conversions of `pkg/clients` (CRN to ID, templates)
against reference definitions; a proof that an update suffices
(`UpdateSuffices`) for the kinds other than the settings of a deployment.

## 3. The modules

Actions that several controllers write in the same words are mapped to one of them;
the operators of each kind are mapped to that kind's client.

### ManagedReconciler

The library is not part of the repository; it is modelled from how the
controllers configure it (`SetupXxx`) and marked external.  One CR `cr` lives in
the API server.  Each of `Workers` is a replica with an informer copy
`cache[w]`, the CR `mem[w]` of the pass it runs, and a program counter:

    idle -Fetch-> observe -(kind)-> absent | current | outdated
                    absent:   AddFinalizer, MarkPending -> create -(kind)->
                              created | createFailed -Record-> finish
                    current:  AddFinalizer, Finish
                    outdated: AddFinalizer, (kind's update) -> finish
                    deleting: (kind's deletion) -> finish, or absent: RemoveFinalizer
    finish -Finish-> idle

Every call to the API server or the cloud is one step, and `Crash` may come
between any two.  Resource versions are not counted: a copy carries a flag
`fresh` which any later write of the CR clears; a write from a copy that is not
fresh is the 409 Conflict, which ends the pass with an error.  The create
annotations are one field (`none`, `pending`, `succeeded`, `failed`); a pass that
finds `pending` is refused (`errCreateIncomplete`), which is what keeps a crash
from creating twice, and what keeps such a CR blocked until a user intervenes.

### ExternalResource

What the loop and a controller's Observe, Create and Delete promise together, over
two variables: `claim` (the CR is not there, there, or being deleted) and `alive` (what
was made for it and lives).  Something is made only for a CR that is there and when
nothing lives; only a CR being deleted has anything taken down; a CR goes only when
nothing is left.  `KeepsPromise` is this specification under a refinement mapping, in
ResourceInstance, IamEntity and ServiceResource.  `CanVanish` says that somebody else may
take down what was made: where drift is among the faults, or an instance may go with all that is
in it, the contract allows any of it to disappear at any time, and its clause on taking down says
nothing.  So it is in `ri_replicas` and `iam_replicas` (drift) and in `svc_replicas`
(instances replaced; and names of the user's choice, `NamesReused`, section 6): there
`KeepsPromise` is about creation and release, and that nothing is taken down unasked is
`DeletedOnRequest`.

### ResourceInstance (`pkg/controller/resourcecontrollerv2/resourceinstance.go`)

`inst[n]` is the cloud's instance with ID n: its state and content.  Actions
follow the handlers: `ObserveGet` (GET and the switch on the state),
`ObserveLateInit` (tags, late initialisation, the write of the spec),
`ObserveCompare`, `Create`, `UpdateInstance`, `UpdateListTags`, `UpdateAttach`,
`UpdateDetach` (the update is four calls), `Delete`.  `XxxFails` are the error
returns, `CreateLost` a reply that is lost, `ObserveMisread` an error whose text
`IsResourceNotFound` matches.  The cloud provisions (`Provisioned`), removes after
the reclamation period (`Reclaimed`), may change or lose an instance (`Drifts`) and
may restore a deleted one (`Restored`).  A spec has five parts by how the code
treats them (compared and sent, compared only, optional, kept by another service).

`ResourceInstance_leaks` adds a history variable, `costs`, that counts the steps the
controller cannot make up for (`CreateLost`, `ObserveMisread` of an instance that is there,
`Restored`) and no other fault.

### GroupMembership (`pkg/controller/iamaccessgroupsv2/groupmembership.go`)

`members[g]` is the set of members of access group g, or that the group is gone.
`Resolve` fills in the group a reference means, `Observe` lists the members; `Create`
adds; the update adds (`UpdateAdd`), then removes (`UpdateRemove`) by the difference
with the list taken in Observe; `Delete` removes the members of the spec.  `XxxPartly`
are replies in which some members are refused, which `ExtractErrorMessage` turns into an
error after the others took effect; a member of the wrong type is always refused.

### IamEntity, IamKinds and the four clients

The four controllers (`policy.go`, `customrole.go`, `accessgroup.go`,
`accessgrouprule.go`) are the same text but for types and the client they call.
`IamEntity` models that text once (its map names `policy.go`); `IamKinds` is the
choice of the client; `AccessGroup`, `AccessGroupRule`, `CustomRole` and `Policy` are
what each client sends on creation and update, fills in and compares.  A CR has
one kind for its life.  ETags are a flag: what a pass's GET returned carries
`match`, which every later change of the entity clears and without which an
update takes no effect.  A rule's group may be a reference (`Resolve`), which two
replicas may resolve to different groups.  Policy's late initialisation indexes the
policy's attributes by the spec's positions; where that runs out of the array the
process panics (`ObservePanics`) and is started again.

### ServiceResource, ServiceKinds and the seven clients

The controllers of ResourceKey, Topic, CloudantDatabase, Bucket, ScalingGroup,
AutoscalingGroup and Whitelist are one text again; its actions are `Resolve`,
`ObserveGet`, `ObserveCompare`, `Create`, `UpdateGet` (a topic is read a second time),
`Update` and `Delete`.  `ServiceKinds` says where they differ, by one operator for each
question a handler asks: what is made and under which name (`Creations`: an ID of the
cloud's, the name of the spec if it is free, or the deployment's ID), which name the GET
and the update ask for (`Observed`, `Patched`), what the GET finds (`Reaches`: an empty
whitelist counts as absent), what the update leaves (`Updated`), and the rest of
Observe (`Observe`: late initialisation, comparison, condition).

`source` is the instance the CR refers to: its number, whether its GUID, URL or
deployment ID can be resolved, and which instances are up.  It may be replaced
(`SourceReplaced`: the reference comes to mean another one) or deleted with all that is
in it (`SourceDeleted`).  `entity[n]` is what the cloud knows by the name n and who made
it: `NameTaken` is somebody else's creation under the name a spec asks for.

### TokenController (`pkg/controller/config/token.go`)

A pass reads the ProviderConfig and its secret (`Start`), exchanges the API key
(`Authenticate`) and writes the secret back as a whole (`Update`, refused if the version
read is not the latest).  Time is a `Tick` of ten minutes, in which nothing that is due
is late; `due[w]` counts down to the next pass of replica w, which is `RequeueTime` away
after a success and a back-off of at most `MaxBackoff` after an error (1000 seconds in
the work queue's default).  `woken` is an event of the ProviderConfig, which is all the
controller watches: users rotate the key in the secret unnoticed (`UserRotates`), revoke
keys and edit the ProviderConfig.  `fails[w]` is a history variable: how many passes
failed since one succeeded, 2 for more.  What the passes of all other controllers take
from here is `GetAuthInfo`.

## 4. Runs

| run | what it asks | instance | distinct states |
|---|---|---|---|
| `ri_replicas` | `IInv`, `DeletionKnown`, `AtMostOneLive`, `Accounted`, `DeletedOnRequest`, `KeepsPromise` | 2 replicas, 2 IDs, one fault of crash, lost annotation, drift; one user action | 748 968 |
| `ri_leaks` | `TypeOK`, `LeaksBounded`, `NeverDeletesWanted` | 2 replicas, 3 IDs, one fault of lost reply, misread error, restored instance, crash; two user actions | 2 070 235 |
| `ri_live` | `UserFieldsKept`, `DeletionFinishes`, `Settles` under fairness | 1 replica, 3 IDs, 2 specs, one fault of failing call, drift, lost reply, misread error, restored instance; two user actions | 479 788 |
| `gm_safety` | `IInv`, `Accounted`, `RevokedOnRequest` | 4 identities, 2 groups by reference, 3 specs, three faults, three user actions | 738 022 |
| `gm_live` | `NeverEmptied`, `DeletionFinishesAlone`, `Settles` under fairness | refused members, joins, misread errors, failing calls: two of them; two user actions | 25 592 |
| `gm_leak` | `DeletionPropagates` (violated, section 6) | one refusal | |
| `iam_replicas` | `IInv`, `Accounted`, `NoLostUpdate`, `DeletedOnRequest`, `KeepsPromise` | a policy or a rule whose group is a reference, 2 replicas, one fault of crash, drift, failing call, ignored error; one user action | 401 650 |
| `iam_live` | `Settles`, `DeletionFinishes` under fairness | each of the four kinds, with an edit of every field that can be sent; one fault; two user actions | 388 276 |
| `pol_roles` | `Settles` (violated, section 6) | no faults | |
| `svc_replicas` | `IInv`, `Accounted`, `InItsSource`, `NeverAdopted`, `KeepsPromise` | a topic or a bucket, 2 replicas, 2 instances, one fault of crash, instance replaced or deleted, name taken; two user actions | 1 525 035 |
| `svc_live` | `Settles`, `DeletionFinishes`, `DeletedOnRequest`, `UserFieldsKept`, `UpdateSuffices` under fairness | each of the seven kinds, with an edit of what an update can send; one failing call or drift; two user actions | 147 210 |
| `token` | `IInv`, `TokenValid`, `KeyInUse`, `KeyKept`, `Recovers` under fairness | 2 replicas, 2 keys, ticks of 10 minutes: renewal 3, back-off 0 to 2, lifetime 6; one fault, one user action | 240 520 |

All but `token` state `CHECK_DEADLOCK FALSE`: when the CR is gone and edits and faults
are used up the system really stops.  In `token` time goes on for ever.

What the less obvious properties say.  `Accounted`: while something the controllers made
exists in the cloud, its CR exists with the finalizer and names it or is blocked by the
pending annotation.  `NoLostUpdate`: an update overwrites only what its pass has seen, whoever
changed it since.  `NeverEmptied`: replacing members keeps the group non-empty in
between; were it emptied, Observe would report it missing.  `RevokedOnRequest`: whatever takes
an ID out of a group, an update's removal or a deletion, done or refused in part, is about the
group of the CR that is there, which is being deleted or whose spec, as the pass read it,
leaves the ID out.  `LeaksBounded`: lost replies, misread errors and restored
instances do leave an instance too many (no annotation can prevent it), but each of them one at
most, and crashes none.  `NeverDeletesWanted`: even then, no instance of a CR that nobody
deletes is taken down, not by a replica whose copy is of the CR deleted before and applied
again.  `UserFieldsKept` needs a run with two specs and two edits: a user changes the spec
between a pass's GET and its write-back, which must be refused.
`IInv` (in five runs): the invariant of the proofs, section 5.
`InItsSource`: what was made in one instance is looked for in that one, although the
reference may have come to mean another.  `NeverAdopted`: what others made under a name that no copy of the CR has (`Strange`) is not
updated, taken down or replaced by any pass, and no copy comes to have its name, although the
name may have been free when the pass looked and somebody else's when it created; for a
name that the CR has had already see section 6.  `UpdateSuffices`:
after one update that nobody interferes with, Observe finds nothing to do; a scaling
group's memory per member, which is sent as a total, is where this is easily wrong.
`TokenValid`: a pass is never handed an expired token unless two renewals in a row
failed in every replica, nobody asked for renewals, or the informer lags.  `KeyInUse`: a
rotated key is in use after one renewal interval and a back-off, though nothing
announces it.  `KeyKept`: the whole-secret write never restores an older key.

**Bounds.**  `MaxFaults`, `MaxEdits` bound faults and user actions; they are the
only counters, and everything else is finite: the ages of tokens and keys stop at the
last value that is told apart.  `Names` has an ID for each creation that the faults and
edits of the run can cause (first creation, one per fault that loses or leaks an
entity, one per re-creation by the user), so that liveness never fails or holds because
IDs ran out.  Two replicas are enough for the conflicts: a conflict is
between one writer and one stale copy.  For ResourceInstance, the IAM kinds, the service kinds and
the token controller the main properties are moreover proved for every number of
replicas, IDs, faults and edits; for GroupMembership, for one replica and any number of
groups, identities, faults and edits.  Symmetry (IDs, replicas, access groups) is used in safety runs only.

**Faults in the live runs.**  A crash between the pending annotation and its record
blocks the CR until a user removes the annotation; that is the library's design
(`Refuse`).  The live runs of the loop therefore have no crash; crashes are in the
safety runs, and in `token`, where nothing of the kind exists.

**Fairness.**  Weak fairness of each replica's own steps (`WorkerStep`, `Renewal`) and of
the informer (`SyncCache`): a pass that ends is requeued, after an error with back-off
and otherwise after the poll interval; a watch catches up.  The service kinds'
liveness also needs the instance to become ready (`SourceReady`), ResourceInstance's
needs the cloud to finish provisioning and reclamation (`CloudStep`), and the token
controller's needs time to go on (`Tick`).  Faults, drift and users have no fairness.

Every property is shown to depend on the code by a change to a mapped definition
that violates it, such as `CreateUnnamed` (the external name is not set),
`UpdateUnconditional` (the ETag is not sent), `ResolveAlways` (a reference is resolved in
every pass), `CreateAdopts` (that the name is taken counts as success).  These
definitions are marked "Mutated" beside the originals.

## 5. Proofs

`ResourceInstance_proofs`:

- `TypeCorrect`: `Spec => []TypeOK`, without assumptions beyond the constants'.
- `InvCorrect`: `Spec => []IInv` if `FaultKinds` has none of `lost`, `misread` and `restore`.
- `OneInstance`, `NoOrphans`: `[]AtMostOneLive`, `[]Accounted` under the same assumption.

The assumption is needed: each of the three faults does leak an instance
(`ri_leaks`).  Everything else (crashes anywhere, failed calls, lost annotation updates,
drift, any number of replicas and user actions) is covered.

The argument.  `AtMostOneLive` is not inductive: a replica could be about to create
while an instance is alive that its copy of the CR does not name.  `IInv` adds why it
cannot be.  (a) `FreshIsCurrent`: a copy that could still be written equals what the
API server has, so the pending annotation is only ever put on the latest version.
(b) `CreatorKnows`: at most one replica is between the annotation and its record; when
it decided to create, nothing was alive; and any pass that started after the
annotation is refused.  (c) `NamesAreKnown`: no stale copy names an ID that is assigned
later.  (d) A pending CR exists with its finalizer.  Each action has a lemma
(`FetchInv`, `MarkPendingInv`, `RecordInv`, `CreateInv`, ...), most of them by `QuietStep`: an
action that changes neither the CR's identity nor what is alive keeps `IInv`.

`ResourceInstance_refinement`, under the same assumption:

- `DeletionsKnown`: `Spec => []DeletionKnown`: a copy, however old, that is marked for
  deletion and names a living instance is right about both.
- `Refinement`: `Spec => KeepsPromise`, that is, every step implements a step of
  `ExternalResource` or none.  The mapping is `claim` from the CR's presence and deletion
  timestamp, `alive` from the instances in an active, provisioning or inactive state.
  The two steps that need an invariant are `RemoveFinalizer`, which must find nothing
  alive (`IInv`), and `Delete`, which must find the CR still being deleted although its
  copy may be stale (`DeletionKnown`).  Each action has a lemma (`CreateRefines`,
  `DeleteRefines`, ...), most of them by `Stutter`.

`ResourceInstance_faults`, without any assumption about faults, where `LoopInv` and
`CopiesInv` (next paragraph) hold of no entity at all (`BaseInv`):

- `KeepsUserFields`: `Spec => UserFieldsKept`.  Late initialisation writes back the spec of
  the pass's copy, which is current or the write is refused, and fills what was unset.
- `BoundsLeaks`: `LeakSpec => []LeaksBounded`, where `LeakSpec` is `Spec` with the history
  variable `costs`, by the counting invariant `LeakInv`: at most
  `costs + 1` instances are alive, and at most `costs` while the CR names none of
  them and no creation is pending, because a pass that goes on to create has found what
  its CR names gone (`PassLeaks`).  So a leak does not make the controller leak again.
- `KeepsWanted`: `Spec => NeverDeletesWanted`, by `MarksInv`: a copy of any age that is marked
  for deletion and names what the CR names is right about the mark, and a name that was
  just given is known to its pass alone.

and, for `Trustworthy` replies (the assumption above) and `LoopInv`, `CopiesInv` for what is
alive:

- `DeletesOnRequest`: `Spec => DeletedOnRequest`.

`ManagedReconciler_proofs` has the lemmas about the loop that the other kinds' proofs
cite, for a set L of entities alive and a set G of names ever given, whatever the kind
takes them to be.  `LoopInv(L)` is what the loop knows: copies that can be written
back are current (`FreshIsCurrent`), one replica creates at a time, under the pending
annotation, with nothing alive and nothing but its own entity after it (`PassKnows`),
and what is alive is accounted for and one (`AccountedFor`, `AtMostOne`).
`CopiesInv(L, G)` is about copies of any age: none names what was not given yet, and
one that names what is alive agrees with the CR on its name and deletion.  The loop's own
steps keep both (`LoopKeepsInv`, `LoopKeepsCopies`); so do the four forms that a kind's
steps can have: `LoopTouch` (a handler that moves the pass on), `LoopSpecWritten`
(Observe writes a spec), `LoopCreate` (Create takes a name that was never given) and
`LoopUser` (any edit).

`IamEntity_proofs`, for the four IAM kinds at once, first without any assumption on
faults or specs:

- `BaseCorrect`: `Spec => []BaseInv`: types, `LoopInv` and `CopiesInv` for no entities alive,
  kinds that agree (`KindsRight`) and ETags that match what was seen (`SeenRight`).
- `TypeCorrect`, `LosesNoUpdate`: `Spec => []TypeOK`, `Spec => NoLostUpdate`.

and then for `Trustworthy` replies (no `lost`, no `misread`) and `GroupKept` specs (the rules
applied for one CR are of one access group):

- `InvCorrect`: `Spec => []IInv`, that is `BaseInv` with `LoopInv` and `CopiesInv` for what is
  alive, and `GroupsRight`: a rule that is alive is in the group its CR names, so that
  Observe finds it.
- `NoOrphans`, `DeletesOnRequest`: `Spec => []Accounted`, `Spec => DeletedOnRequest`.
- `Refinement`: `Spec => KeepsPromise`.

Both assumptions are needed: a lost reply leaks the entity, a misread error orphans it,
and a rule moved to another group is looked for where it is not (section 6).  The group
is marked `+immutable` in `accessgrouprule_types.go:32`.  A group that is referred to is
covered: two replicas may resolve it differently, and only one of the values is kept,
because a creation needs the reference resolved on the version that is written with
the pending annotation (`SpecI`).  The proofs go by form of step: `HandlerForms` shows that
each of the fourteen handler steps is a `TouchStep` (with what it does to the cloud,
`CloudStep`), a `SpecStep`, a `NameStep` or a `PanicStep`, and each form has a lemma for
`BaseInv` (`TouchBase`, ...), one for `IInv` (`TouchI`, ...) and one for the refinement
(`TouchRefines`, ...).  What the clients compute is typed by `CreatedTypes`, `UpdatedTypes`,
`ObservedTypes`, `EditedTypes` and `ResolvedTypes`.

`ServiceResource_proofs`, for the seven service kinds at once, first without any assumption:

- `BaseCorrect`: `Spec => []BaseInv`: types, `LoopInv` and `CopiesInv` for no entities alive,
  kinds that agree (`KindRight`, `BearerRight`), and passes that go on only with their
  reference resolved (`PassRight`).
- `TypeCorrect`: `Spec => []TypeOK`.

then for `NameKept` specs (those of topics or buckets that are applied for one CR give one name):

- `NeverAdopts`: `Spec => NeverAdopted`.  That no copy comes to have the name is `CopiesStep` for
  all names but that one, since a creation only takes a name that nobody has.  That no update or
  deletion is of it is `NamedTarget`: they ask for the name of the copy's annotation, or for the
  one of its spec, and these are the same (`NamesInv`).

and for `MadeKinds` (keys, topics, databases and buckets; the settings of a deployment are
not made) and `PlaceKept` specs (those applied for one CR are of one instance, given or
referred to, and a bucket's are of one name):

- `InvCorrect`: `Spec => []IInv`, that is `BaseInv` with `LoopInv` for what is alive,
  `PlacesRight`, and for keys `CopiesInv`.
- `NoOrphans`, `StaysInSource`: `Spec => []Accounted`, `Spec => []InItsSource`.
- `DeletesOnRequest`: `Spec => DeletedOnRequest`, for keys.
- `Refinement`: `Spec => KeepsPromise`.

`PlaceKept` is needed: a bucket whose name is edited is another one, and something made in
one instance is not found after an edit that names another (section 6).  No assumption is
made about faults: crashes, drift, failing calls, names taken by others and instances
replaced or deleted at any time are covered; lost replies and misread errors are not
among the faults of these kinds (section 6).  `PlacesRight` says why Observe finds what
is alive: it is in the instance its CR names (a bucket: under the name its CR gives), and so
is what is about to be made, because a reference is only resolved while nothing is alive and
nobody is creating, and a creation needs it resolved on the version that is written with
the pending annotation.  From it follows `AbsentRight`: a pass that works from a current
copy and finds nothing is right, so that another one may be made or the CR released.  The
proofs go by form of step as for the IAM kinds (`HandlerForms`: a `TouchStep` with its
`CloudStep`, a `SpecStep` or a `NameStep`), and `WorldEffects` does the same for the steps of
the instance and of others who take names.  Names of topics, databases and buckets are given
again, so a copy of a CR that is gone may name what was made for the one after it: for these
kinds `CopiesInv` is false, `DeletedOnRequest` is false with two replicas (section 6) and
`Refinement` goes by `Vanishes`; `CopyOfKey` is why keys are safe.

- `DeletesOnRequestAlone`: `Spec => DeletedOnRequest`, for topics, databases and buckets, too,
  with one replica (`OneReplica`).  `AloneInv` adds to `IInv` that, while something is
  alive or about to be made, a copy with a deletion mark is `Marked`: the CR that is there now is
  being deleted, and the copy is not older than the creation that may be pending.  The
  informer's copy is never the older of the two, so that a creation, which is decided
  on a current copy without a mark, finds none in the informer's either.

- `KeepsUserFields`: `Spec => UserFieldsKept`, for all seven kinds, any replicas and faults,
  and specs of topics (`PlainTopics`) that give one number of partitions, if any, and
  only properties the code knows.  Where `partitions` and `partitionCount` differ, the
  first is overwritten by the second, and an unknown property is forgotten (section 6).
- `UpdatesSuffice`: `Spec => UpdateSuffices`, for the settings of deployments (scaling,
  autoscaling, whitelist), any replicas, numbers and faults.  `CompleteInv` says that a pass
  past the comparison works from a spec that leaves nothing out, because late
  initialisation has filled it from what was observed (`ObserveCompletes`); then, per kind, what
  the update sends is what the next observation compares.  For the scaling of members
  this needs that the total that is sent, divided by the members observed, gives each of
  them what the spec asks for (`TotalDivided`).

`GroupMembership_proofs`, first without any assumption:

- `BaseCorrect`, `TypeCorrect`: `Spec => []BaseInv`, `Spec => []TypeOK`.

then for one replica (`OneReplica`), no additions that are refused in part (`Trustworthy`:
no `partialCreate`, no `misread`; `RefusedWhole`: a spec's members are all rightly typed or
all wrongly) and specs of one group (`GroupKept`):

- `InvCorrect`: `Spec => []IInv`, that is `BaseInv` with `Known(Held)`.
- `NoOrphans`: `Spec => []Accounted`.
- `RevokesOnRequest`: `Spec => RevokedOnRequest`, for removals by updates as for deletions and for
  what either removes before it fails.  `TakenOut` says which members such a step can remove; an
  update on an older copy goes by the spec of that copy, which is why the
  property speaks of the spec of now only if the copy is current.

and for one replica and one group, whatever is refused or misread, if nobody else leaves
the group (`NobodyLeaves`) and no spec is without members (`SpecsNotEmpty`):

- `NeverEmpties`: `Spec => NeverEmptied`.

The assumptions keep out what does happen without them: a second replica's late update brings members
back (section 6), a creation refused in part leaves some behind (`gm_leak`), a misread
error takes a group that is there for gone, a spec moved to another group leaves the
members of the first; and when the members a spec keeps leave by themselves during the
update, or it keeps none, removing the others empties the group.  A membership has no
ID of its own: it is known by its group, and the group has the same name when the CR is
deleted and applied again.  So `CopiesInv` is of no use, and the argument is about the age of
the one replica's copies instead.  `Known(held)`: a copy that lets a pass grant or revoke access
(it has the finalizer and is not being deleted, `Managed`) is a copy of the CR that is
there now, with the group that this one names (`StillThere`, `NameKept`); the informer's copy is
never the older of the two (the last conjuncts of `CopiesKnow`).  With `held` the
groups that have members of the CR's this gives `Accounted`; with none, what `NeverEmpties`
needs about the copy an update goes by, and `StillMembers` adds that what the update saw
and added is still there.

`TokenController_proofs`, without any assumption about faults:

- `InvCorrect`, `TypeCorrect`: `[]IInv`, `[]TypeOK`.
- `TokensValid`, `KeysInUse`: `[]TokenValid`, `[]KeyInUse`.
- `KeysKept`: `Spec => KeyKept`.

Constants need `MaxBackoff <= RequeueTime` and `RequeueTime + MaxBackoff < Lifetime`, which
30, 17 and 60 minutes are.  The argument: a replica that has not failed twice in a row
has a pass to come no later than the token's age and the key's (`OnTime`: the age plus
the ticks until that pass is at most the interval, and the back-off if it has failed
once); a pass that may still write has read the key that is there (`CopiesRight`).  A
`Tick` keeps the sum, an `Update` of any replica makes it smaller for all.

Only model-checked: all liveness (`Settles`, `DeletionFinishes`, `DeletionFinishesAlone`,
`Recovers`), which is beyond the prover; `UpdateSuffices` of the kinds other than the settings of
deployments, which is false of specs that change what is compared but never sent
(section 6); and `DeletedOnRequest` of those settings, which are neither made nor taken down.

## 6. Where the code and its documentation disagree

Each is a run that TLC must find violated.

- `gm_leak`: a creation of which some members are refused returns before the external
  name is set (`groupmembership.go:176-179`); deleting the CR then releases it and the
  members that were added keep their access.
- `pol_roles`: `&pol.RoleID` (`pkg/clients/policy/policy.go:243`) is the address of a field
  of the loop variable, one for all iterations in this module's Go version: a policy
  with two roles is sent with the last one twice, and never settles.

Known deviations, which no run asks for again, and what the models or the specs of the
runs do about them:

- An instance is Ready while it is being provisioned: `Available` is set after the switch
  that sets `Creating` (`resourceinstance.go:154`); `ObserveCompare` does the same.
- `GroupMembership`'s Delete removes the members the spec lists now and waits for the group to
  be empty: members replaced just before the deletion, or added by somebody else, keep
  it from ending.  `DeletionFinishesAlone` says what holds.
- With two replicas, an update that was computed before a deletion puts members or
  whitelist addresses back after the CR was released.  `gm_safety` and `svc_live` have one
  replica.
- An attribute added to a policy without an operator makes the provider panic, after
  each restart again (`policy.go:45`).  `iam_replicas` has this spec and shows that nothing
  is lost by it.
- What is compared but never sent never settles after an edit: a custom role's name,
  service and account; an instance's target, service and resource group; a key's role;
  a database's shards.  The specs of the runs keep these.
- Tags are compared as ordered lists and changed as sets: two tags in another order,
  or a repeated one, never settle.  So do repeated members of a group.  Runs have one
  tag and no repetitions.
- Topics: partitions are only ever added, so a topic with more of them than its spec
  asks for never settles; a config property the code does not know disappears from the
  spec when the topic is first observed, and `partitions` is overwritten by a
  `partitionCount` that differs.  Others edit only properties in the runs.
- A rule that is moved to another group by an edit leaves the old rule behind; a bucket
  is looked up by the name in its spec, so that an edited name takes it to another
  bucket.  Both fields are marked immutable, which nothing enforces; the runs keep them.
- A topic, database or bucket that is deleted and applied again has the name of the one
  before.  A second replica that still works from a copy of the deleted CR finds the new
  one under that name and deletes it, with its data; the next pass creates it again.
  Keys and IAM entities, known by IDs that the cloud does not give twice, are safe.
  `KeepsPromise` of ServiceResource leaves it open (`NamesReused`), `DeletedOnRequest` is
  checked and proved (`DeletesOnRequestAlone`) with one replica, where it does not happen.
- The same names are not protected from others either: when the CR's topic, database or bucket is
  deleted and somebody else makes one of that name, the CR's next pass finds it
  (`topic.go:125`), updates it and, when the CR is deleted, deletes it (`topic.go:217`).
  `svc_replicas` has these states; `NeverAdopted` is about names the CR does not have.
- A topic is observed and deleted by its external name and updated by the name in its spec
  (`GenerateUpdateTopicOptions`): after an edit of the name its updates go to the topic of the
  new name, whoever's it is.  The specs of the runs keep it (`NameKept`).
- A lost reply to the creation of a topic, database or bucket blocks the CR: its own
  entity has the name.  `svc_replicas` has crashes, not lost replies, for these kinds.

## 7. Not modelled

- The provider's entry point and the ProviderConfig usage controller
  (`pkg/controller/config/config.go`), which only sets a library component up.
- Connection secrets and their templates, status fields, timestamps and other
  conversions: they decide nothing the properties tell apart.
- Generated code (deep copies, CRDs, accessors), the larger part of the lines no
  definition stands for.
- That an access group with members or policies cannot be deleted: it belongs to the
  composition of the two kinds; here a refused deletion is a failing call, retried.
- Parameters of keys, which only the creation sends; CPU and disk of scaling groups,
  which are treated like the memory that is modelled.
- Authentication and the construction of clients in Connect are one source of failure
  (`ConnectFails`, `ObserveFails`); what the token they read may be is TokenController's.
- Induction over data and liveness are beyond the prover; both are left to TLC.
