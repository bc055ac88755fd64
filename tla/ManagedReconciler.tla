------------------------- MODULE ManagedReconciler -------------------------
(***************************************************************************)
(* The reconcile loop every managed-resource controller of the provider    *)
(* hands its Observe / Create / Update / Delete to: crossplane-runtime     *)
(* v0.16.1, managed.Reconciler (external, not in the repository), as it is *)
(* configured by the controllers' SetupXxx functions: initializer          *)
(* NewDefaultProviderConfig only, no creation grace period, default        *)
(* deletion policy.                                                        *)
(*                                                                         *)
(* One custom resource (CR) lives in the API server; each worker is a      *)
(* replica of the provider with its own informer cache (leader election is *)
(* off unless asked for).  A pass of a worker reads the CR from the cache, *)
(* observes the external resource and then takes one branch.  Every call   *)
(* to the API server or to the cloud is a step of its own.                 *)
(*                                                                         *)
(* Resource versions are not counted: a copy of the CR carries a flag      *)
(* "fresh" that every later write clears.  A write from a copy that is not *)
(* fresh is the API server's 409 Conflict.                                 *)
(*                                                                         *)
(* A kind's module EXTENDS this one, adds the cloud's state, and moves a   *)
(* worker from "observe" to "absent", "current" or "outdated", from        *)
(* "create" to "created" or "createFailed", and from an update or a        *)
(* deletion to "finish".                                                   *)
(***************************************************************************)
EXTENDS Naturals

CONSTANTS Workers,     \* replicas of the provider
          Names,       \* external names the cloud can assign
          NoName,      \* the external-name annotation is missing
          UserSpecs,   \* the specs users apply
          FaultKinds,  \* the faults that may happen
          MaxFaults,   \* bound: how many of them
          MaxEdits     \* bound: how many user actions after the first apply

ASSUME ReconcilerAssumption ==
  /\ NoName \notin Names
  /\ UserSpecs # {}
  /\ MaxFaults \in Nat
  /\ MaxEdits \in Nat

VARIABLES cr,      \* the CR as the API server stores it
          cache,   \* cache[w]: the informer's copy of the CR in replica w
          mem,     \* mem[w]: the CR in the memory of the pass w is running
          pc,      \* pc[w]: where worker w is in its pass
          faults,  \* faults so far
          edits    \* user actions so far

reconcilerVars == <<cr, cache, mem, pc, faults, edits>>

\* The create annotations, by the latest of the three: none, pending,
\* succeeded or failed.
Creation == {"none", "pending", "succeeded", "failed"}

Objects(Specs) ==
  [present : BOOLEAN, deleting : BOOLEAN, finalizer : BOOLEAN,
   creation : Creation, extName : Names \cup {NoName}, spec : Specs,
   ready : BOOLEAN]

Copies(Specs) == [obj : Objects(Specs), fresh : BOOLEAN]

NewObject(s) ==
  [present |-> TRUE, deleting |-> FALSE, finalizer |-> FALSE,
   creation |-> "none", extName |-> NoName, spec |-> s, ready |-> FALSE]

NoObject == [NewObject(CHOOSE s \in UserSpecs : TRUE) EXCEPT !.present = FALSE]

NoCopy == [obj |-> NoObject, fresh |-> FALSE]

ReconcilerPhases ==
  {"idle", "observe", "refuse", "absent", "current", "outdated", "create",
   "created", "createFailed", "finish"}

ReconcilerInit ==
  /\ cr \in {NewObject(s) : s \in UserSpecs}
  /\ cache = [w \in Workers |-> NoCopy]
  /\ mem = [w \in Workers |-> NoCopy]
  /\ pc = [w \in Workers |-> "idle"]
  /\ faults = 0
  /\ edits = 0

-----------------------------------------------------------------------------
Fault(k) == k \in FaultKinds /\ faults < MaxFaults /\ faults' = faults + 1

Go(w, p) == pc' = [pc EXCEPT ![w] = p]

Stale(copy) == [copy EXCEPT !.fresh = FALSE]

\* The API server stores o; worker w goes on with copy c.  A write that
\* changes nothing does not change the resource version.
Put(w, o, c) ==
  /\ cr' = o
  /\ IF o = cr
     THEN cache' = cache /\ mem' = [mem EXCEPT ![w] = c]
     ELSE /\ cache' = [v \in Workers |-> Stale(cache[v])]
          /\ mem' = [v \in Workers |-> IF v = w THEN c ELSE Stale(mem[v])]

\* What client.Update sends for the CR in w's memory: everything but the status.
Sent(w) == [mem[w].obj EXCEPT !.ready = cr.ready]

\* client.Update of the CR in w's memory, changed to o; 409 unless w's copy is
\* the latest version, and then the pass goes to "finish" with its error.
ClientUpdate(w, o, next) ==
  IF mem[w].fresh
  THEN Put(w, o, [obj |-> o, fresh |-> TRUE]) /\ Go(w, next)
  ELSE Go(w, "finish") /\ UNCHANGED <<cr, cache, mem>>

\* Mutated: the whole CR is written as it is in memory, whatever its version.
UpdateStatusWhole(w, ready) ==
  /\ Go(w, "idle")
  /\ Put(w, [mem[w].obj EXCEPT !.ready = ready], NoCopy)

\* The pass ends by writing its status (dropped on a 409) and is requeued.
UpdateStatus(w, ready) ==
  /\ Go(w, "idle")
  /\ IF mem[w].fresh
     THEN Put(w, [cr EXCEPT !.ready = ready], NoCopy)
     ELSE mem' = [mem EXCEPT ![w] = NoCopy] /\ UNCHANGED <<cr, cache>>

-----------------------------------------------------------------------------
SyncCache(w) ==
  /\ ~cache[w].fresh
  /\ cache' = [cache EXCEPT ![w] = [obj |-> cr, fresh |-> TRUE]]
  /\ UNCHANGED <<cr, mem, pc, faults, edits>>

\* The pass starts; a creation that was started and never recorded is refused.
Fetch(w) ==
  /\ pc[w] = "idle"
  /\ cache[w].obj.present
  /\ mem' = [mem EXCEPT ![w] = cache[w]]
  /\ Go(w, IF cache[w].obj.creation = "pending" THEN "refuse" ELSE "observe")
  /\ UNCHANGED <<cr, cache, faults, edits>>

Refuse(w) ==
  /\ pc[w] = "refuse"
  /\ UpdateStatus(w, FALSE)
  /\ UNCHANGED <<faults, edits>>

AddFinalizer(w) ==
  /\ pc[w] \in {"absent", "current", "outdated"}
  /\ ~mem[w].obj.deleting /\ ~mem[w].obj.finalizer
  /\ ClientUpdate(w, [Sent(w) EXCEPT !.finalizer = TRUE], pc[w])
  /\ UNCHANGED <<faults, edits>>

\* The external-create-pending annotation, written before Create is called.
MarkPending(w) ==
  /\ pc[w] = "absent"
  /\ ~mem[w].obj.deleting /\ mem[w].obj.finalizer
  /\ ClientUpdate(w, [Sent(w) EXCEPT !.creation = "pending"], "create")
  /\ UNCHANGED <<faults, edits>>

\* UpdateCriticalAnnotations: the CR is read again, the annotations of w's
\* copy are added to it and it is written, which succeeds on a current cache.
Record(w, result) ==
  /\ cache[w].fresh
  /\ LET o == [cr EXCEPT !.creation = result,
                         !.extName = IF mem[w].obj.extName = NoName
                                     THEN @ ELSE mem[w].obj.extName]
     IN  Put(w, o, [obj |-> o, fresh |-> TRUE])
  /\ Go(w, "finish")
  /\ UNCHANGED <<faults, edits>>

RecordCreated(w) == pc[w] = "created" /\ Record(w, "succeeded")

RecordFailed(w) == pc[w] = "createFailed" /\ Record(w, "failed")

\* All retries met a 409: the annotations are not recorded.
RecordExhausted(w) ==
  /\ pc[w] \in {"created", "createFailed"}
  /\ ~cache[w].fresh
  /\ Fault("exhausted")
  /\ Go(w, "finish")
  /\ mem' = [mem EXCEPT ![w] = Stale(mem[w])]
  /\ UNCHANGED <<cr, cache, edits>>

Finish(w) ==
  /\ \/ pc[w] = "finish"
     \/ pc[w] = "current" /\ ~mem[w].obj.deleting /\ mem[w].obj.finalizer
  /\ UpdateStatus(w, mem[w].obj.ready)
  /\ UNCHANGED <<faults, edits>>

\* The last finalizer goes and the API server forgets the CR.
RemoveFinalizer(w) ==
  /\ pc[w] = "absent"
  /\ mem[w].obj.deleting
  /\ IF mem[w].fresh
     THEN Put(w, NoObject, NoCopy) /\ Go(w, "idle")
     ELSE Go(w, "finish") /\ UNCHANGED <<cr, cache, mem>>
  /\ UNCHANGED <<faults, edits>>

\* The process stops anywhere in a pass and is started again.
Crash(w) ==
  /\ pc[w] # "idle"
  /\ Fault("crash")
  /\ Go(w, "idle")
  /\ mem' = [mem EXCEPT ![w] = NoCopy]
  /\ UNCHANGED <<cr, cache, edits>>

-----------------------------------------------------------------------------
\* What users do to the CR.
UserWrites(o) ==
  /\ edits < MaxEdits
  /\ edits' = edits + 1
  /\ cr' = o
  /\ cache' = [v \in Workers |-> Stale(cache[v])]
  /\ mem' = [v \in Workers |-> Stale(mem[v])]
  /\ UNCHANGED <<pc, faults>>

UserApplies(s) ==
  \/ ~cr.present /\ UserWrites(NewObject(s))
  \/ cr.present /\ cr.spec # s /\ UserWrites([cr EXCEPT !.spec = s])

UserDeletes ==
  /\ cr.present /\ ~cr.deleting
  /\ UserWrites(IF cr.finalizer THEN [cr EXCEPT !.deleting = TRUE] ELSE NoObject)

UserStep == UserDeletes \/ \E s \in UserSpecs : UserApplies(s)

\* The loop's own steps that need no fault.
ReconcilerStep(w) ==
  \/ Fetch(w) \/ Refuse(w) \/ AddFinalizer(w) \/ MarkPending(w)
  \/ RecordCreated(w) \/ RecordFailed(w) \/ Finish(w) \/ RemoveFinalizer(w)

ReconcilerFault(w) == RecordExhausted(w) \/ Crash(w)

-----------------------------------------------------------------------------
(***************************************************************************)
(* What the loop knows, for the proofs about the kinds.  `live' is the set *)
(* of external entities that are alive, `given' that of the names that     *)
(* were ever assigned.                                                     *)
(***************************************************************************)
\* The types of the loop's variables, for specs in S and phases in P.
LoopType(S, P) ==
  /\ cr \in Objects(S)
  /\ cache \in [Workers -> Copies(S)]
  /\ mem \in [Workers -> Copies(S)]
  /\ pc \in [Workers -> P]
  /\ faults \in Nat
  /\ edits \in Nat

\* The replica between its external-create-pending annotation and the record of
\* how the creation went.
Creating(w) == pc[w] \in {"create", "created", "createFailed"}

\* A copy that can still be written back says what the API server says, but for
\* the status and the name a creation has just been given.
FreshIsCurrent ==
  \A w \in Workers :
    /\ cache[w].fresh => cache[w].obj = cr
    /\ mem[w].fresh /\ pc[w] # "created" => Sent(w) = cr
    /\ pc[w] # "idle" => mem[w].obj.present

\* One replica creates at a time, under the pending annotation, and what it knows
\* about the entities alive is right; so is, on a copy that can be written back,
\* that the entity is absent.
PassKnows(w, live) ==
  /\ Creating(w) => cr.creation = "pending" /\ \A v \in Workers : Creating(v) => v = w
  /\ pc[w] = "absent" /\ mem[w].fresh => mem[w].obj.extName \notin live
  /\ pc[w] \in {"create", "createFailed"} => live = {}
  /\ pc[w] = "created" => live \subseteq {mem[w].obj.extName}
  /\ ~Creating(w) /\ pc[w] \notin {"idle", "refuse", "finish"}
       => mem[w].obj.creation # "pending"

\* While an entity is alive its CR exists with the finalizer and either names it or
\* is blocked by the pending annotation.
AccountedFor(live) ==
  \A n \in live : /\ cr.present /\ cr.finalizer
                  /\ cr.extName = n \/ cr.creation = "pending"

AtMostOne(live) == \A m, n \in live : m = n

\* The invariant of the loop, if the kind's Observe and Create tell the truth.
LoopInv(live) ==
  /\ FreshIsCurrent
  /\ \A w \in Workers : PassKnows(w, live)
  /\ cr.creation = "pending" => cr.present /\ cr.finalizer
  /\ AccountedFor(live)
  /\ AtMostOne(live)

\* A copy that names an entity alive is a copy of the CR that names it now.
CopyRight(o, live) ==
  o.extName \in live => cr.extName = o.extName /\ (o.deleting => cr.deleting)

\* No copy, however old, names what does not exist yet, and what it says of what is
\* alive is still so; but a pass may end knowing a name it could not record.
CopiesInv(live, given) ==
  /\ cr.extName \in given \cup {NoName}
  /\ \A w \in Workers :
       /\ mem[w].obj.extName \in given \cup {NoName}
       /\ cache[w].obj.extName \in given \cup {NoName}
       /\ CopyRight(cache[w].obj, live)
       /\ pc[w] \notin {"created", "finish"} => CopyRight(mem[w].obj, live)
       /\ pc[w] = "create" => ~mem[w].obj.deleting

\* What ExternalResource sees of the CR.
Claim == IF ~cr.present THEN "none" ELSE IF cr.deleting THEN "deleting" ELSE "there"
=============================================================================
