----------------------- MODULE ResourceInstance_faults -----------------------
(***************************************************************************)
(* Proofs about ResourceInstance that take no fault for granted: what late *)
(* initialisation writes, how many instances the faults can leak, and that *)
(* what the CR names is not taken down.  They cite the lemmas about the    *)
(* loop with no entity alive (LoopInv({})), as faults may lie about the    *)
(* others.  The last section does without the faults that leak.            *)
(***************************************************************************)
EXTENDS ResourceInstance_proofs, ResourceInstance_leaks, ManagedReconciler_proofs

Phases == ReconcilerPhases \cup KindPhases

\* The IDs the cloud has assigned.
Given == {n \in Names : inst[n].state # "none"}

-----------------------------------------------------------------------------
(***************************************************************************)
(* What happens to instances                                               *)
(***************************************************************************)
Steady == Alive' = Alive /\ Given' = Given

\* What n names may end ...
Ends(n) == Alive' \in {Alive, Alive \ {n}} /\ Given' = Given

\* ... or be made ...
Begins(n) ==
  /\ n \in Names \ Given
  /\ Alive' = Alive \cup {n} /\ Given' = Given \cup {n}

\* ... or come back.
Returns(n) == n \in Given /\ Alive' = Alive \cup {n} /\ Given' = Given

LEMMA AliveGiven == Alive \subseteq Given /\ Alive \subseteq Names /\ Given \subseteq Names
BY DEF Alive, Given, Live, LiveStates

LEMMA NothingChanges ==
  ASSUME UNCHANGED inst
  PROVE  Steady
BY DEF Steady, Alive, Given, Live

\* One instance changes.
LEMMA OneChanges ==
  ASSUME NEW n \in Names, NEW i, inst \in [Names -> Instances], inst' = [inst EXCEPT ![n] = i]
  PROVE  /\ inst[n].state = "none" /\ i.state \in LiveStates => Begins(n)
         /\ inst[n].state # "none" /\ i.state \in LiveStates => Returns(n)
         /\ inst[n].state \in LiveStates /\ i.state = inst[n].state => Steady
         /\ inst[n].state # "none" /\ i.state \notin LiveStates \cup {"none"} => Ends(n)
<1>1. inst'[n] = i /\ \A m \in Names \ {n} : inst'[m] = inst[m]
  OBVIOUS
<1>2. \A m \in Names : m # NoName
  BY ReconcilerAssumption
<1>3. /\ n \in Alive <=> inst[n].state \in LiveStates
      /\ n \in Alive' <=> i.state \in LiveStates
      /\ n \in Given <=> inst[n].state # "none"
      /\ n \in Given' <=> i.state # "none"
      /\ "none" \notin LiveStates
  BY <1>1, <1>2 DEF Alive, Given, Live, LiveStates
<1>4. /\ \A m \in Names \ {n} : (m \in Alive' <=> m \in Alive) /\ (m \in Given' <=> m \in Given)
      /\ Alive \subseteq Names /\ Given \subseteq Names
      /\ Alive' \subseteq Names /\ Given' \subseteq Names
  BY <1>1, <1>2 DEF Alive, Given, Live
<1> QED
  BY <1>3, <1>4 DEF Begins, Ends, Returns, Steady

-----------------------------------------------------------------------------
(***************************************************************************)
(* The forms of the controller's steps                                     *)
(***************************************************************************)
LEMMA TypeParts ==
  /\ UserSpecs \subseteq SpecType /\ ReconcilerPhases \subseteq Phases
  /\ TypeOK => /\ LoopType(SpecType, Phases)
               /\ inst \in [Names -> Instances] /\ faults \in Nat
               /\ \A w \in Workers : mem[w].obj.spec \in SpecType /\ cr.ready \in BOOLEAN
BY ResourceInstanceAssumption DEF TypeOK, LoopType, Phases, Copies, Objects

\* A step that finds out about the instance.
Looks(w, p) ==
  /\ pc[w] \in {"observe", "lateInit", "compare"} /\ Steady
  /\ \/ p \in {"finish", "lateInit", "compare", "current", "outdated"}
     \/ /\ p = "absent"
        /\ Id(w) \notin Alive \/ ("misread" \in FaultKinds /\ Costs)

\* One of an update.
Updates(w, p) ==
  /\ pc[w] \in {"outdated", "listTags", "attach", "detach"} /\ Steady
  /\ p \in {"listTags", "attach", "detach", "finish"}

\* One that takes the instance down, or tries to.
TakesDown(w, p) ==
  /\ pc[w] \in {"current", "outdated"} /\ mem[w].obj.deleting /\ p = "finish"
  /\ Ends(Id(w))

\* One that tries to create and does not learn the name.
Tries(w, p) ==
  /\ pc[w] = "create" /\ p = "createFailed"
  /\ \/ Steady
     \/ "lost" \in FaultKinds /\ Costs /\ \E n \in Names : Begins(n)

TouchStep(w, p) ==
  /\ Touches(w, p)
  /\ Looks(w, p) \/ Updates(w, p) \/ TakesDown(w, p) \/ Tries(w, p)

\* Late initialisation writes the spec.
LateStep(w, s) ==
  /\ pc[w] = "lateInit" /\ UNCHANGED inst
  /\ s = LateInitializeSpec(mem[w].obj.spec, seen[w], ListTags(Id(w)))
  /\ SpecWritten(w, s, cr.ready, "compare")

NameStep(w, n) == TakesName(w, n) /\ Begins(n)

\* What the cloud and others do.
WorldStep(n) ==
  /\ UNCHANGED <<cr, cache, mem, pc>> /\ faults' \in {faults, faults + 1}
  /\ \/ Ends(n)
     \/ Returns(n) /\ Costs /\ "restore" \in FaultKinds

LEMMA UpdateForms ==
  ASSUME TypeOK, NEW w \in Workers,
         \/ UpdateInstance(w) \/ UpdateListTags(w) \/ UpdateAttach(w)
         \/ UpdateDetach(w) \/ UpdateFails(w)
  PROVE  /\ faults' \in {faults, faults + 1}
         /\ \E p \in Phases : TouchStep(w, p)
<1>1. Steady
  <2>1. CASE UNCHANGED inst
    BY <2>1, NothingChanges
  <2>2. CASE Live(Id(w)) /\ inst' # inst
    <3>1. Id(w) \in Names /\ inst \in [Names -> Instances] /\ inst[Id(w)].state \in LiveStates
      BY <2>2, LiveType, MemSpecType, TypeParts DEF Live
    <3>2. inst' = [inst EXCEPT ![Id(w)] = inst'[Id(w)]] /\ inst'[Id(w)].state = inst[Id(w)].state
      <4>1. CASE UpdateInstance(w)
        BY <2>2, <3>1, <4>1 DEF UpdateInstance, Instances
      <4>2. CASE UpdateAttach(w) \/ UpdateDetach(w)
        BY <2>2, <3>1, <4>2 DEF UpdateAttach, UpdateDetach, Instances
      <4> QED
        BY <2>2, <4>1, <4>2 DEF UpdateListTags, UpdateFails
    <3> QED
      BY <3>1, <3>2, OneChanges
  <2>3. CASE ~Live(Id(w)) /\ inst' # inst
    BY <2>3 DEF UpdateInstance, UpdateListTags, UpdateAttach, UpdateDetach, UpdateFails
  <2> QED
    BY <2>1, <2>2, <2>3
<1>2. PICK p \in {"listTags", "attach", "detach", "finish"} :
        /\ pc' = [pc EXCEPT ![w] = p] /\ UNCHANGED <<cr, cache, mem>>
        /\ pc[w] \in {"outdated", "listTags", "attach", "detach"}
  BY DEF UpdateInstance, UpdateListTags, UpdateAttach, UpdateDetach, UpdateFails, Go
<1>3. TouchStep(w, p)
  BY <1>1, <1>2 DEF TouchStep, Touches, Updates
<1>4. faults' \in {faults, faults + 1}
  BY DEF UpdateInstance, UpdateListTags, UpdateAttach, UpdateDetach, UpdateFails, Fault
<1> QED
  BY <1>3, <1>4 DEF Phases, KindPhases, ReconcilerPhases

LEMMA HandlerForms ==
  ASSUME TypeOK, NEW w \in Workers, ExternalStep(w) \/ ExternalFault(w)
  PROVE  /\ faults' \in {faults, faults + 1}
         /\ \/ \E p \in Phases : TouchStep(w, p)
            \/ \E s \in SpecType : LateStep(w, s)
            \/ \E n \in Names : NameStep(w, n)
<1> USE DEF Phases, KindPhases, ReconcilerPhases
<1>0. inst \in [Names -> Instances] /\ mem \in [Workers -> Copies(SpecType)]
  BY DEF TypeOK
<1>1. ASSUME NEW p \in Phases, Go(w, p), UNCHANGED <<cr, cache>>,
             UNCHANGED mem \/ \E r \in BOOLEAN : mem' = [mem EXCEPT ![w].obj.ready = r]
      PROVE  Touches(w, p)
  BY <1>1 DEF Go, Touches
<1>2. CASE ObserveGet(w)
  <2>1. Steady /\ UNCHANGED <<cr, cache, mem, faults>> /\ pc[w] = "observe"
    BY <1>2, NothingChanges DEF ObserveGet
  <2>2. PICK p \in {"lateInit", "absent"} : Go(w, p) /\ (p = "absent" => Id(w) \notin Alive)
    BY <1>2, ExistsIsLive DEF ObserveGet, Alive
  <2>3. TouchStep(w, p)
    BY <1>1, <2>1, <2>2 DEF TouchStep, Looks
  <2> QED
    BY <2>1, <2>3
<1>3. CASE ObserveMisread(w)
  <2>1. Live(Id(w)) => Costs
    BY <1>3 DEF Costs
  <2>2. Id(w) \in Alive => Live(Id(w))
    BY DEF Alive
  <2>3. TouchStep(w, "absent")
    BY <1>1, <1>3, <2>1, <2>2, NothingChanges DEF ObserveMisread, TouchStep, Looks, Fault
  <2> QED
    BY <1>3, <2>3 DEF ObserveMisread, Fault
<1>4. CASE ObserveLateInit(w)
  <2> DEFINE s == LateInitializeSpec(mem[w].obj.spec, seen[w], ListTags(Id(w)))
  <2>1. UNCHANGED <<inst, faults>> /\ pc[w] = "lateInit" /\ Steady
    BY <1>4, NothingChanges DEF ObserveLateInit
  <2>2. ASSUME NEW p \in {"compare", "finish"}, Go(w, p), UNCHANGED <<cr, cache, mem>>
        PROVE  TouchStep(w, p)
    BY <1>1, <2>1, <2>2 DEF TouchStep, Looks
  <2>3. CASE s = mem[w].obj.spec
    BY <1>4, <2>1, <2>2, <2>3 DEF ObserveLateInit
  <2>4. CASE s # mem[w].obj.spec /\ ~mem[w].fresh
    BY <1>4, <2>1, <2>2, <2>4 DEF ObserveLateInit, ClientUpdate
  <2>5. CASE s # mem[w].obj.spec /\ mem[w].fresh
    <3> DEFINE o == [Sent(w) EXCEPT !.spec = s]
    <3>1. s \in SpecType
      <4>1. seen[w] \in Content /\ Id(w) \in Names /\ mem[w].obj.spec \in SpecType
        BY <2>1, MemSpecType DEF TypeOK, PassSaw
      <4>2. inst[Id(w)].is.tags \in SUBSET Tags
        BY <1>0, <4>1 DEF Instances, Content, NoContent
      <4> QED
        BY <4>1, <4>2, ListTagsType, LateInitType DEF ListTags
    <3>2. Put(w, o, [obj |-> o, fresh |-> TRUE]) /\ pc' = [pc EXCEPT ![w] = "compare"]
      BY <1>4, <2>5 DEF ObserveLateInit, ClientUpdate, Go
    <3>3. Sent(w) \in Objects(SpecType) /\ Sent(w).ready = cr.ready
      BY <1>0, SentType DEF Sent, Copies, Objects
    <3>4. [o EXCEPT !.ready = cr.ready] = o
      BY <3>3 DEF Objects
    <3>5. LateStep(w, s)
      BY <2>1, <2>5, <3>2, <3>4 DEF LateStep, SpecWritten
    <3> QED
      BY <2>1, <3>1, <3>5
  <2> QED
    BY <2>3, <2>4, <2>5
<1>5. CASE ObserveCompare(w)
  <2>1. PICK p \in {"current", "outdated"} : Go(w, p)
    BY <1>5 DEF ObserveCompare
  <2>2. TouchStep(w, p)
    BY <1>1, <1>5, <2>1, NothingChanges DEF ObserveCompare, TouchStep, Looks
  <2> QED
    BY <1>5, <2>2 DEF ObserveCompare
<1>6. CASE ObserveFails(w)
  <2>1. mem[w].obj.ready \in BOOLEAN
    BY <1>0 DEF Copies, Objects
  <2>2. TouchStep(w, "finish")
    BY <1>1, <1>6, <2>1, NothingChanges DEF ObserveFails, TouchStep, Looks
  <2> QED
    BY <1>6, <2>2 DEF ObserveFails, Fault
<1>7. ASSUME NEW n \in Names, inst[n].state = "none",
             inst' = [inst EXCEPT ![n] = Created(mem[w].obj.spec)]
      PROVE  Begins(n)
  <2>1. Created(mem[w].obj.spec).state \in LiveStates
    BY DEF Created, LiveStates
  <2> QED
    BY <1>0, <1>7, <2>1, OneChanges
<1>8. CASE Create(w)
  <2>1. PICK n \in Names :
          /\ inst[n].state = "none"
          /\ inst' = [inst EXCEPT ![n] = Created(mem[w].obj.spec)]
          /\ mem' = [mem EXCEPT ![w].obj = [@ EXCEPT !.extName = n, !.ready = FALSE]]
    BY <1>8 DEF Create
  <2>2. NameStep(w, n)
    BY <1>7, <1>8, <2>1 DEF Create, NameStep, TakesName, Go
  <2> QED
    BY <1>8, <2>2 DEF Create
<1>9. CASE CreateFails(w)
  <2>1. TouchStep(w, "createFailed")
    BY <1>1, <1>9, NothingChanges DEF CreateFails, TouchStep, Tries
  <2> QED
    BY <1>9, <2>1 DEF CreateFails, Fault
<1>10. CASE CreateLost(w)
  <2>1. PICK n \in Names : Begins(n)
    BY <1>7, <1>10 DEF CreateLost
  <2>2. Costs
    BY <1>10 DEF Costs
  <2>3. TouchStep(w, "createFailed")
    BY <1>1, <1>10, <2>1, <2>2 DEF CreateLost, TouchStep, Tries, Fault
  <2> QED
    BY <1>10, <2>3 DEF CreateLost, Fault
<1>11. CASE Delete(w)
  <2>1. Ends(Id(w))
    <3>1. CASE UNCHANGED inst
      BY <3>1, NothingChanges DEF Steady, Ends
    <3>2. CASE Live(Id(w)) /\ inst' # inst
      <4>1. Id(w) \in Names /\ inst[Id(w)].state # "none"
        BY <3>2, LiveType, MemSpecType DEF Live, LiveStates
      <4>2. /\ inst' = [inst EXCEPT ![Id(w)] = inst'[Id(w)]]
            /\ inst'[Id(w)].state \in {"removed", "pending_reclamation"}
        BY <1>0, <1>11, <3>2, <4>1 DEF Delete, Blank, Instances
      <4> QED
        BY <1>0, <4>1, <4>2, OneChanges DEF LiveStates
    <3> QED
      BY <1>11, <3>1, <3>2 DEF Delete
  <2>2. TouchStep(w, "finish")
    BY <1>1, <1>11, <2>1 DEF Delete, TouchStep, TakesDown
  <2> QED
    BY <1>11, <2>2 DEF Delete
<1>12. CASE DeleteFails(w)
  <2>1. Ends(Id(w))
    BY <1>12, NothingChanges DEF Steady, Ends, DeleteFails
  <2>2. TouchStep(w, "finish")
    BY <1>1, <1>12, <2>1 DEF DeleteFails, TouchStep, TakesDown
  <2> QED
    BY <1>12, <2>2 DEF DeleteFails, Fault
<1>13. CASE UpdateInstance(w) \/ UpdateListTags(w) \/ UpdateAttach(w) \/ UpdateDetach(w)
            \/ UpdateFails(w)
  BY <1>13, UpdateForms
<1> QED
  BY <1>2, <1>3, <1>4, <1>5, <1>6, <1>8, <1>9, <1>10, <1>11, <1>12, <1>13
     DEF ExternalStep, ExternalFault

\* An instance stays alive in another state.
LEMMA AliveAgain ==
  ASSUME NEW n \in Names, NEW i, inst \in [Names -> Instances], inst' = [inst EXCEPT ![n] = i],
         inst[n].state \in LiveStates, i.state \in LiveStates
  PROVE  Ends(n)
<1>1. Returns(n) /\ n \in Alive
  BY OneChanges, ReconcilerAssumption DEF LiveStates, Alive, Live
<1> QED
  BY <1>1 DEF Returns, Ends

LEMMA WorldForms ==
  ASSUME TypeOK, NEW n \in Names,
         Provisioned(n) \/ Reclaimed(n) \/ Drifts(n) \/ Restored(n)
  PROVE  WorldStep(n)
<1>0. inst \in [Names -> Instances]
  BY DEF TypeOK
<1>1. PICK i : Changes(n, i)
  BY DEF Provisioned, Reclaimed, Drifts, Restored
<1>2. /\ inst' = [inst EXCEPT ![n] = i] /\ inst'[n] = i /\ UNCHANGED <<cr, cache, mem, pc>>
  BY <1>0, <1>1 DEF Changes
<1>3. CASE Provisioned(n) \/ Reclaimed(n) \/ Drifts(n)
  <2>1. /\ inst[n].state # "none" /\ faults' \in {faults, faults + 1}
        /\ inst'[n].state \in LiveStates => inst[n].state \in LiveStates
        /\ inst'[n].state # "none"
    BY <1>0, <1>3
       DEF Provisioned, Reclaimed, Drifts, Changes, Blank, Live, LiveStates, Fault, Instances
  <2>2. Ends(n)
    <3>1. CASE inst'[n].state \in LiveStates
      BY <1>0, <1>2, <2>1, <3>1, AliveAgain
    <3>2. CASE inst'[n].state \notin LiveStates
      BY <1>0, <1>2, <2>1, <3>2, OneChanges
    <3> QED
      BY <3>1, <3>2
  <2> QED
    BY <1>2, <2>1, <2>2 DEF WorldStep
<1>4. CASE Restored(n)
  <2>1. /\ inst[n].state = "pending_reclamation" /\ i.state = "active"
        /\ faults' = faults + 1 /\ "restore" \in FaultKinds
    BY <1>0, <1>2, <1>4 DEF Restored, Changes, Fault, Instances
  <2>2. Returns(n)
    BY <1>0, <1>2, <2>1, OneChanges DEF LiveStates
  <2>3. Costs
    BY <1>4 DEF Costs
  <2> QED
    BY <1>2, <2>1, <2>2, <2>3 DEF WorldStep
<1> QED
  BY <1>3, <1>4

-----------------------------------------------------------------------------
(***************************************************************************)
(* All the steps of the specification, and what they keep of the loop      *)
(***************************************************************************)
NextForm ==
  \/ \E w \in Workers : LoopStep(w) /\ Forget /\ UNCHANGED inst
  \/ \E w \in Workers, p \in Phases : TouchStep(w, p)
  \/ \E w \in Workers, s \in SpecType : LateStep(w, s)
  \/ \E w \in Workers, n \in Names : NameStep(w, n)
  \/ UserStep /\ UNCHANGED inst
  \/ \E n \in Names : WorldStep(n)
  \/ UNCHANGED vars

LEMMA LoopFaults ==
  ASSUME NEW w \in Workers, LoopStep(w)
  PROVE  faults' \in {faults, faults + 1}
BY DEF LoopStep, ReconcilerStep, ReconcilerFault, SyncCache, Fetch, Refuse, AddFinalizer,
       MarkPending, RecordCreated, RecordFailed, Record, Finish, RemoveFinalizer,
       RecordExhausted, Crash, Fault

LEMMA NextForms ==
  ASSUME TypeOK, [Next]_vars
  PROVE  NextForm /\ faults' \in {faults, faults + 1}
<1>1. ASSUME NEW w \in Workers, LoopStep(w), Forget, UNCHANGED inst
      PROVE  NextForm /\ faults' \in {faults, faults + 1}
  BY <1>1, LoopFaults DEF NextForm
<1>2. ASSUME NEW w \in Workers, ExternalStep(w) \/ ExternalFault(w)
      PROVE  NextForm /\ faults' \in {faults, faults + 1}
  BY <1>2, HandlerForms DEF NextForm
<1>3. CASE UserStep /\ Forget /\ UNCHANGED inst
  <2>1. faults' = faults
    BY <1>3 DEF UserStep, UserDeletes, UserApplies, UserWrites
  <2> QED
    BY <1>3, <2>1 DEF NextForm
<1>4. ASSUME NEW n \in Names, Provisioned(n) \/ Reclaimed(n) \/ Drifts(n) \/ Restored(n)
      PROVE  NextForm /\ faults' \in {faults, faults + 1}
  <2>1. WorldStep(n)
    BY <1>4, WorldForms
  <2> QED
    BY <2>1 DEF NextForm, WorldStep
<1>5. CASE UNCHANGED vars
  BY <1>5 DEF NextForm, vars
<1> QED
  BY <1>1, <1>2, <1>3, <1>4, <1>5 DEF Next, WorkerStep, CloudStep, LoopStep

\* A step of the controller takes the loop where LoopTouch says it may.
LEMMA TouchPhases ==
  ASSUME NEW w \in Workers, NEW p \in Phases, TouchStep(w, p)
  PROVE  /\ Touches(w, p)
         /\ pc[w] \notin {"idle", "refuse", "created", "createFailed", "finish"}
         /\ \/ p = "createFailed" /\ pc[w] = "create"
            \/ p = "finish"
            \/ /\ p \notin {"idle", "refuse", "create", "created", "createFailed", "finish"}
               /\ pc[w] \notin {"create", "finish"}
BY DEF TouchStep, Looks, Updates, TakesDown, Tries

\* What the loop knows when nothing is said but of the instances in L it knows of those
\* in M afterwards, if a pass that gives up on its instance is right that it is not in
\* L, and what is new in M is what was just created.
LEMMA LoopNext ==
  ASSUME TypeOK, [Next]_vars, NEW L, L \subseteq Names, LoopInv(L),
         NEW G, G = Given, CopiesInv(L, G), NEW H, H = Given', NEW M,
         M \subseteq L \/ \E w \in Workers, n \in Names : NameStep(w, n),
         \A w \in Workers, n \in Names : NameStep(w, n) => M \subseteq {n},
         \A w \in Workers : TouchStep(w, "absent") => Id(w) \notin L
  PROVE  LoopInv(M)' /\ CopiesInv(M, H)'
<1>0. /\ LoopType(SpecType, Phases) /\ UserSpecs \subseteq SpecType
      /\ ReconcilerPhases \subseteq Phases
  BY TypeParts
<1>1. NextForm
  BY NextForms
<1>2. ASSUME NEW w \in Workers, NEW n \in Names, NameStep(w, n)
      PROVE  LoopInv(M)' /\ CopiesInv(M, H)'
  <2>1. TakesName(w, n) /\ n \notin G /\ G \cup {n} \subseteq H /\ M \subseteq {n}
    BY <1>2 DEF NameStep, Begins
  <2>2. LoopInv(M)'
    BY <1>0, <2>1, LoopCreate
  <2>3. CopiesInv(M, H)'
    BY <1>0, <2>1, LoopCreateCopies
  <2> QED
    BY <2>2, <2>3
<1>3. ASSUME LoopInv(L)', CopiesInv(L, G)', G \subseteq H, M \subseteq L
      PROVE  LoopInv(M)' /\ CopiesInv(M, H)'
  BY <1>3, LoopFewer, LoopFewerCopies
<1>4. CASE \A w \in Workers, n \in Names : ~NameStep(w, n)
  <2>1. M \subseteq L
    BY <1>4
  <2>2. ASSUME Steady \/ \E n : Ends(n) \/ Begins(n) \/ Returns(n)
        PROVE  G \subseteq H
    BY <2>2 DEF Steady, Ends, Begins, Returns
  <2>3. UNCHANGED inst => Steady
    BY NothingChanges
  <2>4. ASSUME NEW w \in Workers, LoopStep(w), UNCHANGED inst
        PROVE  LoopInv(M)' /\ CopiesInv(M, H)'
    <3>1. LoopInv(L)'
      BY <1>0, <2>4, LoopKeepsInv
    <3>2. CopiesInv(L, G)'
      BY <1>0, <2>4, LoopKeepsCopies
    <3> QED
      BY <1>3, <2>1, <2>2, <2>3, <2>4, <3>1, <3>2
  <2>5. ASSUME NEW w \in Workers, NEW p \in Phases, TouchStep(w, p)
        PROVE  LoopInv(M)' /\ CopiesInv(M, H)'
    <3>1. /\ Touches(w, p)
          /\ pc[w] \notin {"idle", "refuse", "created", "createFailed", "finish"}
          /\ \/ p \in {"created", "createFailed"} /\ pc[w] = "create"
             \/ p = "finish"
             \/ /\ p \notin {"idle", "refuse", "create", "created", "createFailed", "finish"}
                /\ pc[w] \notin {"create", "finish"}
          /\ p # "create"
      BY <2>5, TouchPhases
    <3>2. p = "absent" /\ mem[w].fresh => mem[w].obj.extName \notin L
      BY <2>5 DEF Id
    <3>3. LoopInv(L)'
      BY ONLY <1>0, <3>1, <3>2, LoopTouch, LoopInv(L), w \in Workers, p \in Phases
    <3>4. CopiesInv(L, G)'
      BY ONLY <1>0, <3>1, LoopTouchCopies, CopiesInv(L, G), w \in Workers, p \in Phases
    <3>5. Steady \/ \E n : Ends(n) \/ Begins(n) \/ Returns(n)
      BY <2>5 DEF TouchStep, Looks, Updates, TakesDown, Tries
    <3> QED
      BY <1>3, <2>1, <2>2, <3>3, <3>4, <3>5
  <2>6. ASSUME NEW w \in Workers, NEW s \in SpecType, LateStep(w, s)
        PROVE  LoopInv(M)' /\ CopiesInv(M, H)'
    <3>1. /\ cr.ready \in BOOLEAN /\ "compare" \in Phases /\ SpecWritten(w, s, cr.ready, "compare")
          /\ pc[w] \notin {"idle", "refuse", "create", "created", "createFailed", "finish"}
          /\ UNCHANGED inst
      BY <1>0, <2>6, TypeParts DEF Phases, KindPhases, LateStep
    <3>2. LoopInv(L)'
      BY <1>0, <3>1, LoopSpecWritten
    <3>3. CopiesInv(L, G)'
      BY <1>0, <3>1, LoopSpecWrittenCopies
    <3> QED
      BY <1>3, <2>1, <2>2, <2>3, <3>1, <3>2, <3>3
  <2>7. CASE UserStep /\ UNCHANGED inst
    <3>1. UserStepOver(SpecType)
      BY <1>0, <2>7 DEF UserStep, UserStepOver
    <3>2. LoopInv(L)' /\ CopiesInv(L, G)'
      BY <1>0, <3>1, LoopUser, LoopUserCopies
    <3> QED
      BY <1>3, <2>1, <2>2, <2>3, <2>7, <3>2
  <2>8. CASE (\E n \in Names : WorldStep(n)) \/ UNCHANGED vars
    <3>1. UNCHANGED <<cr, cache, mem, pc>> /\ G \subseteq H
      BY <2>2, <2>3, <2>8 DEF WorldStep, vars
    <3>2. LoopInv(L)' /\ CopiesInv(L, G)'
      BY <3>1, LoopCloud, LoopCloudCopies
    <3> QED
      BY <1>3, <2>1, <3>1, <3>2
  <2> QED
    BY <1>1, <1>4, <2>4, <2>5, <2>6, <2>7, <2>8 DEF NextForm
<1> QED
  BY <1>2, <1>4

\* Said of all instances alive, or of none, after the step.
LEMMA CopiesNext ==
  ASSUME NEW M, NEW H, H = Given', CopiesInv(M, H)'
  PROVE  /\ M = {} => CopiesInv({}, Given)'
         /\ M = Alive' => CopiesInv(Alive, Given)'
BY DEF CopiesInv, CopyRight

\* What holds whatever the faults: the types, and what the loop and its copies say when
\* nothing is said of the instances alive.
BaseInv == TypeOK /\ LoopInv({}) /\ CopiesInv({}, Given)

LEMMA BaseStep ==
  ASSUME BaseInv, [Next]_vars
  PROVE  BaseInv'
<1>1. TypeOK /\ LoopInv({}) /\ CopiesInv({}, Given)
  BY DEF BaseInv
<1>2. TypeOK'
  BY <1>1, TypeStep
<1>3. PICK G : G = Given
  OBVIOUS
<1>4. PICK H : H = Given'
  OBVIOUS
<1>5. PICK L : L = {}
  OBVIOUS
<1>6. LoopInv(L)' /\ CopiesInv(L, H)'
  <2>1. L \subseteq Names /\ LoopInv(L) /\ CopiesInv(L, G) /\ \A n : L \subseteq {n} /\ n \notin L
    BY <1>1, <1>3, <1>5
  <2> QED
    BY <1>1, <1>3, <1>4, <2>1, LoopNext
<1>7. LoopInv({})' /\ CopiesInv({}, Given)'
  BY <1>4, <1>5, <1>6, CopiesNext
<1> QED
  BY <1>2, <1>7 DEF BaseInv

LEMMA BaseInit == Init => BaseInv
<1>1. Init => CopiesInv({}, Given)
  BY LoopStartCopies, LoopFewerCopies DEF Init, CopiesInv
<1> QED
  BY <1>1, TypeInit, LoopStart DEF Init, BaseInv

LEMMA BaseCorrect == Spec => []BaseInv
BY BaseInit, BaseStep, PTL DEF Spec

-----------------------------------------------------------------------------
(***************************************************************************)
(* Late initialisation changes no field that a user has set                *)
(***************************************************************************)
LEMMA LateInitKeeps ==
  ASSUME NEW s \in SpecType, NEW i, NEW t, NEW f \in DOMAIN s, s[f] # Unset
  PROVE  LateInitializeSpec(s, i, t)[f] = s[f]
<1>1. DOMAIN s = {"site", "group", "config", "opts", "tags"}
  BY DEF SpecType
<1>2. /\ s.group # Unset => LateInitializeSpec(s, i, t).group = s.group
      /\ s.opts # Unset => LateInitializeSpec(s, i, t).opts = s.opts
      /\ s.tags # Unset => LateInitializeSpec(s, i, t).tags = s.tags
      /\ LateInitializeSpec(s, i, t).site = s.site
      /\ LateInitializeSpec(s, i, t).config = s.config
  BY DEF LateInitializeSpec, SpecType
<1> QED
  BY <1>1, <1>2

LEMMA StepKeepsSpec ==
  ASSUME BaseInv, [Next]_vars, cr'.present, ~UserStep
  PROVE  \/ cr'.spec = cr.spec
         \/ \E i, t : cr'.spec = LateInitializeSpec(cr.spec, i, t)
<1>0. TypeOK /\ FreshIsCurrent /\ LoopInv({}) /\ LoopType(SpecType, Phases)
      /\ UserSpecs \subseteq SpecType /\ NextForm
  BY TypeParts, NextForms DEF BaseInv, LoopInv
<1>1. ASSUME NEW w \in Workers, LoopStep(w)
      PROVE  cr'.spec = cr.spec
  <2>1. ~NoObject.present
    BY LoopNoObjectType, <1>0
  <2> QED
    BY <1>0, <1>1, <2>1, LoopSources DEF Same
<1>2. ASSUME NEW w \in Workers, NEW s \in SpecType, LateStep(w, s)
      PROVE  \E i, t : cr'.spec = LateInitializeSpec(cr.spec, i, t)
  <2>1. /\ SpecWritten(w, s, cr.ready, "compare")
        /\ pc[w] \notin {"idle", "refuse", "create", "created", "createFailed", "finish"}
    BY <1>2 DEF LateStep
  <2>2. cr'.spec = s
    <3>1. cr' = [Sent(w) EXCEPT !.spec = s] /\ Sent(w) \in Objects(SpecType)
      BY <1>0, <2>1, LoopSentType DEF SpecWritten, Put
    <3> QED
      BY <3>1 DEF Objects
  <2>3. Same(mem[w].obj, cr)
    BY <1>0, <2>1, LoopFresh DEF SpecWritten
  <2>4. s = LateInitializeSpec(mem[w].obj.spec, seen[w], ListTags(Id(w)))
    BY <1>2 DEF LateStep
  <2> QED
    BY <2>2, <2>3, <2>4 DEF Same
<1> QED
  BY <1>0, <1>1, <1>2 DEF NextForm, TouchStep, Touches, NameStep, TakesName, WorldStep, vars

\* Late initialisation writes the whole spec of a copy back, and yet the only fields it
\* changes are those the user left out: the 409 keeps an older copy from undoing an
\* edit, whatever the faults and however many replicas there are.
THEOREM KeepsUserFields == Spec => UserFieldsKept
<1>1. ASSUME BaseInv, [Next]_vars, cr'.present, ~UserStep, NEW f \in DOMAIN cr.spec,
             cr'.spec[f] # cr.spec[f]
      PROVE  cr.spec[f] = Unset
  <2>1. cr.spec \in SpecType
    BY <1>1 DEF BaseInv, TypeOK, Objects
  <2> QED
    BY <1>1, <2>1, StepKeepsSpec, LateInitKeeps
<1>2. BaseInv /\ [Next]_vars =>
        [cr'.present /\ ~UserStep =>
           \A f \in DOMAIN cr.spec :
             cr'.spec[f] # cr.spec[f] => cr.spec[f] = Unset]_vars
  BY <1>1
<1> QED
  BY <1>2, BaseCorrect, PTL DEF Spec, UserFieldsKept

-----------------------------------------------------------------------------
(***************************************************************************)
(* What the faults that leak may cost                                      *)
(***************************************************************************)
Few(A, k) == IsFiniteSet(A) /\ Cardinality(A) <= k

LEMMA FewSubset ==
  ASSUME NEW A, NEW B, B \subseteq A, NEW k \in Nat, NEW m \in Nat, k <= m, Few(A, k)
  PROVE  Few(B, m)
BY FS_Subset, FS_CardinalityType DEF Few

LEMMA FewSubsetNext ==
  ASSUME NEW A, NEW B, B \subseteq A, NEW k \in Nat, NEW m \in Nat, k <= m, Few(A, k + 1)
  PROVE  Few(B, m + 1)
<1>1. k + 1 \in Nat /\ m + 1 \in Nat /\ k + 1 <= m + 1
  OBVIOUS
<1> QED
  BY <1>1, FewSubset

LEMMA FewAdded ==
  ASSUME NEW A, NEW n, NEW k \in Nat, Few(A, k)
  PROVE  Few(A \cup {n}, k + 1)
<1>1. IsFiniteSet(A) /\ Cardinality(A) \in Nat /\ Cardinality(A) <= k
  BY FS_CardinalityType DEF Few
<1>2. /\ IsFiniteSet(A \cup {n})
      /\ Cardinality(A \cup {n}) = Cardinality(A) \/ Cardinality(A \cup {n}) = Cardinality(A) + 1
  BY <1>1, FS_AddElement
<1> QED
  BY <1>1, <1>2 DEF Few

LEMMA FewRemoved ==
  ASSUME NEW A, NEW n \in A, NEW k \in Nat, Few(A, k + 1)
  PROVE  Few(A \ {n}, k)
<1>1. IsFiniteSet(A) /\ Cardinality(A) \in Nat /\ Cardinality(A) <= k + 1
  BY FS_CardinalityType DEF Few
<1>2. IsFiniteSet(A \ {n}) /\ Cardinality(A \ {n}) = Cardinality(A) - 1
  BY <1>1, FS_RemoveElement
<1> QED
  BY <1>1, <1>2 DEF Few

\* The instances alive that a pass counts on being leaks: all of them while the CR
\* has none, and all but the one it has just made.
PassLeaks(w) ==
  /\ pc[w] = "absent" /\ mem[w].fresh => Few(Alive, costs)
  /\ pc[w] \in {"create", "createFailed"} => Few(Alive, costs)
  /\ pc[w] = "created" => Few(Alive \ {mem[w].obj.extName}, costs)

LeakInv ==
  /\ costs \in Nat
  /\ Few(Alive, costs + 1)
  /\ cr.creation # "pending" /\ cr.extName \notin Alive => Few(Alive, costs)
  /\ ~(cr.present /\ cr.finalizer) => cr.extName = NoName
  /\ \A w \in Workers : PassLeaks(w)

\* A worker that another one's step left alone.
LEMMA LeaksOfOthers ==
  ASSUME costs \in Nat, NEW v \in Workers, PassLeaks(v), pc'[v] = pc[v],
         mem'[v].obj = mem[v].obj, mem'[v].fresh => mem[v].fresh,
         Alive' \subseteq Alive, costs' \in {costs, costs + 1}
  PROVE  PassLeaks(v)'
<1>1. costs' \in Nat /\ costs <= costs'
  OBVIOUS
<1>2. Few(Alive, costs) => Few(Alive', costs')
  BY <1>1, FewSubset
<1>3. ASSUME NEW n, Few(Alive \ {n}, costs)
      PROVE  Few(Alive' \ {n}, costs')
  <2>1. Alive' \ {n} \subseteq Alive \ {n}
    OBVIOUS
  <2> QED
    BY <1>1, <1>3, <2>1, FewSubset
<1> QED
  BY <1>2, <1>3 DEF PassLeaks

\* The CR stays as it is, and instances are only taken down.
LEMMA LeaksFewer ==
  ASSUME costs \in Nat, LeakInv, NEW n, Alive' \in {Alive, Alive \ {n}}, n \in Alive,
         cr'.extName = cr.extName, cr'.creation = cr.creation,
         cr'.present = cr.present, cr'.finalizer = cr.finalizer,
         costs' \in {costs, costs + 1}, \A w \in Workers : PassLeaks(w)'
  PROVE  LeakInv'
<1>1. costs' \in Nat /\ costs <= costs'
  OBVIOUS
<1>2. Alive' \subseteq Alive
  OBVIOUS
<1>3. Few(Alive', costs' + 1)
  BY <1>1, <1>2, FewSubsetNext DEF LeakInv
<1>4. ASSUME cr'.creation # "pending", cr'.extName \notin Alive'
      PROVE  Few(Alive', costs')
  <2>1. CASE cr.extName \notin Alive
    BY <1>1, <1>2, <1>4, <2>1, FewSubset DEF LeakInv
  <2>2. CASE cr.extName \in Alive
    <3>1. cr.extName = n /\ Alive' = Alive \ {n}
      BY <1>4, <2>2
    <3>2. Few(Alive', costs)
      BY <3>1, FewRemoved DEF LeakInv
    <3> QED
      BY <1>1, <3>2, FewSubset
  <2> QED
    BY <2>1, <2>2
<1> QED
  BY <1>1, <1>3, <1>4 DEF LeakInv

\* As above, also when the name was of no instance alive.
LEMMA LeaksEnd ==
  ASSUME costs \in Nat, LeakInv, NEW n, Ends(n),
         cr'.extName = cr.extName, cr'.creation = cr.creation,
         cr'.present = cr.present, cr'.finalizer = cr.finalizer,
         costs' \in {costs, costs + 1}, \A w \in Workers : PassLeaks(w)'
  PROVE  LeakInv'
<1>1. CASE n \in Alive
  BY <1>1, LeaksFewer DEF Ends
<1>2. CASE n \notin Alive
  <2>1. Alive' = Alive
    BY <1>2 DEF Ends
  <2>2. costs' \in Nat /\ costs <= costs'
    OBVIOUS
  <2>3. Few(Alive', costs' + 1) /\ (Few(Alive, costs) => Few(Alive', costs'))
    BY <2>1, <2>2, FewSubset, FewSubsetNext DEF LeakInv
  <2> QED
    BY <2>1, <2>2, <2>3 DEF LeakInv
<1> QED
  BY <1>1, <1>2

\* One instance more, and one fault more.
LEMMA LeaksMore ==
  ASSUME costs \in Nat, LeakInv, NEW n, Alive' = Alive \cup {n}, costs' = costs + 1,
         cr'.extName = cr.extName, cr'.creation = cr.creation,
         cr'.present = cr.present, cr'.finalizer = cr.finalizer,
         \A w \in Workers : PassLeaks(w)'
  PROVE  LeakInv'
<1>1. costs + 1 \in Nat /\ costs' \in Nat
  OBVIOUS
<1>2. Few(Alive', costs' + 1)
  BY <1>1, FewAdded DEF LeakInv
<1>3. cr.creation # "pending" /\ cr.extName \notin Alive' => Few(Alive', costs')
  BY FewAdded DEF LeakInv
<1> QED
  BY <1>1, <1>2, <1>3 DEF LeakInv

\* A step of the loop, which changes no instance.
LEMMA LeaksSame ==
  ASSUME costs \in Nat, LeakInv, Alive' = Alive, costs' \in {costs, costs + 1},
         cr'.creation # "pending" /\ cr'.extName \notin Alive =>
           Few(Alive, costs) \/ (cr.creation # "pending" /\ cr.extName \notin Alive),
         ~(cr'.present /\ cr'.finalizer) => cr'.extName = NoName,
         \A w \in Workers : PassLeaks(w)'
  PROVE  LeakInv'
<1>1. costs' \in Nat /\ costs <= costs'
  OBVIOUS
<1>2. Few(Alive', costs' + 1) /\ (Few(Alive, costs) => Few(Alive', costs'))
  BY <1>1, FewSubset, FewSubsetNext DEF LeakInv
<1> QED
  BY <1>1, <1>2 DEF LeakInv

LEMMA LoopLeaks ==
  ASSUME BaseInv, LeakInv, Counts, NEW w \in Workers, LoopStep(w), UNCHANGED inst
  PROVE  LeakInv'
<1>0. /\ costs \in Nat /\ FreshIsCurrent /\ LoopType(SpecType, Phases)
      /\ UserSpecs \subseteq SpecType /\ LoopInv({})
  BY TypeParts DEF BaseInv, LoopInv, LeakInv
<1>1. Alive' = Alive /\ costs' \in {costs, costs + 1}
  BY NothingChanges DEF Steady, Counts
<1>2. NoName \notin Alive
  BY AliveGiven, ReconcilerAssumption
<1>3. CASE Synced(w)
  <2>1. UNCHANGED <<cr, mem, pc>>
    BY <1>3 DEF Synced
  <2>2. \A v \in Workers : PassLeaks(v)'
    BY <1>0, <1>1, <2>1, LeaksOfOthers DEF LeakInv
  <2> QED
    BY <1>0, <1>1, <2>1, <2>2, LeaksSame DEF LeakInv
<1>4. ASSUME NEW o \in Objects(SpecType), NEW c \in Copies(SpecType), NEW p \in ReconcilerPhases,
             pc' = [pc EXCEPT ![w] = p], Moves(w, c, p)
      PROVE  LeakInv'
  <2>1. /\ cr' = cr /\ pc'[w] \in {"idle", "finish", "refuse", "observe"}
        /\ \A v \in Workers \ {w} : pc'[v] = pc[v] /\ mem'[v] = mem[v]
    BY <1>0, <1>4 DEF Moves, LoopType
  <2>2. PassLeaks(w)'
    BY <2>1 DEF PassLeaks
  <2>3. \A v \in Workers \ {w} : PassLeaks(v)'
    BY <1>0, <1>1, <2>1, LeaksOfOthers DEF LeakInv
  <2>4. \A v \in Workers : PassLeaks(v)'
    BY <2>2, <2>3
  <2> QED
    BY <1>0, <1>1, <2>1, <2>4, LeaksSame DEF LeakInv
<1>5. ASSUME NEW o \in Objects(SpecType), NEW c \in Copies(SpecType), NEW p \in ReconcilerPhases,
             pc' = [pc EXCEPT ![w] = p], Writes(w, o, c, p)
      PROVE  LeakInv'
  <2>1. Put(w, o, c)
    BY <1>5 DEF Writes
  <2>2. /\ cr' = o /\ mem'[w] = c /\ pc'[w] = p
        /\ \A v \in Workers \ {w} : /\ mem'[v].obj = mem[v].obj /\ pc'[v] = pc[v]
                                    /\ mem'[v].fresh => mem[v].fresh
    BY <1>0, <1>5, <2>1, LoopPut DEF LoopType
  <2>3. \A v \in Workers \ {w} : PassLeaks(v)'
    BY <1>0, <1>1, <2>2, LeaksOfOthers DEF LeakInv
  <2>4. PassLeaks(w)'
    <3>1. p \notin {"absent", "create", "created", "createFailed"} => PassLeaks(w)'
      BY <2>2 DEF PassLeaks
    <3>2. ASSUME p \in {"absent", "create", "created", "createFailed"}
          PROVE  Few(Alive, costs) /\ p \in {"absent", "create"}
      BY <1>5, <3>2 DEF Writes, LeakInv, PassLeaks
    <3>3. Few(Alive, costs) => Few(Alive', costs')
      <4>1. costs' \in Nat /\ costs <= costs'
        BY <1>0, <1>1
      <4> QED
        BY <1>0, <1>1, <4>1, FewSubset
    <3> QED
      BY <2>2, <3>1, <3>2, <3>3 DEF PassLeaks
  <2>5. cr'.creation # "pending" /\ cr'.extName \notin Alive =>
          Few(Alive, costs) \/ (cr.creation # "pending" /\ cr.extName \notin Alive)
    <3>1. CASE Same(o, cr) /\ o.creation = cr.creation
      BY <2>2, <3>1 DEF Same
    <3>2. CASE o.creation = "pending"
      BY <2>2, <3>2
    <3>3. CASE pc[w] \in {"absent", "createFailed"} /\ (pc[w] = "absent" => mem[w].fresh)
      BY <3>3 DEF LeakInv, PassLeaks
    <3>4. CASE pc[w] = "created" /\ o.extName = IF mem[w].obj.extName = NoName
                                               THEN cr.extName ELSE mem[w].obj.extName
      <4>1. mem[w].obj.extName \notin Alive => Alive \ {mem[w].obj.extName} = Alive
        OBVIOUS
      <4> QED
        BY <1>2, <2>2, <3>4, <4>1 DEF LeakInv, PassLeaks
    <3> QED
      BY <1>5, <3>1, <3>2, <3>3, <3>4 DEF Writes
  <2>6. ~(cr'.present /\ cr'.finalizer) => cr'.extName = NoName
    <3>1. CASE Same(o, cr) /\ (cr.finalizer => o.finalizer)
      BY <2>2, <3>1 DEF Same, LeakInv
    <3>2. CASE pc[w] \in {"created", "createFailed"} /\ o.present = cr.present
               /\ o.finalizer = cr.finalizer
      BY <1>0, <2>2, <3>2 DEF LoopInv, PassKnows, Creating
    <3>3. CASE o = NoObject
      BY <2>2, <3>3, <1>0, LoopNoObjectType
    <3> QED
      BY <1>5, <3>1, <3>2, <3>3 DEF Writes
  <2>7. \A v \in Workers : PassLeaks(v)'
    BY <2>3, <2>4
  <2> QED
    BY <1>0, <1>1, <2>5, <2>6, <2>7, LeaksSame
<1> QED
  BY <1>0, <1>3, <1>4, <1>5, LoopForms

LEMMA UserLeaks ==
  ASSUME BaseInv, LeakInv, Counts, UserStep, UNCHANGED inst
  PROVE  LeakInv'
<1>0. /\ costs \in Nat /\ LoopType(SpecType, Phases) /\ UserStepOver(SpecType)
      /\ UserSpecs \subseteq SpecType /\ LoopInv({})
  BY TypeParts DEF BaseInv, UserStep, UserStepOver, LeakInv
<1>1. Alive' = Alive /\ costs' \in {costs, costs + 1}
  BY NothingChanges DEF Steady, Counts
<1>2. /\ pc' = pc
      /\ \A v \in Workers : mem'[v].obj = mem[v].obj /\ ~mem'[v].fresh
      /\ \/ cr' = NoObject /\ ~cr.finalizer
         \/ (\E s \in SpecType : cr' = NewObject(s)) /\ ~cr.present
         \/ /\ cr'.present = cr.present /\ cr'.finalizer = cr.finalizer
            /\ cr'.creation = cr.creation /\ cr'.extName = cr.extName
  BY <1>0, LoopUserForms
<1>3. \A v \in Workers : PassLeaks(v)'
  BY <1>0, <1>1, <1>2, LeaksOfOthers DEF LeakInv
<1>4. ~(cr.present /\ cr.finalizer) => cr.creation # "pending" /\ cr.extName \notin Alive
  BY <1>0, AliveGiven, ReconcilerAssumption DEF LoopInv, LeakInv
<1>5. ~(cr'.present /\ cr'.finalizer) => cr'.extName = NoName
  BY <1>2, <1>0, LoopNoObjectType DEF NewObject, LeakInv
<1> QED
  BY <1>0, <1>1, <1>2, <1>3, <1>4, <1>5, LeaksSame

LEMMA TouchLeaks ==
  ASSUME BaseInv, LeakInv, Counts, NEW w \in Workers, NEW p \in Phases, TouchStep(w, p)
  PROVE  LeakInv'
<1>0. /\ costs \in Nat /\ FreshIsCurrent /\ LoopType(SpecType, Phases) /\ LoopInv({})
      /\ costs' \in {costs, costs + 1}
  BY TypeParts DEF BaseInv, LoopInv, LeakInv, Counts
<1>1. /\ Touches(w, p) /\ cr' = cr
      /\ pc[w] \notin {"idle", "refuse", "created", "createFailed", "finish"}
  BY TouchPhases DEF Touches
<1>2. /\ pc'[w] = p /\ \A v \in Workers \ {w} : pc'[v] = pc[v] /\ mem'[v] = mem[v]
      /\ mem'[w].fresh = mem[w].fresh
  BY <1>0, <1>1, LoopTouchTypes
<1>3. costs' \in Nat /\ costs <= costs'
  BY <1>0
<1>4. Few(Alive, costs) /\ Alive' = Alive => Few(Alive', costs')
  BY <1>0, <1>3, FewSubset
<1>5. ASSUME Alive' \subseteq Alive
      PROVE  \A v \in Workers \ {w} : PassLeaks(v)'
  BY <1>0, <1>2, <1>5, LeaksOfOthers DEF LeakInv
<1>6. ASSUME NEW n, Ends(n), PassLeaks(w)'
      PROVE  LeakInv'
  <2>1. \A v \in Workers : PassLeaks(v)'
    BY <1>5, <1>6 DEF Ends
  <2> QED
    BY <1>0, <1>1, <1>6, <2>1, LeaksEnd
<1>7. Steady => Ends(NoName)
  BY DEF Steady, Ends
<1>8. CASE Looks(w, p)
  <2>1. PassLeaks(w)'
    <3>1. CASE p # "absent"
      BY <1>2, <1>8, <3>1 DEF Looks, PassLeaks
    <3>2. CASE p = "absent" /\ Costs
      BY <1>2, <1>8, <3>2 DEF Looks, Steady, PassLeaks, LeakInv, Counts
    <3>3. CASE p = "absent" /\ Id(w) \notin Alive /\ mem[w].fresh
      <4>1. /\ cr.extName = Id(w) /\ cr.creation = mem[w].obj.creation
        BY <1>0, <1>1, <3>3, LoopFresh DEF Same, Id
      <4>2. mem[w].obj.creation # "pending"
        BY <1>0, <1>8 DEF Looks, LoopInv, PassKnows, Creating
      <4>3. Few(Alive, costs)
        BY <3>3, <4>1, <4>2 DEF LeakInv
      <4> QED
        BY <1>2, <1>4, <1>8, <3>3, <4>3 DEF Looks, Steady, PassLeaks
    <3>4. CASE ~mem[w].fresh
      BY <1>2, <1>8, <3>4 DEF Looks, PassLeaks
    <3> QED
      BY <1>8, <3>1, <3>2, <3>3, <3>4 DEF Looks
  <2> QED
    BY <1>6, <1>7, <1>8, <2>1 DEF Looks
<1>9. CASE Updates(w, p)
  <2>1. PassLeaks(w)'
    BY <1>2, <1>9 DEF Updates, PassLeaks
  <2> QED
    BY <1>6, <1>7, <1>9, <2>1 DEF Updates
<1>10. CASE TakesDown(w, p)
  <2>1. PassLeaks(w)'
    BY <1>2, <1>10 DEF TakesDown, PassLeaks
  <2> QED
    BY <1>6, <1>10, <2>1 DEF TakesDown
<1>11. CASE Tries(w, p)
  <2>1. Few(Alive, costs)
    BY <1>11 DEF Tries, LeakInv, PassLeaks
  <2>2. CASE Steady
    <3>1. PassLeaks(w)'
      BY <1>2, <1>4, <1>11, <2>1, <2>2 DEF Tries, Steady, PassLeaks
    <3> QED
      BY <1>6, <1>7, <2>2, <3>1
  <2>3. ASSUME NEW n \in Names, Begins(n), Costs
        PROVE  LeakInv'
    <3>0. costs' = costs + 1
      BY <2>3 DEF Counts
    <3>1. Alive' = Alive \cup {n} /\ Few(Alive', costs')
      BY <1>0, <2>1, <2>3, <3>0, FewAdded DEF Begins
    <3>2. ASSUME NEW m
          PROVE  Few(Alive' \ {m}, costs')
      <4>1. Alive' \ {m} \subseteq Alive'
        OBVIOUS
      <4> QED
        BY <1>3, <3>1, <4>1, FewSubset
    <3>3. \A v \in Workers : PassLeaks(v)'
      BY <3>1, <3>2 DEF PassLeaks
    <3> QED
      BY <1>0, <1>1, <3>0, <3>1, <3>3, LeaksMore
  <2> QED
    BY <1>11, <2>2, <2>3 DEF Tries
<1> QED
  BY <1>8, <1>9, <1>10, <1>11 DEF TouchStep

LEMMA LateLeaks ==
  ASSUME BaseInv, LeakInv, Counts, NEW w \in Workers, NEW s \in SpecType, LateStep(w, s)
  PROVE  LeakInv'
<1>0. /\ costs \in Nat /\ FreshIsCurrent /\ LoopType(SpecType, Phases) /\ LoopInv({})
      /\ costs' \in {costs, costs + 1}
  BY TypeParts DEF BaseInv, LoopInv, LeakInv, Counts
<1>1. Alive' = Alive
  BY NothingChanges DEF LateStep, Steady
<1>2. Sent(w) = cr /\ cr \in Objects(SpecType)
  BY <1>0, LoopFresh DEF LateStep, SpecWritten, LoopType
<1>3. /\ cr' = [cr EXCEPT !.spec = s] /\ pc' = [pc EXCEPT ![w] = "compare"]
      /\ \A v \in Workers \ {w} : /\ mem'[v].obj = mem[v].obj
                                  /\ mem'[v].fresh => mem[v].fresh
  BY <1>0, <1>2 DEF LateStep, SpecWritten, Put, Stale, LoopType, Copies
<1>4. /\ cr'.extName = cr.extName /\ cr'.creation = cr.creation
      /\ cr'.present = cr.present /\ cr'.finalizer = cr.finalizer
  BY <1>2, <1>3 DEF Objects
<1>5. \A v \in Workers \ {w} : PassLeaks(v)'
  <2>1. \A v \in Workers \ {w} : pc'[v] = pc[v]
    BY <1>3
  <2> QED
    BY <1>0, <1>1, <1>3, <2>1, LeaksOfOthers DEF LeakInv
<1>6. PassLeaks(w)'
  <2>1. pc'[w] = "compare"
    BY <1>0, <1>3 DEF LoopType
  <2> QED
    BY <2>1 DEF PassLeaks
<1>7. \A v \in Workers : PassLeaks(v)'
  BY <1>5, <1>6
<1> QED
  BY <1>0, <1>1, <1>4, <1>7, LeaksSame DEF LeakInv

\* The creation that goes well: the CR is pending, and the new instance is the one it
\* will have.
LEMMA NameLeaks ==
  ASSUME BaseInv, LeakInv, Counts, NEW w \in Workers, NEW n \in Names, NameStep(w, n)
  PROVE  LeakInv'
<1>0. /\ costs \in Nat /\ FreshIsCurrent /\ LoopType(SpecType, Phases) /\ LoopInv({})
      /\ ReconcilerPhases \subseteq Phases /\ costs' \in {costs, costs + 1}
  BY TypeParts DEF BaseInv, LoopInv, LeakInv, Counts
<1>1. /\ Alive' = Alive \cup {n} /\ n \notin Alive /\ pc[w] = "create" /\ cr' = cr
  BY AliveGiven DEF NameStep, Begins, TakesName
<1>2. /\ pc'[w] = "created" /\ mem'[w].obj.extName = n
      /\ \A v \in Workers \ {w} : pc'[v] = pc[v] /\ mem'[v] = mem[v]
  BY <1>0, LoopCreateTypes DEF NameStep
<1>3. Few(Alive, costs) /\ costs' \in Nat /\ costs <= costs'
  <2>1. costs' \in Nat /\ costs <= costs'
    BY <1>0
  <2>2. Few(Alive, costs)
    BY <1>1 DEF LeakInv, PassLeaks
  <2> QED
    BY <2>1, <2>2
<1>4. Few(Alive', costs + 1)
  BY <1>0, <1>1, <1>3, FewAdded
<1>5. Few(Alive', costs' + 1)
  BY <1>0, <1>3, <1>4, FewSubsetNext
<1>6. cr.creation = "pending" /\ \A v \in Workers : Creating(v) => v = w
  BY <1>0, <1>1 DEF LoopInv, PassKnows, Creating
<1>7. \A v \in Workers \ {w} : PassLeaks(v)'
  <2>1. \A v \in Workers \ {w} : ~Creating(v) /\ ~(pc[v] = "absent" /\ mem[v].fresh)
    <3>1. ASSUME NEW v \in Workers \ {w}, pc[v] = "absent", mem[v].fresh
          PROVE  FALSE
      <4>1. cr.creation = mem[v].obj.creation
        BY <1>0, <3>1, LoopFresh
      <4>2. mem[v].obj.creation # "pending"
        BY <1>0, <3>1 DEF LoopInv, PassKnows, Creating
      <4> QED
        BY <1>6, <4>1, <4>2
    <3> QED
      BY <1>6, <3>1
  <2> QED
    BY <1>2, <2>1 DEF PassLeaks, Creating
<1>8. PassLeaks(w)'
  <2>1. Alive' \ {n} \subseteq Alive
    BY <1>1
  <2>2. Few(Alive' \ {n}, costs')
    BY <1>0, <1>3, <2>1, FewSubset
  <2> QED
    BY <1>2, <2>2 DEF PassLeaks
<1>9. \A v \in Workers : PassLeaks(v)'
  BY <1>7, <1>8
<1> QED
  BY <1>1, <1>3, <1>5, <1>6, <1>9 DEF LeakInv

LEMMA WorldLeaks ==
  ASSUME BaseInv, LeakInv, Counts, NEW n \in Names, WorldStep(n)
  PROVE  LeakInv'
<1>0. costs \in Nat /\ UNCHANGED <<cr, mem, pc>> /\ costs' \in {costs, costs + 1}
  BY DEF LeakInv, Counts, WorldStep
<1>1. CASE Ends(n)
  <2>1. Alive' \subseteq Alive
    BY <1>1 DEF Ends
  <2>2. \A v \in Workers : PassLeaks(v)'
    BY <1>0, <2>1, LeaksOfOthers DEF LeakInv
  <2> QED
    BY <1>0, <1>1, <2>2, LeaksEnd
<1>2. CASE Returns(n) /\ Costs
  <2>0. costs' = costs + 1
    BY <1>2 DEF Counts
  <2>1. Alive' = Alive \cup {n}
    BY <1>2 DEF Returns
  <2>2. Few(Alive, costs) => Few(Alive', costs')
    BY <1>0, <2>0, <2>1, FewAdded
  <2>3. ASSUME NEW m, Few(Alive \ {m}, costs)
        PROVE  Few(Alive' \ {m}, costs')
    <3>1. Few((Alive \ {m}) \cup {n}, costs + 1) /\ Alive' \ {m} \subseteq (Alive \ {m}) \cup {n}
      BY <1>0, <2>1, <2>3, FewAdded
    <3>2. costs + 1 \in Nat /\ costs + 1 <= costs' /\ costs' \in Nat
      BY <1>0, <2>0
    <3> QED
      BY <3>1, <3>2, FewSubset
  <2>4. \A v \in Workers : PassLeaks(v)'
    BY <1>0, <2>2, <2>3 DEF PassLeaks, LeakInv
  <2> QED
    BY <1>0, <2>0, <2>1, <2>4, LeaksMore
<1> QED
  BY <1>1, <1>2 DEF WorldStep

LEMMA LeakFirst ==
  ASSUME LeakInit
  PROVE  LeakInv
<1>1. Alive = {}
  BY DEF LeakInit, Init, Alive, Live, Blank, LiveStates
<1>2. costs = 0 /\ cr.extName = NoName /\ \A w \in Workers : pc[w] = "idle"
  BY DEF LeakInit, Init, ReconcilerInit, NewObject
<1>3. Few(Alive, costs) /\ Few(Alive, costs + 1)
  BY <1>1, <1>2, FS_EmptySet DEF Few
<1> QED
  BY <1>2, <1>3 DEF LeakInv, PassLeaks

LEMMA LeakStep ==
  ASSUME BaseInv, LeakInv, [LeakNext]_leakVars
  PROVE  LeakInv'
<1>1. CASE UNCHANGED leakVars
  <2>1. Alive' = Alive /\ UNCHANGED <<cr, mem, pc, costs>>
    BY <1>1, NothingChanges DEF leakVars, vars, Steady
  <2> QED
    BY <2>1 DEF LeakInv, PassLeaks
<1>2. CASE LeakNext
  <2>1. NextForm /\ Counts
    BY <1>2, NextForms DEF BaseInv, LeakNext
  <2>2. CASE UNCHANGED vars
    <3>1. Alive' = Alive /\ UNCHANGED <<cr, mem, pc>>
      BY <2>2, NothingChanges DEF vars, Steady
    <3>2. costs' \in {costs, costs + 1} /\ costs \in Nat
      BY <2>1 DEF Counts, LeakInv
    <3>3. \A v \in Workers : PassLeaks(v)'
      BY <3>1, <3>2, LeaksOfOthers DEF LeakInv
    <3> QED
      BY <3>1, <3>2, <3>3, LeaksSame DEF LeakInv
  <2> QED
    BY <2>1, <2>2, LoopLeaks, TouchLeaks, LateLeaks, NameLeaks, UserLeaks, WorldLeaks DEF NextForm
<1> QED
  BY <1>1, <1>2

\* However many replies are lost, errors misread and instances restored, and whatever
\* else goes wrong, each of these leaves at most one instance more alive than the one the
\* CR has: crashes, failed calls, lost annotations and drift leave none, and a leak does
\* not make the controller leak again.
THEOREM BoundsLeaks == LeakSpec => []LeaksBounded
<1>1. LeakInit => LeakInv
  BY LeakFirst
<1>2. BaseInv /\ LeakInv /\ [LeakNext]_leakVars => LeakInv'
  BY LeakStep
<1>3. BaseInv /\ LeakInv => LeaksBounded
  <2>1. ASSUME BaseInv, LeakInv
        PROVE  LeaksBounded
    <3>1. Cardinality(Alive) <= costs + 1 /\ costs \in Nat /\ Cardinality(Alive) \in Nat
      BY <2>1, FS_CardinalityType DEF LeakInv, Few
    <3>2. Cardinality(Alive) <= 1 + costs
      BY <3>1
    <3> QED
      BY <3>2 DEF LeaksBounded, Alive
  <2> QED
    BY <2>1
<1>4. LeakInit => Init
  BY DEF LeakInit
<1>5. [LeakNext]_leakVars => [Next]_vars
  BY DEF LeakNext, leakVars
<1>6. LeakSpec => Spec
  BY <1>4, <1>5, PTL DEF LeakSpec, Spec
<1> QED
  BY <1>1, <1>2, <1>3, <1>6, BaseCorrect, PTL DEF LeakSpec

-----------------------------------------------------------------------------
(***************************************************************************)
(* Only what somebody asked to delete is taken down                        *)
(***************************************************************************)
\* A copy marked for deletion that names what the CR names is right about the mark.
MarkRight(o) ==
  o.deleting /\ o.extName # NoName /\ o.extName = cr.extName => cr.deleting

\* While a creation runs the CR keeps the name it had, and the name it is to get is
\* known to the pass alone.
NewName(w) ==
  /\ pc[w] \in {"create", "createFailed"} => mem[w].obj.extName = cr.extName
  /\ pc[w] = "created" =>
       /\ mem[w].obj.extName \in Names \ {cr.extName}
       /\ \A v \in Workers : cache[v].obj.extName # mem[w].obj.extName
       /\ \A v \in Workers \ {w} : mem[v].obj.extName # mem[w].obj.extName

MarksInv ==
  \A w \in Workers : /\ MarkRight(cache[w].obj) /\ MarkRight(mem[w].obj)
                     /\ NewName(w)

\* The mark stays while the name does.
LEMMA MarkStays ==
  ASSUME NEW o, MarkRight(o), cr'.extName = cr.extName \/ cr'.extName = NoName,
         cr.deleting => cr'.deleting \/ cr'.extName = NoName
  PROVE  /\ o.deleting /\ o.extName # NoName /\ o.extName = cr'.extName => cr'.deleting
BY DEF MarkRight

LEMMA LoopMarks ==
  ASSUME BaseInv, MarksInv, NEW w \in Workers, LoopStep(w)
  PROVE  MarksInv'
<1>0. /\ FreshIsCurrent /\ LoopType(SpecType, Phases) /\ UserSpecs \subseteq SpecType
      /\ ReconcilerPhases \subseteq Phases /\ LoopInv({})
      /\ cr.extName \in Names \cup {NoName}
  BY TypeParts DEF BaseInv, LoopInv, TypeOK, Objects
<1>1. /\ \A v \in Workers \ {w} : pc'[v] = pc[v] /\ mem'[v].obj = mem[v].obj
      /\ pc'[w] \notin {"idle", "observe", "refuse", "finish"} =>
              /\ Same(mem'[w].obj, mem[w].obj)
              /\ pc'[w] # pc[w] =>
                   /\ pc[w] = "absent" /\ pc'[w] = "create"
                   /\ mem'[w].obj = cr' /\ Same(cr', cr)
  BY <1>0, LoopKeepsTypes
<1>2. /\ \/ Same(cr', cr)
         \/ cr' = NoObject /\ pc[w] = "absent"
         \/ /\ pc[w] \in {"created", "createFailed"} /\ pc'[w] = "finish"
            /\ mem'[w].obj = cr' /\ cr'.deleting = cr.deleting
            /\ cr'.extName = IF mem[w].obj.extName = NoName THEN cr.extName
                             ELSE mem[w].obj.extName
      /\ \A v \in Workers : cache'[v].obj \in {cache[v].obj, cr}
      /\ \/ Same(mem'[w].obj, mem[w].obj) /\ pc'[w] \in {pc[w], "finish"}
         \/ mem'[w].obj = cache[w].obj
         \/ mem'[w].obj = cr' \/ mem'[w].obj = NoObject
  BY <1>0, LoopSources
<1>3. NoObject.extName = NoName /\ ~NoObject.deleting
  BY <1>0, LoopNoObjectType
<1>4. ASSUME NEW v \in Workers, Creating(v)'
      PROVE  cr' # NoObject
  <2>1. LoopInv({})'
    BY <1>0, LoopKeepsInv
  <2>2. cr'.creation = "pending"
    BY <1>4, <2>1 DEF LoopInv, PassKnows
  <2> QED
    BY <1>0, <2>2, LoopNoObjectType
<1>5. ASSUME NEW v \in Workers, v # w, Creating(v)
      PROVE  ~Creating(w)
  BY <1>0, <1>5 DEF LoopInv, PassKnows
<1>6. cr'.extName \in {cr.extName, NoName} \/ (pc[w] = "created" /\ cr'.extName = mem[w].obj.extName)
  BY <1>2, <1>3 DEF Same, MarksInv, NewName
<1>7. cr.deleting => cr'.deleting \/ cr'.extName = NoName
  BY <1>2, <1>3 DEF Same
<1>8. \A v \in Workers : cache'[v].obj.deleting /\ cache'[v].obj.extName # NoName
                                /\ cache'[v].obj.extName = cr'.extName => cr'.deleting
  <2>1. ASSUME NEW o, MarkRight(o), pc[w] = "created" => o.extName # mem[w].obj.extName
        PROVE  o.deleting /\ o.extName # NoName /\ o.extName = cr'.extName => cr'.deleting
    BY <1>6, <1>7, <2>1, MarkStays
  <2>2. \A v \in Workers :
          /\ MarkRight(cache[v].obj)
          /\ pc[w] = "created" => cache[v].obj.extName # mem[w].obj.extName
    BY DEF MarksInv, NewName
  <2>3. MarkRight(cr) /\ (pc[w] = "created" => cr.extName # mem[w].obj.extName)
    BY DEF MarksInv, NewName, MarkRight
  <2> QED
    BY <1>2, <2>1, <2>2, <2>3 DEF MarkRight
<1>9. \A v \in Workers : mem'[v].obj.deleting /\ mem'[v].obj.extName # NoName
                                /\ mem'[v].obj.extName = cr'.extName => cr'.deleting
  <2>1. ASSUME NEW o, MarkRight(o), pc[w] = "created" => o.extName # mem[w].obj.extName
        PROVE  o.deleting /\ o.extName # NoName /\ o.extName = cr'.extName => cr'.deleting
    BY <1>6, <1>7, <2>1, MarkStays
  <2>2. \A v \in Workers \ {w} :
          /\ MarkRight(mem[v].obj)
          /\ pc[w] = "created" => mem[v].obj.extName # mem[w].obj.extName
    BY DEF MarksInv, NewName
  <2>3. MarkRight(cache[w].obj) /\ (pc[w] = "created" => cache[w].obj.extName # mem[w].obj.extName)
    BY DEF MarksInv, NewName
  <2>4. CASE mem'[w].obj \in {cr', NoObject}
    BY <1>1, <1>3, <2>1, <2>2, <2>4 DEF MarkRight
  <2>5. CASE mem'[w].obj = cache[w].obj
    BY <1>1, <2>1, <2>2, <2>3, <2>5 DEF MarkRight
  <2>6. CASE Same(mem'[w].obj, mem[w].obj) /\ mem'[w].obj # cr'
    <3>1. CASE cr'.extName \in {cr.extName, NoName}
      <4>1. MarkRight(mem[w].obj)
        BY DEF MarksInv
      <4>2. mem[w].obj.deleting /\ mem[w].obj.extName # NoName /\ mem[w].obj.extName = cr'.extName
              => cr'.deleting
        BY <1>7, <3>1, <4>1, MarkStays
      <4> QED
        BY <1>1, <2>1, <2>2, <2>6, <4>2, <3>1 DEF MarkRight, Same
    <3>2. CASE cr'.extName \notin {cr.extName, NoName}
      BY <1>2, <1>3, <2>6, <3>2 DEF Same
    <3> QED
      BY <3>1, <3>2
  <2> QED
    BY <1>2, <2>4, <2>5, <2>6
<1>10. NewName(w)'
  <2>1. CASE pc'[w] # pc[w]
    BY <1>1, <2>1 DEF NewName
  <2>2. CASE pc'[w] = pc[w] /\ pc[w] \in {"create", "createFailed", "created"}
    <3>1. Same(mem'[w].obj, mem[w].obj) /\ Same(cr', cr)
      BY <1>1, <1>2, <2>2
    <3> QED
      BY <1>1, <1>2, <2>2, <3>1 DEF NewName, MarksInv, Same
  <2> QED
    BY <2>1, <2>2 DEF NewName
<1>11. ASSUME NEW v \in Workers, v # w
       PROVE  NewName(v)'
  <2>1. pc'[v] = pc[v] /\ mem'[v].obj = mem[v].obj
    BY <1>1, <1>11
  <2>2. CASE ~Creating(v)
    BY <2>1, <2>2 DEF NewName, Creating
  <2>3. CASE Creating(v)
    <3>1. Same(cr', cr)
      BY <1>2, <1>4, <1>5, <1>11, <2>1, <2>3 DEF Creating
    <3>2. pc[v] = "created" => /\ mem'[w].obj.extName # mem[v].obj.extName
                               /\ \A u \in Workers \ {v} : mem'[u].obj.extName # mem[v].obj.extName
      BY <1>0, <1>1, <1>2, <1>3, <1>11, <3>1, ReconcilerAssumption DEF Same, MarksInv, NewName
    <3> QED
      BY <1>2, <2>1, <3>1, <3>2 DEF Same, MarksInv, NewName
  <2> QED
    BY <2>2, <2>3
<1> QED
  BY <1>8, <1>9, <1>10, <1>11 DEF MarksInv, MarkRight

\* The CR keeps its name, or loses it while nothing is created; the copies say what they
\* said or what it says.
LEMMA StepMarks ==
  ASSUME MarksInv, NEW w \in Workers,
         \/ cr'.extName = cr.extName
         \/ cr'.extName = NoName /\ \A v \in Workers : ~Creating(v),
         cr.deleting => cr'.deleting \/ cr'.extName = NoName,
         \A v \in Workers : cache'[v].obj = cache[v].obj,
         \A v \in Workers \ {w} : pc'[v] = pc[v] /\ mem'[v].obj = mem[v].obj,
         \/ /\ mem'[w].obj.extName = mem[w].obj.extName
            /\ mem'[w].obj.deleting = mem[w].obj.deleting
         \/ /\ mem'[w].obj.extName = cr'.extName /\ mem'[w].obj.deleting = cr'.deleting
            /\ cr'.extName = cr.extName,
         \/ pc'[w] = pc[w] /\ mem'[w].obj.extName = mem[w].obj.extName
         \/ /\ pc[w] = "create" /\ pc'[w] = "createFailed"
            /\ mem'[w].obj.extName = mem[w].obj.extName
         \/ pc'[w] \notin {"create", "created", "createFailed"}
  PROVE  MarksInv'
<1>1. \A v \in Workers : MarkRight(cache[v].obj) /\ MarkRight(mem[v].obj) /\ NewName(v)
  BY DEF MarksInv
<1>2. ASSUME NEW v \in Workers
      PROVE  /\ cache'[v].obj.deleting /\ cache'[v].obj.extName # NoName
                  /\ cache'[v].obj.extName = cr'.extName => cr'.deleting
             /\ mem'[v].obj.deleting /\ mem'[v].obj.extName # NoName
                  /\ mem'[v].obj.extName = cr'.extName => cr'.deleting
  BY <1>1, MarkStays DEF MarkRight
<1>3. ASSUME NEW v \in Workers
      PROVE  NewName(v)'
  <2>1. CASE ~Creating(v)'
    BY <2>1 DEF NewName, Creating
  <2>2. CASE Creating(v)'
    <3>1. /\ Creating(v) /\ cr'.extName = cr.extName /\ mem'[v].obj.extName = mem[v].obj.extName
          /\ pc'[v] \in {"create", "createFailed"} => pc[v] \in {"create", "createFailed"}
          /\ pc'[v] = "created" => pc[v] = "created"
      BY <2>2 DEF Creating
    <3>2. \A u \in Workers : mem'[u].obj.extName \in {mem[u].obj.extName, cr.extName}
      OBVIOUS
    <3>3. pc[v] = "created" =>
            \A u \in Workers \ {v} : mem'[u].obj.extName # mem[v].obj.extName
      BY <1>1, <3>2 DEF NewName
    <3> QED
      BY <1>1, <3>1, <3>3 DEF NewName
  <2> QED
    BY <2>1, <2>2
<1> QED
  BY <1>2, <1>3 DEF MarksInv, MarkRight

LEMMA TouchMarks ==
  ASSUME BaseInv, MarksInv, NEW w \in Workers, NEW p \in Phases, TouchStep(w, p)
  PROVE  MarksInv'
<1>0. LoopType(SpecType, Phases) /\ Touches(w, p)
  BY TypeParts, TouchPhases DEF BaseInv
<1>1. UNCHANGED <<cr, cache>>
  BY <1>0 DEF Touches
<1>2. /\ pc'[w] = p /\ \A v \in Workers \ {w} : pc'[v] = pc[v] /\ mem'[v] = mem[v]
      /\ mem'[w].obj.extName = mem[w].obj.extName
      /\ mem'[w].obj.deleting = mem[w].obj.deleting
  BY <1>0, LoopTouchTypes DEF Same
<1>3. p \in {"create", "created", "createFailed"} => pc[w] = "create" /\ p = "createFailed"
  BY TouchPhases
<1> QED
  BY <1>1, <1>2, <1>3, StepMarks

LEMMA LateMarks ==
  ASSUME BaseInv, MarksInv, NEW w \in Workers, NEW s \in SpecType, LateStep(w, s)
  PROVE  MarksInv'
<1>0. LoopType(SpecType, Phases) /\ LoopInv({}) /\ cr.ready \in BOOLEAN
  BY TypeParts DEF BaseInv
<1>1. /\ "compare" \in Phases /\ SpecWritten(w, s, cr.ready, "compare")
      /\ pc[w] \notin {"idle", "refuse", "create", "created", "createFailed", "finish"}
  BY DEF Phases, KindPhases, LateStep
<1>2. /\ pc'[w] = "compare"
      /\ \A v \in Workers \ {w} : pc'[v] = pc[v] /\ mem'[v].obj = mem[v].obj
      /\ \A v \in Workers : cache'[v].obj = cache[v].obj
      /\ cr'.extName = cr.extName /\ cr'.deleting = cr.deleting
      /\ Same(mem'[w].obj, cr')
  BY <1>0, <1>1, LoopSpecWritten
<1>3. mem'[w].obj.extName = cr'.extName /\ mem'[w].obj.deleting = cr'.deleting
  BY <1>2 DEF Same
<1> QED
  BY <1>2, <1>3, StepMarks

LEMMA UserMarks ==
  ASSUME BaseInv, MarksInv, UserStep
  PROVE  MarksInv'
<1>0. /\ LoopType(SpecType, Phases) /\ UserStepOver(SpecType)
      /\ UserSpecs \subseteq SpecType /\ LoopInv({})
  BY TypeParts DEF BaseInv, UserStep, UserStepOver
<1>1. /\ pc' = pc
      /\ \A v \in Workers : mem'[v].obj = mem[v].obj /\ cache'[v].obj = cache[v].obj
      /\ \/ cr' = NoObject /\ ~cr.finalizer
         \/ (\E s \in SpecType : cr' = NewObject(s)) /\ ~cr.present
         \/ /\ cr'.extName = cr.extName
            /\ cr'.deleting = cr.deleting \/ cr'.deleting
  BY <1>0, LoopUserForms
<1>2. ~(cr.present /\ cr.finalizer) => \A v \in Workers : ~Creating(v)
  BY <1>0 DEF LoopInv, PassKnows
<1>3. NoObject.extName = NoName /\ \A s : NewObject(s).extName = NoName
  BY <1>0, LoopNoObjectType DEF NewObject
<1>4. /\ \/ cr'.extName = cr.extName
         \/ cr'.extName = NoName /\ \A v \in Workers : ~Creating(v)
      /\ cr.deleting => cr'.deleting \/ cr'.extName = NoName
  BY <1>1, <1>2, <1>3
<1>5. CASE Workers = {}
  BY <1>5 DEF MarksInv
<1>6. ASSUME NEW w \in Workers
      PROVE  MarksInv'
  BY <1>1, <1>4, StepMarks
<1> QED
  BY <1>5, <1>6

LEMMA NameMarks ==
  ASSUME BaseInv, MarksInv, NEW w \in Workers, NEW n \in Names, NameStep(w, n)
  PROVE  MarksInv'
<1>0. /\ LoopType(SpecType, Phases) /\ ReconcilerPhases \subseteq Phases /\ LoopInv({})
      /\ CopiesInv({}, Given) /\ n \notin Given \cup {NoName}
  BY TypeParts, ReconcilerAssumption DEF BaseInv, NameStep, Begins
<1>1. /\ pc'[w] = "created" /\ mem'[w].obj.extName = n
      /\ \A v \in Workers \ {w} : pc'[v] = pc[v] /\ mem'[v] = mem[v]
      /\ UNCHANGED <<cr, cache>>
  BY <1>0, LoopCreateTypes DEF NameStep, TakesName
<1>2. /\ cr.extName # n
      /\ \A v \in Workers : mem[v].obj.extName # n /\ cache[v].obj.extName # n
  BY <1>0 DEF CopiesInv
<1>3. \A v \in Workers \ {w} : ~Creating(v)
  BY <1>0 DEF LoopInv, PassKnows, Creating, NameStep, TakesName
<1>4. NewName(w)' /\ \A v \in Workers \ {w} : NewName(v)'
  BY <1>1, <1>2, <1>3 DEF NewName, Creating
<1> QED
  BY <1>1, <1>2, <1>4 DEF MarksInv, MarkRight

LEMMA MarksStep ==
  ASSUME BaseInv, MarksInv, [Next]_vars
  PROVE  MarksInv'
<1>1. NextForm
  BY NextForms DEF BaseInv
<1>2. CASE (\E n \in Names : WorldStep(n)) \/ UNCHANGED vars
  <2>1. UNCHANGED <<cr, cache, mem, pc>>
    BY <1>2 DEF WorldStep, vars
  <2> QED
    BY <2>1 DEF MarksInv, MarkRight, NewName
<1> QED
  BY <1>1, <1>2, LoopMarks, TouchMarks, LateMarks, UserMarks, NameMarks DEF NextForm

LEMMA MarksInit == Init => MarksInv
BY LoopNoObjectType, ResourceInstanceAssumption
   DEF Init, ReconcilerInit, MarksInv, MarkRight, NewName

LEMMA MarksCorrect == Spec => []MarksInv
BY BaseCorrect, MarksInit, MarksStep, PTL DEF Spec

\* What a deletion takes down is what the copy it works from names.
LEMMA DeleteTarget ==
  ASSUME TypeOK, NEW w \in Workers, Delete(w), NEW n \in Names, Live(n), ~Live(n)'
  PROVE  n = Id(w) /\ mem[w].obj.deleting /\ pc[w] \in {"current", "outdated"}
<1>1. inst \in [Names -> Instances] /\ inst' # inst
  BY DEF TypeOK, Live
<1>2. \E i : inst' = [inst EXCEPT ![Id(w)] = i]
  BY <1>1 DEF Delete
<1>3. inst'[n] # inst[n]
  BY DEF Live
<1> QED
  BY <1>1, <1>2, <1>3 DEF Delete

\* Whatever the faults leaked, the controller never takes down the instance that the CR
\* names while nobody asks for its deletion: a copy of the CR, however old, that is
\* marked for deletion either names something else or is right about the mark.
THEOREM KeepsWanted == Spec => NeverDeletesWanted
<1>1. ASSUME BaseInv, MarksInv, NEW n \in Names, NEW w \in Workers, Delete(w), Live(n), ~Live(n)'
      PROVE  ~(cr.present /\ ~cr.deleting /\ cr.extName = n)
  <2>1. n = Id(w) /\ mem[w].obj.deleting /\ n # NoName
    BY <1>1, DeleteTarget, ReconcilerAssumption DEF BaseInv
  <2> QED
    BY <1>1, <2>1 DEF MarksInv, MarkRight, Id
<1>2. BaseInv /\ MarksInv /\ [Next]_vars =>
        [\A n \in Names :
           (\E w \in Workers : Delete(w)) /\ Live(n) /\ ~Live(n)'
             => ~(cr.present /\ ~cr.deleting /\ cr.extName = n)]_vars
  BY <1>1
<1> QED
  BY <1>2, BaseCorrect, MarksCorrect, PTL DEF Spec, NeverDeletesWanted

-----------------------------------------------------------------------------
(***************************************************************************)
(* Without the three faults that leak, a deletion is that of the CR's own  *)
(***************************************************************************)
LiveInv == LoopInv(Alive) /\ CopiesInv(Alive, Given)

LEMMA LiveStep ==
  ASSUME Trustworthy, BaseInv, LiveInv, [Next]_vars
  PROVE  LiveInv'
<1>0. TypeOK /\ NextForm /\ LoopInv(Alive) /\ CopiesInv(Alive, Given) /\ Alive \subseteq Names
  BY NextForms, AliveGiven DEF BaseInv, LiveInv
<1>1. PICK L : L = Alive
  OBVIOUS
<1>2. PICK G : G = Given
  OBVIOUS
<1>3. PICK M : M = Alive'
  OBVIOUS
<1>4. PICK H : H = Given'
  OBVIOUS
<1>5. ASSUME NEW w \in Workers, NEW n \in Names, NameStep(w, n)
      PROVE  M \subseteq {n}
  <2>1. L = {} /\ Alive' = Alive \cup {n}
    BY <1>0, <1>1, <1>5 DEF NameStep, Begins, TakesName, LoopInv, PassKnows
  <2> QED
    BY <1>1, <1>3, <2>1
<1>6. M \subseteq L \/ \E w \in Workers, n \in Names : NameStep(w, n)
  <2>1. UNCHANGED inst => Steady
    BY NothingChanges
  <2>2. Steady \/ (\E n : Ends(n)) => Alive' \subseteq Alive
    BY DEF Steady, Ends
  <2>3. "lost" \notin FaultKinds /\ "restore" \notin FaultKinds
    BY DEF Trustworthy
  <2>4. Alive' \subseteq Alive \/ \E w \in Workers, n \in Names : NameStep(w, n)
    BY <1>0, <2>1, <2>2, <2>3
       DEF NextForm, TouchStep, Looks, Updates, TakesDown, Tries, LateStep, WorldStep, vars
  <2> QED
    BY <1>1, <1>3, <2>4
<1>7. \A w \in Workers : TouchStep(w, "absent") => Id(w) \notin L
  BY <1>1 DEF TouchStep, Looks, Updates, TakesDown, Tries, Trustworthy
<1>8. LoopInv(M)' /\ CopiesInv(M, H)'
  BY <1>0, <1>1, <1>2, <1>4, <1>5, <1>6, <1>7, LoopNext
<1>9. CopiesInv(Alive, Given)'
  BY <1>3, <1>4, <1>8, CopiesNext
<1>10. LoopInv(Alive)'
  BY <1>3, <1>8 DEF LoopInv, PassKnows, AccountedFor, AtMostOne
<1> QED
  BY <1>9, <1>10 DEF LiveInv

LEMMA LiveInit ==
  ASSUME Init
  PROVE  LiveInv
<1>1. Alive = {}
  BY DEF Init, Alive, Live, Blank, LiveStates
<1> QED
  BY <1>1, BaseInit DEF BaseInv, LiveInv

\* The controller takes an instance down only if the CR that names it is being deleted
\* now, though the pass that does it may work from an older copy of the CR.
THEOREM DeletesOnRequest ==
  ASSUME Trustworthy
  PROVE  Spec => DeletedOnRequest
<1>1. Init => LiveInv
  BY LiveInit
<1>2. BaseInv /\ LiveInv /\ [Next]_vars => LiveInv'
  BY LiveStep
<1>3. ASSUME BaseInv, LiveInv, NEW n \in Names, NEW w \in Workers, Delete(w), Live(n), ~Live(n)'
      PROVE  cr.deleting /\ cr.extName = n
  <2>1. n = Id(w) /\ mem[w].obj.deleting /\ pc[w] \in {"current", "outdated"}
    BY <1>3, DeleteTarget DEF BaseInv
  <2>2. n \in Alive
    BY <1>3 DEF Alive
  <2>3. CopyRight(mem[w].obj, Alive)
    BY <1>3, <2>1 DEF LiveInv, CopiesInv
  <2> QED
    BY <2>1, <2>2, <2>3 DEF CopyRight, Id
<1>4. BaseInv /\ LiveInv /\ [Next]_vars =>
        [\A n \in Names :
           (\E w \in Workers : Delete(w)) /\ Live(n) /\ ~Live(n)'
             => cr.deleting /\ cr.extName = n]_vars
  BY <1>3
<1> QED
  BY <1>1, <1>2, <1>4, BaseCorrect, PTL DEF Spec, DeletedOnRequest
=============================================================================
