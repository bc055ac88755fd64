--------------------- MODULE ResourceInstance_refinement ---------------------
(***************************************************************************)
(* Proof that ResourceInstance implements ExternalResource: every step of  *)
(* the controller, of the loop that runs it, of the users and of the cloud *)
(* is a step of the abstract specification or leaves its state alone.      *)
(* Beside the invariant of ResourceInstance_proofs it takes what an old    *)
(* copy that is marked for deletion says about the CR (DeletionKnown).     *)
(***************************************************************************)
EXTENDS ResourceInstance_proofs

RInv == IInv /\ DeletionKnown

\* What the abstract state and DeletionKnown see of a copy.
Same(o, p) == o.deleting = p.deleting /\ o.extName = p.extName

-----------------------------------------------------------------------------
(***************************************************************************)
(* Old copies that are marked for deletion                                 *)
(***************************************************************************)
\* A step keeps DeletionKnown if every copy it leaves says of names and deletion what
\* one said before or what the CR says now, if it brings no instance to life, and if
\* it does not take back a deletion.
LEMMA KnownStep ==
  ASSUME TypeOK', DeletionKnown,
         \A v \in Workers : \/ Same(mem'[v].obj, mem[v].obj)
                            \/ Same(mem'[v].obj, cache[v].obj)
                            \/ Same(mem'[v].obj, cr')
                            \/ mem'[v].obj.extName = NoName,
         \A v \in Workers : Same(cache'[v].obj, cache[v].obj) \/ Same(cache'[v].obj, cr'),
         \A n \in Names : Live(n)' => Live(n),
         cr.deleting => cr'.deleting \/ \A n \in Names : ~Live(n),
         \A v \in Workers : pc'[v] = "create" => ~mem'[v].obj.deleting
  PROVE  DeletionKnown'
<1> SUFFICES ASSUME NEW v \in Workers, (Marked(mem[v].obj) \/ Marked(cache[v].obj))'
             PROVE  cr'.deleting
  BY DEF DeletionKnown
<1>1. ~Live(NoName)' /\ /\ mem'[v].obj.extName \in Names \cup {NoName}
                        /\ cache'[v].obj.extName \in Names \cup {NoName}
  BY DEF Live, TypeOK, Copies, Objects
<1>2. CASE Marked(cache[v].obj)'
  BY <1>1, <1>2 DEF Marked, Same, DeletionKnown
<1>3. CASE Marked(mem[v].obj)'
  BY <1>1, <1>3 DEF Marked, Same, DeletionKnown
<1> QED BY <1>2, <1>3


\* A step that writes nothing to the API server and brings no instance to life.
LEMMA QuietKnown ==
  ASSUME TypeOK', DeletionKnown, UNCHANGED <<cr, cache>>,
         \A v \in Workers : \/ Same(mem'[v].obj, mem[v].obj)
                            \/ mem'[v].obj.extName = NoName,
         \A n \in Names : Live(n)' => Live(n),
         \A v \in Workers : pc'[v] = "create" =>
           pc[v] = "create" /\ Same(mem'[v].obj, mem[v].obj)
  PROVE  DeletionKnown'
<1>1. \A v \in Workers : Same(cache'[v].obj, cache[v].obj)
  BY DEF Same
<1>2. \A v \in Workers : pc'[v] = "create" => ~mem'[v].obj.deleting
  BY DEF DeletionKnown, Same
<1> QED
  BY <1>1, <1>2, KnownStep

\* A write to the API server by worker w, which goes on with what it wrote.
LEMMA PutKnown ==
  ASSUME TypeOK, TypeOK', DeletionKnown, NEW w \in Workers, NEW o \in Objects(SpecType),
         NEW c \in Copies(SpecType), Put(w, o, c), UNCHANGED inst,
         Same(c.obj, o) \/ c.obj.extName = NoName,
         cr.deleting => o.deleting \/ \A n \in Names : ~Live(n),
         NEW p, pc' = [pc EXCEPT ![w] = p],
         p = "create" => ~c.obj.deleting
  PROVE  DeletionKnown'
<1>1. cr' = o /\ mem'[w] = c /\ \A v \in Workers \ {w} : mem'[v].obj = mem[v].obj
  BY PutType DEF Put
<1>2. \A v \in Workers : cache'[v].obj = cache[v].obj
  BY StaleType DEF Put, TypeOK
<1>3. \A v \in Workers : \/ Same(mem'[v].obj, mem[v].obj)
                         \/ Same(mem'[v].obj, cr')
                         \/ mem'[v].obj.extName = NoName
  BY <1>1 DEF Same
<1>4. \A v \in Workers : Same(cache'[v].obj, cache[v].obj)
  BY <1>2 DEF Same
<1>5. \A n \in Names : Live(n)' => Live(n)
  BY DEF Live
<1>6. \A v \in Workers : pc'[v] = "create" => ~mem'[v].obj.deleting
  <2>1. \A v \in Workers \ {w} : pc'[v] = pc[v]
    BY DEF TypeOK
  <2>2. pc'[w] = p
    BY DEF TypeOK
  <2> QED
    BY <1>1, <2>1, <2>2 DEF DeletionKnown
<1> QED
  BY <1>1, <1>3, <1>4, <1>5, <1>6, KnownStep

\* The same for client.Update of the worker's own copy.
LEMMA ClientUpdateKnown ==
  ASSUME IInv, TypeOK', DeletionKnown, NEW w \in Workers, pc[w] # "created", UNCHANGED inst,
         NEW o \in Objects(SpecType), Same(o, Sent(w)),
         NEW p, p = "create" => ~o.deleting, ClientUpdate(w, o, p)
  PROVE  DeletionKnown' /\ (cr'.deleting = cr.deleting)
<1>0. TypeOK
  BY DEF IInv
<1>1. CASE mem[w].fresh
  <2>1. Sent(w) = cr
    BY <1>0, <1>1, FreshFields DEF IInv
  <2>2. Put(w, o, [obj |-> o, fresh |-> TRUE]) /\ pc' = [pc EXCEPT ![w] = p]
    BY <1>1 DEF ClientUpdate, Go
  <2>3. [obj |-> o, fresh |-> TRUE] \in Copies(SpecType)
    BY DEF Copies
  <2>4. DeletionKnown'
    BY <1>0, <2>1, <2>2, <2>3, PutKnown DEF Same
  <2> QED
    BY <2>1, <2>2, <2>4 DEF Put, Same
<1>2. CASE ~mem[w].fresh
  <2>1. UNCHANGED <<cr, cache, mem>> /\ pc' = [pc EXCEPT ![w] = "finish"]
    BY <1>2 DEF ClientUpdate, Go
  <2>2. \A v \in Workers : pc'[v] = "create" => pc[v] = "create"
    BY <1>0, <2>1 DEF TypeOK
  <2>3. \A v \in Workers : Same(mem'[v].obj, mem[v].obj)
    BY <2>1 DEF Same
  <2>4. \A n \in Names : Live(n)' => Live(n)
    BY DEF Live
  <2> QED
    BY <2>1, <2>2, <2>3, <2>4, QuietKnown
<1> QED
  BY <1>1, <1>2

-----------------------------------------------------------------------------
(***************************************************************************)
(* Steps that leave the abstract state alone                               *)
(***************************************************************************)
\* A step maps to a step of ExternalResource, or leaves its state alone.
AbstractStep == [Resource!Next]_(Resource!vars)

LEMMA Stutter ==
  ASSUME UNCHANGED <<cr.present, cr.deleting>>,
         \A n \in Names : Live(n)' <=> Live(n)
  PROVE  AbstractStep
<1>1. UNCHANGED <<Claim, Alive>>
  BY DEF Claim, Alive
<1> QED
  BY <1>1 DEF AbstractStep, Resource!vars

\* Instances that keep their states are alive after a step if they were before.
LEMMA SameStates ==
  ASSUME \A n \in Names : inst'[n].state = inst[n].state
  PROVE  \A n \in Names : Live(n)' <=> Live(n)
BY DEF Live

\* The loop's own writes, but for the removal of the finalizer.
LEMMA LoopRefines ==
  ASSUME IInv, TypeOK', DeletionKnown, NEW w \in Workers, UNCHANGED inst,
         \/ Fetch(w) \/ Refuse(w) \/ AddFinalizer(w) \/ MarkPending(w)
         \/ RecordCreated(w) \/ RecordFailed(w) \/ Finish(w)
         \/ RecordExhausted(w) \/ Crash(w) \/ SyncCache(w)
  PROVE  DeletionKnown' /\ AbstractStep
<1>0. TypeOK /\ (\A n \in Names : Live(n)' <=> Live(n)) /\ (\A v \in Workers : mem[v].obj \in Objects(SpecType))
  BY DEF IInv, Live, TypeOK, Copies
<1> SUFFICES DeletionKnown' /\ UNCHANGED <<cr.present, cr.deleting>>
  BY <1>0, Stutter
<1>1. CASE Fetch(w)
  <2>1. /\ mem' = [mem EXCEPT ![w] = cache[w]] /\ UNCHANGED <<cr, cache>>
        /\ \E p \in {"refuse", "observe"} : pc' = [pc EXCEPT ![w] = p]
    BY <1>1 DEF Fetch, Go
  <2>2. \A v \in Workers : mem'[v] = mem[v] \/ mem'[v] = cache[v]
    BY <1>0, <2>1 DEF TypeOK
  <2>3. \A v \in Workers : pc'[v] = "create" => ~mem'[v].obj.deleting
    BY <1>0, <2>1 DEF TypeOK, DeletionKnown
  <2>4. /\ \A v \in Workers : \/ Same(mem'[v].obj, mem[v].obj)
                              \/ Same(mem'[v].obj, cache[v].obj)
        /\ \A v \in Workers : Same(cache'[v].obj, cache[v].obj)
    BY <2>1, <2>2 DEF Same
  <2> QED
    BY <1>0, <2>1, <2>3, <2>4, KnownStep
<1>2. ASSUME NEW r \in BOOLEAN, UpdateStatus(w, r)
      PROVE  DeletionKnown' /\ UNCHANGED <<cr.present, cr.deleting>>
  <2> DEFINE o == [cr EXCEPT !.ready = r]
  <2>1. /\ o \in Objects(SpecType) /\ o.present = cr.present /\ o.deleting = cr.deleting
        /\ NoCopy \in Copies(SpecType) /\ NoCopy.obj.extName = NoName
    BY <1>0, NoObjectType DEF TypeOK, Objects, NoCopy, NoObject, NewObject
  <2>2. pc' = [pc EXCEPT ![w] = "idle"]
    BY <1>2 DEF UpdateStatus, Go
  <2>3. CASE mem[w].fresh
    <3>1. Put(w, o, NoCopy)
      BY <1>2, <2>3 DEF UpdateStatus
    <3>2. DeletionKnown'
      BY <1>0, <2>1, <2>2, <3>1, PutKnown
    <3> QED
      BY <2>1, <3>1, <3>2 DEF Put
  <2>4. CASE ~mem[w].fresh
    <3>1. mem' = [mem EXCEPT ![w] = NoCopy] /\ UNCHANGED <<cr, cache>>
      BY <1>2, <2>4 DEF UpdateStatus
    <3>2. \A v \in Workers : /\ Same(mem'[v].obj, mem[v].obj) \/ mem'[v].obj.extName = NoName
                             /\ pc'[v] = "create" => /\ pc[v] = "create"
                                                     /\ Same(mem'[v].obj, mem[v].obj)
      BY <1>0, <2>1, <2>2, <3>1 DEF TypeOK, Same
    <3> QED
      BY <1>0, <3>1, <3>2, QuietKnown
  <2> QED
    BY <2>3, <2>4
<1>3. CASE Refuse(w) \/ Finish(w)
  BY <1>0, <1>2, <1>3 DEF Refuse, Finish, Objects
<1>4. CASE AddFinalizer(w)
  <2> DEFINE o == [Sent(w) EXCEPT !.finalizer = TRUE]
  <2>1. o \in Objects(SpecType) /\ Same(o, Sent(w)) /\ o.present = Sent(w).present
    BY <1>0, SentType DEF Objects, Same
  <2>2. pc[w] # "created" /\ pc[w] # "create" /\ ClientUpdate(w, o, pc[w])
    BY <1>4 DEF AddFinalizer
  <2>3. DeletionKnown' /\ cr'.deleting = cr.deleting
    <3> HIDE DEF o
    <3> QED BY <2>1, <2>2, ClientUpdateKnown
  <2>4. cr'.present = cr.present
    BY <1>0, <2>1, <2>2, FreshFields DEF ClientUpdate, Put, IInv
  <2> QED
    BY <2>3, <2>4
<1>5. CASE MarkPending(w)
  <2> DEFINE o == [Sent(w) EXCEPT !.creation = "pending"]
  <2>1. o \in Objects(SpecType) /\ Same(o, Sent(w)) /\ o.present = Sent(w).present
    BY <1>0, SentType DEF Objects, Same, Creation
  <2>2. pc[w] # "created" /\ ClientUpdate(w, o, "create") /\ ~mem[w].obj.deleting
    BY <1>5 DEF MarkPending
  <2>3. ~o.deleting
    BY <1>0, <2>1, <2>2 DEF Sent, Same, Objects
  <2>4. DeletionKnown' /\ cr'.deleting = cr.deleting
    <3> HIDE DEF o
    <3> QED BY <2>1, <2>2, <2>3, ClientUpdateKnown
  <2>5. cr'.present = cr.present
    BY <1>0, <2>1, <2>2, FreshFields DEF ClientUpdate, Put, IInv
  <2> QED
    BY <2>4, <2>5
<1>6. ASSUME NEW r \in {"succeeded", "failed"}, Record(w, r)
      PROVE  DeletionKnown' /\ UNCHANGED <<cr.present, cr.deleting>>
  <2> DEFINE o == [cr EXCEPT !.creation = r,
                             !.extName = IF mem[w].obj.extName = NoName
                                         THEN @ ELSE mem[w].obj.extName]
             c == [obj |-> o, fresh |-> TRUE]
  <2>1. o \in Objects(SpecType) /\ o.present = cr.present /\ o.deleting = cr.deleting
    BY <1>0 DEF TypeOK, Objects, Creation
  <2>2. Put(w, o, c) /\ pc' = [pc EXCEPT ![w] = "finish"]
    BY <1>6 DEF Record, Go
  <2> HIDE DEF o
  <2>3. c \in Copies(SpecType) /\ Same(c.obj, o)
    BY <2>1 DEF Copies, Same
  <2>4. DeletionKnown'
    BY <1>0, <2>1, <2>2, <2>3, PutKnown
  <2> QED
    BY <2>1, <2>2, <2>4 DEF Put
<1>7. CASE RecordCreated(w) \/ RecordFailed(w)
  BY <1>6, <1>7 DEF RecordCreated, RecordFailed
<1>8. CASE RecordExhausted(w) \/ Crash(w)
  <2>1. /\ \/ mem' = [mem EXCEPT ![w] = Stale(mem[w])]
           \/ mem' = [mem EXCEPT ![w] = NoCopy]
        /\ UNCHANGED <<cr, cache>>
        /\ \E p \in {"idle", "finish"} : pc' = [pc EXCEPT ![w] = p]
    BY <1>8 DEF RecordExhausted, Crash, Go
  <2>2. NoCopy.obj.extName = NoName /\ Stale(mem[w]).obj = mem[w].obj
    BY <1>0, StaleType DEF NoCopy, NoObject, NewObject, TypeOK
  <2>3. \A v \in Workers : /\ Same(mem'[v].obj, mem[v].obj) \/ mem'[v].obj.extName = NoName
                           /\ pc'[v] = "create" => /\ pc[v] = "create"
                                                   /\ Same(mem'[v].obj, mem[v].obj)
    BY <1>0, <2>1, <2>2 DEF TypeOK, Same
  <2> QED
    BY <1>0, <2>1, <2>3, QuietKnown
<1>9. CASE SyncCache(w)
  <2>1. /\ \A v \in Workers : Same(mem'[v].obj, mem[v].obj)
        /\ \A v \in Workers : Same(cache'[v].obj, cache[v].obj) \/ Same(cache'[v].obj, cr')
        /\ \A v \in Workers : pc'[v] = "create" => ~mem'[v].obj.deleting
        /\ cr' = cr
    BY <1>0, <1>9 DEF SyncCache, Same, TypeOK, DeletionKnown
  <2> QED
    BY <1>0, <2>1, KnownStep
<1> QED
  BY <1>1, <1>3, <1>4, <1>5, <1>7, <1>8, <1>9

\* The controller's own steps that neither create nor delete.
LEMMA ObserveUpdateRefines ==
  ASSUME IInv, TypeOK', DeletionKnown, NEW w \in Workers,
         \/ ObserveGet(w) \/ ObserveMisread(w) \/ ObserveCompare(w) \/ ObserveFails(w)
         \/ UpdateInstance(w) \/ UpdateListTags(w) \/ UpdateAttach(w) \/ UpdateDetach(w)
         \/ UpdateFails(w) \/ DeleteFails(w) \/ CreateFails(w)
  PROVE  DeletionKnown' /\ AbstractStep
<1>0. TypeOK
  BY DEF IInv
<1>1. \A n \in Names : inst'[n].state = inst[n].state
  <2>1. CASE inst' = inst
    BY <2>1
  <2>2. CASE inst' # inst
    <3>1. Live(Id(w)) /\ (UpdateInstance(w) \/ UpdateAttach(w) \/ UpdateDetach(w))
      BY <2>2 DEF ObserveGet, ObserveMisread, ObserveCompare, ObserveFails, UpdateInstance,
         UpdateListTags, UpdateAttach, UpdateDetach, UpdateFails, DeleteFails, CreateFails
    <3>2. Id(w) \in Names /\ inst[Id(w)] \in Instances
      BY <1>0, <3>1, LiveType, MemSpecType DEF TypeOK
    <3>3. inst'[Id(w)].state = inst[Id(w)].state
          /\ \A n \in Names : n # Id(w) => inst'[n] = inst[n]
      <4>1. CASE UpdateInstance(w)
        BY <1>0, <2>2, <3>2, <4>1 DEF UpdateInstance, TypeOK, Instances
      <4>2. CASE UpdateAttach(w) \/ UpdateDetach(w)
        BY <1>0, <2>2, <3>2, <4>2 DEF UpdateAttach, UpdateDetach, TypeOK, Instances
      <4> QED
        BY <3>1, <4>1, <4>2
    <3> QED
      BY <3>3
  <2> QED
    BY <2>1, <2>2
<1>2. \A n \in Names : Live(n)' <=> Live(n)
  BY <1>1, SameStates
<1>3. /\ UNCHANGED <<cr, cache>>
      /\ \/ mem' = mem
         \/ \E r \in BOOLEAN : mem' = [mem EXCEPT ![w].obj.ready = r]
      /\ \E p \in {"lateInit", "absent", "current", "outdated", "finish", "createFailed",
                   "listTags", "attach", "detach"} : pc' = [pc EXCEPT ![w] = p]
  <2>1. mem[w].obj.ready \in BOOLEAN
    BY <1>0 DEF TypeOK, Copies, Objects
  <2> QED
    BY <2>1 DEF Go, ObserveGet, ObserveMisread, ObserveCompare, ObserveFails, UpdateInstance,
       UpdateListTags, UpdateAttach, UpdateDetach, UpdateFails, DeleteFails, CreateFails
<1>4. \A v \in Workers : /\ Same(mem'[v].obj, mem[v].obj)
                         /\ pc'[v] = "create" => pc[v] = "create"
  <2>1. \A v \in Workers : \E r \in BOOLEAN : mem'[v].obj = [mem[v].obj EXCEPT !.ready = r]
    BY <1>0, <1>3, SameMem, ReadyMem
  <2>2. \A v \in Workers : mem[v].obj \in Objects(SpecType)
    BY <1>0 DEF TypeOK, Copies
  <2>3. \A v \in Workers : Same(mem'[v].obj, mem[v].obj)
    BY <2>1, <2>2 DEF Objects, Same
  <2>4. \A v \in Workers : pc'[v] = "create" => pc[v] = "create"
    BY <1>0, <1>3 DEF TypeOK
  <2> QED
    BY <2>3, <2>4
<1>5. DeletionKnown'
  BY <1>2, <1>3, <1>4, QuietKnown
<1> QED
  BY <1>2, <1>3, <1>5, Stutter

\* Late initialisation writes a spec back, and neither the name nor the deletion.
LEMMA LateInitRefines ==
  ASSUME IInv, TypeOK', DeletionKnown, NEW w \in Workers, ObserveLateInit(w)
  PROVE  DeletionKnown' /\ AbstractStep
<1> DEFINE spec == LateInitializeSpec(mem[w].obj.spec, seen[w], ListTags(Id(w)))
           o == [Sent(w) EXCEPT !.spec = spec]
<1>0. /\ TypeOK /\ pc[w] = "lateInit" /\ UNCHANGED inst
      /\ \A n \in Names : Live(n)' <=> Live(n)
  BY DEF IInv, ObserveLateInit, Live
<1>1. CASE spec = mem[w].obj.spec
  <2>1. UNCHANGED <<cr, cache, mem>> /\ pc' = [pc EXCEPT ![w] = "compare"]
    BY <1>1 DEF ObserveLateInit, Go
  <2>2. \A v \in Workers : /\ Same(mem'[v].obj, mem[v].obj)
                           /\ pc'[v] = "create" => pc[v] = "create"
    BY <1>0, <2>1 DEF TypeOK, Same
  <2> QED
    BY <1>0, <2>1, <2>2, QuietKnown, Stutter
<1>2. CASE spec # mem[w].obj.spec
  <2>1. spec \in SpecType
    <3>1. seen[w] \in Content /\ Id(w) \in Names
      BY <1>0 DEF TypeOK, PassSaw, KindPhases
    <3>2. inst[Id(w)].is.tags \in SUBSET Tags
      BY <1>0, <3>1 DEF TypeOK, Instances, Content, NoContent
    <3> QED
      BY <1>0, <3>1, <3>2, ListTagsType, LateInitType, MemSpecType DEF ListTags
  <2>2. ClientUpdate(w, o, "compare")
    BY <1>2 DEF ObserveLateInit
  <2> HIDE DEF spec
  <2>3. o \in Objects(SpecType) /\ Same(o, Sent(w)) /\ o.present = Sent(w).present
    BY <1>0, <2>1, SentType DEF Objects, Same
  <2> HIDE DEF o
  <2>4. DeletionKnown' /\ cr'.deleting = cr.deleting
    BY <1>0, <2>2, <2>3, ClientUpdateKnown
  <2>5. cr'.present = cr.present
    BY <1>0, <2>2, <2>3, FreshFields DEF ClientUpdate, Put, IInv
  <2> QED
    BY <1>0, <2>4, <2>5, Stutter
<1> QED
  BY <1>1, <1>2

-----------------------------------------------------------------------------
(***************************************************************************)
(* Steps of the abstract specification                                     *)
(***************************************************************************)
\* With at most one instance alive, one that is alive is all there is.
LEMMA AliveIs ==
  ASSUME AtMostOneLive, NEW n \in Names, Live(n)
  PROVE  Alive = {n}
BY DEF AtMostOneLive, Alive

\* The CR goes when its instance is gone.
LEMMA RemoveFinalizerRefines ==
  ASSUME IInv, TypeOK', DeletionKnown, NEW w \in Workers, UNCHANGED inst, RemoveFinalizer(w)
  PROVE  DeletionKnown' /\ AbstractStep
<1>0. TypeOK /\ pc[w] = "absent" /\ \A n \in Names : Live(n)' <=> Live(n)
  BY DEF IInv, RemoveFinalizer, Live
<1>1. CASE mem[w].fresh
  <2>1. Put(w, NoObject, NoCopy) /\ pc' = [pc EXCEPT ![w] = "idle"]
    BY <1>1 DEF RemoveFinalizer, Go
  <2>2. /\ NoObject \in Objects(SpecType) /\ NoCopy \in Copies(SpecType)
        /\ NoCopy.obj.extName = NoName /\ ~NoObject.present
    BY NoObjectType DEF NoCopy, NoObject, NewObject
  <2>3. /\ cr.present /\ cr.extName = mem[w].obj.extName
        /\ cr.creation = mem[w].obj.creation
    BY <1>0, <1>1, FreshFields DEF IInv, FreshIsCurrent
  <2>4. \A n \in Names : ~Live(n)
    BY <1>0, <2>3 DEF IInv, CreatorKnows, Accounted
  <2>5. DeletionKnown'
    BY <1>0, <2>1, <2>2, <2>4, PutKnown
  <2>6. Claim # "none" /\ Claim' = "none" /\ Alive = {} /\ Alive' = {}
    <3>1. cr' = NoObject
      BY <2>1 DEF Put
    <3>2. ~cr'.present
      BY <2>2, <3>1
    <3>3. Claim' = "none" /\ Claim # "none"
      BY <2>3, <3>2 DEF Claim
    <3> QED
      BY <1>0, <2>4, <3>3 DEF Alive
  <2>7. Resource!Release
    BY <2>6 DEF Resource!Release
  <2> QED
    BY <2>5, <2>7 DEF AbstractStep, Resource!Next
<1>2. CASE ~mem[w].fresh
  <2>1. UNCHANGED <<cr, cache, mem>> /\ pc' = [pc EXCEPT ![w] = "finish"]
    BY <1>2 DEF RemoveFinalizer, Go
  <2>2. \A v \in Workers : /\ Same(mem'[v].obj, mem[v].obj)
                           /\ pc'[v] = "create" => pc[v] = "create"
    BY <1>0, <2>1 DEF TypeOK, Same
  <2> QED
    BY <1>0, <2>1, <2>2, QuietKnown, Stutter
<1> QED
  BY <1>1, <1>2

\* The instance that is made is the only one, and made for a CR that is there.
LEMMA CreateRefines ==
  ASSUME IInv, TypeOK', DeletionKnown, NEW w \in Workers, Create(w)
  PROVE  DeletionKnown' /\ AbstractStep
<1>0. TypeOK /\ pc[w] = "create" /\ pc' = [pc EXCEPT ![w] = "created"] /\ UNCHANGED <<cr, cache>>
  BY DEF IInv, Create, Go
<1>1. PICK n \in Names :
        /\ inst[n].state = "none"
        /\ inst' = [inst EXCEPT ![n] = Created(mem[w].obj.spec)]
        /\ mem' = [mem EXCEPT ![w].obj = [@ EXCEPT !.extName = n, !.ready = FALSE]]
  BY DEF Create
<1>2. (\A m \in Names : ~Live(m)) /\ cr.present
  BY <1>0 DEF IInv, CreatorKnows, Creating
<1>3. inst'[n].state = "provisioning" /\ \A m \in Names : m # n => inst'[m] = inst[m]
  BY <1>0, <1>1 DEF TypeOK, Created
<1>4. \A m \in Names : Live(m)' <=> m = n
  BY <1>2, <1>3, ReconcilerAssumption DEF Live, LiveStates
<1>5. DeletionKnown'
  <2>1. mem'[w].obj.deleting = mem[w].obj.deleting /\ ~mem[w].obj.deleting
    <3>1. mem[w].obj \in Objects(SpecType)
      BY <1>0 DEF TypeOK, Copies
    <3> QED
      BY <1>0, <1>1, <3>1 DEF TypeOK, Copies, Objects, DeletionKnown
  <2>2. \A v \in Workers : v # w => mem'[v] = mem[v] /\ pc'[v] = pc[v]
    BY <1>0, <1>1 DEF TypeOK
  <2>3. \A x \in Names \cup {NoName} :
           Known(x) => x = NoName \/ inst'[x].state \notin LiveStates
    BY <1>1, <1>2, <1>3 DEF Known, Live
  <2>4. \A v \in Workers : /\ mem[v].obj.extName \in Names \cup {NoName}
                           /\ cache[v].obj.extName \in Names \cup {NoName}
    BY <1>0 DEF TypeOK, Copies, Objects
  <2>5. ASSUME NEW v \in Workers PROVE ~Marked(cache[v].obj)'
    BY <1>0, <2>3, <2>4 DEF Marked, Live, IInv, NamesAreKnown
  <2>6. ASSUME NEW v \in Workers PROVE ~Marked(mem[v].obj)'
    <3>1. CASE v = w
      BY <2>1, <3>1 DEF Marked
    <3>2. CASE v # w
      BY <2>2, <2>3, <2>4, <3>2 DEF Marked, Live, IInv, NamesAreKnown
    <3> QED
      BY <3>1, <3>2
  <2> QED
    BY <1>0, <2>2, <2>5, <2>6 DEF DeletionKnown, TypeOK
<1>6. Claim # "none" /\ Claim' = Claim /\ Alive = {} /\ Alive' = {n}
  BY <1>0, <1>2, <1>4 DEF Claim, Alive
<1>7. Resource!Make
  BY <1>6 DEF Resource!Make
<1> QED
  BY <1>5, <1>7 DEF AbstractStep, Resource!Next

\* An instance is taken down by the pass of a CR that is being deleted.
LEMMA DeleteRefines ==
  ASSUME IInv, TypeOK', DeletionKnown, NEW w \in Workers, Delete(w)
  PROVE  DeletionKnown' /\ AbstractStep
<1>0. /\ TypeOK /\ UNCHANGED <<cr, cache>> /\ mem' = [mem EXCEPT ![w].obj.ready = FALSE]
      /\ pc' = [pc EXCEPT ![w] = "finish"] /\ mem[w].obj.deleting
  BY DEF IInv, Delete, Go
<1>1. \A v \in Workers : /\ Same(mem'[v].obj, mem[v].obj)
                         /\ pc'[v] = "create" => pc[v] = "create"
  <2>1. \A v \in Workers : \E r \in BOOLEAN : mem'[v].obj = [mem[v].obj EXCEPT !.ready = r]
    BY <1>0, ReadyMem
  <2>2. \A v \in Workers : mem[v].obj \in Objects(SpecType)
    BY <1>0 DEF TypeOK, Copies
  <2>3. \A v \in Workers : Same(mem'[v].obj, mem[v].obj)
    BY <2>1, <2>2 DEF Objects, Same
  <2>4. \A v \in Workers : pc'[v] = "create" => pc[v] = "create"
    BY <1>0 DEF TypeOK
  <2> QED
    BY <2>3, <2>4
<1>2. CASE Live(Id(w))
  <2>1. Id(w) \in Names /\ inst[Id(w)] \in Instances
    BY <1>0, <1>2, LiveType, MemSpecType DEF TypeOK
  <2>2. /\ inst'[Id(w)].state \notin LiveStates
        /\ \A n \in Names : n # Id(w) => inst'[n] = inst[n]
    BY <1>0, <1>2, <2>1 DEF Delete, Blank, TypeOK, Instances, LiveStates
  <2>3. \A n \in Names : Live(n)' => Live(n)
    BY <2>2 DEF Live
  <2>4. DeletionKnown'
    BY <1>0, <1>1, <2>3, QuietKnown
  <2>5. cr.deleting /\ cr.present
    BY <1>0, <1>2, <2>1 DEF DeletionKnown, Marked, Id, IInv, Accounted
  <2>6. Alive = {Id(w)}
    BY <1>2, <2>1, AliveIs DEF IInv
  <2>7. \A n \in Names : ~Live(n)'
    BY <2>2, <2>6 DEF Alive, Live
  <2>8. Claim = "deleting" /\ Claim' = Claim /\ Alive # {} /\ Alive' = {}
    BY <1>0, <2>5, <2>6, <2>7 DEF Claim, Alive
  <2>9. Resource!TakeDown
    BY <2>8 DEF Resource!TakeDown
  <2> QED
    BY <2>4, <2>9 DEF AbstractStep, Resource!Next
<1>3. CASE ~Live(Id(w))
  <2>1. inst' = inst
    BY <1>3 DEF Delete
  <2>2. \A n \in Names : Live(n)' <=> Live(n)
    BY <2>1, SameStates
  <2> QED
    BY <1>0, <1>1, <2>2, QuietKnown, Stutter
<1> QED
  BY <1>2, <1>3

\* Users claim, and give up, an instance; only a CR without one comes or goes at once.
LEMMA UserRefines ==
  ASSUME IInv, TypeOK', DeletionKnown, UserStep, UNCHANGED inst
  PROVE  DeletionKnown' /\ AbstractStep
<1>0. TypeOK /\ (\A n \in Names : Live(n)' <=> Live(n)) /\ cr \in Objects(SpecType)
  BY DEF IInv, Live, TypeOK
<1>1. PICK o : /\ UserWrites(o)
               /\ \/ o = NoObject /\ ~cr.finalizer /\ cr.present /\ ~cr.deleting
                  \/ o = [cr EXCEPT !.deleting = TRUE] /\ cr.present /\ ~cr.deleting
                  \/ \E s \in UserSpecs : \/ o = NewObject(s) /\ ~cr.present
                                          \/ o = [cr EXCEPT !.spec = s] /\ cr.present
  BY DEF UserStep, UserDeletes, UserApplies
<1>2. /\ cr' = o /\ pc' = pc
      /\ \A v \in Workers : mem'[v].obj = mem[v].obj /\ cache'[v].obj = cache[v].obj
  BY <1>0, <1>1, StaleType DEF UserWrites, TypeOK
<1>3. /\ \A v \in Workers : Same(mem'[v].obj, mem[v].obj) /\ Same(cache'[v].obj, cache[v].obj)
      /\ \A v \in Workers : pc'[v] = "create" => ~mem'[v].obj.deleting
  BY <1>2 DEF Same, DeletionKnown
<1>4. ~cr.present \/ ~cr.finalizer => \A n \in Names : ~Live(n)
  BY DEF IInv, Accounted
<1>5. CASE o = NoObject /\ ~cr.finalizer /\ cr.present /\ ~cr.deleting
  <2>1. DeletionKnown'
    BY <1>0, <1>3, <1>5, KnownStep
  <2>2. ~cr'.present
    BY <1>2, <1>5 DEF NoObject, NewObject
  <2>3. Claim # "none" /\ Claim' = "none"
    BY <1>5, <2>2 DEF Claim
  <2>4. Alive = {} /\ Alive' = {}
    BY <1>0, <1>4, <1>5 DEF Alive
  <2>5. Resource!Release
    BY <2>3, <2>4 DEF Resource!Release
  <2> QED
    BY <2>1, <2>5 DEF AbstractStep, Resource!Next
<1>6. CASE o = [cr EXCEPT !.deleting = TRUE] /\ cr.present /\ ~cr.deleting
  <2>1. cr'.present /\ cr'.deleting
    BY <1>0, <1>2, <1>6 DEF Objects
  <2>2. DeletionKnown'
    BY <1>0, <1>3, <2>1, KnownStep
  <2>3. Claim = "there" /\ Claim' = "deleting"
    BY <1>6, <2>1 DEF Claim
  <2>4. Alive' = Alive
    BY <1>0 DEF Alive
  <2>5. Resource!AskDeletion
    BY <2>3, <2>4 DEF Resource!AskDeletion
  <2> QED
    BY <2>2, <2>5 DEF AbstractStep, Resource!Next
<1>7. ASSUME NEW s \in UserSpecs, o = NewObject(s), ~cr.present
      PROVE  DeletionKnown' /\ AbstractStep
  <2>1. DeletionKnown'
    BY <1>0, <1>3, <1>4, <1>7, KnownStep
  <2>2. cr'.present /\ ~cr'.deleting
    BY <1>2, <1>7 DEF NewObject
  <2>3. Claim = "none" /\ Claim' = "there"
    BY <1>7, <2>2 DEF Claim
  <2>4. Alive = {} /\ Alive' = {}
    BY <1>0, <1>4, <1>7 DEF Alive
  <2>5. Resource!Apply
    BY <2>3, <2>4 DEF Resource!Apply
  <2> QED
    BY <2>1, <2>5 DEF AbstractStep, Resource!Next
<1>8. ASSUME NEW s \in UserSpecs, o = [cr EXCEPT !.spec = s]
      PROVE  DeletionKnown' /\ AbstractStep
  <2>1. cr'.present = cr.present /\ cr'.deleting = cr.deleting
    BY <1>0, <1>2, <1>8 DEF Objects
  <2>2. DeletionKnown'
    BY <1>0, <1>3, <2>1, KnownStep
  <2> QED
    BY <1>0, <2>1, <2>2, Stutter
<1> QED
  BY <1>1, <1>5, <1>6, <1>7, <1>8

\* By itself the cloud only ever takes an instance down, and only if it drifts.
LEMMA CloudRefines ==
  ASSUME IInv, TypeOK', DeletionKnown, Trustworthy, NEW n \in Names,
         Provisioned(n) \/ Reclaimed(n) \/ Drifts(n) \/ Restored(n)
  PROVE  DeletionKnown' /\ AbstractStep
<1>0. TypeOK /\ ~Restored(n) /\ inst[n] \in Instances /\ UNCHANGED <<cr, cache, mem, pc>>
  BY DEF IInv, TypeOK, Restored, Fault, Trustworthy, Provisioned, Reclaimed, Drifts, Changes
<1>1. /\ \A m \in Names : m # n => inst'[m] = inst[m]
      /\ inst'[n].state \in LiveStates => inst[n].state \in LiveStates
  <2>1. CASE Provisioned(n)
    BY <1>0, <2>1 DEF Provisioned, Changes, Instances, LiveStates, TypeOK
  <2>2. CASE Reclaimed(n)
    BY <1>0, <2>2 DEF Reclaimed, Changes, Blank, LiveStates, TypeOK
  <2>3. CASE Drifts(n)
    BY <1>0, <2>3 DEF Drifts, Live, Changes, TypeOK
  <2> QED
    BY <1>0, <2>1, <2>2, <2>3
<1>2. \A m \in Names : Live(m)' => Live(m)
  BY <1>1 DEF Live
<1>3. \A v \in Workers : Same(mem'[v].obj, mem[v].obj) /\ (pc'[v] = "create" => pc[v] = "create")
  BY <1>0 DEF Same
<1>4. DeletionKnown'
  BY <1>0, <1>2, <1>3, QuietKnown
<1>5. CASE Live(n)' <=> Live(n)
  <2>1. \A m \in Names : Live(m)' <=> Live(m)
    BY <1>1, <1>5 DEF Live
  <2> QED
    BY <1>0, <1>4, <2>1, Stutter
<1>6. CASE Live(n) /\ ~Live(n)'
  <2>1. "drift" \in FaultKinds
    <3>1. ~Reclaimed(n)
      BY <1>6 DEF Reclaimed, Live, LiveStates
    <3>2. ~Provisioned(n)
      BY <1>0, <1>6 DEF Provisioned, Changes, Live, LiveStates, Instances, TypeOK
    <3> QED
      BY <1>0, <3>1, <3>2 DEF Drifts, Fault
  <2>2. Alive = {n}
    BY <1>6, AliveIs DEF IInv
  <2>3. Alive # {} /\ Alive' = {} /\ Claim' = Claim
    BY <1>0, <1>2, <1>6, <2>2 DEF Alive, Claim
  <2>4. Resource!Vanish
    BY <2>1, <2>3 DEF Resource!Vanish
  <2> QED
    BY <1>4, <2>4 DEF AbstractStep, Resource!Next
<1> QED
  BY <1>2, <1>5, <1>6

-----------------------------------------------------------------------------
\* Every step maps to a step of the abstract specification or to none.
LEMMA RefinementStep ==
  ASSUME Trustworthy, IInv, IInv', DeletionKnown, [Next]_vars
  PROVE  DeletionKnown' /\ AbstractStep
<1>1. TypeOK'
  BY DEF IInv
<1>2. ASSUME NEW w \in Workers, WorkerStep(w) PROVE DeletionKnown' /\ AbstractStep
  BY <1>1, <1>2, LoopRefines, RemoveFinalizerRefines, ObserveUpdateRefines,
     LateInitRefines, CreateRefines, DeleteRefines
     DEF WorkerStep, ReconcilerStep, ExternalStep
<1>3. ASSUME NEW w \in Workers, ExternalFault(w) PROVE DeletionKnown' /\ AbstractStep
  <2>1. ~CreateLost(w)
    BY DEF CreateLost, Fault, Trustworthy
  <2> QED
    BY <1>1, <1>3, <2>1, ObserveUpdateRefines DEF ExternalFault
<1>4. ASSUME NEW w \in Workers, SyncCache(w) \/ ReconcilerFault(w), UNCHANGED inst
      PROVE  DeletionKnown' /\ AbstractStep
  BY <1>1, <1>4, LoopRefines DEF ReconcilerFault
<1>5. CASE UserStep /\ Forget /\ UNCHANGED inst
  BY <1>1, <1>5, UserRefines
<1>6. CASE CloudStep \/ \E n \in Names : Drifts(n) \/ Restored(n)
  BY <1>1, <1>6, CloudRefines DEF CloudStep
<1>7. CASE UNCHANGED vars
  <2>1. UNCHANGED <<cr, cache, mem, pc, inst>>
    BY <1>7 DEF vars
  <2>2. DeletionKnown'
    BY <2>1 DEF DeletionKnown, Marked, Live
  <2>3. \A n \in Names : Live(n)' <=> Live(n)
    BY <2>1 DEF Live
  <2> QED
    BY <2>1, <2>2, <2>3, Stutter
<1> QED
  BY <1>2, <1>3, <1>4, <1>5, <1>6, <1>7 DEF Next

LEMMA RefinementInit == Init => DeletionKnown /\ Resource!Init
<1> SUFFICES ASSUME Init PROVE DeletionKnown /\ Resource!Init
  OBVIOUS
<1>1. PICK s \in UserSpecs : cr = NewObject(s)
  BY DEF Init, ReconcilerInit
<1>2. /\ cr.present /\ ~cr.deleting
      /\ \A w \in Workers : ~mem[w].obj.deleting /\ ~cache[w].obj.deleting
  BY <1>1 DEF Init, ReconcilerInit, NewObject, NoCopy, NoObject
<1>3. \A n \in Names : ~Live(n)
  BY DEF Init, Blank, Live, LiveStates
<1> QED
  BY <1>2, <1>3 DEF DeletionKnown, Marked, Resource!Init, Claim, Alive

\* A copy of the CR, however old, that is marked for deletion and names an instance
\* that is alive is right: the CR is being deleted now, so Delete in a pass that
\* works from it takes down nothing that is still wanted.
THEOREM DeletionsKnown ==
  ASSUME Trustworthy
  PROVE  Spec => []DeletionKnown
<1>1. Spec => []IInv
  BY InvCorrect
<1>2. Init => DeletionKnown
  BY RefinementInit
<1>3. IInv /\ IInv' /\ DeletionKnown /\ [Next]_vars => DeletionKnown'
  BY RefinementStep
<1> QED
  BY <1>1, <1>2, <1>3, PTL DEF Spec

\* The controller, the loop and the cloud together implement ExternalResource.
THEOREM Refinement ==
  ASSUME Trustworthy
  PROVE  Spec => KeepsPromise
<1>1. Spec => []IInv
  BY InvCorrect
<1>2. Spec => []DeletionKnown
  BY DeletionsKnown
<1>3. Init => Resource!Init
  BY RefinementInit
<1>4. IInv /\ IInv' /\ DeletionKnown /\ [Next]_vars => [Resource!Next]_(Resource!vars)
  BY RefinementStep DEF AbstractStep
<1> QED
  BY <1>1, <1>2, <1>3, <1>4, PTL DEF Spec, KeepsPromise, Resource!Spec
=============================================================================
