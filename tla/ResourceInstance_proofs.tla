----------------------- MODULE ResourceInstance_proofs -----------------------
(***************************************************************************)
(* Proofs about ResourceInstance: its type invariant, and that with        *)
(* replies the controller can rely on a CR never has two live instances    *)
(* and never leaves one behind, whatever the number of replicas.           *)
(***************************************************************************)
EXTENDS ResourceInstance, FiniteSetTheorems, TLAPS

\* The tagging service's list of an instance's tags is a list of tags.
LEMMA ListTagsType ==
  ASSUME NEW S \in SUBSET Tags
  PROVE  SetToSeq(S) \in Seq(Tags)
<1>1. IsFiniteSet(S)
  BY FS_Subset, ResourceInstanceAssumption
<1>2. PICK f : f \in Bijection(1..Cardinality(S), S)
  BY <1>1, FS_CardinalityType DEF ExistsBijection
<1>3. f \in [1..Cardinality(S) -> S] /\ IsInjective(f)
  BY <1>2 DEF Bijection, Injection
<1>4. SetToSeq(S) \in [1..Cardinality(S) -> S]
  BY <1>3 DEF SetToSeq
<1> QED
  BY <1>1, <1>4, FS_CardinalityType

\* The tags a spec asks for, a list or unset, are tags.
LEMMA TagSetType ==
  ASSUME NEW t \in Seq(Tags) \cup {Unset}
  PROVE  TagSet(t) \in SUBSET Tags
<1>1. EquateEmpty(t) \in Seq(Tags)
  BY DEF EquateEmpty
<1> QED
  BY <1>1 DEF TagSet, ToSet

-----------------------------------------------------------------------------
\* The writes to the API server keep the CR and its copies well formed.

LEMMA SentType ==
  ASSUME TypeOK, NEW w \in Workers
  PROVE  Sent(w) \in Objects(SpecType)
BY DEF TypeOK, Sent, Objects, Copies

LEMMA StaleType ==
  ASSUME NEW c \in Copies(SpecType)
  PROVE  Stale(c) \in Copies(SpecType) /\ Stale(c).obj = c.obj /\ ~Stale(c).fresh
BY DEF Stale, Copies

LEMMA NoObjectType ==
  NoObject \in Objects(SpecType) /\ NoCopy \in Copies(SpecType)
<1>1. (CHOOSE s \in UserSpecs : TRUE) \in SpecType
  BY ReconcilerAssumption, ResourceInstanceAssumption
<1> QED
  BY <1>1 DEF NoObject, NoCopy, NewObject, Objects, Copies, Creation

LEMMA PutType ==
  ASSUME TypeOK, NEW w \in Workers, NEW o \in Objects(SpecType),
         NEW c \in Copies(SpecType), Put(w, o, c)
  PROVE  /\ cr' \in Objects(SpecType)
         /\ cache' \in [Workers -> Copies(SpecType)]
         /\ mem' \in [Workers -> Copies(SpecType)]
         /\ mem'[w] = c
         /\ \A v \in Workers \ {w} : mem'[v].obj = mem[v].obj
<1>1. CASE o = cr
  BY <1>1 DEF Put, TypeOK
<1>2. CASE o # cr
  BY <1>2, StaleType DEF Put, TypeOK
<1> QED
  BY <1>1, <1>2

LEMMA ClientUpdateType ==
  ASSUME TypeOK, NEW w \in Workers, NEW o \in Objects(SpecType), NEW next,
         o.extName = mem[w].obj.extName, ClientUpdate(w, o, next)
  PROVE  /\ cr' \in Objects(SpecType)
         /\ cache' \in [Workers -> Copies(SpecType)]
         /\ mem' \in [Workers -> Copies(SpecType)]
         /\ \A v \in Workers : mem'[v].obj.extName = mem[v].obj.extName
         /\ pc' = [pc EXCEPT ![w] = next] \/ pc' = [pc EXCEPT ![w] = "finish"]
<1>1. CASE mem[w].fresh
  <2>1. [obj |-> o, fresh |-> TRUE] \in Copies(SpecType)
    BY DEF Copies
  <2>2. Put(w, o, [obj |-> o, fresh |-> TRUE]) /\ pc' = [pc EXCEPT ![w] = next]
    BY <1>1 DEF ClientUpdate, Go
  <2> QED
    BY <2>1, <2>2, PutType
<1>2. CASE ~mem[w].fresh
  BY <1>2 DEF ClientUpdate, TypeOK, Go
<1> QED
  BY <1>1, <1>2

LEMMA UpdateStatusType ==
  ASSUME TypeOK, NEW w \in Workers, NEW ready \in BOOLEAN, UpdateStatus(w, ready)
  PROVE  /\ cr' \in Objects(SpecType)
         /\ cache' \in [Workers -> Copies(SpecType)]
         /\ mem' \in [Workers -> Copies(SpecType)]
         /\ \A v \in Workers \ {w} : mem'[v].obj = mem[v].obj
         /\ pc' = [pc EXCEPT ![w] = "idle"]
<1>1. CASE mem[w].fresh
  <2>1. [cr EXCEPT !.ready = ready] \in Objects(SpecType)
    BY DEF TypeOK, Objects
  <2>2. Put(w, [cr EXCEPT !.ready = ready], NoCopy) /\ pc' = [pc EXCEPT ![w] = "idle"]
    BY <1>1 DEF UpdateStatus, Go
  <2> QED
    BY <2>1, <2>2, PutType, NoObjectType
<1>2. CASE ~mem[w].fresh
  BY <1>2, NoObjectType DEF UpdateStatus, TypeOK, Go
<1> QED
  BY <1>1, <1>2

LEMMA ForgetType ==
  ASSUME TypeOK, Forget
  PROVE  /\ seen' \in [Workers -> Content \cup {NoContent}]
         /\ diff' \in [Workers -> [attach : SUBSET Tags, detach : SUBSET Tags]]
         /\ \A w \in Workers : pc'[w] # "idle" => seen'[w] = seen[w]
BY DEF TypeOK, Forget, NoDiff

LEMMA GoType ==
  ASSUME TypeOK, NEW w \in Workers, NEW p \in ReconcilerPhases \cup KindPhases,
         pc' = [pc EXCEPT ![w] = p]
  PROVE  /\ pc' \in [Workers -> ReconcilerPhases \cup KindPhases]
         /\ pc'[w] = p
         /\ \A v \in Workers \ {w} : pc'[v] = pc[v]
BY DEF TypeOK

-----------------------------------------------------------------------------
\* What the loop's own steps do to the variables other than inst.
LEMMA ReconcilerStepType ==
  ASSUME TypeOK, NEW w \in Workers,
         ReconcilerStep(w) \/ ReconcilerFault(w) \/ SyncCache(w)
  PROVE  /\ cr' \in Objects(SpecType)
         /\ cache' \in [Workers -> Copies(SpecType)]
         /\ mem' \in [Workers -> Copies(SpecType)]
         /\ \A v \in Workers \ {w} : mem'[v].obj.extName = mem[v].obj.extName
         /\ pc' \in [Workers -> ReconcilerPhases \cup KindPhases]
         /\ faults' \in Nat /\ edits' \in Nat
         /\ \A v \in Workers \ {w} : pc'[v] = pc[v]
         /\ pc'[w] \in KindPhases \cup {"current", "outdated"} =>
              pc'[w] = pc[w] /\ mem'[w].obj.extName = mem[w].obj.extName
<1> USE DEF ReconcilerPhases, Go
<1>1. CASE Fetch(w)
  BY <1>1 DEF Fetch, TypeOK, KindPhases
<1>2. CASE Refuse(w)
  BY <1>2, UpdateStatusType DEF Refuse, TypeOK, KindPhases
<1>3. CASE AddFinalizer(w)
  <2> DEFINE o == [Sent(w) EXCEPT !.finalizer = TRUE]
  <2>1. o \in Objects(SpecType) /\ o.extName = mem[w].obj.extName
    BY SentType DEF Objects, Sent, TypeOK, Copies
  <2>2. ClientUpdate(w, o, pc[w])
    BY <1>3 DEF AddFinalizer
  <2> QED
    <3>1. /\ cr' \in Objects(SpecType)
          /\ cache' \in [Workers -> Copies(SpecType)]
          /\ mem' \in [Workers -> Copies(SpecType)]
          /\ \A v \in Workers : mem'[v].obj.extName = mem[v].obj.extName
          /\ pc' = [pc EXCEPT ![w] = pc[w]] \/ pc' = [pc EXCEPT ![w] = "finish"]
      BY <2>1, <2>2, ClientUpdateType
    <3>2. pc[w] \in ReconcilerPhases /\ faults' \in Nat /\ edits' \in Nat
      BY <1>3 DEF AddFinalizer, TypeOK
    <3> QED
      BY <3>1, <3>2, GoType DEF KindPhases
<1>4. CASE MarkPending(w)
  <2> DEFINE o == [Sent(w) EXCEPT !.creation = "pending"]
  <2>1. o \in Objects(SpecType) /\ o.extName = mem[w].obj.extName
    BY SentType DEF Objects, Sent, TypeOK, Copies, Creation
  <2>2. ClientUpdate(w, o, "create")
    BY <1>4 DEF MarkPending
  <2> QED
    <3>1. /\ cr' \in Objects(SpecType)
          /\ cache' \in [Workers -> Copies(SpecType)]
          /\ mem' \in [Workers -> Copies(SpecType)]
          /\ \A v \in Workers : mem'[v].obj.extName = mem[v].obj.extName
          /\ pc' = [pc EXCEPT ![w] = "create"] \/ pc' = [pc EXCEPT ![w] = "finish"]
      BY <2>1, <2>2, ClientUpdateType
    <3>2. faults' \in Nat /\ edits' \in Nat
      BY <1>4 DEF MarkPending, TypeOK
    <3> QED
      BY <3>1, <3>2, GoType DEF KindPhases
<1>5. ASSUME NEW r \in {"succeeded", "failed"}, Record(w, r)
      PROVE  /\ cr' \in Objects(SpecType)
             /\ cache' \in [Workers -> Copies(SpecType)]
             /\ mem' \in [Workers -> Copies(SpecType)]
             /\ \A v \in Workers \ {w} : mem'[v].obj = mem[v].obj
             /\ pc' = [pc EXCEPT ![w] = "finish"]
             /\ UNCHANGED <<faults, edits>>
  <2> DEFINE o == [cr EXCEPT !.creation = r,
                             !.extName = IF mem[w].obj.extName = NoName
                                         THEN @ ELSE mem[w].obj.extName]
  <2>1. o \in Objects(SpecType)
    BY DEF Objects, TypeOK, Copies, Creation
  <2>2. [obj |-> o, fresh |-> TRUE] \in Copies(SpecType)
    BY <2>1 DEF Copies
  <2>3. Put(w, o, [obj |-> o, fresh |-> TRUE])
    BY <1>5 DEF Record
  <2> QED
    BY <2>1, <2>2, <2>3, <1>5, PutType DEF Record
<1>6. CASE RecordCreated(w)
  BY <1>5, <1>6 DEF RecordCreated, TypeOK, KindPhases
<1>7. CASE RecordFailed(w)
  BY <1>5, <1>7 DEF RecordFailed, TypeOK, KindPhases
<1>8. CASE Finish(w)
  <2>1. mem[w].obj.ready \in BOOLEAN /\ UpdateStatus(w, mem[w].obj.ready)
    BY <1>8 DEF Finish, TypeOK, Copies, Objects
  <2>2. faults' \in Nat /\ edits' \in Nat
    BY <1>8 DEF Finish, TypeOK
  <2> QED
    BY <2>1, <2>2, UpdateStatusType, GoType DEF KindPhases
<1>9. CASE RemoveFinalizer(w)
  <2>1. CASE mem[w].fresh
    BY <1>9, <2>1, PutType, NoObjectType DEF RemoveFinalizer, TypeOK, KindPhases
  <2>2. CASE ~mem[w].fresh
    BY <1>9, <2>2 DEF RemoveFinalizer, TypeOK, KindPhases
  <2> QED
    BY <2>1, <2>2
<1>10. CASE RecordExhausted(w)
  BY <1>10, StaleType DEF RecordExhausted, Fault, TypeOK, KindPhases
<1>11. CASE Crash(w)
  BY <1>11, NoObjectType DEF Crash, Fault, TypeOK, KindPhases
<1>12. CASE SyncCache(w)
  BY <1>12 DEF SyncCache, TypeOK, Copies, KindPhases
<1> QED
  BY <1>1, <1>2, <1>3, <1>4, <1>6, <1>7, <1>8, <1>9, <1>10, <1>11, <1>12
     DEF ReconcilerStep, ReconcilerFault

\* What the steps of users do to the variables other than inst.
LEMMA UserStepType ==
  ASSUME TypeOK, UserStep
  PROVE  /\ cr' \in Objects(SpecType)
         /\ cache' \in [Workers -> Copies(SpecType)]
         /\ mem' \in [Workers -> Copies(SpecType)]
         /\ \A v \in Workers : mem'[v].obj = mem[v].obj
         /\ pc' = pc /\ faults' \in Nat /\ edits' \in Nat
<1>1. ASSUME NEW o \in Objects(SpecType), UserWrites(o)
      PROVE  /\ cr' \in Objects(SpecType)
             /\ cache' \in [Workers -> Copies(SpecType)]
             /\ mem' \in [Workers -> Copies(SpecType)]
             /\ \A v \in Workers : mem'[v].obj = mem[v].obj
             /\ pc' = pc /\ faults' \in Nat /\ edits' \in Nat
  BY <1>1, StaleType DEF UserWrites, TypeOK
<1>2. ASSUME NEW s \in UserSpecs
      PROVE  NewObject(s) \in Objects(SpecType) /\ [cr EXCEPT !.spec = s] \in Objects(SpecType)
  BY ResourceInstanceAssumption DEF NewObject, Objects, Creation, TypeOK
<1>3. [cr EXCEPT !.deleting = TRUE] \in Objects(SpecType)
  BY DEF TypeOK, Objects
<1>4. CASE UserDeletes
  BY <1>1, <1>3, <1>4, NoObjectType DEF UserDeletes
<1>5. ASSUME NEW s \in UserSpecs, UserApplies(s)
      PROVE  \E o \in Objects(SpecType) : UserWrites(o)
  BY <1>2, <1>5 DEF UserApplies
<1> QED
  BY <1>1, <1>4, <1>5 DEF UserStep

-----------------------------------------------------------------------------
\* What the controller's own steps and the cloud's do.

LEMMA LiveType ==
  ASSUME TypeOK, NEW n \in Names \cup {NoName}, Live(n)
  PROVE  n \in Names /\ inst[n].is \in Content
BY DEF TypeOK, Live, LiveStates, Instances

\* Observe's three states are the ones in which the cloud keeps the instance.
LEMMA ExistsIsLive ==
  ASSUME NEW n
  PROVE  Exists(n) <=> Live(n)
BY DEF Exists, Live, ExistsStates, LiveStates

LEMMA InstType ==
  ASSUME TypeOK, NEW n \in Names,
         NEW i \in Instances, inst' = [inst EXCEPT ![n] = i]
  PROVE  inst' \in [Names -> Instances]
BY DEF TypeOK

LEMMA BlankType ==
  /\ Blank("none") \in Instances
  /\ Blank("removed") \in Instances
BY DEF Blank, Instances

\* Replacing one part of an instance keeps it an instance.
LEMMA PartType ==
  ASSUME TypeOK, NEW n \in Names, inst[n].is \in Content, inst[n].state \notin {"none", "removed"},
         NEW c \in Configs, NEW o \in Opts, NEW t \in SUBSET Tags,
         NEW st \in States \ {"none", "removed"}
  PROVE  /\ [inst[n] EXCEPT !.is.config = c] \in Instances
         /\ [inst[n] EXCEPT !.is.config = c, !.is.opts = o] \in Instances
         /\ [inst[n] EXCEPT !.is.tags = t] \in Instances
         /\ [inst[n] EXCEPT !.state = st] \in Instances
<1>1. inst[n] \in [state : States \ {"none", "removed"}, is : Content]
  BY DEF TypeOK, Instances
<1> QED
  BY <1>1 DEF Instances, Content

LEMMA CreatedType ==
  ASSUME NEW s \in SpecType
  PROVE  Created(s) \in Instances
<1>1. TagSet(s.tags) \in SUBSET Tags
  BY TagSetType DEF SpecType
<1> QED
  BY <1>1, ResourceInstanceAssumption
     DEF Created, Instances, States, LiveStates, Content, SpecType

LEMMA LateInitType ==
  ASSUME NEW s \in SpecType, NEW i \in Content, NEW t \in Seq(Tags)
  PROVE  LateInitializeSpec(s, i, t) \in SpecType
BY DEF LateInitializeSpec, SpecType, Content

LEMMA MemSpecType ==
  ASSUME TypeOK, NEW w \in Workers
  PROVE  mem[w].obj.spec \in SpecType /\ Id(w) \in Names \cup {NoName}
BY DEF TypeOK, Copies, Objects, Id

LEMMA MemReadyType ==
  ASSUME TypeOK, NEW w \in Workers, NEW r \in BOOLEAN,
         mem' = [mem EXCEPT ![w].obj.ready = r]
  PROVE  /\ mem' \in [Workers -> Copies(SpecType)]
         /\ \A v \in Workers : mem'[v].obj.extName = mem[v].obj.extName
BY DEF TypeOK, Copies, Objects

LEMMA ObserveType ==
  ASSUME TypeOK, NEW w \in Workers,
         \/ ObserveGet(w) \/ ObserveMisread(w) \/ ObserveLateInit(w)
         \/ ObserveCompare(w) \/ ObserveFails(w)
  PROVE  TypeOK'
<1> USE DEF ReconcilerPhases, KindPhases, Go
<1>1. CASE ObserveGet(w)
  <2>1. CASE Exists(Id(w))
    BY <1>1, <2>1, ExistsIsLive, LiveType, MemSpecType DEF ObserveGet, TypeOK, PassSaw, Id
  <2>2. CASE ~Exists(Id(w))
    BY <1>1, <2>2 DEF ObserveGet, TypeOK, PassSaw, Id
  <2> QED
    BY <2>1, <2>2
<1>2. CASE ObserveMisread(w)
  BY <1>2 DEF ObserveMisread, Fault, TypeOK, PassSaw, Id
<1>3. CASE ObserveLateInit(w)
  <2> DEFINE spec == LateInitializeSpec(mem[w].obj.spec, seen[w], ListTags(Id(w)))
             o == [Sent(w) EXCEPT !.spec = spec]
  <2>1. seen[w] \in Content /\ Id(w) \in Names
    BY <1>3 DEF ObserveLateInit, TypeOK, PassSaw
  <2>2. inst[Id(w)].is.tags \in SUBSET Tags
    BY <2>1 DEF TypeOK, Instances, Content, NoContent
  <2>3. spec \in SpecType
    BY <2>1, <2>2, ListTagsType, LateInitType, MemSpecType DEF ListTags
  <2>4. o \in Objects(SpecType) /\ o.extName = mem[w].obj.extName
    BY <2>3, SentType DEF Objects, Sent, TypeOK, Copies
  <2>5. CASE spec = mem[w].obj.spec
    BY <2>1, <2>5, <1>3 DEF ObserveLateInit, TypeOK, PassSaw, Id
  <2>6. CASE spec # mem[w].obj.spec
    <3>1. ClientUpdate(w, o, "compare") /\ UNCHANGED <<faults, edits, inst, seen, diff>>
      BY <1>3, <2>6 DEF ObserveLateInit
    <3>2. /\ cr' \in Objects(SpecType)
          /\ cache' \in [Workers -> Copies(SpecType)]
          /\ mem' \in [Workers -> Copies(SpecType)]
          /\ \A v \in Workers : mem'[v].obj.extName = mem[v].obj.extName
          /\ pc' = [pc EXCEPT ![w] = "compare"] \/ pc' = [pc EXCEPT ![w] = "finish"]
      BY <2>4, <3>1, ClientUpdateType
    <3> QED
      BY <2>1, <3>1, <3>2 DEF TypeOK, PassSaw, Id
  <2> QED
    BY <2>5, <2>6
<1>4. CASE ObserveCompare(w)
  <2>1. /\ mem' \in [Workers -> Copies(SpecType)]
        /\ \A v \in Workers : mem'[v].obj.extName = mem[v].obj.extName
    BY <1>4, MemReadyType DEF ObserveCompare
  <2> QED
    BY <1>4, <2>1 DEF ObserveCompare, TypeOK, PassSaw, Id
<1>5. CASE ObserveFails(w)
  <2> DEFINE r == IF pc[w] = "compare" THEN TRUE ELSE mem[w].obj.ready
  <2>1. r \in BOOLEAN
    BY DEF TypeOK, Copies, Objects
  <2>2. mem' = [mem EXCEPT ![w].obj.ready = r]
    BY <1>5 DEF ObserveFails
  <2>3. /\ mem' \in [Workers -> Copies(SpecType)]
        /\ \A v \in Workers : mem'[v].obj.extName = mem[v].obj.extName
    BY <2>1, <2>2, MemReadyType
  <2> QED
    BY <1>5, <2>3 DEF ObserveFails, Fault, TypeOK, PassSaw, Id
<1> QED
  BY <1>1, <1>2, <1>3, <1>4, <1>5

LEMMA CreateType ==
  ASSUME TypeOK, NEW w \in Workers, Create(w) \/ CreateFails(w) \/ CreateLost(w)
  PROVE  TypeOK'
<1> USE DEF ReconcilerPhases, KindPhases, Go
<1>1. CASE Create(w)
  <2>1. PICK n \in Names :
          /\ inst' = [inst EXCEPT ![n] = Created(mem[w].obj.spec)]
          /\ mem' = [mem EXCEPT ![w].obj = [@ EXCEPT !.extName = n, !.ready = FALSE]]
    BY <1>1 DEF Create
  <2>2. inst' \in [Names -> Instances]
    BY <2>1, CreatedType, MemSpecType, InstType
  <2>3. /\ mem' \in [Workers -> Copies(SpecType)]
        /\ \A v \in Workers \ {w} : mem'[v] = mem[v]
    <3> DEFINE o == [mem[w].obj EXCEPT !.extName = n, !.ready = FALSE]
    <3>1. o \in Objects(SpecType)
      BY DEF TypeOK, Copies, Objects
    <3>2. mem' = [mem EXCEPT ![w] = [mem[w] EXCEPT !.obj = o]]
      BY <2>1
    <3>3. [mem[w] EXCEPT !.obj = o] \in Copies(SpecType)
      BY <3>1 DEF TypeOK, Copies
    <3> QED
      BY <3>2, <3>3 DEF TypeOK
  <2>4. pc' \in [Workers -> ReconcilerPhases \cup KindPhases] /\ pc'[w] = "created"
        /\ \A v \in Workers \ {w} : pc'[v] = pc[v]
    BY <1>1, GoType DEF Create
  <2>5. PassSaw(w)'
    BY <2>4 DEF PassSaw
  <2>6. \A v \in Workers \ {w} : PassSaw(v)'
    BY <1>1, <2>3, <2>4 DEF Create, PassSaw, TypeOK, Id
  <2> QED
    BY <1>1, <2>2, <2>3, <2>4, <2>5, <2>6 DEF Create, TypeOK
<1>2. ASSUME mem' = [mem EXCEPT ![w].obj.ready = FALSE]
      PROVE  /\ mem' \in [Workers -> Copies(SpecType)]
             /\ \A v \in Workers : mem'[v].obj.extName = mem[v].obj.extName
  BY <1>2, MemReadyType
<1>3. CASE CreateFails(w)
  BY <1>2, <1>3 DEF CreateFails, Fault, TypeOK, PassSaw, Id
<1>4. CASE CreateLost(w)
  <2>1. inst' \in [Names -> Instances]
    BY <1>4, CreatedType, MemSpecType, InstType DEF CreateLost
  <2> QED
    BY <1>2, <1>4, <2>1 DEF CreateLost, Fault, TypeOK, PassSaw, Id
<1> QED
  BY <1>1, <1>3, <1>4

LEMMA UpdateDeleteType ==
  ASSUME TypeOK, NEW w \in Workers,
         \/ UpdateInstance(w) \/ UpdateListTags(w) \/ UpdateAttach(w)
         \/ UpdateDetach(w) \/ UpdateFails(w) \/ Delete(w) \/ DeleteFails(w)
  PROVE  TypeOK'
<1> USE DEF ReconcilerPhases, KindPhases, Go
<1>0. Live(Id(w)) => /\ Id(w) \in Names /\ inst[Id(w)].is \in Content
                     /\ inst[Id(w)].state \in States \ {"none", "removed"}
  BY LiveType, MemSpecType DEF Live, LiveStates, States
<1>1. CASE UpdateInstance(w)
  <2>1. CASE Live(Id(w))
    <3> DEFINE s == mem[w].obj.spec
               o == IF s.opts = Unset THEN inst[Id(w)].is.opts ELSE s.opts
    <3>1. s.config \in Configs /\ o \in Opts
      BY <1>0, <2>1, MemSpecType DEF SpecType, Content
    <3>2. inst' = [inst EXCEPT ![Id(w)] = [inst[Id(w)] EXCEPT !.is.config = s.config, !.is.opts = o]]
      BY <1>0, <1>1, <2>1 DEF UpdateInstance, TypeOK, Instances, Content
    <3>3. inst' \in [Names -> Instances]
      <4>1. PICK i \in Instances : inst' = [inst EXCEPT ![Id(w)] = i]
        BY <1>0, <2>1, <3>1, <3>2, PartType DEF TypeOK, Content
      <4> QED
        BY <1>0, <2>1, <4>1, InstType
    <3> QED
      BY <1>0, <1>1, <2>1, <3>3 DEF UpdateInstance, TypeOK, PassSaw, Id
  <2>2. CASE ~Live(Id(w))
    BY <1>1, <2>2 DEF UpdateInstance, TypeOK, PassSaw, Id
  <2> QED
    BY <2>1, <2>2
<1>2. CASE UpdateListTags(w)
  <2>1. Id(w) \in Names
    BY <1>2 DEF UpdateListTags, TypeOK, PassSaw
  <2>2. inst[Id(w)].is.tags \in SUBSET Tags
    BY <2>1 DEF TypeOK, Instances, Content, NoContent
  <2>3. TagSet(mem[w].obj.spec.tags) \in SUBSET Tags
    BY MemSpecType, TagSetType DEF SpecType
  <2>4. TagSet(ListTags(Id(w))) \in SUBSET Tags
    BY <2>2, ListTagsType, TagSetType DEF ListTags
  <2>5. TagsDiff(mem[w].obj.spec.tags, ListTags(Id(w))) \in [attach : SUBSET Tags, detach : SUBSET Tags]
    BY <2>3, <2>4 DEF TagsDiff
  <2> QED
    BY <1>2, <2>1, <2>5 DEF UpdateListTags, TypeOK, PassSaw, Id
<1>3. ASSUME NEW t \in SUBSET Tags, Live(Id(w)), inst' = [inst EXCEPT ![Id(w)].is.tags = t]
      PROVE  inst' \in [Names -> Instances]
  <2>1. inst' = [inst EXCEPT ![Id(w)] = [inst[Id(w)] EXCEPT !.is.tags = t]]
    BY <1>0, <1>3 DEF TypeOK, Instances, Content
  <2>2. [inst[Id(w)] EXCEPT !.is.tags = t] \in Instances
    BY <1>0, <1>3, PartType, ResourceInstanceAssumption DEF Content
  <2> QED
    BY <1>0, <1>3, <2>1, <2>2, InstType
<1>4. CASE UpdateAttach(w)
  <2>1. Live(Id(w)) => inst[Id(w)].is.tags \cup diff[w].attach \in SUBSET Tags
    BY <1>0 DEF TypeOK, Content
  <2>2. inst' \in [Names -> Instances]
    BY <1>3, <1>4, <2>1 DEF UpdateAttach, TypeOK
  <2> QED
    BY <1>4, <2>2 DEF UpdateAttach, TypeOK, PassSaw, Id
<1>5. CASE UpdateDetach(w)
  <2>1. Live(Id(w)) => inst[Id(w)].is.tags \ diff[w].detach \in SUBSET Tags
    BY <1>0 DEF TypeOK, Content
  <2>2. inst' \in [Names -> Instances]
    BY <1>3, <1>5, <2>1 DEF UpdateDetach, TypeOK
  <2> QED
    BY <1>5, <2>2 DEF UpdateDetach, TypeOK, PassSaw, Id
<1>6. CASE UpdateFails(w)
  BY <1>6 DEF UpdateFails, Fault, TypeOK, PassSaw, Id
<1>7. ASSUME mem' = [mem EXCEPT ![w].obj.ready = FALSE]
      PROVE  /\ mem' \in [Workers -> Copies(SpecType)]
             /\ \A v \in Workers : mem'[v].obj.extName = mem[v].obj.extName
  BY <1>7, MemReadyType
<1>8. CASE Delete(w)
  <2>1. inst' \in [Names -> Instances]
    <3>1. CASE ~Live(Id(w))
      BY <1>8, <3>1 DEF Delete, TypeOK
    <3>2. CASE Live(Id(w)) /\ inst' = [inst EXCEPT ![Id(w)] = Blank("removed")]
      BY <1>0, <3>2, BlankType, InstType
    <3>3. CASE Live(Id(w)) /\ inst' = [inst EXCEPT ![Id(w)].state = "pending_reclamation"]
      <4>1. inst' = [inst EXCEPT ![Id(w)] = [inst[Id(w)] EXCEPT !.state = "pending_reclamation"]]
        BY <1>0, <3>3 DEF TypeOK
      <4>2. [inst[Id(w)] EXCEPT !.state = "pending_reclamation"] \in Instances
        BY <1>0, <3>3, PartType, ResourceInstanceAssumption DEF States, LiveStates, Content
      <4> QED
        BY <1>0, <3>3, <4>1, <4>2, InstType
    <3> QED
      BY <1>8, <3>1, <3>2, <3>3 DEF Delete
  <2> QED
    BY <1>7, <1>8, <2>1 DEF Delete, TypeOK, PassSaw, Id
<1>9. CASE DeleteFails(w)
  BY <1>7, <1>9 DEF DeleteFails, Fault, TypeOK, PassSaw, Id
<1> QED
  BY <1>1, <1>2, <1>4, <1>5, <1>6, <1>8, <1>9

LEMMA CloudType ==
  ASSUME TypeOK, NEW n \in Names,
         Provisioned(n) \/ Reclaimed(n) \/ Drifts(n) \/ Restored(n)
  PROVE  TypeOK'
<1>1. faults' \in Nat
  BY DEF Provisioned, Reclaimed, Drifts, Restored, Fault, TypeOK
<1>2. Live(n) => inst[n].is \in Content /\ inst[n].state \in States \ {"none", "removed"}
  BY LiveType DEF Live, LiveStates, States
<1>3. inst[n].state = "pending_reclamation" =>
        inst[n].is \in Content /\ inst[n].state \in States \ {"none", "removed"}
  BY DEF TypeOK, Instances, States
<1>4. ASSUME NEW i \in Instances, Changes(n, i)
      PROVE  TypeOK'
  <2>1. inst' \in [Names -> Instances]
    BY <1>4, InstType DEF Changes
  <2> QED
    BY <1>1, <1>4, <2>1 DEF Changes, TypeOK, PassSaw, Id
<1>5. ASSUME Live(n) \/ inst[n].state = "pending_reclamation",
             NEW c \in Configs, NEW t \in SUBSET Tags,
             NEW st \in States \ {"none", "removed"}
      PROVE  /\ [inst[n] EXCEPT !.is.config = c] \in Instances
             /\ [inst[n] EXCEPT !.is.tags = t] \in Instances
             /\ [inst[n] EXCEPT !.state = st] \in Instances
  BY <1>2, <1>3, <1>5, PartType, ResourceInstanceAssumption
<1>6. {} \in SUBSET Tags /\ (Live(n) \/ inst[n].state = "pending_reclamation" => inst[n].is.config \in Configs)
  BY <1>2, <1>3 DEF Content
<1>7. {"active", "inactive", "failed", "pending_reclamation"} \subseteq States \ {"none", "removed"}
  BY DEF States, LiveStates
<1>8. CASE Provisioned(n)
  <2>1. Live(n)
    BY <1>8, ReconcilerAssumption DEF Provisioned, Live, LiveStates
  <2> QED
    BY <1>4, <1>5, <1>6, <1>7, <1>8, <2>1 DEF Provisioned
<1>9. CASE Reclaimed(n)
  BY <1>4, <1>9, BlankType DEF Reclaimed
<1>10. CASE Drifts(n)
  BY <1>4, <1>5, <1>6, <1>7, <1>10, BlankType DEF Drifts
<1>11. CASE Restored(n)
  BY <1>4, <1>5, <1>6, <1>7, <1>11 DEF Restored
<1> QED
  BY <1>8, <1>9, <1>10, <1>11

LEMMA LoopKeepsType ==
  ASSUME TypeOK, NEW w \in Workers, Forget, inst' = inst,
         ReconcilerStep(w) \/ ReconcilerFault(w) \/ SyncCache(w)
  PROVE  TypeOK'
<1>1. \A v \in Workers : PassSaw(v)'
  <2> SUFFICES ASSUME NEW v \in Workers PROVE PassSaw(v)'
    OBVIOUS
  <2>1. pc'[v] \in KindPhases \cup {"current", "outdated"} =>
          pc'[v] = pc[v] /\ mem'[v].obj.extName = mem[v].obj.extName
    BY ReconcilerStepType
  <2>2. pc'[v] \in KindPhases => pc'[v] # "idle"
    BY DEF KindPhases
  <2>3. pc'[v] # "idle" => seen'[v] = seen[v]
    BY ForgetType
  <2> QED
    BY <2>1, <2>2, <2>3 DEF PassSaw, TypeOK, Id, KindPhases
<1> QED
  BY <1>1, ReconcilerStepType, ForgetType DEF TypeOK

\* One step of the system keeps the types.
LEMMA TypeStep == TypeOK /\ [Next]_vars => TypeOK'
<1> SUFFICES ASSUME TypeOK, [Next]_vars PROVE TypeOK'
  OBVIOUS
<1>1. ASSUME NEW w \in Workers, WorkerStep(w) PROVE TypeOK'
  BY <1>1, LoopKeepsType, ObserveType, CreateType, UpdateDeleteType
     DEF WorkerStep, ExternalStep
<1>2. ASSUME NEW w \in Workers, ExternalFault(w) PROVE TypeOK'
  BY <1>2, ObserveType, CreateType, UpdateDeleteType DEF ExternalFault
<1>3. ASSUME NEW w \in Workers, SyncCache(w) \/ ReconcilerFault(w), Forget, UNCHANGED inst
      PROVE  TypeOK'
  BY <1>3, LoopKeepsType
<1>4. CASE UserStep /\ Forget /\ UNCHANGED inst
  <2>1. \A v \in Workers : PassSaw(v)'
    BY <1>4, UserStepType, ForgetType DEF PassSaw, TypeOK, Id, KindPhases
  <2> QED
    BY <1>4, <2>1, UserStepType, ForgetType DEF TypeOK
<1>5. CASE CloudStep \/ \E n \in Names : Drifts(n) \/ Restored(n)
  BY <1>5, CloudType DEF CloudStep
<1>6. CASE UNCHANGED vars
  BY <1>6 DEF vars, TypeOK, PassSaw, Id
<1> QED
  BY <1>1, <1>2, <1>3, <1>4, <1>5, <1>6 DEF Next

LEMMA TypeInit == Init => TypeOK
<1> SUFFICES ASSUME Init PROVE TypeOK
  OBVIOUS
<1>1. cr \in Objects(SpecType)
  <2>1. PICK s \in UserSpecs : cr = NewObject(s)
    BY DEF Init, ReconcilerInit
  <2> QED
    BY <2>1, ResourceInstanceAssumption DEF NewObject, Objects, Creation
<1>2. inst \in [Names -> Instances]
  BY BlankType DEF Init
<1>3. diff \in [Workers -> [attach : SUBSET Tags, detach : SUBSET Tags]]
  BY DEF Init, NoDiff
<1> QED
  BY <1>1, <1>2, <1>3, NoObjectType
     DEF Init, ReconcilerInit, TypeOK, PassSaw, KindPhases, ReconcilerPhases

\* The ResourceInstance controller keeps every variable in its type, whatever
\* the number of replicas, users and faults.
THEOREM TypeCorrect == Spec => []TypeOK
BY TypeInit, TypeStep, PTL DEF Spec

-----------------------------------------------------------------------------
(***************************************************************************)
(* At most one live instance, and none orphaned.  The assumption is that   *)
(* the faults the controller cannot tell apart from success or absence do  *)
(* not happen: a lost reply to Create, an error misread as "not found",    *)
(* and somebody restoring a deleted instance.                              *)
(***************************************************************************)
Trustworthy == FaultKinds \cap {"lost", "misread", "restore"} = {}

\* A copy that can be written back agrees with the API server's CR.
LEMMA FreshFields ==
  ASSUME TypeOK, FreshIsCurrent, NEW w \in Workers, mem[w].fresh, pc[w] # "created"
  PROVE  /\ Sent(w) = cr
         /\ cr.present = mem[w].obj.present
         /\ cr.deleting = mem[w].obj.deleting
         /\ cr.finalizer = mem[w].obj.finalizer
         /\ cr.creation = mem[w].obj.creation
         /\ cr.extName = mem[w].obj.extName
<1>1. Sent(w) = cr
  BY DEF FreshIsCurrent
<1>2. mem[w].obj \in Objects(SpecType)
  BY DEF TypeOK, Copies
<1> QED
  BY <1>1, <1>2 DEF Sent, Objects

\* A write by w leaves every other copy either stale or current.
LEMMA PutKeepsFresh ==
  ASSUME TypeOK, FreshIsCurrent, NEW w \in Workers, NEW p,
         NEW o \in Objects(SpecType), NEW c \in Copies(SpecType),
         Put(w, o, c), pc' = [pc EXCEPT ![w] = p],
         c.fresh /\ p # "created" => [c.obj EXCEPT !.ready = o.ready] = o,
         p # "idle" => c.obj.present
  PROVE  FreshIsCurrent'
<1> SUFFICES ASSUME NEW v \in Workers
             PROVE  /\ cache'[v].fresh => cache'[v].obj = cr'
                    /\ mem'[v].fresh /\ pc'[v] # "created" => Sent(v)' = cr'
                    /\ pc'[v] # "idle" => mem'[v].obj.present
  BY DEF FreshIsCurrent
<1>1. CASE o = cr
  <2>1. cr' = cr /\ cache' = cache /\ mem' = [mem EXCEPT ![w] = c]
    BY <1>1 DEF Put
  <2>2. CASE v = w
    BY <2>1, <2>2, <1>1 DEF FreshIsCurrent, Sent, TypeOK
  <2>3. CASE v # w
    BY <2>1, <2>3, <1>1 DEF FreshIsCurrent, Sent, TypeOK
  <2> QED
    BY <2>2, <2>3
<1>2. CASE o # cr
  <2>1. cr' = o /\ ~cache'[v].fresh /\ mem'[w] = c
    BY <1>2, StaleType DEF Put, TypeOK
  <2>2. v # w => ~mem'[v].fresh /\ mem'[v].obj = mem[v].obj
    BY <1>2, StaleType DEF Put, TypeOK
  <2>3. CASE v = w
    BY <2>1, <2>3 DEF Sent, TypeOK
  <2>4. CASE v # w
    BY <2>1, <2>2, <2>4 DEF FreshIsCurrent, TypeOK
  <2> QED
    BY <2>3, <2>4
<1> QED
  BY <1>1, <1>2

\* What a step of another actor does not change about worker v.
LEMMA OthersKnow ==
  ASSUME TypeOK, NEW v \in Workers, CreatorKnows(v),
         pc'[v] = pc[v], mem'[v].obj = mem[v].obj,
         \A n \in Names : Live(n)' => Live(n),
         Creating(v) => cr'.creation = "pending",
         Creating(v) => \A u \in Workers : Creating(u)' => u = v
  PROVE  CreatorKnows(v)'
<1>1. mem[v].obj.extName \in Names \cup {NoName}
  BY DEF TypeOK, Copies, Objects
<1>2. ~Live(mem[v].obj.extName) => ~Live(mem[v].obj.extName)'
  BY <1>1 DEF Live
<1> QED
  BY <1>2 DEF CreatorKnows, Creating

\* A step of w that writes nothing to the API server, brings no instance to
\* life, and leads w to a phase for which it knows enough.
LEMMA QuietStep ==
  ASSUME IInv, TypeOK', NEW w \in Workers, NEW p,
         UNCHANGED <<cr, cache>>,
         \A v \in Workers : /\ mem'[v].fresh = mem[v].fresh
                            /\ \E r \in BOOLEAN : mem'[v].obj = [mem[v].obj EXCEPT !.ready = r]
                            /\ v # w => mem'[v] = mem[v],
         pc' = [pc EXCEPT ![w] = p],
         \A n \in Names : Live(n)' => Live(n),
         \A n \in Names : inst[n].state # "none" => inst'[n].state # "none",
         p = pc[w] \/ p \notin {"idle", "create", "created"},
         p # pc[w] => pc[w] # "idle" /\ pc[w] # "created",
         p = "absent" => ~Live(Id(w)),
         p = "createFailed" => pc[w] \in {"create", "createFailed"},
         p \in {"observe", "lateInit", "compare", "absent", "current", "outdated"} =>
           pc[w] \in {"observe", "lateInit", "compare", "absent", "current", "outdated"}
  PROVE  IInv'
<1> USE DEF IInv
<1>1. \A v \in Workers :
        /\ mem'[v].obj.extName = mem[v].obj.extName
        /\ mem'[v].obj.present = mem[v].obj.present
        /\ mem'[v].obj.creation = mem[v].obj.creation
        /\ Sent(v)' = Sent(v)
  <2> SUFFICES ASSUME NEW v \in Workers
               PROVE  /\ mem'[v].obj.extName = mem[v].obj.extName
                      /\ mem'[v].obj.present = mem[v].obj.present
                      /\ mem'[v].obj.creation = mem[v].obj.creation
                      /\ Sent(v)' = Sent(v)
    OBVIOUS
  <2>1. mem[v].obj \in Objects(SpecType)
    BY DEF TypeOK, Copies
  <2>2. PICK r \in BOOLEAN : mem'[v].obj = [mem[v].obj EXCEPT !.ready = r]
    OBVIOUS
  <2>3. [[mem[v].obj EXCEPT !.ready = r] EXCEPT !.ready = cr.ready]
          = [mem[v].obj EXCEPT !.ready = cr.ready]
    BY <2>1 DEF Objects
  <2> QED
    BY <2>1, <2>2, <2>3 DEF Objects, Sent
<1>2. \A v \in Workers : pc'[v] = IF v = w THEN p ELSE pc[v]
  BY DEF TypeOK
<1>3. FreshIsCurrent'
  BY <1>1, <1>2 DEF FreshIsCurrent
<1>4. NamesAreKnown'
  <2>1. ASSUME NEW n \in Names \cup {NoName}, Known(n) PROVE Known(n)'
    BY <2>1 DEF Known
  <2>2. /\ cr.extName \in Names \cup {NoName}
        /\ \A v \in Workers : /\ mem[v].obj.extName \in Names \cup {NoName}
                              /\ cache[v].obj.extName \in Names \cup {NoName}
    BY DEF TypeOK, Copies, Objects
  <2> QED
    BY <1>1, <2>1, <2>2 DEF NamesAreKnown, Known
<1>5. Accounted' /\ AtMostOneLive'
  BY DEF Accounted, AtMostOneLive
<1>6. \A v \in Workers : Creating(v)' => Creating(v)
  BY <1>2 DEF Creating
<1>7. ASSUME NEW v \in Workers, v # w PROVE CreatorKnows(v)'
  <2>1. CreatorKnows(v) /\ mem'[v].obj = mem[v].obj /\ pc'[v] = pc[v]
    BY <1>2, <1>7
  <2>2. Creating(v) => cr'.creation = "pending"
    BY <2>1 DEF CreatorKnows
  <2>3. Creating(v) => \A u \in Workers : Creating(u)' => u = v
    BY <2>1, <1>6 DEF CreatorKnows
  <2> QED
    BY <1>7, <2>1, <2>2, <2>3, OthersKnow
<1>8. CreatorKnows(w)'
  <2>1. CreatorKnows(w) /\ pc'[w] = p
    BY <1>2
  <2>2. Live(Id(w))' => Live(Id(w))
    BY <1>1 DEF TypeOK, Copies, Objects, Id, Live
  <2>3. Creating(w)' => /\ cr'.creation = "pending"
                        /\ \A v \in Workers : Creating(v)' => v = w
    BY <1>6, <2>1 DEF CreatorKnows
  <2>4. p = "absent" => ~Live(mem[w].obj.extName)'
    BY <1>1, <2>2 DEF Id
  <2>5. p \in {"create", "createFailed"} => \A n \in Names : ~Live(n)'
    BY <2>1 DEF CreatorKnows
  <2>6. p = "created" => /\ mem'[w].obj.extName \in Names
                         /\ \A n \in Names : Live(n)' => n = mem'[w].obj.extName
    BY <1>1, <2>1 DEF CreatorKnows
  <2>7. p \in {"observe", "lateInit", "compare", "absent", "current", "outdated"}
          => mem'[w].obj.creation # "pending"
    BY <1>1, <2>1 DEF CreatorKnows
  <2> QED
    BY <2>1, <2>3, <2>4, <2>5, <2>6, <2>7 DEF CreatorKnows
<1> QED
  BY <1>3, <1>4, <1>5, <1>7, <1>8

-----------------------------------------------------------------------------
\* The steps of the kind and of the cloud that write nothing to the API server.

LEMMA SameMem ==
  ASSUME TypeOK, mem' = mem
  PROVE  \A v \in Workers : \E r \in BOOLEAN : mem'[v].obj = [mem[v].obj EXCEPT !.ready = r]
<1> SUFFICES ASSUME NEW v \in Workers
             PROVE  \E r \in BOOLEAN : mem'[v].obj = [mem[v].obj EXCEPT !.ready = r]
  OBVIOUS
<1>1. mem[v].obj \in Objects(SpecType)
  BY DEF TypeOK, Copies
<1>2. mem[v].obj = [mem[v].obj EXCEPT !.ready = mem[v].obj.ready]
  BY <1>1 DEF Objects
<1>3. mem[v].obj.ready \in BOOLEAN
  BY <1>1 DEF Objects
<1> QED
  BY <1>2, <1>3

LEMMA ReadyMem ==
  ASSUME TypeOK, NEW w \in Workers, NEW r \in BOOLEAN,
         mem' = [mem EXCEPT ![w].obj.ready = r]
  PROVE  \A v \in Workers : /\ mem'[v].fresh = mem[v].fresh
                            /\ \E q \in BOOLEAN : mem'[v].obj = [mem[v].obj EXCEPT !.ready = q]
                            /\ v # w => mem'[v] = mem[v]
<1> SUFFICES ASSUME NEW v \in Workers
             PROVE  /\ mem'[v].fresh = mem[v].fresh
                    /\ \E q \in BOOLEAN : mem'[v].obj = [mem[v].obj EXCEPT !.ready = q]
                    /\ v # w => mem'[v] = mem[v]
  OBVIOUS
<1>1. mem[v].obj \in Objects(SpecType)
  BY DEF TypeOK, Copies
<1>2. mem[v].obj = [mem[v].obj EXCEPT !.ready = mem[v].obj.ready] /\ mem[v].obj.ready \in BOOLEAN
  BY <1>1 DEF Objects
<1>3. CASE v = w
  BY <1>3 DEF TypeOK, Copies
<1>4. CASE v # w
  BY <1>2, <1>4 DEF TypeOK
<1> QED
  BY <1>3, <1>4

\* Replacing the content of an instance brings none to life.
LEMMA ContentStep ==
  ASSUME TypeOK, NEW n \in Names, NEW i,
         inst' = [inst EXCEPT ![n] = i],
         i.state \in LiveStates => inst[n].state \in LiveStates,
         inst[n].state # "none" => i.state # "none"
  PROVE  /\ \A m \in Names : Live(m)' => Live(m)
         /\ \A m \in Names : inst[m].state # "none" => inst'[m].state # "none"
BY DEF TypeOK, Live

LEMMA ObserveInv ==
  ASSUME IInv, TypeOK', Trustworthy, NEW w \in Workers,
         \/ ObserveGet(w) \/ ObserveMisread(w) \/ ObserveCompare(w) \/ ObserveFails(w)
  PROVE  IInv'
<1> USE DEF Go
<1>0. TypeOK
  BY DEF IInv
<1>1. CASE ObserveGet(w)
  <2>1. UNCHANGED <<cr, cache, mem, inst>>
    BY <1>1 DEF ObserveGet
  <2>2. (\A n \in Names : Live(n)' => Live(n)) /\ (Live(Id(w))' <=> Live(Id(w)))
    BY <2>1 DEF Live, Id
  <2>3. CASE Exists(Id(w))
    BY <1>0, <1>1, <2>1, <2>2, <2>3, SameMem, QuietStep DEF ObserveGet
  <2>4. CASE ~Exists(Id(w))
    BY <1>0, <1>1, <2>1, <2>2, <2>4, SameMem, QuietStep, ExistsIsLive DEF ObserveGet
  <2> QED
    BY <2>3, <2>4
<1>2. CASE ObserveMisread(w)
  BY <1>2 DEF ObserveMisread, Fault, Trustworthy
<1>3. CASE ObserveCompare(w)
  <2>1. /\ mem' = [mem EXCEPT ![w].obj.ready = TRUE]
        /\ UNCHANGED <<cr, cache, inst>>
    BY <1>3 DEF ObserveCompare
  <2>2. PICK p \in {"current", "outdated"} : pc' = [pc EXCEPT ![w] = p]
    BY <1>3 DEF ObserveCompare
  <2>3. \A n \in Names : Live(n)' => Live(n)
    BY <2>1 DEF Live
  <2> QED
    BY <1>0, <1>3, <2>1, <2>2, <2>3, ReadyMem, QuietStep DEF ObserveCompare
<1>4. CASE ObserveFails(w)
  <2> DEFINE r == IF pc[w] = "compare" THEN TRUE ELSE mem[w].obj.ready
  <2>1. r \in BOOLEAN
    BY <1>0 DEF TypeOK, Copies, Objects
  <2>2. mem' = [mem EXCEPT ![w].obj.ready = r] /\ UNCHANGED <<cr, cache, inst>>
    BY <1>4 DEF ObserveFails
  <2>3. \A n \in Names : Live(n)' => Live(n)
    BY <2>2 DEF Live
  <2>4. \A v \in Workers : /\ mem'[v].fresh = mem[v].fresh
                           /\ \E q \in BOOLEAN : mem'[v].obj = [mem[v].obj EXCEPT !.ready = q]
                           /\ v # w => mem'[v] = mem[v]
    BY <1>0, <2>1, <2>2, ReadyMem
  <2> QED
    BY <1>0, <1>4, <2>2, <2>3, <2>4, QuietStep DEF ObserveFails
<1> QED
  BY <1>1, <1>2, <1>3, <1>4

LEMMA UpdateDeleteInv ==
  ASSUME IInv, TypeOK', NEW w \in Workers,
         \/ UpdateInstance(w) \/ UpdateListTags(w) \/ UpdateAttach(w)
         \/ UpdateDetach(w) \/ UpdateFails(w) \/ Delete(w) \/ DeleteFails(w)
         \/ CreateFails(w)
  PROVE  IInv'
<1> USE DEF Go
<1>0. TypeOK
  BY DEF IInv
<1>1. (\A n \in Names : Live(n)' => Live(n)) /\ (\A n \in Names : inst[n].state # "none" => inst'[n].state # "none")
  <2>1. CASE inst' = inst
    BY <2>1 DEF Live
  <2>2. CASE Live(Id(w)) /\ inst' # inst
    <3>1. Id(w) \in Names /\ inst[Id(w)] \in Instances
      BY <1>0, <2>2, LiveType, MemSpecType DEF TypeOK
    <3>2. PICK i : /\ inst' = [inst EXCEPT ![Id(w)] = i]
                   /\ i.state \in LiveStates => inst[Id(w)].state \in LiveStates
                   /\ i.state # "none"
      <4>1. CASE UpdateInstance(w)
        <5>1. inst'[Id(w)].state = inst[Id(w)].state /\ inst' = [inst EXCEPT ![Id(w)] = inst'[Id(w)]]
          BY <1>0, <2>2, <3>1, <4>1 DEF UpdateInstance, TypeOK, Instances
        <5> QED
          BY <2>2, <5>1 DEF Live, LiveStates
      <4>2. CASE UpdateAttach(w) \/ UpdateDetach(w)
        <5>1. inst'[Id(w)].state = inst[Id(w)].state /\ inst' = [inst EXCEPT ![Id(w)] = inst'[Id(w)]]
          BY <1>0, <2>2, <3>1, <4>2 DEF UpdateAttach, UpdateDetach, TypeOK, Instances
        <5> QED
          BY <2>2, <5>1 DEF Live, LiveStates
      <4>3. CASE Delete(w)
        <5>1. /\ inst'[Id(w)].state \in {"removed", "pending_reclamation"}
              /\ inst' = [inst EXCEPT ![Id(w)] = inst'[Id(w)]]
          BY <1>0, <2>2, <3>1, <4>3 DEF Delete, Blank, TypeOK, Instances
        <5> QED
          BY <5>1 DEF LiveStates
      <4> QED
        BY <2>2, <4>1, <4>2, <4>3
           DEF UpdateListTags, UpdateFails, DeleteFails, CreateFails
    <3> QED
      BY <1>0, <3>1, <3>2, ContentStep
  <2>3. CASE ~Live(Id(w))
    <3>1. inst' = inst
      BY <2>3 DEF UpdateInstance, UpdateListTags, UpdateAttach, UpdateDetach,
                  UpdateFails, Delete, DeleteFails, CreateFails
    <3> QED
      BY <3>1, <2>1
  <2> QED
    BY <2>1, <2>2, <2>3
<1>2. CASE Delete(w) \/ DeleteFails(w) \/ CreateFails(w)
  <2>1. mem' = [mem EXCEPT ![w].obj.ready = FALSE] /\ UNCHANGED <<cr, cache>>
    BY <1>2 DEF Delete, DeleteFails, CreateFails
  <2>2. \A v \in Workers : /\ mem'[v].fresh = mem[v].fresh
                           /\ \E q \in BOOLEAN : mem'[v].obj = [mem[v].obj EXCEPT !.ready = q]
                           /\ v # w => mem'[v] = mem[v]
    BY <1>0, <2>1, ReadyMem
  <2>3. PICK p \in {"finish", "createFailed"} :
          /\ pc' = [pc EXCEPT ![w] = p]
          /\ pc[w] \in {"current", "outdated", "create"}
          /\ p = "createFailed" => pc[w] = "create"
    BY <1>2 DEF Delete, DeleteFails, CreateFails
  <2> QED
    BY <1>1, <2>1, <2>2, <2>3, QuietStep
<1>3. CASE ~(Delete(w) \/ DeleteFails(w) \/ CreateFails(w))
  <2>1. mem' = mem /\ UNCHANGED <<cr, cache>>
    BY <1>3 DEF UpdateInstance, UpdateListTags, UpdateAttach, UpdateDetach, UpdateFails
  <2>2. PICK p \in {"listTags", "attach", "detach", "finish"} :
          /\ pc' = [pc EXCEPT ![w] = p]
          /\ pc[w] \in {"outdated", "listTags", "attach", "detach"}
    BY <1>3 DEF UpdateInstance, UpdateListTags, UpdateAttach, UpdateDetach, UpdateFails
  <2>3. \A v \in Workers : \E r \in BOOLEAN : mem'[v].obj = [mem[v].obj EXCEPT !.ready = r]
    BY <1>0, <2>1, SameMem
  <2> QED
    BY <1>1, <2>1, <2>2, <2>3, QuietStep
<1> QED
  BY <1>2, <1>3

-----------------------------------------------------------------------------
\* The steps of w that leave the cloud alone and may write to the API server.

LEMMA PassStep ==
  ASSUME IInv, TypeOK', NEW w \in Workers, NEW p, UNCHANGED inst,
         pc' = [pc EXCEPT ![w] = p],
         FreshIsCurrent',
         \A v \in Workers : v # w => mem'[v].obj = mem[v].obj,
         \A v \in Workers : cache'[v].obj \in {cache[v].obj, cr},
         Known(mem'[w].obj.extName), Known(cr'.extName),
         \A v \in Workers : v # w /\ Creating(v) => cr'.creation = "pending" /\ ~Creating(w)',
         cr'.creation = "pending" => cr'.present /\ cr'.finalizer,
         \A n \in Names : Live(n) =>
           cr'.present /\ cr'.finalizer /\ (cr'.extName = n \/ cr'.creation = "pending"),
         CreatorKnows(w)'
  PROVE  IInv'
<1> USE DEF IInv
<1>1. NamesAreKnown'
  BY DEF NamesAreKnown, Known
<1>2. Accounted' /\ AtMostOneLive'
  BY DEF Accounted, AtMostOneLive, Live
<1>3. ASSUME NEW v \in Workers, v # w PROVE CreatorKnows(v)'
  <2>1. CreatorKnows(v) /\ mem'[v].obj = mem[v].obj /\ pc'[v] = pc[v]
    BY <1>3 DEF TypeOK
  <2>2. Creating(v) => \A u \in Workers : Creating(u)' => u = v
    BY <1>3, <2>1 DEF CreatorKnows, Creating, TypeOK
  <2>3. \A n \in Names : Live(n)' => Live(n)
    BY DEF Live
  <2> QED
    BY <1>3, <2>1, <2>2, <2>3, OthersKnow
<1> QED
  BY <1>1, <1>2, <1>3

\* Worker w is not creating: a write of its current copy that keeps the creation
\* annotation and the name, and does not lead to a creation.
LEMMA WriteStep ==
  ASSUME IInv, TypeOK', NEW w \in Workers, NEW p, UNCHANGED inst,
         NEW o \in Objects(SpecType), NEW c \in Copies(SpecType),
         Put(w, o, c), pc' = [pc EXCEPT ![w] = p],
         c = NoCopy \/ c = [obj |-> o, fresh |-> TRUE],
         c = NoCopy <=> p = "idle",
         o.present = cr.present, o.creation = cr.creation, o.extName = cr.extName,
         cr.finalizer => o.finalizer,
         mem[w].fresh, pc[w] # "created", pc[w] # "idle", ~Creating(w),
         p \in {pc[w], "idle", "compare"},
         p = "compare" => pc[w] = "lateInit"
  PROVE  IInv'
<1> USE DEF IInv
<1>1. /\ cr.present = mem[w].obj.present /\ cr.creation = mem[w].obj.creation
      /\ cr.extName = mem[w].obj.extName
  BY FreshFields
<1>2. mem[w].obj.present
  BY DEF FreshIsCurrent
<1>3. [o EXCEPT !.ready = o.ready] = o
  BY DEF Objects
<1>4. ~NoCopy.fresh /\ NoCopy.obj.extName = NoName
  BY DEF NoCopy, NoObject, NewObject
<1>5. FreshIsCurrent'
  BY <1>1, <1>2, <1>3, <1>4, PutKeepsFresh
<1>6. cr' = o /\ mem'[w] = c /\ \A v \in Workers : v # w => mem'[v].obj = mem[v].obj
  BY PutType DEF Put
<1>7. \A v \in Workers : cache'[v].obj \in {cache[v].obj, cr}
  BY StaleType DEF Put, TypeOK
<1>8. Known(mem'[w].obj.extName) /\ Known(cr'.extName)
  BY <1>4, <1>6 DEF NamesAreKnown, Known
<1>9. pc'[w] = p /\ ~Creating(w)'
  BY DEF TypeOK, Creating
<1>10. CreatorKnows(w)'
  <2>1. CASE p = "idle"
    BY <1>9, <2>1 DEF CreatorKnows, Creating
  <2>2. CASE p # "idle"
    <3>1. mem'[w].obj.extName = mem[w].obj.extName /\ mem'[w].obj.creation = mem[w].obj.creation
      BY <1>1, <1>6, <2>2
    <3>2. CreatorKnows(w)
      OBVIOUS
    <3> QED
      BY <1>9, <3>1, <3>2 DEF CreatorKnows, Creating, Live
  <2> QED
    BY <2>1, <2>2
<1>11. \A v \in Workers : v # w /\ Creating(v) => cr'.creation = "pending" /\ ~Creating(w)'
  BY <1>6, <1>9 DEF CreatorKnows
<1>12. \A n \in Names : Live(n) =>
         cr'.present /\ cr'.finalizer /\ (cr'.extName = n \/ cr'.creation = "pending")
  BY <1>6 DEF Accounted
<1> QED
  BY <1>5, <1>6, <1>7, <1>8, <1>10, <1>11, <1>12, PassStep

\* A write the API server refuses with a conflict ends the pass.
LEMMA ConflictStep ==
  ASSUME IInv, TypeOK', NEW w \in Workers, UNCHANGED <<cr, cache, mem, inst>>,
         pc' = [pc EXCEPT ![w] = "finish"], pc[w] # "idle", pc[w] # "created"
  PROVE  IInv'
<1>1. TypeOK
  BY DEF IInv
<1>2. \A n \in Names : Live(n)' => Live(n)
  BY DEF Live
<1> QED
  BY <1>1, <1>2, SameMem, QuietStep

\* A pass that ends without a write.
LEMMA ForgottenStep ==
  ASSUME IInv, TypeOK', NEW w \in Workers, UNCHANGED <<cr, cache, inst>>,
         mem' = [mem EXCEPT ![w] = NoCopy], pc' = [pc EXCEPT ![w] = "idle"]
  PROVE  IInv'
<1> USE DEF IInv
<1>1. ~NoCopy.fresh /\ NoCopy.obj.extName = NoName
  BY DEF NoCopy, NoObject, NewObject
<1>2. /\ mem'[w] = NoCopy /\ pc'[w] = "idle"
      /\ \A v \in Workers : v # w => mem'[v] = mem[v] /\ pc'[v] = pc[v]
  BY DEF TypeOK
<1>3. FreshIsCurrent'
  BY <1>1, <1>2 DEF FreshIsCurrent, Sent
<1>4. Known(mem'[w].obj.extName) /\ Known(cr'.extName)
  BY <1>1, <1>2 DEF NamesAreKnown, Known
<1>5. CreatorKnows(w)' /\ ~Creating(w)'
  BY <1>2 DEF CreatorKnows, Creating
<1>6. \A v \in Workers : v # w /\ Creating(v) => cr'.creation = "pending" /\ ~Creating(w)'
  BY <1>5 DEF CreatorKnows
<1>7. \A n \in Names : Live(n) =>
         cr'.present /\ cr'.finalizer /\ (cr'.extName = n \/ cr'.creation = "pending")
  BY DEF Accounted
<1> QED
  BY <1>2, <1>3, <1>4, <1>5, <1>6, <1>7, PassStep

LEMMA StatusInv ==
  ASSUME IInv, TypeOK', NEW w \in Workers, UNCHANGED inst, NEW r \in BOOLEAN,
         UpdateStatus(w, r), pc[w] # "idle", ~Creating(w)
  PROVE  IInv'
<1> USE DEF IInv
<1>1. pc' = [pc EXCEPT ![w] = "idle"] /\ pc[w] # "created"
  BY DEF UpdateStatus, Go, Creating
<1>2. CASE mem[w].fresh
  <2> DEFINE o == [cr EXCEPT !.ready = r]
  <2>1. Put(w, o, NoCopy)
    BY <1>2 DEF UpdateStatus
  <2>2. /\ o \in Objects(SpecType) /\ o.present = cr.present /\ o.creation = cr.creation
        /\ o.extName = cr.extName /\ o.finalizer = cr.finalizer
    BY DEF TypeOK, Objects
  <2>3. NoCopy \in Copies(SpecType)
    BY NoObjectType
  <2> HIDE DEF o
  <2> QED
    BY <1>1, <1>2, <2>1, <2>2, <2>3, WriteStep
<1>3. CASE ~mem[w].fresh
  <2>1. mem' = [mem EXCEPT ![w] = NoCopy] /\ UNCHANGED <<cr, cache>>
    BY <1>3 DEF UpdateStatus
  <2> QED
    BY <1>1, <2>1, ForgottenStep
<1> QED
  BY <1>2, <1>3
\* The read of a pass.
LEMMA FetchInv ==
  ASSUME IInv, TypeOK', NEW w \in Workers, UNCHANGED inst, Fetch(w)
  PROVE  IInv'
<1> USE DEF IInv
<1>1. PICK p \in {"refuse", "observe"} :
        /\ pc' = [pc EXCEPT ![w] = p]
        /\ p = "observe" => cache[w].obj.creation # "pending"
  BY DEF Fetch, Go
<1>2. mem' = [mem EXCEPT ![w] = cache[w]] /\ UNCHANGED <<cr, cache>>
  BY DEF Fetch
<1>3. /\ mem'[w] = cache[w] /\ pc'[w] = p
      /\ \A v \in Workers : v # w => mem'[v] = mem[v] /\ pc'[v] = pc[v]
  BY <1>1, <1>2 DEF TypeOK
<1>4. [cr EXCEPT !.ready = cr.ready] = cr
  BY DEF TypeOK, Objects
<1>5. FreshIsCurrent'
  BY <1>1, <1>2, <1>3, <1>4 DEF FreshIsCurrent, Sent, Fetch
<1>6. Known(mem'[w].obj.extName) /\ Known(cr'.extName)
  BY <1>2, <1>3 DEF NamesAreKnown, Known
<1>7. CreatorKnows(w)' /\ ~Creating(w)'
  BY <1>1, <1>3 DEF CreatorKnows, Creating
<1>8. \A v \in Workers : v # w /\ Creating(v) => cr'.creation = "pending" /\ ~Creating(w)'
  BY <1>2, <1>7 DEF CreatorKnows
<1>9. \A n \in Names : Live(n) =>
         cr'.present /\ cr'.finalizer /\ (cr'.extName = n \/ cr'.creation = "pending")
  BY <1>2 DEF Accounted
<1> QED
  BY <1>1, <1>2, <1>3, <1>5, <1>6, <1>7, <1>8, <1>9, PassStep

LEMMA SyncCacheInv ==
  ASSUME IInv, TypeOK', NEW w \in Workers, UNCHANGED inst, SyncCache(w)
  PROVE  IInv'
<1> USE DEF IInv
<1>1. /\ cache' = [cache EXCEPT ![w] = [obj |-> cr, fresh |-> TRUE]]
      /\ UNCHANGED <<cr, mem, pc>>
  BY DEF SyncCache
<1>2. \A v \in Workers : cache'[v] \in {cache[v], [obj |-> cr, fresh |-> TRUE]}
  BY <1>1 DEF TypeOK
<1>3. FreshIsCurrent'
  BY <1>1, <1>2 DEF FreshIsCurrent, Sent
<1>4. pc' = [pc EXCEPT ![w] = pc[w]]
  BY <1>1 DEF TypeOK
<1>5. Known(mem'[w].obj.extName) /\ Known(cr'.extName)
  BY <1>1 DEF NamesAreKnown, Known
<1>6. CreatorKnows(w)' /\ (Creating(w)' <=> Creating(w))
  BY <1>1 DEF CreatorKnows, Creating, Live
<1>7. \A v \in Workers : v # w /\ Creating(v) => cr'.creation = "pending" /\ ~Creating(w)'
  BY <1>1, <1>6 DEF CreatorKnows
<1>8. \A n \in Names : Live(n) =>
         cr'.present /\ cr'.finalizer /\ (cr'.extName = n \/ cr'.creation = "pending")
  BY <1>1 DEF Accounted
<1>9. \A v \in Workers : cache'[v].obj \in {cache[v].obj, cr}
  BY <1>2
<1> QED
  BY <1>1, <1>3, <1>4, <1>5, <1>6, <1>7, <1>8, <1>9, PassStep

LEMMA AddFinalizerInv ==
  ASSUME IInv, TypeOK', NEW w \in Workers, UNCHANGED inst, AddFinalizer(w)
  PROVE  IInv'
<1> USE DEF IInv
<1> DEFINE o == [Sent(w) EXCEPT !.finalizer = TRUE]
<1>1. /\ pc[w] \in {"absent", "current", "outdated"} /\ ~Creating(w)
      /\ ClientUpdate(w, o, pc[w])
  BY DEF AddFinalizer, Creating
<1>2. CASE mem[w].fresh
  <2>1. /\ o \in Objects(SpecType) /\ o.present = cr.present /\ o.creation = cr.creation
        /\ o.extName = cr.extName /\ o.finalizer
    BY <1>1, <1>2, FreshFields DEF TypeOK, Objects
  <2>2. [obj |-> o, fresh |-> TRUE] \in Copies(SpecType) /\ [obj |-> o, fresh |-> TRUE] # NoCopy
    BY <2>1 DEF Copies, NoCopy
  <2>3. Put(w, o, [obj |-> o, fresh |-> TRUE]) /\ pc' = [pc EXCEPT ![w] = pc[w]]
    BY <1>1, <1>2 DEF ClientUpdate, Go
  <2> HIDE DEF o
  <2> QED
    BY <1>1, <1>2, <2>1, <2>2, <2>3, WriteStep
<1>3. CASE ~mem[w].fresh
  <2>1. UNCHANGED <<cr, cache, mem>> /\ pc' = [pc EXCEPT ![w] = "finish"]
    BY <1>1, <1>3 DEF ClientUpdate, Go
  <2> QED
    BY <1>1, <2>1, ConflictStep
<1> QED
  BY <1>2, <1>3

\* The write-back of late initialisation, the one client.Update in Observe.
LEMMA LateInitInv ==
  ASSUME IInv, TypeOK', NEW w \in Workers, ObserveLateInit(w)
  PROVE  IInv'
<1> USE DEF IInv
<1> DEFINE spec == LateInitializeSpec(mem[w].obj.spec, seen[w], ListTags(Id(w)))
           o == [Sent(w) EXCEPT !.spec = spec]
<1>1. pc[w] = "lateInit" /\ ~Creating(w) /\ UNCHANGED inst
  BY DEF ObserveLateInit, Creating
<1>2. spec \in SpecType
  <2>1. seen[w] \in Content /\ Id(w) \in Names
    BY <1>1 DEF TypeOK, PassSaw, KindPhases
  <2>2. inst[Id(w)].is.tags \in SUBSET Tags
    BY <2>1 DEF TypeOK, Instances, Content, NoContent
  <2> QED
    BY <2>1, <2>2, ListTagsType, LateInitType, MemSpecType DEF ListTags
<1>3. CASE spec = mem[w].obj.spec
  <2>1. UNCHANGED <<cr, cache, mem>> /\ pc' = [pc EXCEPT ![w] = "compare"]
    BY <1>3 DEF ObserveLateInit, Go
  <2>2. \A n \in Names : Live(n)' => Live(n)
    BY <1>1 DEF Live
  <2> QED
    BY <1>1, <2>1, <2>2, SameMem, QuietStep
<1>4. CASE spec # mem[w].obj.spec /\ mem[w].fresh
  <2>1. Sent(w) = cr
    BY <1>1, <1>4, FreshFields
  <2>2. /\ o \in Objects(SpecType) /\ o.present = cr.present /\ o.creation = cr.creation
        /\ o.extName = cr.extName /\ o.finalizer = cr.finalizer
    BY <1>2, <2>1 DEF TypeOK, Objects
  <2>3. Put(w, o, [obj |-> o, fresh |-> TRUE]) /\ pc' = [pc EXCEPT ![w] = "compare"]
    BY <1>4 DEF ObserveLateInit, ClientUpdate, Go
  <2> HIDE DEF o
  <2>4. [obj |-> o, fresh |-> TRUE] \in Copies(SpecType) /\ [obj |-> o, fresh |-> TRUE] # NoCopy
    BY <2>2 DEF Copies, NoCopy
  <2> QED
    BY <1>1, <1>4, <2>2, <2>3, <2>4, WriteStep
<1>5. CASE spec # mem[w].obj.spec /\ ~mem[w].fresh
  <2>1. UNCHANGED <<cr, cache, mem>> /\ pc' = [pc EXCEPT ![w] = "finish"]
    BY <1>5 DEF ObserveLateInit, ClientUpdate, Go
  <2> QED
    BY <1>1, <2>1, ConflictStep
<1> QED
  BY <1>3, <1>4, <1>5

\* The pending annotation is only written when no instance is alive.
LEMMA MarkPendingInv ==
  ASSUME IInv, TypeOK', NEW w \in Workers, UNCHANGED inst, MarkPending(w)
  PROVE  IInv'
<1> USE DEF IInv
<1> DEFINE o == [Sent(w) EXCEPT !.creation = "pending"]
           c == [obj |-> o, fresh |-> TRUE]
<1>1. /\ pc[w] = "absent" /\ ClientUpdate(w, o, "create")
      /\ mem[w].obj.finalizer /\ mem[w].obj.present
  BY DEF MarkPending, FreshIsCurrent
<1>2. CASE mem[w].fresh
  <2>1. /\ Sent(w) = cr /\ cr.present /\ cr.finalizer /\ cr.extName = mem[w].obj.extName
        /\ cr.creation = mem[w].obj.creation
    BY <1>1, <1>2, FreshFields
  <2>2. /\ o \in Objects(SpecType) /\ o.present /\ o.creation = "pending"
        /\ o.extName = cr.extName /\ o.finalizer /\ c \in Copies(SpecType)
    BY <2>1 DEF TypeOK, Objects, Creation, Copies
  <2>3. Put(w, o, c) /\ pc' = [pc EXCEPT ![w] = "create"]
    BY <1>1, <1>2 DEF ClientUpdate, Go
  <2>4. cr.creation # "pending" /\ ~Live(cr.extName)
    BY <1>1, <2>1 DEF CreatorKnows
  <2>5. \A n \in Names : ~Live(n)
    BY <2>4 DEF Accounted
  <2>6. \A v \in Workers : ~Creating(v)
    BY <2>4 DEF CreatorKnows
  <2> HIDE DEF o
  <2>7. [c.obj EXCEPT !.ready = o.ready] = o /\ c.obj.present
    BY <2>2 DEF Objects
  <2>8. FreshIsCurrent'
    BY <2>2, <2>3, <2>7, PutKeepsFresh
  <2>9. cr' = o /\ mem'[w] = c /\ \A v \in Workers : v # w => mem'[v].obj = mem[v].obj
    BY <2>2, <2>3, PutType DEF Put
  <2>10. \A v \in Workers : cache'[v].obj \in {cache[v].obj, cr}
    BY <2>3, StaleType DEF Put, TypeOK
  <2>11. Known(mem'[w].obj.extName) /\ Known(cr'.extName)
    BY <2>2, <2>9 DEF NamesAreKnown, Known
  <2>12. \A v \in Workers : pc'[v] = IF v = w THEN "create" ELSE pc[v]
    BY <2>3 DEF TypeOK
  <2>13. CreatorKnows(w)'
    BY <2>2, <2>5, <2>6, <2>9, <2>12 DEF CreatorKnows, Creating, Live
  <2> QED
    BY <2>2, <2>3, <2>5, <2>6, <2>8, <2>9, <2>10, <2>11, <2>13, PassStep
<1>3. CASE ~mem[w].fresh
  <2>1. UNCHANGED <<cr, cache, mem>> /\ pc' = [pc EXCEPT ![w] = "finish"]
    BY <1>1, <1>3 DEF ClientUpdate, Go
  <2> QED
    BY <1>1, <2>1, ConflictStep
<1> QED
  BY <1>2, <1>3
\* The annotations that record a creation name the one instance alive, or none is.
LEMMA RecordInv ==
  ASSUME IInv, TypeOK', NEW w \in Workers, UNCHANGED inst,
         RecordCreated(w) \/ RecordFailed(w)
  PROVE  IInv'
<1> USE DEF IInv
<1>1. PICK r \in {"succeeded", "failed"} : Record(w, r)
  BY DEF RecordCreated, RecordFailed
<1> DEFINE o == [cr EXCEPT !.creation = r,
                           !.extName = IF mem[w].obj.extName = NoName
                                       THEN @ ELSE mem[w].obj.extName]
           c == [obj |-> o, fresh |-> TRUE]
<1>2. /\ pc[w] \in {"created", "createFailed"} /\ cr.creation = "pending"
      /\ cr.present /\ cr.finalizer /\ \A v \in Workers : Creating(v) => v = w
  BY DEF RecordCreated, RecordFailed, CreatorKnows, Creating
<1>3. Put(w, o, c) /\ pc' = [pc EXCEPT ![w] = "finish"]
  BY <1>1 DEF Record, Go
<1>4. /\ o \in Objects(SpecType) /\ o.present /\ o.creation # "pending" /\ o.finalizer
      /\ c \in Copies(SpecType)
      /\ o.extName = (IF mem[w].obj.extName = NoName THEN cr.extName ELSE mem[w].obj.extName)
  BY <1>2 DEF TypeOK, Objects, Creation, Copies
<1>5. \A n \in Names : Live(n) => o.extName = n
  BY <1>2, <1>4, ReconcilerAssumption DEF CreatorKnows
<1>6. Known(o.extName)
  BY <1>4 DEF NamesAreKnown
<1> HIDE DEF o
<1>7. [c.obj EXCEPT !.ready = o.ready] = o /\ c.obj.present
  BY <1>4 DEF Objects
<1>8. FreshIsCurrent'
  BY <1>3, <1>4, <1>7, PutKeepsFresh
<1>9. cr' = o /\ mem'[w] = c /\ \A v \in Workers : v # w => mem'[v].obj = mem[v].obj
  BY <1>3, <1>4, PutType DEF Put
<1>10. \A v \in Workers : cache'[v].obj \in {cache[v].obj, cr}
  BY <1>3, StaleType DEF Put, TypeOK
<1>11. Known(mem'[w].obj.extName) /\ Known(cr'.extName)
  BY <1>6, <1>9 DEF Known
<1>12. pc'[w] = "finish"
  BY <1>3 DEF TypeOK
<1>13. CreatorKnows(w)'
  BY <1>12 DEF CreatorKnows, Creating
<1> QED
  BY <1>2, <1>3, <1>4, <1>5, <1>8, <1>9, <1>10, <1>11, <1>13, PassStep

\* Giving up on recording a creation leaves the pending annotation in place.
LEMMA RecordExhaustedInv ==
  ASSUME IInv, TypeOK', NEW w \in Workers, UNCHANGED inst, RecordExhausted(w)
  PROVE  IInv'
<1> USE DEF IInv
<1>1. /\ pc' = [pc EXCEPT ![w] = "finish"]
      /\ mem' = [mem EXCEPT ![w] = Stale(mem[w])]
      /\ UNCHANGED <<cr, cache>> /\ pc[w] # "idle"
  BY DEF RecordExhausted, Go
<1>2. /\ mem'[w].obj = mem[w].obj /\ ~mem'[w].fresh /\ pc'[w] = "finish"
      /\ \A v \in Workers : v # w => mem'[v] = mem[v] /\ pc'[v] = pc[v]
  BY <1>1, StaleType DEF TypeOK
<1>3. FreshIsCurrent'
  BY <1>1, <1>2 DEF FreshIsCurrent, Sent
<1>4. Known(mem'[w].obj.extName) /\ Known(cr'.extName)
  BY <1>1, <1>2 DEF NamesAreKnown, Known
<1>5. CreatorKnows(w)' /\ ~Creating(w)'
  BY <1>2 DEF CreatorKnows, Creating
<1>6. \A v \in Workers : v # w /\ Creating(v) => cr'.creation = "pending" /\ ~Creating(w)'
  BY <1>1, <1>5 DEF CreatorKnows
<1>7. \A n \in Names : Live(n) =>
         cr'.present /\ cr'.finalizer /\ (cr'.extName = n \/ cr'.creation = "pending")
  BY <1>1 DEF Accounted
<1> QED
  BY <1>1, <1>2, <1>3, <1>4, <1>5, <1>6, <1>7, PassStep

\* The CR is released only after its instance is gone.
LEMMA RemoveFinalizerInv ==
  ASSUME IInv, TypeOK', NEW w \in Workers, UNCHANGED inst, RemoveFinalizer(w)
  PROVE  IInv'
<1> USE DEF IInv
<1>1. pc[w] = "absent"
  BY DEF RemoveFinalizer
<1>2. CASE mem[w].fresh
  <2>1. Put(w, NoObject, NoCopy) /\ pc' = [pc EXCEPT ![w] = "idle"]
    BY <1>2 DEF RemoveFinalizer, Go
  <2>2. NoObject \in Objects(SpecType) /\ NoCopy \in Copies(SpecType)
    BY NoObjectType
  <2>3. ~NoCopy.fresh /\ NoCopy.obj.extName = NoName /\ NoObject.extName = NoName
        /\ NoObject.creation # "pending"
    BY DEF NoCopy, NoObject, NewObject
  <2>4. FreshIsCurrent'
    BY <2>1, <2>2, <2>3, PutKeepsFresh
  <2>5. cr.extName = mem[w].obj.extName /\ cr.creation = mem[w].obj.creation
    BY <1>1, <1>2, FreshFields
  <2>6. cr.creation # "pending" /\ ~Live(cr.extName)
    BY <1>1, <2>5 DEF CreatorKnows
  <2>7. (\A n \in Names : ~Live(n)) /\ \A v \in Workers : ~Creating(v)
    BY <2>6 DEF Accounted, CreatorKnows
  <2>8. cr' = NoObject /\ mem'[w] = NoCopy
        /\ \A v \in Workers : v # w => mem'[v].obj = mem[v].obj
    BY <2>1, <2>2, PutType DEF Put
  <2>9. \A v \in Workers : cache'[v].obj \in {cache[v].obj, cr}
    BY <2>1, StaleType DEF Put, TypeOK
  <2>10. Known(mem'[w].obj.extName) /\ Known(cr'.extName)
    BY <2>3, <2>8 DEF Known
  <2>11. pc'[w] = "idle"
    BY <2>1 DEF TypeOK
  <2>12. CreatorKnows(w)'
    BY <2>11 DEF CreatorKnows, Creating
  <2> QED
    BY <2>1, <2>3, <2>4, <2>7, <2>8, <2>9, <2>10, <2>12, PassStep
<1>3. CASE ~mem[w].fresh
  <2>1. UNCHANGED <<cr, cache, mem>> /\ pc' = [pc EXCEPT ![w] = "finish"]
    BY <1>3 DEF RemoveFinalizer, Go
  <2> QED
    BY <1>1, <2>1, ConflictStep
<1> QED
  BY <1>2, <1>3

LEMMA LoopInvKept ==
  ASSUME IInv, TypeOK', NEW w \in Workers, UNCHANGED inst,
         ReconcilerStep(w) \/ ReconcilerFault(w) \/ SyncCache(w)
  PROVE  IInv'
<1>1. CASE Refuse(w)
  BY <1>1, StatusInv DEF Refuse, Creating
<1>2. CASE Finish(w)
  <2>1. mem[w].obj.ready \in BOOLEAN
    BY DEF IInv, TypeOK, Copies, Objects
  <2> QED
    BY <1>2, <2>1, StatusInv DEF Finish, Creating
<1>3. CASE Crash(w)
  BY <1>3, ForgottenStep DEF Crash, Go
<1> QED
  BY <1>1, <1>2, <1>3, FetchInv, SyncCacheInv, AddFinalizerInv, MarkPendingInv,
     RecordInv, RecordExhaustedInv, RemoveFinalizerInv
     DEF ReconcilerStep, ReconcilerFault

-----------------------------------------------------------------------------
\* The one step that brings an instance to life.
LEMMA CreateInv ==
  ASSUME IInv, TypeOK', NEW w \in Workers, Create(w)
  PROVE  IInv'
<1> USE DEF IInv
<1>1. PICK n \in Names :
        /\ inst[n].state = "none"
        /\ inst' = [inst EXCEPT ![n] = Created(mem[w].obj.spec)]
        /\ mem' = [mem EXCEPT ![w].obj = [@ EXCEPT !.extName = n, !.ready = FALSE]]
  BY DEF Create
<1>2. pc[w] = "create" /\ pc' = [pc EXCEPT ![w] = "created"] /\ UNCHANGED <<cr, cache>>
  BY DEF Create, Go
<1>3. /\ cr.creation = "pending" /\ (\A v \in Workers : Creating(v) => v = w)
      /\ \A m \in Names : ~Live(m)
  BY <1>2 DEF CreatorKnows, Creating
<1>4. \A m \in Names : Live(m)' => m = n
  BY <1>1, <1>3 DEF Live, TypeOK
<1>5. /\ mem'[w].obj.extName = n /\ pc'[w] = "created"
      /\ mem'[w].obj.present = mem[w].obj.present
      /\ \A v \in Workers : v # w => mem'[v] = mem[v] /\ pc'[v] = pc[v]
  <2>1. mem[w].obj \in Objects(SpecType)
    BY DEF TypeOK, Copies
  <2> QED
    BY <1>1, <1>2, <2>1 DEF TypeOK, Copies, Objects
<1>6. FreshIsCurrent'
  BY <1>2, <1>5 DEF FreshIsCurrent, Sent
<1>7. NamesAreKnown'
  <2>1. inst'[n].state # "none" /\ \A m \in Names : m # n => inst'[m] = inst[m]
    BY <1>1 DEF TypeOK, Created
  <2>2. /\ cr.extName \in Names \cup {NoName}
        /\ \A v \in Workers : /\ mem[v].obj.extName \in Names \cup {NoName}
                              /\ cache[v].obj.extName \in Names \cup {NoName}
    BY DEF TypeOK, Copies, Objects
  <2>3. ASSUME NEW m \in Names \cup {NoName}, Known(m) PROVE Known(m)'
    BY <2>1, <2>3 DEF Known
  <2>4. Known(cr.extName)' /\ \A v \in Workers : Known(cache[v].obj.extName)'
    BY <1>2, <2>2, <2>3 DEF NamesAreKnown, Known
  <2>5. ASSUME NEW v \in Workers PROVE Known(mem[v].obj.extName)'
    <3>1. CASE v = w
      BY <1>5, <2>1, <3>1 DEF Known
    <3>2. CASE v # w
      BY <1>5, <2>2, <2>3, <3>2 DEF NamesAreKnown, Known
    <3> QED
      BY <3>1, <3>2
  <2> QED
    BY <2>4, <2>5 DEF NamesAreKnown
<1>8. ASSUME NEW v \in Workers PROVE CreatorKnows(v)'
  <2>1. CASE v = w
    BY <1>2, <1>3, <1>4, <1>5, <2>1 DEF CreatorKnows, Creating
  <2>2. CASE v # w
    <3>1. ~Creating(v) /\ ~Creating(v)' /\ pc'[v] = pc[v] /\ mem'[v] = mem[v]
      BY <1>3, <1>5, <2>2 DEF Creating
    <3>2. pc[v] = "absent" => ~Live(mem[v].obj.extName)'
      <4>1. Known(mem[v].obj.extName)
        BY DEF NamesAreKnown
      <4>2. mem[v].obj.extName # n
        BY <1>1, <4>1, ReconcilerAssumption DEF Known
      <4>3. mem[v].obj.extName \in Names \cup {NoName}
        BY DEF TypeOK, Copies, Objects
      <4> QED
        BY <1>4, <3>1, <4>2, <4>3 DEF Live
    <3> QED
      BY <3>1, <3>2 DEF CreatorKnows, Creating
  <2> QED
    BY <2>1, <2>2
<1>9. Accounted' /\ AtMostOneLive'
  BY <1>2, <1>3, <1>4 DEF Accounted, AtMostOneLive
<1> QED
  BY <1>2, <1>6, <1>7, <1>8, <1>9

\* Users cannot make the API server forget a CR whose instance is alive.
LEMMA UserInv ==
  ASSUME IInv, TypeOK', UserStep, UNCHANGED inst
  PROVE  IInv'
<1> USE DEF IInv
<1>1. PICK o : /\ UserWrites(o)
               /\ \/ o = NoObject /\ ~cr.finalizer
                  \/ o = [cr EXCEPT !.deleting = TRUE]
                  \/ \E s \in UserSpecs : \/ o = NewObject(s) /\ ~cr.present
                                          \/ o = [cr EXCEPT !.spec = s]
  BY DEF UserStep, UserDeletes, UserApplies
<1>2. /\ cr' = o /\ pc' = pc
      /\ \A v \in Workers : /\ mem'[v].obj = mem[v].obj /\ ~mem'[v].fresh
                            /\ cache'[v].obj = cache[v].obj /\ ~cache'[v].fresh
  BY <1>1, StaleType DEF UserWrites, TypeOK
<1>3. \/ /\ o.extName = NoName /\ o.creation = "none"
         /\ cr.creation # "pending" /\ \A n \in Names : ~Live(n)
      \/ /\ o.present = cr.present /\ o.finalizer = cr.finalizer
         /\ o.creation = cr.creation /\ o.extName = cr.extName
  <2>1. CASE o = NoObject /\ ~cr.finalizer
    <3>1. o.extName = NoName /\ o.creation = "none"
      BY <2>1 DEF NoObject, NewObject
    <3> QED
      BY <2>1, <3>1 DEF Accounted
  <2>2. CASE o = [cr EXCEPT !.deleting = TRUE]
    BY <2>2 DEF TypeOK, Objects
  <2>3. ASSUME NEW s \in UserSpecs, o = NewObject(s), ~cr.present
        PROVE  /\ o.extName = NoName /\ o.creation = "none"
               /\ cr.creation # "pending" /\ \A n \in Names : ~Live(n)
    BY <2>3 DEF NewObject, Accounted
  <2>4. ASSUME NEW s \in UserSpecs, o = [cr EXCEPT !.spec = s]
        PROVE  /\ o.present = cr.present /\ o.finalizer = cr.finalizer
               /\ o.creation = cr.creation /\ o.extName = cr.extName
    BY <2>4 DEF TypeOK, Objects
  <2> QED
    BY <1>1, <2>1, <2>2, <2>3, <2>4
<1>4. FreshIsCurrent'
  BY <1>2 DEF FreshIsCurrent
<1>5. NamesAreKnown'
  BY <1>2, <1>3 DEF NamesAreKnown, Known
<1>6. ASSUME NEW v \in Workers PROVE CreatorKnows(v)'
  <2>1. CreatorKnows(v) /\ \A n \in Names : Live(n)' => Live(n)
    BY DEF Live
  <2>2. Creating(v) => cr'.creation = "pending"
    BY <1>2, <1>3, <2>1 DEF CreatorKnows
  <2>3. Creating(v) => \A u \in Workers : Creating(u)' => u = v
    BY <1>2, <2>1 DEF CreatorKnows, Creating
  <2> QED
    BY <1>2, <2>1, <2>2, <2>3, OthersKnow
<1>7. Accounted' /\ AtMostOneLive' /\ (cr'.creation = "pending" => cr'.present /\ cr'.finalizer)
  BY <1>2, <1>3 DEF Accounted, AtMostOneLive, Live
<1> QED
  BY <1>4, <1>5, <1>6, <1>7

\* By itself the cloud only ever takes instances down.
LEMMA CloudInv ==
  ASSUME IInv, TypeOK', Trustworthy, NEW n \in Names,
         Provisioned(n) \/ Reclaimed(n) \/ Drifts(n) \/ Restored(n)
  PROVE  IInv'
<1> USE DEF IInv
<1>1. ~Restored(n)
  BY DEF Restored, Fault, Trustworthy
<1>2. PICK i : Changes(n, i) /\ (i.state \in LiveStates => inst[n].state \in LiveStates)
               /\ i.state # "none"
  <2>1. inst[n] \in Instances
    BY DEF TypeOK
  <2>2. CASE Provisioned(n)
    BY <2>1, <2>2 DEF Provisioned, Instances, LiveStates
  <2>3. CASE Reclaimed(n)
    BY <2>3 DEF Reclaimed, Blank, LiveStates
  <2>4. CASE Drifts(n)
    <3>1. inst[n].state \in LiveStates
      BY <2>4 DEF Drifts, Live
    <3>2. ASSUME NEW i, Changes(n, i), i.state \in States \ {"none"}
          PROVE  \E j : /\ Changes(n, j) /\ (j.state \in LiveStates => inst[n].state \in LiveStates)
                        /\ j.state # "none"
      BY <3>1, <3>2
    <3>3. Blank("removed").state \in States \ {"none"}
      BY DEF Blank, States
    <3>4. ASSUME NEW st \in States \ {"none"}
          PROVE  [inst[n] EXCEPT !.state = st].state \in States \ {"none"}
      BY <2>1 DEF Instances
    <3>5. ASSUME NEW c PROVE [inst[n] EXCEPT !.is.config = c].state \in States \ {"none"}
      BY <2>1, <3>1 DEF Instances, States, LiveStates
    <3>6. ASSUME NEW t PROVE [inst[n] EXCEPT !.is.tags = t].state \in States \ {"none"}
      BY <2>1, <3>1 DEF Instances, States, LiveStates
    <3>7. {"active", "inactive", "failed", "pending_reclamation"} \subseteq States \ {"none"}
      BY DEF States, LiveStates
    <3> QED
      BY <2>4, <3>2, <3>3, <3>4, <3>5, <3>6, <3>7 DEF Drifts
  <2> QED
    BY <1>1, <2>2, <2>3, <2>4
<1>3. /\ \A m \in Names : Live(m)' => Live(m)
      /\ \A m \in Names : inst[m].state # "none" => inst'[m].state # "none"
  BY <1>2, ContentStep DEF Changes
<1>4. UNCHANGED <<cr, cache, mem, pc>>
  BY <1>2 DEF Changes
<1>5. FreshIsCurrent'
  BY <1>4 DEF FreshIsCurrent, Sent
<1>6. NamesAreKnown'
  <2>1. ASSUME NEW m \in Names \cup {NoName}, Known(m) PROVE Known(m)'
    BY <1>3, <2>1 DEF Known
  <2>2. /\ cr.extName \in Names \cup {NoName}
        /\ \A v \in Workers : /\ mem[v].obj.extName \in Names \cup {NoName}
                              /\ cache[v].obj.extName \in Names \cup {NoName}
    BY DEF TypeOK, Copies, Objects
  <2> QED
    BY <1>4, <2>1, <2>2 DEF NamesAreKnown, Known
<1>7. ASSUME NEW v \in Workers PROVE CreatorKnows(v)'
  <2>1. CreatorKnows(v) /\ pc'[v] = pc[v] /\ mem'[v].obj = mem[v].obj
    BY <1>4
  <2>2. Creating(v) => cr'.creation = "pending" /\ \A u \in Workers : Creating(u)' => u = v
    BY <1>4, <2>1 DEF CreatorKnows, Creating
  <2> QED
    BY <1>3, <2>1, <2>2, OthersKnow
<1>8. Accounted' /\ AtMostOneLive' /\ (cr'.creation = "pending" => cr'.present /\ cr'.finalizer)
  BY <1>3, <1>4 DEF Accounted, AtMostOneLive
<1> QED
  BY <1>5, <1>6, <1>7, <1>8
LEMMA InitInv == Init => IInv
<1> SUFFICES ASSUME Init PROVE IInv
  OBVIOUS
<1>1. PICK s \in UserSpecs : cr = NewObject(s)
  BY DEF Init, ReconcilerInit
<1>2. /\ cr.creation = "none" /\ cr.extName = NoName
      /\ \A w \in Workers : /\ ~cache[w].fresh /\ cache[w].obj.extName = NoName
                            /\ ~mem[w].fresh /\ mem[w].obj.extName = NoName
                            /\ pc[w] = "idle"
  BY <1>1 DEF Init, ReconcilerInit, NewObject, NoCopy, NoObject
<1>3. \A n \in Names : ~Live(n)
  BY DEF Init, Blank, Live, LiveStates
<1> QED
  BY <1>2, <1>3, TypeInit
     DEF IInv, FreshIsCurrent, NamesAreKnown, Known, CreatorKnows, Creating,
         Accounted, AtMostOneLive

LEMMA InvStep ==
  ASSUME Trustworthy
  PROVE  IInv /\ [Next]_vars => IInv'
<1> SUFFICES ASSUME IInv, [Next]_vars PROVE IInv'
  OBVIOUS
<1>1. TypeOK /\ TypeOK'
  BY TypeStep DEF IInv
<1>2. ASSUME NEW w \in Workers, WorkerStep(w) PROVE IInv'
  BY <1>1, <1>2, LoopInvKept, ObserveInv, LateInitInv, CreateInv, UpdateDeleteInv
     DEF WorkerStep, ExternalStep
<1>3. ASSUME NEW w \in Workers, ExternalFault(w) PROVE IInv'
  <2>1. ~CreateLost(w)
    BY DEF CreateLost, Fault, Trustworthy
  <2> QED
    BY <1>1, <1>3, <2>1, ObserveInv, UpdateDeleteInv DEF ExternalFault
<1>4. ASSUME NEW w \in Workers, SyncCache(w) \/ ReconcilerFault(w), UNCHANGED inst
      PROVE  IInv'
  BY <1>1, <1>4, LoopInvKept
<1>5. CASE UserStep /\ Forget /\ UNCHANGED inst
  BY <1>1, <1>5, UserInv
<1>6. CASE CloudStep \/ \E n \in Names : Drifts(n) \/ Restored(n)
  BY <1>1, <1>6, CloudInv DEF CloudStep
<1>7. CASE UNCHANGED vars
  <2>1. UNCHANGED <<cr, cache, mem, pc, inst>>
    BY <1>7 DEF vars
  <2> QED
    BY <1>1, <2>1
       DEF IInv, FreshIsCurrent, Sent, NamesAreKnown, Known, CreatorKnows, Creating,
           Live, Accounted, AtMostOneLive
<1> QED
  BY <1>2, <1>3, <1>4, <1>5, <1>6, <1>7 DEF Next

\* IInv is an invariant: the annotations, copies and instances agree as the
\* reconcile loop and the controller rely on.
THEOREM InvCorrect ==
  ASSUME Trustworthy
  PROVE  Spec => []IInv
<1>1. Init => IInv
  BY InitInv
<1>2. IInv /\ [Next]_vars => IInv'
  BY InvStep
<1> QED
  BY <1>1, <1>2, PTL DEF Spec

\* A CR never has two instances alive, for any number of replicas, crashes,
\* stale caches, failing calls and users.
THEOREM OneInstance ==
  ASSUME Trustworthy
  PROVE  Spec => []AtMostOneLive
<1>1. Spec => []IInv
  BY InvCorrect
<1>2. IInv => AtMostOneLive
  BY DEF IInv
<1> QED
  BY <1>1, <1>2, PTL

\* An instance alive always has its CR, with the finalizer, and the CR names it
\* or waits for somebody to look at the creation that was interrupted.
THEOREM NoOrphans ==
  ASSUME Trustworthy
  PROVE  Spec => []Accounted
<1>1. Spec => []IInv
  BY InvCorrect
<1>2. IInv => Accounted
  BY DEF IInv
<1> QED
  BY <1>1, <1>2, PTL
=============================================================================
