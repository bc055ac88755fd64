---------------------- MODULE ManagedReconciler_proofs ----------------------
(***************************************************************************)
(* What the reconcile loop does for every kind that it runs: lemmas that   *)
(* say which steps keep the loop's types, what it knows (LoopInv) and what *)
(* its copies say (CopiesInv).  The proofs about a kind cite them with the *)
(* kind's own set of entities alive for L and of names assigned for G.     *)
(* S and P are the kind's specs and phases.                                *)
(***************************************************************************)
EXTENDS ManagedReconciler, TLAPS

\* A step of the loop that worker w runs, and one of the users with specs in S.
LoopStep(w) == ReconcilerStep(w) \/ ReconcilerFault(w) \/ SyncCache(w)

UserStepOver(S) == UserDeletes \/ \E s \in S : UserApplies(s)

\* Two CRs, or copies of one, that differ at most in what the loop keeps in them:
\* status, finalizer and creation annotations.
Same(o, p) ==
  /\ o.present = p.present /\ o.deleting = p.deleting
  /\ o.extName = p.extName /\ o.spec = p.spec

-----------------------------------------------------------------------------
(***************************************************************************)
(* The writes to the API server keep the CR and its copies well formed     *)
(***************************************************************************)
LEMMA LoopSentType ==
  ASSUME NEW S, NEW P, LoopType(S, P), NEW w \in Workers
  PROVE  /\ mem[w].obj \in Objects(S)
         /\ Sent(w) \in Objects(S)
         /\ Same(Sent(w), mem[w].obj)
         /\ Sent(w).finalizer = mem[w].obj.finalizer
         /\ Sent(w).creation = mem[w].obj.creation
BY DEF LoopType, Sent, Objects, Copies, Same

LEMMA LoopStaleType ==
  ASSUME NEW S, NEW c \in Copies(S)
  PROVE  Stale(c) \in Copies(S) /\ Stale(c).obj = c.obj /\ ~Stale(c).fresh
BY DEF Stale, Copies

LEMMA LoopNoObjectType ==
  ASSUME NEW S, UserSpecs \subseteq S
  PROVE  /\ NoObject \in Objects(S) /\ NoCopy \in Copies(S)
         /\ ~NoObject.present /\ NoObject.extName = NoName /\ ~NoObject.deleting
         /\ NoObject.creation = "none"
         /\ NoCopy.obj = NoObject /\ ~NoCopy.fresh
<1>1. (CHOOSE s \in UserSpecs : TRUE) \in S
  BY ReconcilerAssumption
<1> QED
  BY <1>1 DEF NoObject, NoCopy, NewObject, Objects, Copies, Creation

LEMMA LoopPut ==
  ASSUME NEW S, NEW P, LoopType(S, P), NEW w \in Workers, NEW o \in Objects(S),
         NEW c \in Copies(S), Put(w, o, c)
  PROVE  /\ cr' = o
         /\ cache' \in [Workers -> Copies(S)]
         /\ mem' \in [Workers -> Copies(S)]
         /\ mem'[w] = c
         /\ \A v \in Workers \ {w} : /\ mem'[v].obj = mem[v].obj
                                     /\ mem'[v].fresh => mem[v].fresh /\ cr' = cr
         /\ \A v \in Workers : /\ cache'[v].obj = cache[v].obj
                               /\ cache'[v].fresh => cache[v].fresh /\ cr' = cr
<1>1. CASE o = cr
  BY <1>1 DEF Put, LoopType
<1>2. CASE o # cr
  BY <1>2, LoopStaleType DEF Put, LoopType
<1> QED
  BY <1>1, <1>2

LEMMA LoopClientUpdate ==
  ASSUME NEW S, NEW P, LoopType(S, P), NEW w \in Workers, NEW o \in Objects(S),
         NEW p, ClientUpdate(w, o, p)
  PROVE  \/ /\ mem[w].fresh
            /\ [obj |-> o, fresh |-> TRUE] \in Copies(S)
            /\ Put(w, o, [obj |-> o, fresh |-> TRUE])
            /\ pc' = [pc EXCEPT ![w] = p]
         \/ ~mem[w].fresh /\ UNCHANGED <<cr, cache, mem>> /\ pc' = [pc EXCEPT ![w] = "finish"]
<1>1. CASE mem[w].fresh
  <2>1. [obj |-> o, fresh |-> TRUE] \in Copies(S)
    BY DEF Copies
  <2>2. Put(w, o, [obj |-> o, fresh |-> TRUE]) /\ pc' = [pc EXCEPT ![w] = p]
    BY <1>1 DEF ClientUpdate, Go
  <2> QED
    BY <1>1, <2>1, <2>2
<1>2. CASE ~mem[w].fresh
  BY <1>2 DEF ClientUpdate, Go
<1> QED
  BY <1>1, <1>2

LEMMA LoopUpdateStatus ==
  ASSUME NEW S, NEW P, UserSpecs \subseteq S, LoopType(S, P), NEW w \in Workers,
         NEW ready \in BOOLEAN, UpdateStatus(w, ready)
  PROVE  /\ pc' = [pc EXCEPT ![w] = "idle"]
         /\ \/ /\ mem[w].fresh
               /\ Put(w, [cr EXCEPT !.ready = ready], NoCopy)
            \/ /\ mem' = [mem EXCEPT ![w] = NoCopy] /\ UNCHANGED <<cr, cache>>
         /\ [cr EXCEPT !.ready = ready] \in Objects(S)
         /\ Same([cr EXCEPT !.ready = ready], cr)
         /\ [cr EXCEPT !.ready = ready].finalizer = cr.finalizer
         /\ [cr EXCEPT !.ready = ready].creation = cr.creation
<1>1. pc' = [pc EXCEPT ![w] = "idle"]
  BY DEF UpdateStatus, Go
<1>2. cr \in Objects(S)
  BY DEF LoopType
<1>3. /\ [cr EXCEPT !.ready = ready] \in Objects(S)
      /\ Same([cr EXCEPT !.ready = ready], cr)
      /\ [cr EXCEPT !.ready = ready].finalizer = cr.finalizer
      /\ [cr EXCEPT !.ready = ready].creation = cr.creation
  BY <1>2 DEF Objects, Same
<1> QED
  BY <1>1, <1>3 DEF UpdateStatus

\* The annotations that UpdateCriticalAnnotations writes.
Recorded(w, r) ==
  [cr EXCEPT !.creation = r,
             !.extName = IF mem[w].obj.extName = NoName THEN @ ELSE mem[w].obj.extName]

LEMMA LoopRecord ==
  ASSUME NEW S, NEW P, LoopType(S, P), NEW w \in Workers,
         RecordCreated(w) \/ RecordFailed(w)
  PROVE  \E r \in {"succeeded", "failed"} :
           /\ Put(w, Recorded(w, r), [obj |-> Recorded(w, r), fresh |-> TRUE])
           /\ Recorded(w, r) \in Objects(S)
           /\ [obj |-> Recorded(w, r), fresh |-> TRUE] \in Copies(S)
           /\ pc' = [pc EXCEPT ![w] = "finish"] /\ pc[w] \in {"created", "createFailed"}
           /\ Recorded(w, r).creation # "pending"
           /\ Recorded(w, r).extName = IF mem[w].obj.extName = NoName
                                       THEN cr.extName ELSE mem[w].obj.extName
           /\ Recorded(w, r).present = cr.present
           /\ Recorded(w, r).deleting = cr.deleting
           /\ Recorded(w, r).finalizer = cr.finalizer
           /\ Recorded(w, r).spec = cr.spec
           /\ UNCHANGED <<faults, edits>>
<1>1. PICK r \in {"succeeded", "failed"} : Record(w, r)
  BY DEF RecordCreated, RecordFailed
<1>2. pc[w] \in {"created", "createFailed"}
  BY DEF RecordCreated, RecordFailed
<1>3. cr \in Objects(S) /\ mem[w].obj.extName \in Names \cup {NoName}
  BY DEF LoopType, Copies, Objects
<1>4. /\ Recorded(w, r) \in Objects(S)
      /\ Recorded(w, r).creation # "pending"
      /\ Recorded(w, r).extName = IF mem[w].obj.extName = NoName
                                  THEN cr.extName ELSE mem[w].obj.extName
      /\ Recorded(w, r).present = cr.present
      /\ Recorded(w, r).deleting = cr.deleting
      /\ Recorded(w, r).finalizer = cr.finalizer
      /\ Recorded(w, r).spec = cr.spec
  BY <1>3 DEF Recorded, Objects, Creation
<1>5. [obj |-> Recorded(w, r), fresh |-> TRUE] \in Copies(S)
  BY <1>4 DEF Copies
<1>6. /\ Put(w, Recorded(w, r), [obj |-> Recorded(w, r), fresh |-> TRUE])
      /\ pc' = [pc EXCEPT ![w] = "finish"] /\ UNCHANGED <<faults, edits>>
  BY <1>1 DEF Record, Recorded, Go
<1> QED
  BY <1>2, <1>4, <1>5, <1>6

-----------------------------------------------------------------------------
(***************************************************************************)
(* What a step of the loop does                                            *)
(***************************************************************************)
\* A copy that can be written back agrees with the API server's CR.
LEMMA LoopFresh ==
  ASSUME NEW S, NEW P, LoopType(S, P), FreshIsCurrent, NEW w \in Workers,
         mem[w].fresh, pc[w] # "created"
  PROVE  /\ Sent(w) = cr
         /\ Same(mem[w].obj, cr)
         /\ cr.finalizer = mem[w].obj.finalizer
         /\ cr.creation = mem[w].obj.creation
<1>1. Sent(w) = cr
  BY DEF FreshIsCurrent
<1> QED
  BY <1>1, LoopSentType DEF Same

\* The pass of w goes on, at p and with copy c, without a write.
Moves(w, c, p) ==
  /\ UNCHANGED <<cr, cache>> /\ mem' = [mem EXCEPT ![w] = c]
  /\ \/ c = NoCopy /\ p = "idle"
     \/ c = mem[w] /\ p = "finish" /\ pc[w] \in {"absent", "current", "outdated"}
     \/ c = Stale(mem[w]) /\ p = "finish" /\ pc[w] \in {"created", "createFailed"}
     \/ /\ c = cache[w] /\ pc[w] = "idle" /\ c.obj.present
        /\ p \in {"refuse", "observe"} /\ (p = "observe" => c.obj.creation # "pending")

\* It writes o and goes on, at p and with copy c.
Writes(w, o, c, p) ==
  /\ Put(w, o, c)
  /\ \/ /\ c = NoCopy /\ p = "idle" /\ pc[w] \in {"refuse", "current", "finish"}
        /\ Same(o, cr) /\ o.finalizer = cr.finalizer /\ o.creation = cr.creation
     \/ /\ c.fresh /\ c.obj = o /\ p = pc[w] /\ pc[w] \in {"absent", "current", "outdated"}
        /\ mem[w].fresh /\ Same(mem[w].obj, cr) /\ mem[w].obj.creation = cr.creation
        /\ Same(o, cr) /\ o.finalizer /\ o.creation = cr.creation
     \/ /\ c.fresh /\ c.obj = o /\ p = "create" /\ pc[w] = "absent"
        /\ mem[w].fresh /\ Same(mem[w].obj, cr) /\ mem[w].obj.creation = cr.creation
        /\ Same(o, cr) /\ o.finalizer /\ o.creation = "pending" /\ ~cr.deleting
     \/ /\ c.fresh /\ c.obj = o /\ p = "finish" /\ pc[w] \in {"created", "createFailed"}
        /\ cache[w].fresh
        /\ o.present = cr.present /\ o.deleting = cr.deleting /\ o.spec = cr.spec
        /\ o.finalizer = cr.finalizer /\ o.creation # "pending"
        /\ o.extName = IF mem[w].obj.extName = NoName THEN cr.extName ELSE mem[w].obj.extName
     \/ /\ o = NoObject /\ c = NoCopy /\ p = "idle" /\ pc[w] = "absent"
        /\ mem[w].fresh /\ Same(mem[w].obj, cr) /\ mem[w].obj.creation = cr.creation
        /\ cr.deleting

Synced(w) ==
  cache' = [cache EXCEPT ![w] = [obj |-> cr, fresh |-> TRUE]] /\ UNCHANGED <<cr, mem, pc>>

\* Every step of the loop is of one of these forms.
LEMMA LoopForms ==
  ASSUME NEW S, NEW P, UserSpecs \subseteq S, LoopType(S, P), FreshIsCurrent,
         NEW w \in Workers, LoopStep(w)
  PROVE  /\ faults' \in Nat /\ edits' \in Nat
         /\ \/ Synced(w)
            \/ \E o \in Objects(S), c \in Copies(S), p \in ReconcilerPhases :
                 /\ pc' = [pc EXCEPT ![w] = p]
                 /\ Moves(w, c, p) \/ Writes(w, o, c, p)
<1> USE DEF ReconcilerPhases
<1>1. /\ cr \in Objects(S) /\ mem[w] \in Copies(S) /\ cache[w] \in Copies(S)
      /\ mem = [mem EXCEPT ![w] = mem[w]] /\ faults \in Nat /\ edits \in Nat
      /\ NoCopy \in Copies(S) /\ Stale(mem[w]) \in Copies(S)
  BY LoopNoObjectType, LoopStaleType DEF LoopType
<1>2. CASE Fetch(w)
  <2>1. PICK p \in {"refuse", "observe"} :
          pc' = [pc EXCEPT ![w] = p] /\ (p = "observe" => cache[w].obj.creation # "pending")
    BY <1>2 DEF Fetch, Go
  <2>2. Moves(w, cache[w], p) /\ UNCHANGED <<faults, edits>>
    BY <1>2, <2>1 DEF Fetch, Moves
  <2> QED
    BY <1>1, <2>1, <2>2
<1>3. ASSUME NEW r \in BOOLEAN, UpdateStatus(w, r), pc[w] \in {"refuse", "current", "finish"}
      PROVE  \E o \in Objects(S), c \in Copies(S), p \in ReconcilerPhases :
                 /\ pc' = [pc EXCEPT ![w] = p]
                 /\ Moves(w, c, p) \/ Writes(w, o, c, p)
  <2> DEFINE o == [cr EXCEPT !.ready = r]
  <2>1. /\ pc' = [pc EXCEPT ![w] = "idle"]
        /\ \/ Put(w, o, NoCopy)
           \/ mem' = [mem EXCEPT ![w] = NoCopy] /\ UNCHANGED <<cr, cache>>
        /\ o \in Objects(S) /\ Same(o, cr) /\ o.finalizer = cr.finalizer
        /\ o.creation = cr.creation
    BY <1>3, LoopUpdateStatus
  <2> HIDE DEF o
  <2>2. Moves(w, NoCopy, "idle") \/ Writes(w, o, NoCopy, "idle")
    BY <1>3, <2>1 DEF Moves, Writes
  <2> QED
    BY <1>1, <2>1, <2>2
<1>4. CASE Refuse(w) \/ Finish(w)
  <2>1. mem[w].obj.ready \in BOOLEAN
    BY <1>1 DEF Copies, Objects
  <2> QED
    BY <1>1, <1>3, <1>4, <2>1 DEF Refuse, Finish
<1>5. ASSUME NEW o \in Objects(S), NEW p \in ReconcilerPhases, ClientUpdate(w, o, p),
             pc[w] \in {"absent", "current", "outdated"}, Same(o, Sent(w)), o.finalizer,
             \/ p = pc[w] /\ o.creation = Sent(w).creation
             \/ p = "create" /\ pc[w] = "absent" /\ o.creation = "pending" /\ ~o.deleting
      PROVE  \E u \in Objects(S), c \in Copies(S), q \in ReconcilerPhases :
                 /\ pc' = [pc EXCEPT ![w] = q]
                 /\ Moves(w, c, q) \/ Writes(w, u, c, q)
  <2>1. CASE mem[w].fresh
    <3>1. Put(w, o, [obj |-> o, fresh |-> TRUE]) /\ pc' = [pc EXCEPT ![w] = p]
      BY <1>5, <2>1, LoopClientUpdate
    <3>2. [obj |-> o, fresh |-> TRUE] \in Copies(S)
      BY DEF Copies
    <3>3. Sent(w) = cr /\ Same(mem[w].obj, cr) /\ cr.creation = mem[w].obj.creation
      BY <1>5, <2>1, LoopFresh
    <3>4. ~o.deleting => ~cr.deleting
      BY <1>5, <3>3 DEF Same
    <3>5. Writes(w, o, [obj |-> o, fresh |-> TRUE], p)
      BY <1>5, <2>1, <3>1, <3>3, <3>4 DEF Writes
    <3> QED
      BY <1>5, <3>1, <3>2, <3>5
  <2>2. CASE ~mem[w].fresh
    <3>1. UNCHANGED <<cr, cache, mem>> /\ pc' = [pc EXCEPT ![w] = "finish"]
      BY <1>5, <2>2, LoopClientUpdate
    <3>2. Moves(w, mem[w], "finish")
      BY <1>1, <1>5, <3>1 DEF Moves
    <3> QED
      BY <1>1, <3>1, <3>2
  <2> QED
    BY <2>1, <2>2
<1>6. CASE AddFinalizer(w)
  <2> DEFINE o == [Sent(w) EXCEPT !.finalizer = TRUE]
  <2>1. o \in Objects(S) /\ Same(o, Sent(w)) /\ o.finalizer /\ o.creation = Sent(w).creation
    BY LoopSentType DEF Objects, Same
  <2>2. ClientUpdate(w, o, pc[w]) /\ pc[w] \in {"absent", "current", "outdated"}
    BY <1>6 DEF AddFinalizer
  <2> HIDE DEF o
  <2> QED
    BY <1>1, <1>5, <1>6, <2>1, <2>2 DEF AddFinalizer
<1>7. CASE MarkPending(w)
  <2> DEFINE o == [Sent(w) EXCEPT !.creation = "pending"]
  <2>1. /\ o \in Objects(S) /\ Same(o, Sent(w)) /\ o.creation = "pending"
        /\ o.finalizer = mem[w].obj.finalizer /\ o.deleting = mem[w].obj.deleting
    BY LoopSentType DEF Objects, Same, Creation
  <2>2. /\ ClientUpdate(w, o, "create") /\ pc[w] = "absent" /\ mem[w].obj.finalizer
        /\ ~mem[w].obj.deleting
    BY <1>7 DEF MarkPending
  <2> HIDE DEF o
  <2> QED
    BY <1>1, <1>5, <1>7, <2>1, <2>2 DEF MarkPending
<1>8. CASE RecordCreated(w) \/ RecordFailed(w)
  <2>1. PICK r \in {"succeeded", "failed"} :
           /\ Put(w, Recorded(w, r), [obj |-> Recorded(w, r), fresh |-> TRUE])
           /\ Recorded(w, r) \in Objects(S)
           /\ [obj |-> Recorded(w, r), fresh |-> TRUE] \in Copies(S)
           /\ pc' = [pc EXCEPT ![w] = "finish"] /\ pc[w] \in {"created", "createFailed"}
           /\ Recorded(w, r).creation # "pending"
           /\ Recorded(w, r).extName = IF mem[w].obj.extName = NoName
                                       THEN cr.extName ELSE mem[w].obj.extName
           /\ Recorded(w, r).present = cr.present
           /\ Recorded(w, r).deleting = cr.deleting
           /\ Recorded(w, r).finalizer = cr.finalizer
           /\ Recorded(w, r).spec = cr.spec
           /\ UNCHANGED <<faults, edits>>
    BY <1>8, LoopRecord
  <2>2. cache[w].fresh
    BY <1>8 DEF RecordCreated, RecordFailed, Record
  <2>3. Writes(w, Recorded(w, r), [obj |-> Recorded(w, r), fresh |-> TRUE], "finish")
    BY <2>1, <2>2 DEF Writes
  <2> QED
    BY <1>1, <2>1, <2>3
<1>9. CASE RemoveFinalizer(w)
  <2>1. CASE mem[w].fresh
    <3>1. Put(w, NoObject, NoCopy) /\ pc' = [pc EXCEPT ![w] = "idle"] /\ pc[w] = "absent"
      BY <1>9, <2>1 DEF RemoveFinalizer, Go
    <3>2. Same(mem[w].obj, cr) /\ cr.creation = mem[w].obj.creation
      BY <2>1, <3>1, LoopFresh
    <3>3. cr.deleting
      BY <1>9, <3>2 DEF RemoveFinalizer, Same
    <3>4. Writes(w, NoObject, NoCopy, "idle")
      BY <2>1, <3>1, <3>2, <3>3 DEF Writes
    <3> QED
      BY <1>1, <1>9, <3>1, <3>4, LoopNoObjectType DEF RemoveFinalizer
  <2>2. CASE ~mem[w].fresh
    <3>1. /\ UNCHANGED <<cr, cache, mem>> /\ pc' = [pc EXCEPT ![w] = "finish"]
          /\ pc[w] = "absent"
      BY <1>9, <2>2 DEF RemoveFinalizer, Go
    <3>2. Moves(w, mem[w], "finish")
      BY <1>1, <3>1 DEF Moves
    <3> QED
      BY <1>1, <1>9, <3>1, <3>2 DEF RemoveFinalizer
  <2> QED
    BY <2>1, <2>2
<1>10. CASE RecordExhausted(w)
  <2>1. /\ pc' = [pc EXCEPT ![w] = "finish"] /\ UNCHANGED <<cr, cache>>
        /\ mem' = [mem EXCEPT ![w] = Stale(mem[w])]
        /\ pc[w] \in {"created", "createFailed"}
    BY <1>10 DEF RecordExhausted, Go
  <2>2. Moves(w, Stale(mem[w]), "finish")
    BY <2>1 DEF Moves
  <2> QED
    BY <1>1, <1>10, <2>1, <2>2 DEF RecordExhausted, Fault
<1>11. CASE Crash(w)
  <2>1. /\ pc' = [pc EXCEPT ![w] = "idle"] /\ UNCHANGED <<cr, cache>>
        /\ mem' = [mem EXCEPT ![w] = NoCopy]
    BY <1>11 DEF Crash, Go
  <2>2. Moves(w, NoCopy, "idle")
    BY <2>1 DEF Moves
  <2> QED
    BY <1>1, <1>11, <2>1, <2>2 DEF Crash, Fault
<1>12. CASE SyncCache(w)
  BY <1>1, <1>12 DEF SyncCache, Synced
<1> QED
  BY <1>2, <1>4, <1>6, <1>7, <1>8, <1>9, <1>10, <1>11, <1>12
     DEF LoopStep, ReconcilerStep, ReconcilerFault

\* Types are kept, nobody else's pass moves, and a pass only leaves a phase of its
\* kind, or gets to Create, by the kind's own steps or by the pending annotation.
LEMMA LoopKeepsTypes ==
  ASSUME NEW S, NEW P, UserSpecs \subseteq S, ReconcilerPhases \subseteq P,
         LoopType(S, P), FreshIsCurrent, NEW w \in Workers, LoopStep(w)
  PROVE  /\ LoopType(S, P)'
         /\ \A v \in Workers \ {w} : pc'[v] = pc[v] /\ mem'[v].obj = mem[v].obj
         /\ pc'[w] \notin {"idle", "observe", "refuse", "finish"} =>
              /\ Same(mem'[w].obj, mem[w].obj)
              /\ pc'[w] # pc[w] =>
                   /\ pc[w] = "absent" /\ pc'[w] = "create"
                   /\ mem'[w].obj = cr' /\ Same(cr', cr) /\ ~cr.deleting
<1>1. /\ faults' \in Nat /\ edits' \in Nat
      /\ \/ Synced(w)
         \/ \E o \in Objects(S), c \in Copies(S), p \in ReconcilerPhases :
              /\ pc' = [pc EXCEPT ![w] = p]
              /\ Moves(w, c, p) \/ Writes(w, o, c, p)
  BY LoopForms
<1>2. CASE Synced(w)
  <2>1. [obj |-> cr, fresh |-> TRUE] \in Copies(S)
    BY DEF LoopType, Copies
  <2> QED
    BY <1>1, <1>2, <2>1 DEF Synced, LoopType, Same
<1>3. ASSUME NEW o \in Objects(S), NEW c \in Copies(S), NEW p \in ReconcilerPhases,
             pc' = [pc EXCEPT ![w] = p], Moves(w, c, p)
      PROVE  /\ LoopType(S, P)'
             /\ \A v \in Workers \ {w} : pc'[v] = pc[v] /\ mem'[v].obj = mem[v].obj
             /\ pc'[w] \in {"idle", "observe", "refuse", "finish"}
  <2>1. p \in {"idle", "observe", "refuse", "finish"}
    BY <1>3 DEF Moves
  <2> QED
    BY <1>1, <1>3, <2>1 DEF Moves, LoopType
<1>4. ASSUME NEW o \in Objects(S), NEW c \in Copies(S), NEW p \in ReconcilerPhases,
             pc' = [pc EXCEPT ![w] = p], Writes(w, o, c, p)
      PROVE  /\ LoopType(S, P)'
             /\ \A v \in Workers \ {w} : pc'[v] = pc[v] /\ mem'[v].obj = mem[v].obj
             /\ pc'[w] \notin {"idle", "observe", "refuse", "finish"} =>
                  /\ Same(mem'[w].obj, mem[w].obj)
                  /\ pc'[w] # pc[w] =>
                      /\ pc[w] = "absent" /\ pc'[w] = "create"
                   /\ mem'[w].obj = cr' /\ Same(cr', cr) /\ ~cr.deleting
  <2>1. /\ cr' = o
        /\ cache' \in [Workers -> Copies(S)]
        /\ mem' \in [Workers -> Copies(S)]
        /\ mem'[w] = c
        /\ \A v \in Workers \ {w} : mem'[v].obj = mem[v].obj
    BY <1>4, LoopPut DEF Writes
  <2>2. pc' \in [Workers -> P] /\ pc'[w] = p /\ \A v \in Workers \ {w} : pc'[v] = pc[v]
    BY <1>4 DEF LoopType
  <2>3. p \notin {"idle", "observe", "refuse", "finish"} =>
          /\ Same(c.obj, mem[w].obj)
          /\ p # pc[w] => /\ pc[w] = "absent" /\ p = "create"
                          /\ c.obj = o /\ Same(o, cr) /\ ~cr.deleting
    BY <1>4 DEF Writes, Same
  <2> QED
    BY <1>1, <2>1, <2>2, <2>3 DEF LoopType
<1> QED
  BY <1>1, <1>2, <1>3, <1>4

\* Where the CR and its copies come from.
LEMMA LoopSources ==
  ASSUME NEW S, NEW P, UserSpecs \subseteq S, LoopType(S, P), FreshIsCurrent,
         NEW w \in Workers, LoopStep(w)
  PROVE  /\ \/ Same(cr', cr)
            \/ cr' = NoObject /\ pc[w] = "absent"
            \/ /\ pc[w] \in {"created", "createFailed"} /\ pc'[w] = "finish"
               /\ mem'[w].obj = cr'
               /\ cr'.present = cr.present /\ cr'.deleting = cr.deleting
               /\ cr'.spec = cr.spec
               /\ cr'.extName = IF mem[w].obj.extName = NoName THEN cr.extName
                                ELSE mem[w].obj.extName
         /\ \A v \in Workers : cache'[v].obj \in {cache[v].obj, cr}
         /\ \/ Same(mem'[w].obj, mem[w].obj) /\ pc'[w] \in {pc[w], "finish"}
            \/ mem'[w].obj = cache[w].obj
            \/ mem'[w].obj = cr' \/ mem'[w].obj = NoObject
<1>1. \/ Synced(w)
      \/ \E o \in Objects(S), c \in Copies(S), p \in ReconcilerPhases :
           /\ pc' = [pc EXCEPT ![w] = p]
           /\ Moves(w, c, p) \/ Writes(w, o, c, p)
  BY LoopForms
<1>2. CASE Synced(w)
  BY <1>2 DEF Synced, LoopType, Same
<1>3. ASSUME NEW c \in Copies(S), NEW p, pc' = [pc EXCEPT ![w] = p], Moves(w, c, p)
      PROVE  /\ cr' = cr /\ cache' = cache
             /\ \/ Same(mem'[w].obj, mem[w].obj) /\ pc'[w] \in {pc[w], "finish"}
                \/ mem'[w].obj = cache[w].obj
                \/ mem'[w].obj = NoObject
  <2>1. Stale(mem[w]).obj = mem[w].obj /\ NoCopy.obj = NoObject
    BY LoopStaleType, LoopNoObjectType DEF LoopType
  <2>2. mem'[w] = c /\ pc'[w] = p
    BY <1>3 DEF Moves, LoopType
  <2> QED
    BY <1>3, <2>1, <2>2 DEF Moves, Same
<1>4. ASSUME NEW o \in Objects(S), NEW c \in Copies(S), NEW p,
             pc' = [pc EXCEPT ![w] = p], Writes(w, o, c, p)
      PROVE  /\ \/ Same(cr', cr)
                \/ cr' = NoObject /\ pc[w] = "absent"
                \/ /\ pc[w] \in {"created", "createFailed"} /\ pc'[w] = "finish"
                   /\ mem'[w].obj = cr'
                   /\ cr'.present = cr.present /\ cr'.deleting = cr.deleting
                   /\ cr'.spec = cr.spec
                   /\ cr'.extName = IF mem[w].obj.extName = NoName THEN cr.extName
                                    ELSE mem[w].obj.extName
             /\ \A v \in Workers : cache'[v].obj = cache[v].obj
             /\ mem'[w].obj = cr' \/ mem'[w].obj = NoObject
  <2>1. cr' = o /\ mem'[w] = c /\ \A v \in Workers : cache'[v].obj = cache[v].obj
    BY <1>4, LoopPut DEF Writes
  <2>2. NoCopy.obj = NoObject /\ pc'[w] = p
    BY <1>4, LoopNoObjectType DEF LoopType
  <2> QED
    BY <1>4, <2>1, <2>2 DEF Writes
<1>5. Same(cr, cr)
  BY DEF Same
<1> QED
  BY <1>1, <1>2, <1>3, <1>4, <1>5

-----------------------------------------------------------------------------
(***************************************************************************)
(* What the loop knows of the entities alive                               *)
(***************************************************************************)
\* What a step does not change about worker v.
LEMMA LoopOthers ==
  ASSUME NEW S, NEW P, LoopType(S, P), NEW L, NEW v \in Workers, PassKnows(v, L),
         pc'[v] = pc[v], mem'[v].obj = mem[v].obj, mem'[v].fresh => mem[v].fresh,
         Creating(v) => cr'.creation = "pending",
         Creating(v) => \A u \in Workers : Creating(u)' => u = v
  PROVE  PassKnows(v, L)'
BY DEF PassKnows, Creating

\* A write by w leaves every other copy either stale or current.
LEMMA LoopPutFresh ==
  ASSUME NEW S, NEW P, LoopType(S, P), FreshIsCurrent, NEW w \in Workers, NEW p,
         NEW o \in Objects(S), NEW c \in Copies(S),
         Put(w, o, c), pc' = [pc EXCEPT ![w] = p],
         c.fresh /\ p # "created" => [c.obj EXCEPT !.ready = o.ready] = o,
         p # "idle" => c.obj.present
  PROVE  FreshIsCurrent'
<1>1. /\ cr' = o /\ mem'[w] = c
      /\ \A v \in Workers \ {w} : /\ mem'[v].obj = mem[v].obj
                                  /\ mem'[v].fresh => mem[v].fresh /\ cr' = cr
      /\ \A v \in Workers : /\ cache'[v].obj = cache[v].obj
                            /\ cache'[v].fresh => cache[v].fresh /\ cr' = cr
  BY LoopPut
<1>2. pc'[w] = p /\ \A v \in Workers \ {w} : pc'[v] = pc[v]
  BY DEF LoopType
<1> SUFFICES ASSUME NEW v \in Workers
             PROVE  /\ cache'[v].fresh => cache'[v].obj = cr'
                    /\ mem'[v].fresh /\ pc'[v] # "created" => Sent(v)' = cr'
                    /\ pc'[v] # "idle" => mem'[v].obj.present
  BY DEF FreshIsCurrent
<1>3. cache'[v].fresh => cache'[v].obj = cr'
  BY <1>1 DEF FreshIsCurrent
<1>4. CASE v = w
  BY <1>1, <1>2, <1>3, <1>4 DEF Sent
<1>5. CASE v # w
  BY <1>1, <1>2, <1>3, <1>5 DEF Sent, FreshIsCurrent
<1> QED
  BY <1>4, <1>5

\* A write by w, of its copy of the CR and of nothing else the others know.
LEMMA LoopPutKnows ==
  ASSUME NEW S, NEW P, LoopType(S, P), NEW L, LoopInv(L), NEW w \in Workers, NEW p,
         NEW o \in Objects(S), NEW c \in Copies(S),
         Put(w, o, c), pc' = [pc EXCEPT ![w] = p],
         c.fresh /\ p # "created" => [c.obj EXCEPT !.ready = o.ready] = o,
         p # "idle" => c.obj.present,
         \A v \in Workers \ {w} : Creating(v) =>
           o.creation = "pending" /\ p \notin {"create", "created", "createFailed"},
         o.creation = "pending" => o.present /\ o.finalizer,
         \A n \in L : o.present /\ o.finalizer /\ (o.extName = n \/ o.creation = "pending"),
         PassKnows(w, L)'
  PROVE  LoopInv(L)'
<1>1. FreshIsCurrent'
  BY LoopPutFresh DEF LoopInv
<1>2. /\ cr' = o
      /\ \A v \in Workers \ {w} : /\ mem'[v].obj = mem[v].obj
                                  /\ mem'[v].fresh => mem[v].fresh
  BY LoopPut
<1>3. pc'[w] = p /\ \A v \in Workers \ {w} : pc'[v] = pc[v]
  BY DEF LoopType
<1>4. ASSUME NEW v \in Workers \ {w} PROVE PassKnows(v, L)'
  <2>1. PassKnows(v, L)
    BY DEF LoopInv
  <2>2. Creating(v) => cr'.creation = "pending"
    BY <1>2
  <2>3. Creating(v) => \A u \in Workers : Creating(u)' => u = v
    BY <1>3, <2>1 DEF Creating, PassKnows
  <2> QED
    BY <1>2, <1>3, <2>1, <2>2, <2>3, LoopOthers
<1> QED
  BY <1>1, <1>2, <1>4 DEF LoopInv, AccountedFor, AtMostOne

\* A step of w that writes nothing and leaves the others alone.
LEMMA LoopMoveKnows ==
  ASSUME NEW S, NEW P, LoopType(S, P), NEW L, LoopInv(L), NEW w \in Workers, NEW p,
         NEW c, UNCHANGED <<cr, cache>>, mem' = [mem EXCEPT ![w] = c],
         pc' = [pc EXCEPT ![w] = p],
         c.fresh /\ p # "created" => [c.obj EXCEPT !.ready = cr.ready] = cr,
         p # "idle" => c.obj.present,
         p \in {"create", "created", "createFailed"} => Creating(w),
         PassKnows(w, L)'
  PROVE  LoopInv(L)'
<1>1. /\ pc'[w] = p /\ mem'[w] = c
      /\ \A v \in Workers \ {w} : pc'[v] = pc[v] /\ mem'[v] = mem[v]
  BY DEF LoopType
<1>2. FreshIsCurrent'
  <2> SUFFICES ASSUME NEW v \in Workers
               PROVE  /\ cache'[v].fresh => cache'[v].obj = cr'
                      /\ mem'[v].fresh /\ pc'[v] # "created" => Sent(v)' = cr'
                      /\ pc'[v] # "idle" => mem'[v].obj.present
    BY DEF FreshIsCurrent
  <2>1. CASE v = w
    BY <1>1, <2>1 DEF Sent, LoopInv, FreshIsCurrent
  <2>2. CASE v # w
    BY <1>1, <2>2 DEF Sent, LoopInv, FreshIsCurrent
  <2> QED
    BY <2>1, <2>2
<1>3. ASSUME NEW v \in Workers \ {w} PROVE PassKnows(v, L)'
  <2>1. PassKnows(v, L)
    BY DEF LoopInv
  <2>2. Creating(v) => cr'.creation = "pending" /\ \A u \in Workers : Creating(u)' => u = v
    BY <1>1, <2>1 DEF Creating, PassKnows
  <2> QED
    BY <1>1, <2>1, <2>2, LoopOthers
<1> QED
  BY <1>2, <1>3 DEF LoopInv, AccountedFor, AtMostOne

\* The loop's own steps keep what it knows: a replica marks a creation pending on a
\* current copy only, while no entity is alive, and releases a CR likewise.
LEMMA LoopKeepsInv ==
  ASSUME NEW S, NEW P, UserSpecs \subseteq S, LoopType(S, P),
         NEW L, L \subseteq Names, LoopInv(L), NEW w \in Workers, LoopStep(w)
  PROVE  LoopInv(L)'
<1>0. FreshIsCurrent /\ PassKnows(w, L) /\ \A v \in Workers : PassKnows(v, L)
  BY DEF LoopInv
<1>1. \/ Synced(w)
      \/ \E o \in Objects(S), c \in Copies(S), p \in ReconcilerPhases :
           /\ pc' = [pc EXCEPT ![w] = p]
           /\ Moves(w, c, p) \/ Writes(w, o, c, p)
  BY <1>0, LoopForms
<1>2. CASE Synced(w)
  <2>1. \A v \in Workers : cache'[v] \in {cache[v], [obj |-> cr, fresh |-> TRUE]}
    BY <1>2 DEF Synced, LoopType
  <2>2. UNCHANGED <<cr, mem, pc>>
    BY <1>2 DEF Synced
  <2>3. FreshIsCurrent'
    BY <1>0, <2>1, <2>2 DEF FreshIsCurrent, Sent
  <2> QED
    BY <2>2, <2>3 DEF LoopInv, PassKnows, Creating, AccountedFor, AtMostOne
<1>3. NoCopy.obj = NoObject /\ ~NoCopy.fresh /\ NoObject.creation = "none"
  BY LoopNoObjectType
<1>4. ASSUME NEW c \in Copies(S), NEW p \in ReconcilerPhases,
             pc' = [pc EXCEPT ![w] = p], Moves(w, c, p)
      PROVE  LoopInv(L)'
  <2>1. pc'[w] = p /\ mem'[w] = c
    BY <1>4 DEF Moves, LoopType
  <2>2. p \in {"idle", "refuse", "observe", "finish"}
    BY <1>4 DEF Moves
  <2>3. p = "observe" => c.obj.creation # "pending"
    BY <1>4 DEF Moves
  <2>4. PassKnows(w, L)'
    BY <2>1, <2>2, <2>3 DEF PassKnows, Creating
  <2>5. p # "idle" => c.obj.present
    BY <1>0, <1>4, LoopStaleType DEF Moves, FreshIsCurrent, LoopType
  <2>6. c.fresh => [c.obj EXCEPT !.ready = cr.ready] = cr
    <3>1. CASE c = cache[w]
      <4>1. [cr EXCEPT !.ready = cr.ready] = cr
        BY DEF LoopType, Objects
      <4> QED
        BY <1>0, <3>1, <4>1 DEF FreshIsCurrent
    <3>2. CASE c = mem[w] /\ pc[w] \in {"absent", "current", "outdated"}
      BY <1>0, <3>2 DEF FreshIsCurrent, Sent
    <3>3. CASE c = Stale(mem[w])
      BY <3>3, LoopStaleType DEF LoopType
    <3> QED
      BY <1>3, <1>4, <3>1, <3>2, <3>3 DEF Moves
  <2>7. UNCHANGED <<cr, cache>> /\ mem' = [mem EXCEPT ![w] = c]
    BY <1>4 DEF Moves
  <2> QED
    BY <1>4, <2>2, <2>4, <2>5, <2>6, <2>7, LoopMoveKnows
<1>5. ASSUME NEW o \in Objects(S), NEW c \in Copies(S), NEW p \in ReconcilerPhases,
             pc' = [pc EXCEPT ![w] = p], Writes(w, o, c, p)
      PROVE  LoopInv(L)'
  <2>0. Put(w, o, c) /\ cr' = o /\ mem'[w] = c
    BY <1>5, LoopPut DEF Writes
  <2>1. pc'[w] = p
    BY <1>5 DEF LoopType
  <2>2. c.fresh => [c.obj EXCEPT !.ready = o.ready] = o
    BY <1>3, <1>5 DEF Writes, Objects
  <2>3. cr.creation = "pending" => cr.present /\ cr.finalizer
    BY DEF LoopInv
  <2>4. \A n \in L : cr.present /\ cr.finalizer /\ (cr.extName = n \/ cr.creation = "pending")
    BY DEF LoopInv, AccountedFor
  <2>5. pc[w] # "idle" => mem[w].obj.present
    BY <1>0 DEF FreshIsCurrent
  <2>6. CASE /\ c = NoCopy /\ p = "idle" /\ pc[w] \in {"refuse", "current", "finish"}
             /\ Same(o, cr) /\ o.finalizer = cr.finalizer /\ o.creation = cr.creation
    <3>1. PassKnows(w, L)'
      BY <2>1, <2>6 DEF PassKnows, Creating
    <3>2. \A v \in Workers \ {w} : Creating(v) =>
            o.creation = "pending" /\ p \notin {"create", "created", "createFailed"}
      BY <1>0, <2>6 DEF PassKnows
    <3>3. /\ o.creation = "pending" => o.present /\ o.finalizer
          /\ \A n \in L : o.present /\ o.finalizer /\ (o.extName = n \/ o.creation = "pending")
      BY <2>3, <2>4, <2>6 DEF Same
    <3> QED
      BY <1>5, <2>0, <2>2, <2>6, <3>1, <3>2, <3>3, LoopPutKnows
  <2>7. CASE /\ c.fresh /\ c.obj = o /\ p = pc[w] /\ pc[w] \in {"absent", "current", "outdated"}
             /\ mem[w].fresh /\ Same(mem[w].obj, cr) /\ mem[w].obj.creation = cr.creation
             /\ Same(o, cr) /\ o.finalizer /\ o.creation = cr.creation
    <3>1. PassKnows(w, L)'
      BY <1>0, <2>0, <2>1, <2>7 DEF PassKnows, Creating, Same
    <3>2. \A v \in Workers \ {w} : Creating(v) =>
            o.creation = "pending" /\ p \notin {"create", "created", "createFailed"}
      BY <1>0, <2>7 DEF PassKnows
    <3>3. /\ o.creation = "pending" => o.present /\ o.finalizer
          /\ \A n \in L : o.present /\ o.finalizer /\ (o.extName = n \/ o.creation = "pending")
          /\ c.obj.present
      BY <2>3, <2>4, <2>5, <2>7 DEF Same
    <3>4. [c.obj EXCEPT !.ready = o.ready] = o
      BY <2>7 DEF Objects
    <3>5. c.obj.present
      BY <3>3
    <3> QED
      BY <1>5, <2>0, <3>1, <3>2, <3>3, <3>4, <3>5, LoopPutKnows
  <2>8. CASE /\ pc[w] = "absent" /\ mem[w].fresh /\ Same(mem[w].obj, cr)
             /\ mem[w].obj.creation = cr.creation
             /\ \/ /\ c.fresh /\ c.obj = o /\ p = "create" /\ Same(o, cr)
                   /\ o.finalizer /\ o.creation = "pending"
                \/ o = NoObject /\ c = NoCopy /\ p = "idle"
    <3>1. cr.creation # "pending" /\ cr.extName \notin L
      BY <1>0, <2>8 DEF PassKnows, Creating, Same
    <3>2. L = {} /\ \A v \in Workers : ~Creating(v)
      BY <1>0, <2>4, <3>1 DEF PassKnows
    <3>3. \A v \in Workers : Creating(v)' => v = w
      BY <1>5, <3>2 DEF Creating, LoopType
    <3>4. PassKnows(w, L)'
      BY <2>0, <2>1, <2>8, <3>2, <3>3 DEF PassKnows, Creating
    <3>5. p # "idle" => c.obj.present
      BY <2>5, <2>8 DEF Same
    <3>6. o.creation = "pending" => o.present /\ o.finalizer
      BY <1>3, <2>5, <2>8 DEF Same
    <3> QED
      BY <1>3, <1>5, <2>0, <2>2, <2>8, <3>2, <3>4, <3>5, <3>6, LoopPutKnows
  <2>9. CASE /\ c.fresh /\ c.obj = o /\ p = "finish" /\ pc[w] \in {"created", "createFailed"}
             /\ o.present = cr.present /\ o.finalizer = cr.finalizer /\ o.creation # "pending"
             /\ o.extName = IF mem[w].obj.extName = NoName
                            THEN cr.extName ELSE mem[w].obj.extName
    <3>1. Creating(w)
      BY <2>9 DEF Creating
    <3>2. /\ cr.creation = "pending" /\ (\A v \in Workers : Creating(v) => v = w)
          /\ L \subseteq {mem[w].obj.extName}
      BY <1>0, <2>9, <3>1 DEF PassKnows
    <3>3. \A n \in L : o.extName = n
      BY <2>9, <3>2, ReconcilerAssumption
    <3>4. PassKnows(w, L)'
      BY <2>1, <2>9 DEF PassKnows, Creating
    <3>5. \A v \in Workers \ {w} : ~Creating(v)
      BY <3>2
    <3>6. /\ o.present /\ o.finalizer /\ c.obj.present
          /\ \A n \in L : o.present /\ o.finalizer /\ (o.extName = n \/ o.creation = "pending")
      BY <2>3, <2>9, <3>2, <3>3
    <3> QED
      BY <1>5, <2>0, <2>2, <3>4, <3>5, <3>6, LoopPutKnows
  <2> QED
    BY <1>5, <2>6, <2>7, <2>8, <2>9 DEF Writes
<1> QED
  BY <1>1, <1>2, <1>4, <1>5

-----------------------------------------------------------------------------
(***************************************************************************)
(* The kinds' steps                                                        *)
(***************************************************************************)
\* A step that moves the pass of w on, and at most sets its Ready condition.
Touches(w, p) ==
  /\ UNCHANGED <<cr, cache>>
  /\ pc' = [pc EXCEPT ![w] = p]
  /\ mem' = mem \/ \E r \in BOOLEAN : mem' = [mem EXCEPT ![w].obj.ready = r]

LEMMA LoopTouchTypes ==
  ASSUME NEW S, NEW P, LoopType(S, P), NEW w \in Workers, NEW p \in P, Touches(w, p)
  PROVE  /\ cr' \in Objects(S)
         /\ cache' \in [Workers -> Copies(S)]
         /\ mem' \in [Workers -> Copies(S)]
         /\ pc' \in [Workers -> P]
         /\ pc'[w] = p /\ \A v \in Workers \ {w} : pc'[v] = pc[v] /\ mem'[v] = mem[v]
         /\ mem' = [mem EXCEPT ![w] = mem'[w]]
         /\ mem'[w].fresh = mem[w].fresh
         /\ Same(mem'[w].obj, mem[w].obj)
         /\ mem'[w].obj.creation = mem[w].obj.creation
         /\ Sent(w)' = Sent(w)
<1>1. /\ cr' \in Objects(S) /\ cr' = cr
      /\ cache' \in [Workers -> Copies(S)]
      /\ pc' \in [Workers -> P]
      /\ pc'[w] = p /\ \A v \in Workers \ {w} : pc'[v] = pc[v]
  BY DEF Touches, LoopType
<1>2. mem[w].obj \in Objects(S)
  BY DEF LoopType, Copies
<1>3. CASE mem' = mem
  BY <1>1, <1>2, <1>3 DEF LoopType, Same, Sent
<1>4. ASSUME NEW r \in BOOLEAN, mem' = [mem EXCEPT ![w].obj.ready = r]
      PROVE  /\ mem' \in [Workers -> Copies(S)]
             /\ \A v \in Workers \ {w} : mem'[v] = mem[v]
             /\ mem' = [mem EXCEPT ![w] = mem'[w]]
             /\ mem'[w].fresh = mem[w].fresh
             /\ mem'[w].obj = [mem[w].obj EXCEPT !.ready = r]
  BY <1>4 DEF LoopType, Copies, Objects
<1>5. ASSUME NEW r \in BOOLEAN, mem'[w].obj = [mem[w].obj EXCEPT !.ready = r]
      PROVE  /\ Same(mem'[w].obj, mem[w].obj)
             /\ mem'[w].obj.creation = mem[w].obj.creation
             /\ Sent(w)' = Sent(w)
  <2>1. [[mem[w].obj EXCEPT !.ready = r] EXCEPT !.ready = cr.ready]
          = [mem[w].obj EXCEPT !.ready = cr.ready]
    BY <1>2 DEF Objects
  <2> QED
    BY <1>1, <1>2, <1>5, <2>1 DEF Same, Sent, Objects
<1> QED
  BY <1>1, <1>3, <1>4, <1>5 DEF Touches

\* What the loop knows survives a step of the kind that brings nothing to life, if
\* the pass is right when it says that its entity is absent.
LEMMA LoopTouch ==
  ASSUME NEW S, NEW P, LoopType(S, P), NEW L, LoopInv(L), NEW w \in Workers,
         NEW p \in P, Touches(w, p),
         pc[w] \notin {"idle", "refuse", "created", "createFailed"},
         \/ p \in {"created", "createFailed"} /\ pc[w] = "create"
         \/ p = "finish"
         \/ /\ p \notin {"idle", "refuse", "create", "created", "createFailed", "finish"}
            /\ pc[w] \notin {"create", "finish"},
         p = "absent" /\ mem[w].fresh => mem[w].obj.extName \notin L
  PROVE  LoopInv(L)'
<1>1. /\ pc'[w] = p /\ \A v \in Workers \ {w} : pc'[v] = pc[v]
      /\ mem' = [mem EXCEPT ![w] = mem'[w]]
      /\ mem'[w].fresh = mem[w].fresh
      /\ Same(mem'[w].obj, mem[w].obj)
      /\ mem'[w].obj.creation = mem[w].obj.creation
      /\ Sent(w)' = Sent(w)
  BY LoopTouchTypes
<1>2. /\ UNCHANGED <<cr, cache>> /\ pc' = [pc EXCEPT ![w] = p]
  BY DEF Touches
<1>3. FreshIsCurrent /\ PassKnows(w, L)
  BY DEF LoopInv
<1>4. mem'[w].fresh => [mem'[w].obj EXCEPT !.ready = cr.ready] = cr
  BY <1>1, <1>2, <1>3 DEF FreshIsCurrent, Sent
<1>5. mem'[w].obj.present
  BY <1>1, <1>3 DEF FreshIsCurrent, Same
<1>6. p \in {"create", "created", "createFailed"} => Creating(w)
  BY DEF Creating
<1>7. PassKnows(w, L)'
  <2>1. Creating(w)' => /\ cr'.creation = "pending"
                        /\ \A v \in Workers : Creating(v)' => v = w
    BY <1>1, <1>2, <1>3, <1>6 DEF PassKnows, Creating
  <2>2. p = "absent" /\ mem'[w].fresh => mem'[w].obj.extName \notin L
    BY <1>1 DEF Same
  <2>3. p \in {"create", "created", "createFailed"} => L = {}
    BY <1>3 DEF PassKnows
  <2>4. ~Creating(w)' /\ p \notin {"idle", "refuse", "finish"} =>
          mem'[w].obj.creation # "pending"
    BY <1>1, <1>3 DEF PassKnows, Creating
  <2> QED
    BY <1>1, <2>1, <2>2, <2>3, <2>4 DEF PassKnows
<1> QED
  BY <1>1, <1>2, <1>4, <1>5, <1>6, <1>7, LoopMoveKnows

\* The same for a write of the spec from a current copy.
SpecWritten(w, s, r, p) ==
  LET o == [Sent(w) EXCEPT !.spec = s]
  IN  /\ mem[w].fresh
      /\ Put(w, o, [obj |-> [o EXCEPT !.ready = r], fresh |-> TRUE])
      /\ pc' = [pc EXCEPT ![w] = p]

LEMMA LoopSpecWritten ==
  ASSUME NEW S, NEW P, LoopType(S, P), NEW L, LoopInv(L), NEW w \in Workers,
         NEW s \in S, NEW r \in BOOLEAN, NEW p \in P, SpecWritten(w, s, r, p),
         pc[w] \notin {"idle", "refuse", "create", "created", "createFailed", "finish"},
         p \notin {"idle", "refuse", "absent", "create", "created", "createFailed"}
  PROVE  /\ LoopInv(L)'
         /\ cr' \in Objects(S)
         /\ cache' \in [Workers -> Copies(S)]
         /\ mem' \in [Workers -> Copies(S)]
         /\ pc' \in [Workers -> P]
         /\ pc'[w] = p
         /\ \A v \in Workers \ {w} : pc'[v] = pc[v] /\ mem'[v].obj = mem[v].obj
         /\ \A v \in Workers : cache'[v].obj = cache[v].obj
         /\ cr'.spec = s /\ cr'.extName = cr.extName /\ cr'.deleting = cr.deleting
         /\ cr'.present = cr.present /\ Same(mem'[w].obj, cr') /\ Same(mem[w].obj, cr)
<1> DEFINE o == [Sent(w) EXCEPT !.spec = s]
           c == [obj |-> [o EXCEPT !.ready = r], fresh |-> TRUE]
<1>1. FreshIsCurrent /\ PassKnows(w, L) /\ \A v \in Workers : PassKnows(v, L)
  BY DEF LoopInv
<1>2. /\ Sent(w) = cr /\ Same(mem[w].obj, cr) /\ cr.creation = mem[w].obj.creation
      /\ cr \in Objects(S)
  BY <1>1, LoopFresh DEF SpecWritten, LoopType
<1>3. /\ o \in Objects(S) /\ [o EXCEPT !.ready = r] \in Objects(S)
      /\ o.spec = s /\ o.extName = cr.extName /\ o.deleting = cr.deleting
      /\ o.present = cr.present /\ o.creation = cr.creation /\ o.finalizer = cr.finalizer
      /\ Same([o EXCEPT !.ready = r], o)
      /\ [o EXCEPT !.ready = r].creation = o.creation
      /\ [[o EXCEPT !.ready = r] EXCEPT !.ready = o.ready] = o
  BY <1>2 DEF Objects, Same
<1>4. c \in Copies(S) /\ Put(w, o, c) /\ pc' = [pc EXCEPT ![w] = p]
  BY <1>3 DEF SpecWritten, Copies
<1> HIDE DEF o
<1>5. /\ cr' = o /\ cache' \in [Workers -> Copies(S)] /\ mem' \in [Workers -> Copies(S)]
      /\ mem'[w] = c /\ \A v \in Workers \ {w} : mem'[v].obj = mem[v].obj
      /\ \A v \in Workers : cache'[v].obj = cache[v].obj
  BY <1>3, <1>4, LoopPut
<1>6. pc' \in [Workers -> P] /\ pc'[w] = p /\ \A v \in Workers \ {w} : pc'[v] = pc[v]
  BY <1>4 DEF LoopType
<1>7. cr.present
  BY <1>1, <1>2 DEF FreshIsCurrent, Same
<1>8. PassKnows(w, L)'
  <2>1. mem'[w].obj.creation = cr.creation
    <3>1. mem'[w].obj = [o EXCEPT !.ready = r]
      BY <1>5
    <3> QED
      BY <1>3, <3>1
  <2>2. cr.creation # "pending"
    BY <1>1, <1>2 DEF PassKnows, Creating
  <2> QED
    BY <1>6, <2>1, <2>2 DEF PassKnows, Creating
<1>9. \A v \in Workers \ {w} : Creating(v) =>
        o.creation = "pending" /\ p \notin {"create", "created", "createFailed"}
  BY <1>1, <1>3 DEF PassKnows
<1>10. /\ o.creation = "pending" => o.present /\ o.finalizer
       /\ \A n \in L : o.present /\ o.finalizer /\ (o.extName = n \/ o.creation = "pending")
  BY <1>3 DEF LoopInv, AccountedFor
<1>11. c.obj.present /\ [c.obj EXCEPT !.ready = o.ready] = o
  BY <1>3, <1>7 DEF Same
<1>12. LoopInv(L)'
  <2> HIDE DEF c
  <2> QED BY <1>3, <1>4, <1>8, <1>9, <1>10, <1>11, LoopPutKnows
<1>13. cr'.spec = s /\ cr'.extName = cr.extName /\ cr'.deleting = cr.deleting
       /\ cr'.present = cr.present
  BY <1>3, <1>5
<1>14. Same(mem'[w].obj, cr')
  <2>1. mem'[w].obj = [o EXCEPT !.ready = r]
    BY <1>5
  <2> QED
    BY <1>3, <1>5, <2>1
<1> HIDE DEF c
<1> QED
  BY <1>2, <1>3, <1>5, <1>6, <1>12, <1>13, <1>14

\* The creation of entity n, whose name the pass of w remembers; L is what may be
\* alive after it.
TakesName(w, n) ==
  /\ pc[w] = "create" /\ pc' = [pc EXCEPT ![w] = "created"]
  /\ UNCHANGED <<cr, cache>>
  /\ mem' = [mem EXCEPT ![w].obj = [@ EXCEPT !.extName = n, !.ready = FALSE]]

LEMMA LoopCreateTypes ==
  ASSUME NEW S, NEW P, ReconcilerPhases \subseteq P, LoopType(S, P),
         NEW w \in Workers, NEW n \in Names, TakesName(w, n)
  PROVE  /\ cr' \in Objects(S)
         /\ cache' \in [Workers -> Copies(S)]
         /\ mem' \in [Workers -> Copies(S)]
         /\ pc' \in [Workers -> P]
         /\ pc'[w] = "created"
         /\ \A v \in Workers \ {w} : pc'[v] = pc[v] /\ mem'[v] = mem[v]
         /\ mem'[w].obj.extName = n
         /\ mem'[w].obj.present = mem[w].obj.present
         /\ mem'[w].obj.deleting = mem[w].obj.deleting
         /\ mem'[w].obj.spec = mem[w].obj.spec
<1>1. mem[w] \in Copies(S) /\ mem[w].obj \in Objects(S)
  BY DEF LoopType, Copies
<1>2. [mem[w].obj EXCEPT !.extName = n, !.ready = FALSE] \in Objects(S)
  BY <1>1 DEF Objects
<1> QED
  BY <1>1, <1>2 DEF TakesName, LoopType, Copies, Objects, ReconcilerPhases

LEMMA LoopCreate ==
  ASSUME NEW S, NEW P, ReconcilerPhases \subseteq P, LoopType(S, P), NEW L, LoopInv(L),
         NEW w \in Workers, NEW n \in Names, TakesName(w, n), NEW M, M \subseteq {n}
  PROVE  LoopInv(M)'
<1>1. /\ pc'[w] = "created" /\ mem'[w].obj.extName = n
      /\ mem'[w].obj.present = mem[w].obj.present
      /\ \A v \in Workers \ {w} : pc'[v] = pc[v] /\ mem'[v] = mem[v]
  BY LoopCreateTypes
<1>2. UNCHANGED <<cr, cache>> /\ pc[w] = "create"
  BY DEF TakesName
<1>3. FreshIsCurrent /\ \A v \in Workers : PassKnows(v, L)
  BY DEF LoopInv
<1>4. Creating(w)
  BY <1>2 DEF Creating
<1>5. /\ cr.creation = "pending" /\ (\A v \in Workers : Creating(v) => v = w)
      /\ cr.present /\ cr.finalizer
  BY <1>3, <1>4 DEF PassKnows, LoopInv
<1>6. FreshIsCurrent'
  BY <1>1, <1>2, <1>3 DEF FreshIsCurrent, Sent
<1>7. ASSUME NEW v \in Workers PROVE PassKnows(v, M)'
  <2>1. CASE v = w
    BY <1>1, <1>2, <1>5, <2>1 DEF PassKnows, Creating
  <2>2. CASE v # w
    <3>1. ~Creating(v) /\ ~Creating(v)' /\ pc'[v] = pc[v] /\ mem'[v] = mem[v]
      BY <1>1, <1>5, <2>2 DEF Creating
    <3>2. ~(pc[v] = "absent" /\ mem[v].fresh)
      <4>1. SUFFICES ASSUME pc[v] = "absent", mem[v].fresh PROVE FALSE
        OBVIOUS
      <4>2. cr.creation = mem[v].obj.creation
        BY <1>3, <4>1, LoopFresh
      <4>3. mem[v].obj.creation # "pending"
        BY <1>3, <3>1, <4>1 DEF PassKnows
      <4> QED
        BY <1>5, <4>2, <4>3
    <3> QED
      BY <1>3, <3>1, <3>2 DEF PassKnows, Creating
  <2> QED
    BY <2>1, <2>2
<1> QED
  BY <1>2, <1>5, <1>6, <1>7 DEF LoopInv, AccountedFor, AtMostOne

\* What users write: a new CR for one that is gone, another spec, the deletion mark
\* or, without a finalizer, that the CR is gone.
LEMMA LoopUserForms ==
  ASSUME NEW S, NEW P, UserSpecs \subseteq S, LoopType(S, P), UserStepOver(S)
  PROVE  /\ LoopType(S, P)'
         /\ pc' = pc
         /\ \A v \in Workers : /\ mem'[v].obj = mem[v].obj /\ ~mem'[v].fresh
                               /\ cache'[v].obj = cache[v].obj /\ ~cache'[v].fresh
         /\ \/ cr' = NoObject /\ ~cr.finalizer /\ cr.present /\ ~cr.deleting
            \/ (\E s \in S : cr' = NewObject(s)) /\ ~cr.present
            \/ /\ cr'.present = cr.present /\ cr'.finalizer = cr.finalizer
               /\ cr'.creation = cr.creation /\ cr'.extName = cr.extName /\ cr.present
               /\ \/ cr'.deleting = cr.deleting /\ cr'.spec \in S
                  \/ cr'.deleting /\ ~cr.deleting /\ cr'.spec = cr.spec
<1>0. cr \in Objects(S)
  BY DEF LoopType
<1>1. ASSUME NEW o \in Objects(S), UserWrites(o)
      PROVE  /\ LoopType(S, P)'
             /\ pc' = pc /\ cr' = o
             /\ \A v \in Workers : /\ mem'[v].obj = mem[v].obj /\ ~mem'[v].fresh
                                   /\ cache'[v].obj = cache[v].obj /\ ~cache'[v].fresh
  BY <1>1, LoopStaleType DEF UserWrites, LoopType
<1>2. CASE UserDeletes
  <2>1. CASE cr.finalizer
    <3> DEFINE o == [cr EXCEPT !.deleting = TRUE]
    <3>1. /\ o \in Objects(S) /\ o.present = cr.present /\ o.finalizer = cr.finalizer
          /\ o.creation = cr.creation /\ o.extName = cr.extName /\ o.deleting
          /\ o.spec = cr.spec
      BY <1>0 DEF Objects
    <3>2. UserWrites(o) /\ cr.present /\ ~cr.deleting
      BY <1>2, <2>1 DEF UserDeletes
    <3> HIDE DEF o
    <3> QED
      BY <1>1, <3>1, <3>2
  <2>2. CASE ~cr.finalizer
    BY <1>1, <1>2, <2>2, LoopNoObjectType DEF UserDeletes
  <2> QED
    BY <2>1, <2>2
<1>3. ASSUME NEW s \in S, ~cr.present, UserWrites(NewObject(s))
      PROVE  /\ LoopType(S, P)'
             /\ pc' = pc /\ cr' = NewObject(s)
             /\ \A v \in Workers : /\ mem'[v].obj = mem[v].obj /\ ~mem'[v].fresh
                                   /\ cache'[v].obj = cache[v].obj /\ ~cache'[v].fresh
  <2>1. NewObject(s) \in Objects(S)
    BY DEF NewObject, Objects, Creation
  <2> QED
    BY <1>1, <1>3, <2>1
<1>4. ASSUME NEW s \in S, cr.present, UserWrites([cr EXCEPT !.spec = s])
      PROVE  /\ LoopType(S, P)'
             /\ pc' = pc
             /\ \A v \in Workers : /\ mem'[v].obj = mem[v].obj /\ ~mem'[v].fresh
                                   /\ cache'[v].obj = cache[v].obj /\ ~cache'[v].fresh
             /\ cr'.present = cr.present /\ cr'.finalizer = cr.finalizer
             /\ cr'.creation = cr.creation /\ cr'.extName = cr.extName
             /\ cr'.deleting = cr.deleting /\ cr'.spec \in S
  <2> DEFINE o == [cr EXCEPT !.spec = s]
  <2>1. /\ o \in Objects(S) /\ o.present = cr.present /\ o.finalizer = cr.finalizer
        /\ o.creation = cr.creation /\ o.extName = cr.extName
        /\ o.deleting = cr.deleting /\ o.spec = s
    BY <1>0 DEF Objects
  <2>2. UserWrites(o)
    BY <1>4
  <2> HIDE DEF o
  <2> QED
    BY <1>1, <2>1, <2>2
<1> QED
  BY <1>2, <1>3, <1>4 DEF UserStepOver, UserApplies

LEMMA LoopUser ==
  ASSUME NEW S, NEW P, UserSpecs \subseteq S, LoopType(S, P), NEW L, LoopInv(L),
         UserStepOver(S)
  PROVE  LoopInv(L)'
<1>1. /\ pc' = pc
      /\ \A v \in Workers : /\ mem'[v].obj = mem[v].obj /\ ~mem'[v].fresh
                            /\ cache'[v].obj = cache[v].obj /\ ~cache'[v].fresh
      /\ \/ cr' = NoObject /\ ~cr.finalizer
         \/ (\E s \in S : cr' = NewObject(s)) /\ ~cr.present
         \/ /\ cr'.present = cr.present /\ cr'.finalizer = cr.finalizer
            /\ cr'.creation = cr.creation /\ cr'.extName = cr.extName
  BY LoopUserForms
<1>2. \/ /\ cr'.creation = "none" /\ cr.creation # "pending" /\ L = {}
      \/ /\ cr'.present = cr.present /\ cr'.finalizer = cr.finalizer
         /\ cr'.creation = cr.creation /\ cr'.extName = cr.extName
  <2>1. ~cr.finalizer \/ ~cr.present => cr.creation # "pending" /\ L = {}
    BY DEF LoopInv, AccountedFor
  <2>2. cr' = NoObject \/ (\E s \in S : cr' = NewObject(s)) => cr'.creation = "none"
    BY LoopNoObjectType DEF NewObject
  <2> QED
    BY <1>1, <2>1, <2>2
<1>3. FreshIsCurrent'
  BY <1>1 DEF LoopInv, FreshIsCurrent
<1>4. ASSUME NEW v \in Workers PROVE PassKnows(v, L)'
  <2>1. PassKnows(v, L)
    BY DEF LoopInv
  <2>2. Creating(v) => cr'.creation = "pending" /\ \A u \in Workers : Creating(u)' => u = v
    BY <1>1, <1>2, <2>1 DEF PassKnows, Creating
  <2> QED
    BY <1>1, <2>1, <2>2, LoopOthers
<1>5. /\ cr'.creation = "pending" => cr'.present /\ cr'.finalizer
      /\ \A n \in L : cr'.present /\ cr'.finalizer /\ (cr'.extName = n \/ cr'.creation = "pending")
  BY <1>2 DEF LoopInv, AccountedFor
<1> QED
  BY <1>3, <1>4, <1>5 DEF LoopInv, AccountedFor, AtMostOne

\* What the loop knows is not about the cloud, and still holds of fewer entities.
LEMMA LoopCloud ==
  ASSUME NEW L, LoopInv(L), UNCHANGED <<cr, cache, mem, pc>>
  PROVE  LoopInv(L)'
BY DEF LoopInv, FreshIsCurrent, Sent, PassKnows, Creating, AccountedFor, AtMostOne

LEMMA LoopFewer ==
  ASSUME NEW L, NEW M, M \subseteq L, LoopInv(L)'
  PROVE  LoopInv(M)'
BY DEF LoopInv, PassKnows, AccountedFor, AtMostOne

\* With nothing alive it is true at the start.
LEMMA LoopStart ==
  ASSUME ReconcilerInit
  PROVE  LoopInv({})
<1>1. PICK s \in UserSpecs : cr = NewObject(s)
  BY DEF ReconcilerInit
<1>2. /\ cr.creation = "none"
      /\ \A w \in Workers : ~cache[w].fresh /\ ~mem[w].fresh /\ pc[w] = "idle"
  BY <1>1 DEF ReconcilerInit, NewObject, NoCopy
<1> QED
  BY <1>2 DEF LoopInv, FreshIsCurrent, PassKnows, Creating, AccountedFor, AtMostOne

LEMMA LoopStartTypes ==
  ASSUME NEW S, NEW P, UserSpecs \subseteq S, ReconcilerPhases \subseteq P, ReconcilerInit
  PROVE  LoopType(S, P)
<1>1. PICK s \in UserSpecs : cr = NewObject(s)
  BY DEF ReconcilerInit
<1>2. NewObject(s) \in Objects(S)
  BY DEF NewObject, Objects, Creation
<1> QED
  BY <1>1, <1>2, LoopNoObjectType DEF ReconcilerInit, LoopType, ReconcilerPhases

-----------------------------------------------------------------------------
(***************************************************************************)
(* What copies of the CR say                                               *)
(***************************************************************************)
\* While an entity is alive the loop neither takes its name from the CR nor takes
\* back a deletion.
LEMMA LoopKeepsClaim ==
  ASSUME NEW S, NEW P, UserSpecs \subseteq S, LoopType(S, P),
         NEW L, L \subseteq Names, LoopInv(L), NEW w \in Workers, LoopStep(w),
         NEW n \in L, cr.extName = n
  PROVE  cr'.extName = n /\ cr'.deleting = cr.deleting
<1>1. FreshIsCurrent /\ PassKnows(w, L)
  BY DEF LoopInv
<1>2. \/ Same(cr', cr)
      \/ cr' = NoObject
      \/ /\ pc[w] \in {"created", "createFailed"} /\ cr'.deleting = cr.deleting
         /\ cr'.extName = IF mem[w].obj.extName = NoName THEN cr.extName
                          ELSE mem[w].obj.extName
  BY <1>1, LoopSources
<1>3. cr' # NoObject
  <2>1. LoopInv(L)'
    BY LoopKeepsInv
  <2>2. cr'.present
    BY <2>1 DEF LoopInv, AccountedFor
  <2> QED
    BY <2>2, LoopNoObjectType
<1>4. pc[w] \in {"created", "createFailed"} => n = mem[w].obj.extName
  BY <1>1 DEF PassKnows
<1> QED
  BY <1>2, <1>3, <1>4, ReconcilerAssumption DEF Same

\* The loop's own steps keep what copies say.
LEMMA LoopKeepsCopies ==
  ASSUME NEW S, NEW P, UserSpecs \subseteq S, ReconcilerPhases \subseteq P,
         LoopType(S, P), NEW L, L \subseteq Names, LoopInv(L),
         NEW G, CopiesInv(L, G), NEW w \in Workers, LoopStep(w)
  PROVE  CopiesInv(L, G)'
<1>1. FreshIsCurrent
  BY DEF LoopInv
<1>2. /\ \A v \in Workers \ {w} : pc'[v] = pc[v] /\ mem'[v].obj = mem[v].obj
      /\ pc'[w] \notin {"idle", "observe", "refuse", "finish"} =>
           /\ Same(mem'[w].obj, mem[w].obj)
           /\ pc'[w] # pc[w] =>
                /\ pc[w] = "absent" /\ pc'[w] = "create"
                /\ mem'[w].obj = cr' /\ Same(cr', cr) /\ ~cr.deleting
  BY <1>1, LoopKeepsTypes
<1>3. /\ \/ Same(cr', cr)
         \/ cr' = NoObject /\ pc[w] = "absent"
         \/ /\ pc[w] \in {"created", "createFailed"}
            /\ cr'.extName = IF mem[w].obj.extName = NoName THEN cr.extName
                             ELSE mem[w].obj.extName
      /\ \A v \in Workers : cache'[v].obj \in {cache[v].obj, cr}
      /\ \/ Same(mem'[w].obj, mem[w].obj) /\ pc'[w] \in {pc[w], "finish"}
         \/ mem'[w].obj = cache[w].obj
         \/ mem'[w].obj = cr' \/ mem'[w].obj = NoObject
  BY <1>1, LoopSources
<1>4. \A n \in L : cr.extName = n => cr'.extName = n /\ cr'.deleting = cr.deleting
  BY LoopKeepsClaim
<1>5. NoObject.extName = NoName /\ NoName \notin L
  BY LoopNoObjectType, ReconcilerAssumption
<1>6. cr'.extName \in G \cup {NoName}
  BY <1>3, <1>5 DEF CopiesInv, Same
<1>7. ASSUME NEW v \in Workers
      PROVE  cache'[v].obj.extName \in G \cup {NoName} /\ CopyRight(cache[v].obj, L)'
  BY <1>3, <1>4 DEF CopiesInv, CopyRight
<1>8. ASSUME NEW v \in Workers
      PROVE  /\ mem'[v].obj.extName \in G \cup {NoName}
             /\ pc'[v] \notin {"created", "finish"} => CopyRight(mem[v].obj, L)'
             /\ pc'[v] = "create" => ~mem'[v].obj.deleting
  <2>1. CASE v # w
    BY <1>2, <1>4, <2>1 DEF CopiesInv, CopyRight
  <2>2. CASE v = w
    <3>1. mem'[w].obj.extName \in G \cup {NoName}
      BY <1>3, <1>5, <1>6 DEF CopiesInv, Same
    <3>2. pc'[w] \notin {"created", "finish"} => CopyRight(mem[w].obj, L)'
      BY <1>3, <1>4, <1>5 DEF CopiesInv, CopyRight, Same
    <3>3. pc'[w] = "create" => ~mem'[w].obj.deleting
      BY <1>2 DEF CopiesInv, Same
    <3> QED
      BY <2>2, <3>1, <3>2, <3>3
  <2> QED
    BY <2>1, <2>2
<1> QED
  BY <1>6, <1>7, <1>8 DEF CopiesInv

\* So does a step of the kind that moves a pass on.
LEMMA LoopTouchCopies ==
  ASSUME NEW S, NEW P, LoopType(S, P), NEW L, NEW G, CopiesInv(L, G), NEW w \in Workers,
         NEW p \in P, Touches(w, p),
         p \notin {"created", "finish"} => pc[w] \notin {"created", "finish"},
         p = "create" => pc[w] = "create"
  PROVE  CopiesInv(L, G)'
<1>1. /\ pc'[w] = p /\ \A v \in Workers \ {w} : pc'[v] = pc[v] /\ mem'[v] = mem[v]
      /\ Same(mem'[w].obj, mem[w].obj) /\ UNCHANGED <<cr, cache>>
  BY LoopTouchTypes DEF Touches
<1>2. /\ cr'.extName \in G \cup {NoName}
      /\ \A v \in Workers : cache'[v].obj.extName \in G \cup {NoName} /\ CopyRight(cache[v].obj, L)'
  BY <1>1 DEF CopiesInv, CopyRight
<1>3. ASSUME NEW v \in Workers
      PROVE  /\ mem'[v].obj.extName \in G \cup {NoName}
             /\ pc'[v] \notin {"created", "finish"} => CopyRight(mem[v].obj, L)'
             /\ pc'[v] = "create" => ~mem'[v].obj.deleting
  <2>1. CASE v # w
    BY <1>1, <2>1 DEF CopiesInv, CopyRight
  <2>2. CASE v = w
    BY <1>1, <2>2 DEF CopiesInv, CopyRight, Same
  <2> QED
    BY <2>1, <2>2
<1> QED
  BY <1>2, <1>3 DEF CopiesInv

LEMMA LoopSpecWrittenCopies ==
  ASSUME NEW S, NEW P, LoopType(S, P), NEW L, LoopInv(L), NEW G, CopiesInv(L, G),
         NEW w \in Workers, NEW s \in S, NEW r \in BOOLEAN, NEW p \in P,
         SpecWritten(w, s, r, p),
         pc[w] \notin {"idle", "refuse", "create", "created", "createFailed", "finish"},
         p \notin {"idle", "refuse", "absent", "create", "created", "createFailed"}
  PROVE  CopiesInv(L, G)'
<1>1. /\ pc'[w] = p
      /\ \A v \in Workers \ {w} : pc'[v] = pc[v] /\ mem'[v].obj = mem[v].obj
      /\ \A v \in Workers : cache'[v].obj = cache[v].obj
      /\ cr'.extName = cr.extName /\ cr'.deleting = cr.deleting
      /\ Same(mem'[w].obj, cr')
  BY LoopSpecWritten
<1>2. /\ cr'.extName \in G \cup {NoName}
      /\ \A v \in Workers : cache'[v].obj.extName \in G \cup {NoName} /\ CopyRight(cache[v].obj, L)'
  BY <1>1 DEF CopiesInv, CopyRight
<1>3. ASSUME NEW v \in Workers
      PROVE  /\ mem'[v].obj.extName \in G \cup {NoName}
             /\ pc'[v] \notin {"created", "finish"} => CopyRight(mem[v].obj, L)'
             /\ pc'[v] = "create" => ~mem'[v].obj.deleting
  <2>1. CASE v # w
    BY <1>1, <2>1 DEF CopiesInv, CopyRight
  <2>2. CASE v = w
    BY <1>1, <2>2 DEF CopiesInv, CopyRight, Same
  <2> QED
    BY <2>1, <2>2
<1> QED
  BY <1>2, <1>3 DEF CopiesInv

\* A name that was never given is in no copy.
LEMMA LoopCreateCopies ==
  ASSUME NEW S, NEW P, ReconcilerPhases \subseteq P, LoopType(S, P), NEW L, NEW G,
         CopiesInv(L, G), NEW w \in Workers, NEW n \in Names, TakesName(w, n),
         NEW M, M \subseteq {n}, n \notin G \/ M = {}, NEW H, G \cup {n} \subseteq H
  PROVE  CopiesInv(M, H)'
<1>1. /\ pc'[w] = "created" /\ mem'[w].obj.extName = n
      /\ \A v \in Workers \ {w} : pc'[v] = pc[v] /\ mem'[v] = mem[v]
  BY LoopCreateTypes
<1>2. UNCHANGED <<cr, cache>> /\ NoName # n
  BY ReconcilerAssumption DEF TakesName
<1> QED
  BY <1>1, <1>2 DEF CopiesInv, CopyRight

LEMMA LoopUserCopies ==
  ASSUME NEW S, NEW P, UserSpecs \subseteq S, LoopType(S, P), NEW L, LoopInv(L),
         NEW G, CopiesInv(L, G), UserStepOver(S)
  PROVE  CopiesInv(L, G)'
<1>1. /\ pc' = pc
      /\ \A v \in Workers : mem'[v].obj = mem[v].obj /\ cache'[v].obj = cache[v].obj
      /\ \/ cr' = NoObject /\ ~cr.finalizer
         \/ (\E s \in S : cr' = NewObject(s)) /\ ~cr.present
         \/ cr'.extName = cr.extName /\ (cr.deleting => cr'.deleting)
  BY LoopUserForms
<1>2. \/ cr'.extName = NoName /\ L = {}
      \/ cr'.extName = cr.extName /\ (cr.deleting => cr'.deleting)
  <2>1. ~cr.finalizer \/ ~cr.present => L = {}
    BY DEF LoopInv, AccountedFor
  <2>2. cr' = NoObject \/ (\E s \in S : cr' = NewObject(s)) => cr'.extName = NoName
    BY LoopNoObjectType DEF NewObject
  <2> QED
    BY <1>1, <2>1, <2>2
<1> QED
  BY <1>1, <1>2 DEF CopiesInv, CopyRight

LEMMA LoopCloudCopies ==
  ASSUME NEW L, NEW G, CopiesInv(L, G), UNCHANGED <<cr, cache, mem, pc>>
  PROVE  CopiesInv(L, G)'
BY DEF CopiesInv, CopyRight

LEMMA LoopFewerCopies ==
  ASSUME NEW L, NEW M, M \subseteq L, NEW G, NEW H, G \subseteq H, CopiesInv(L, G)'
  PROVE  CopiesInv(M, H)'
BY DEF CopiesInv, CopyRight

LEMMA LoopStartCopies ==
  ASSUME ReconcilerInit
  PROVE  CopiesInv({}, {})
<1>1. PICK s \in UserSpecs : cr = NewObject(s)
  BY DEF ReconcilerInit
<1> QED
  BY <1>1 DEF ReconcilerInit, NewObject, NoCopy, NoObject, CopiesInv, CopyRight
=============================================================================
