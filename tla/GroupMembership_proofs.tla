------------------------ MODULE GroupMembership_proofs ------------------------
(***************************************************************************)
(* Proofs about GroupMembership: the types with any replicas, specs and    *)
(* faults; who has access and who loses it, for one replica; and that      *)
(* replacing members never empties the group.                              *)
(***************************************************************************)
EXTENDS GroupMembership, ManagedReconciler_proofs

KindPhases == ReconcilerPhases \cup {"remove"}

-----------------------------------------------------------------------------
(***************************************************************************)
(* Members that are added and removed                                      *)
(***************************************************************************)
MembersType == [Groups -> {Gone} \cup SUBSET Ids]

LEMMA ItemTypes ==
  ASSUME NEW items \in SUBSET Item
  PROVE  /\ Accepted(items) \subseteq {m.id : m \in items}
         /\ {m.id : m \in items} \subseteq Ids
BY DEF Accepted, Item

LEMMA SpecItems ==
  ASSUME NEW spec \in SpecType
  PROVE  /\ ToSet(spec.members) \in SUBSET Item
         /\ Idents(spec.members) \subseteq Ids
         /\ Accepted(ToSet(spec.members)) \subseteq Idents(spec.members)
<1>1. spec.members \in Seq(Item)
  BY DEF SpecType
<1>2. ToSet(spec.members) \in SUBSET Item
  BY <1>1 DEF ToSet
<1> QED
  BY <1>2, ItemTypes DEF Idents

LEMMA NotGone ==
  ASSUME NEW S \in SUBSET Ids
  PROVE  S # Gone
BY GroupMembershipAssumption DEF Gone

\* Adding changes one group at most, and none that is gone or has all already.
LEMMA AddEffect ==
  ASSUME members \in MembersType, NEW g \in Groups, NEW S \in SUBSET Ids, AddTo(g, S)
  PROVE  /\ members' \in MembersType
         /\ \A h \in Groups \ {g} : members'[h] = members[h]
         /\ members[g] = Gone => members'[g] = Gone
         /\ members[g] # Gone => members'[g] = members[g] \cup S
<1>1. CASE members[g] = Gone
  BY <1>1 DEF AddTo
<1>2. CASE members[g] # Gone
  <2>1. members' = [members EXCEPT ![g] = @ \cup S] /\ members[g] \in SUBSET Ids
    BY <1>2 DEF AddTo, MembersType
  <2> QED
    BY <1>2, <2>1 DEF MembersType
<1> QED
  BY <1>1, <1>2

LEMMA RemoveEffect ==
  ASSUME members \in MembersType, NEW g \in Groups, NEW S, RemoveFrom(g, S)
  PROVE  /\ members' \in MembersType
         /\ \A h \in Groups \ {g} : members'[h] = members[h]
         /\ members[g] = Gone => members'[g] = Gone
         /\ members[g] # Gone => members'[g] = members[g] \ S
<1>1. CASE members[g] = Gone
  BY <1>1 DEF RemoveFrom
<1>2. CASE members[g] # Gone
  <2>1. members' = [members EXCEPT ![g] = @ \ S] /\ members[g] \in SUBSET Ids
    BY <1>2 DEF RemoveFrom, MembersType
  <2> QED
    BY <1>2, <2>1 DEF MembersType
<1> QED
  BY <1>1, <1>2

-----------------------------------------------------------------------------
(***************************************************************************)
(* The forms of the controller's steps                                     *)
(***************************************************************************)
LEMMA TypeParts ==
  /\ UserSpecs \subseteq SpecType
  /\ ReconcilerPhases \subseteq KindPhases
  /\ TypeOK => /\ LoopType(SpecType, KindPhases)
               /\ members \in MembersType
               /\ seen \in [Workers -> SUBSET Ids]
               /\ \A w \in Workers : /\ Wanted(w) \in SpecType
                                     /\ Group(w) \in Groups \cup {NoName}
BY GroupMembershipAssumption
   DEF KindPhases, TypeOK, LoopType, MembersType, Wanted, Group, Copies, Objects, Groups

LEMMA BaseParts ==
  ASSUME BaseInv
  PROVE  /\ TypeOK /\ LoopType(SpecType, KindPhases) /\ FreshIsCurrent /\ LoopInv({})
         /\ members \in MembersType /\ seen \in [Workers -> SUBSET Ids]
         /\ \A w \in Workers : PassRight(w)
BY TypeParts DEF BaseInv, LoopInv

\* A pass whose members were found is past Observe.
PassSaw(w) ==
  pc[w] \in {"current", "outdated", "remove"} => Group(w) \in Groups /\ seen[w] # {}

LEMMA BaseNext ==
  ASSUME LoopType(SpecType, KindPhases)', LoopInv({})', members' \in MembersType,
         seen' \in [Workers -> SUBSET Ids],
         \A w \in Workers : PassSaw(w)' /\ PassRight(w)'
  PROVE  BaseInv'
BY DEF BaseInv, TypeOK, LoopType, KindPhases, MembersType, PassSaw

\* What a pass that was not interrupted remembers.
LEMMA OtherPass ==
  ASSUME NEW v \in Workers, PassSaw(v), PassRight(v), pc'[v] = pc[v], seen'[v] = seen[v],
         Same(mem'[v].obj, mem[v].obj),
         pc[v] = "remove" => mem'[v].obj.finalizer = mem[v].obj.finalizer
  PROVE  PassSaw(v)' /\ PassRight(v)'
BY DEF PassSaw, PassRight, Group, Wanted, Same

\* A step that tries to create and does not name the group.
Tries(w, p) ==
  /\ pc[w] = "create" /\ p \in {"created", "createFailed"} /\ seen' = seen
  /\ \E S \in SUBSET Accepted(ToSet(Wanted(w).members)) :
       /\ AddTo(Wanted(w).group, S)
       /\ \/ S = {} \/ members[Wanted(w).group] = Gone \/ "partialCreate" \in FaultKinds
          \/ \E m \in ToSet(Wanted(w).members) : m.type # TypeOf[m.id]

\* One that finds out about the group.
Looks(w, p) ==
  /\ pc[w] = "observe" /\ UNCHANGED members
  /\ \/ p = "finish" /\ seen' = seen
     \/ /\ p = "absent" /\ Observing(w) /\ seen' = seen
        /\ ~HasMembers(Group(w)) \/ "misread" \in FaultKinds
     \/ /\ p \in {"current", "outdated"} /\ Observing(w) /\ HasMembers(Group(w))
        /\ seen' = [seen EXCEPT ![w] = members[Group(w)]]

\* One that adds what is missing, or some of it.
Adds(w, p) ==
  /\ Updating(w) /\ p \in {"remove", "finish"} /\ seen' = seen
  /\ \E S \in SUBSET Accepted(Diff(w).add) :
       /\ AddTo(Wanted(w).group, S)
       /\ p = "remove" => /\ S = Accepted(Diff(w).add)
                          /\ Diff(w).add = {} \/ ~Refused(Wanted(w).group, Diff(w).add)

\* One that removes what is not wanted, or some of it.
Removes(w, p) ==
  /\ pc[w] = "remove" /\ p = "finish" /\ seen' = seen
  /\ \E S \in SUBSET Diff(w).remove : RemoveFrom(Wanted(w).group, S)

\* One that removes members for a CR that is being deleted.
Revokes(w, p) ==
  /\ pc[w] \in {"current", "outdated"} /\ mem[w].obj.deleting
  /\ p = "finish" /\ seen' = seen
  /\ \E S \in SUBSET Idents(Wanted(w).members) : RemoveFrom(Group(w), S)

TouchStep(w, p) ==
  /\ Touches(w, p)
  /\ Tries(w, p) \/ Looks(w, p) \/ Adds(w, p) \/ Removes(w, p) \/ Revokes(w, p)

SpecStep(w, g) ==
  /\ pc[w] = "observe" /\ ~mem[w].obj.deleting /\ Wanted(w).group = Unset
  /\ SpecWritten(w, [Wanted(w) EXCEPT !.group = g], cr.ready, "observe")
  /\ UNCHANGED <<members, seen>>

NameStep(w, g) ==
  /\ TakesName(w, g) /\ g = Wanted(w).group
  /\ AddTo(g, Accepted(ToSet(Wanted(w).members)))
  /\ seen' = seen

LEMMA AddNothing ==
  ASSUME members \in MembersType, NEW g, UNCHANGED members
  PROVE  AddTo(g, {})
<1>1. [members EXCEPT ![g] = @ \cup {}] = members
  BY DEF MembersType
<1> QED
  BY <1>1 DEF AddTo

LEMMA RemoveNothing ==
  ASSUME members \in MembersType, NEW g, UNCHANGED members
  PROVE  RemoveFrom(g, {})
<1>1. [members EXCEPT ![g] = @ \ {}] = members
  BY DEF MembersType
<1> QED
  BY <1>1 DEF RemoveFrom

\* Every step of the controller is of one of these forms.
LEMMA HandlerForms ==
  ASSUME BaseInv, NEW w \in Workers, ExternalStep(w) \/ ExternalFault(w)
  PROVE  /\ faults' \in Nat /\ edits' \in Nat
         /\ \/ \E p \in KindPhases : TouchStep(w, p)
            \/ \E g \in Groups : SpecStep(w, g)
            \/ \E g \in Groups : NameStep(w, g)
<1> DEFINE Form == \/ \E p \in KindPhases : TouchStep(w, p)
                   \/ \E g \in Groups : SpecStep(w, g)
                   \/ \E g \in Groups : NameStep(w, g)
<1> USE DEF KindPhases, ReconcilerPhases
<1>0. /\ TypeOK /\ LoopType(SpecType, KindPhases) /\ members \in MembersType /\ PassRight(w)
      /\ faults \in Nat /\ edits \in Nat
  BY BaseParts DEF TypeOK
<1>1. ASSUME NEW p \in KindPhases, Go(w, p), UNCHANGED <<cr, cache>>,
             UNCHANGED mem \/ NotReady(w) \/ mem' = [mem EXCEPT ![w].obj.ready = TRUE]
      PROVE  Touches(w, p)
  BY <1>1 DEF Go, NotReady, Touches
<1>2. CASE Resolve(w)
  <2>1. PICK g \in Groups :
          ClientUpdate(w, [Sent(w) EXCEPT !.spec.group = g], "observe")
    BY <1>2 DEF Resolve
  <2>2. CASE mem[w].fresh
    <3> DEFINE o == [Sent(w) EXCEPT !.spec.group = g]
               t == [Wanted(w) EXCEPT !.group = g]
    <3>1. Put(w, o, [obj |-> o, fresh |-> TRUE]) /\ pc' = [pc EXCEPT ![w] = "observe"]
      BY <2>1, <2>2 DEF ClientUpdate, Go
    <3>2. Sent(w) \in Objects(SpecType) /\ Sent(w).ready = cr.ready /\ Sent(w).spec = Wanted(w)
      <4>1. mem[w].obj \in Objects(SpecType)
        BY <1>0, LoopSentType
      <4> QED
        BY <1>0, <4>1, LoopSentType DEF Sent, Wanted, Objects, Same
    <3>3. o = [Sent(w) EXCEPT !.spec = t]
      BY <3>2 DEF Objects
    <3>4. [o EXCEPT !.ready = cr.ready] = o
      BY <3>2, <3>3 DEF Objects
    <3>5. SpecStep(w, g)
      BY <1>2, <2>2, <3>1, <3>3, <3>4 DEF Resolve, SpecStep, SpecWritten
    <3> QED
      BY <1>0, <1>2, <3>5 DEF Resolve
  <2>3. CASE ~mem[w].fresh
    <3>1. UNCHANGED <<cr, cache, mem, faults, edits, members, seen>> /\ Go(w, "finish")
      BY <1>2, <2>1, <2>3 DEF ClientUpdate, Resolve
    <3>2. TouchStep(w, "finish")
      BY <1>1, <1>2, <3>1 DEF TouchStep, Looks, Resolve
    <3> QED
      BY <1>0, <3>1, <3>2
  <2> QED
    BY <2>2, <2>3
<1>3. CASE ResolveFails(w) \/ ObserveFails(w)
  <2>1. TouchStep(w, "finish")
    BY <1>1, <1>3 DEF ResolveFails, ObserveFails, Observing, TouchStep, Looks
  <2> QED
    BY <1>0, <1>3, <2>1 DEF ResolveFails, ObserveFails, Fault
<1>4. CASE Observe(w)
  <2>1. CASE HasMembers(Group(w))
    <3>1. PICK p \in {"current", "outdated"} : Go(w, p)
      BY <1>4, <2>1 DEF Observe
    <3>2. TouchStep(w, p)
      BY <1>1, <1>4, <2>1, <3>1 DEF Observe, Observing, TouchStep, Looks
    <3> QED
      BY <1>0, <1>4, <3>2 DEF Observe
  <2>2. CASE ~HasMembers(Group(w))
    <3>1. TouchStep(w, "absent")
      BY <1>1, <1>4, <2>2 DEF Observe, Observing, TouchStep, Looks
    <3> QED
      BY <1>0, <1>4, <3>1 DEF Observe
  <2> QED
    BY <2>1, <2>2
<1>5. CASE ObserveMisread(w)
  <2>1. TouchStep(w, "absent")
    BY <1>1, <1>5 DEF ObserveMisread, Observing, TouchStep, Looks, Fault
  <2> QED
    BY <1>0, <1>5, <2>1 DEF ObserveMisread, Fault
<1>6. CASE Create(w)
  <2> DEFINE items == ToSet(Wanted(w).members)
             g == Wanted(w).group
  <2>1. g \in Groups
    BY <1>0, <1>6, TypeParts DEF Create, PassRight, SpecType
  <2>2. CASE Refused(g, items)
    <3>1. TouchStep(w, "createFailed")
      <4>1. Tries(w, "createFailed")
        BY <1>6, <2>2 DEF Create, Tries, Refused
      <4> QED
        BY <1>1, <1>6, <2>2, <4>1 DEF Create, TouchStep
    <3> QED
      BY <1>0, <1>6, <3>1 DEF Create
  <2>3. CASE ~Refused(g, items)
    <3>1. NameStep(w, g)
      BY <1>6, <2>3 DEF Create, NameStep, TakesName, Go
    <3> QED
      BY <1>0, <1>6, <2>1, <3>1 DEF Create
  <2> QED
    BY <2>2, <2>3
<1>7. CASE CreateFails(w)
  <2>1. Tries(w, "createFailed")
    BY <1>0, <1>7, AddNothing DEF CreateFails, Tries
  <2>2. TouchStep(w, "createFailed")
    BY <1>1, <1>7, <2>1 DEF CreateFails, TouchStep
  <2> QED
    BY <1>0, <1>7, <2>2 DEF CreateFails, Fault
<1>8. CASE CreatePartly(w)
  <2>1. Tries(w, "createFailed")
    BY <1>8 DEF CreatePartly, Tries, Fault
  <2>2. TouchStep(w, "createFailed")
    BY <1>1, <1>8, <2>1 DEF CreatePartly, TouchStep
  <2> QED
    BY <1>0, <1>8, <2>2 DEF CreatePartly, Fault
<1>9. CASE CreateIgnored(w)
  <2>1. Tries(w, "created")
    BY <1>0, <1>9, AddNothing DEF CreateIgnored, Tries
  <2>2. TouchStep(w, "created")
    BY <1>1, <1>9, <2>1 DEF CreateIgnored, TouchStep
  <2> QED
    BY <1>0, <1>9, <2>2 DEF CreateIgnored, Fault
<1>10. CASE UpdateAdd(w)
  <2>1. PICK p \in {"remove", "finish"} :
          /\ Go(w, p)
          /\ p = "remove" => Diff(w).add = {} \/ ~Refused(Wanted(w).group, Diff(w).add)
    BY <1>10 DEF UpdateAdd
  <2>2. Adds(w, p)
    BY <1>10, <2>1 DEF UpdateAdd, Adds
  <2>3. TouchStep(w, p)
    BY <1>1, <1>10, <2>1, <2>2 DEF UpdateAdd, TouchStep
  <2> QED
    BY <1>0, <1>10, <2>3 DEF UpdateAdd
<1>11. CASE UpdateAddPartly(w)
  <2>1. Adds(w, "finish")
    BY <1>11 DEF UpdateAddPartly, Adds
  <2>2. TouchStep(w, "finish")
    BY <1>1, <1>11, <2>1 DEF UpdateAddPartly, TouchStep
  <2> QED
    BY <1>0, <1>11, <2>2 DEF UpdateAddPartly, Fault
<1>12. CASE UpdateRemove(w) \/ UpdateRemovePartly(w)
  <2>1. Removes(w, "finish")
    BY <1>12 DEF UpdateRemove, UpdateRemovePartly, Removes
  <2>2. TouchStep(w, "finish")
    BY <1>1, <1>12, <2>1 DEF UpdateRemove, UpdateRemovePartly, TouchStep
  <2> QED
    BY <1>0, <1>12, <2>2 DEF UpdateRemove, UpdateRemovePartly, Fault
<1>13. CASE UpdateFails(w)
  <2>1. Adds(w, "finish") \/ Removes(w, "finish")
    BY <1>0, <1>13, AddNothing, RemoveNothing DEF UpdateFails, Adds, Removes
  <2>2. TouchStep(w, "finish")
    BY <1>1, <1>13, <2>1 DEF UpdateFails, TouchStep
  <2> QED
    BY <1>0, <1>13, <2>2 DEF UpdateFails, Fault
<1>14. CASE Delete(w) \/ DeleteFails(w)
  <2>1. Revokes(w, "finish")
    BY <1>14 DEF Delete, DeleteFails, Revokes
  <2>2. TouchStep(w, "finish")
    BY <1>1, <1>14, <2>1 DEF Delete, DeleteFails, TouchStep
  <2> QED
    BY <1>0, <1>14, <2>2 DEF Delete, DeleteFails, Fault
<1> QED
  BY <1>2, <1>3, <1>4, <1>5, <1>6, <1>7, <1>8, <1>9, <1>10, <1>11, <1>12, <1>13, <1>14
     DEF ExternalStep, ExternalFault

-----------------------------------------------------------------------------
(***************************************************************************)
(* BaseInv                                                                 *)
(***************************************************************************)
\* Whatever a handler does to groups keeps them and what was seen in their types.
LEMMA TouchMembers ==
  ASSUME BaseInv, NEW w \in Workers, NEW p \in KindPhases, TouchStep(w, p)
  PROVE  /\ members' \in MembersType /\ seen' \in [Workers -> SUBSET Ids]
         /\ \A v \in Workers \ {w} : seen'[v] = seen[v]
         /\ p \in {"current", "outdated", "remove"} =>
              Group(w) \in Groups /\ seen'[w] # {}
<1>0. /\ members \in MembersType /\ seen \in [Workers -> SUBSET Ids] /\ PassRight(w) /\ TypeOK
      /\ Wanted(w) \in SpecType /\ Group(w) \in Groups \cup {NoName}
  BY BaseParts, TypeParts
<1>1. CASE Tries(w, p)
  <2>1. Wanted(w).group \in Groups
    BY <1>0, <1>1 DEF Tries, PassRight, SpecType
  <2>2. PICK S \in SUBSET Accepted(ToSet(Wanted(w).members)) : AddTo(Wanted(w).group, S)
    BY <1>1 DEF Tries
  <2>3. S \in SUBSET Ids
    BY <1>0, <2>2, SpecItems
  <2> QED
    BY <1>0, <1>1, <2>1, <2>2, <2>3, AddEffect DEF Tries
<1>2. CASE Looks(w, p)
  <2>1. CASE p \in {"current", "outdated"}
    <3>1. /\ Group(w) \in Groups /\ members[Group(w)] \in SUBSET Ids /\ members[Group(w)] # {}
          /\ seen' = [seen EXCEPT ![w] = members[Group(w)]]
      BY <1>0, <1>2, <2>1 DEF Looks, HasMembers, MembersType
    <3> QED
      BY <1>0, <1>2, <3>1 DEF Looks
  <2>2. CASE p \in {"absent", "finish"}
    BY <1>0, <1>2, <2>2 DEF Looks
  <2> QED
    BY <1>2, <2>1, <2>2 DEF Looks
<1>3. CASE Adds(w, p)
  <2>1. Wanted(w).group \in Groups /\ Group(w) \in Groups /\ seen[w] # {}
    BY <1>0, <1>3 DEF Adds, Updating, PassRight, SpecType, TypeOK
  <2>2. PICK S \in SUBSET Accepted(Diff(w).add) : AddTo(Wanted(w).group, S)
    BY <1>3 DEF Adds
  <2>3. S \in SUBSET Ids
    <3>1. Diff(w).add \in SUBSET Item
      BY <1>0, SpecItems DEF Diff, MembersDiff
    <3> QED
      BY <2>2, <3>1, ItemTypes
  <2> QED
    BY <1>0, <1>3, <2>1, <2>2, <2>3, AddEffect DEF Adds
<1>4. CASE Removes(w, p)
  <2>1. Wanted(w).group \in Groups
    BY <1>0, <1>4 DEF Removes, PassRight, SpecType
  <2> QED
    BY <1>0, <1>4, <2>1, RemoveEffect DEF Removes
<1>5. CASE Revokes(w, p)
  <2>1. Group(w) \in Groups
    BY <1>0, <1>5 DEF Revokes, TypeOK
  <2> QED
    BY <1>0, <1>5, <2>1, RemoveEffect DEF Revokes
<1> QED
  BY <1>1, <1>2, <1>3, <1>4, <1>5 DEF TouchStep

\* Where a handler may take the pass.
LEMMA TouchPhases ==
  ASSUME NEW w \in Workers, NEW p \in KindPhases, TouchStep(w, p)
  PROVE  /\ pc[w] \notin {"idle", "refuse", "absent", "created", "createFailed", "finish"}
         /\ \/ p \in {"created", "createFailed"} /\ pc[w] = "create"
            \/ p = "finish"
            \/ p \in {"absent", "current", "outdated", "remove"} /\ pc[w] # "create"
BY DEF TouchStep, Tries, Looks, Adds, Removes, Revokes, Updating

LEMMA TouchBase ==
  ASSUME BaseInv, NEW w \in Workers, NEW p \in KindPhases, TouchStep(w, p),
         faults' \in Nat, edits' \in Nat
  PROVE  BaseInv'
<1>0. LoopType(SpecType, KindPhases) /\ LoopInv({}) /\ TypeOK /\ PassRight(w)
  BY BaseParts
<1>1. /\ Touches(w, p)
      /\ pc'[w] = p /\ \A v \in Workers \ {w} : pc'[v] = pc[v] /\ mem'[v] = mem[v]
      /\ Same(mem'[w].obj, mem[w].obj)
      /\ cr' \in Objects(SpecType) /\ cache' \in [Workers -> Copies(SpecType)]
      /\ mem' \in [Workers -> Copies(SpecType)] /\ pc' \in [Workers -> KindPhases]
  BY <1>0, LoopTouchTypes DEF TouchStep
<1>2. LoopInv({})'
  BY <1>0, <1>1, TouchPhases, LoopTouch
<1>3. /\ members' \in MembersType /\ seen' \in [Workers -> SUBSET Ids]
      /\ \A v \in Workers \ {w} : seen'[v] = seen[v]
      /\ p \in {"current", "outdated", "remove"} => Group(w) \in Groups /\ seen'[w] # {}
  BY TouchMembers
<1>4. ASSUME NEW v \in Workers \ {w} PROVE PassSaw(v)' /\ PassRight(v)'
  BY <1>1, <1>3, OtherPass, BaseParts DEF Same, TypeOK, PassSaw
<1>5. PassSaw(w)'
  BY <1>1, <1>3 DEF PassSaw, Group, Same
<1>6. PassRight(w)'
  <2>1. p \in {"absent", "current", "outdated", "remove"} =>
          mem[w].obj.deleting \/ Wanted(w).group # Unset
    BY <1>0, <1>1
       DEF PassRight, TouchStep, Tries, Looks, Adds, Removes, Revokes, Observing, Updating
  <2>2. p = "remove" => ~mem[w].obj.deleting
    BY DEF TouchStep, Tries, Looks, Adds, Removes, Revokes, Updating
  <2>3. p # "create"
    BY TouchPhases
  <2>4. p = "remove" => mem'[w].obj.finalizer
    <3>1. ASSUME p = "remove"
          PROVE  mem[w].obj.finalizer /\ cr' = cr
      BY <1>1, <3>1 DEF TouchStep, Tries, Looks, Adds, Removes, Revokes, Updating, Touches
    <3>2. mem'[w].obj.finalizer = mem[w].obj.finalizer
      BY <1>0, <1>1 DEF Touches, LoopType, Copies, Objects
    <3> QED
      BY <3>1, <3>2
  <2> QED
    BY <1>1, <2>1, <2>2, <2>3, <2>4 DEF PassRight, Wanted, Same
<1>7. LoopType(SpecType, KindPhases)'
  BY <1>1 DEF LoopType
<1> QED
  BY <1>2, <1>3, <1>4, <1>5, <1>6, <1>7, BaseNext

\* The reference is resolved.
LEMMA SpecBase ==
  ASSUME BaseInv, NEW w \in Workers, NEW g \in Groups, SpecStep(w, g),
         faults' \in Nat, edits' \in Nat
  PROVE  BaseInv'
<1>0. /\ LoopType(SpecType, KindPhases) /\ LoopInv({}) /\ TypeOK /\ Wanted(w) \in SpecType
      /\ cr.ready \in BOOLEAN
  BY BaseParts, TypeParts DEF LoopType, Objects
<1>1. [Wanted(w) EXCEPT !.group = g] \in SpecType /\ "observe" \in KindPhases
  BY <1>0 DEF SpecType, KindPhases, ReconcilerPhases
<1>2. /\ LoopInv({})'
      /\ cr' \in Objects(SpecType)
      /\ cache' \in [Workers -> Copies(SpecType)]
      /\ mem' \in [Workers -> Copies(SpecType)]
      /\ pc' \in [Workers -> KindPhases]
      /\ pc'[w] = "observe"
      /\ \A v \in Workers \ {w} : pc'[v] = pc[v] /\ mem'[v].obj = mem[v].obj
  BY <1>0, <1>1, LoopSpecWritten DEF SpecStep
<1>3. LoopType(SpecType, KindPhases)'
  BY <1>2 DEF LoopType
<1>4. members' \in MembersType /\ seen' = seen /\ seen' \in [Workers -> SUBSET Ids]
  BY BaseParts DEF SpecStep
<1>5. ASSUME NEW v \in Workers \ {w} PROVE PassSaw(v)' /\ PassRight(v)'
  BY <1>2, <1>4, OtherPass, BaseParts DEF Same, TypeOK, PassSaw
<1>6. PassSaw(w)' /\ PassRight(w)'
  BY <1>2 DEF PassSaw, PassRight
<1> QED
  BY <1>2, <1>3, <1>4, <1>5, <1>6, BaseNext

\* The members are added and the CR is named after their group.
LEMMA NameBase ==
  ASSUME BaseInv, NEW w \in Workers, NEW g \in Groups, NameStep(w, g),
         faults' \in Nat, edits' \in Nat
  PROVE  BaseInv'
<1>0. LoopType(SpecType, KindPhases) /\ LoopInv({}) /\ TypeOK /\ Wanted(w) \in SpecType
  BY BaseParts, TypeParts
<1>1. /\ cr' \in Objects(SpecType)
      /\ cache' \in [Workers -> Copies(SpecType)]
      /\ mem' \in [Workers -> Copies(SpecType)]
      /\ pc' \in [Workers -> KindPhases]
      /\ pc'[w] = "created"
      /\ \A v \in Workers \ {w} : pc'[v] = pc[v] /\ mem'[v] = mem[v]
  BY <1>0, TypeParts, LoopCreateTypes DEF NameStep, Groups
<1>2. LoopInv({})'
  BY <1>0, TypeParts, LoopCreate DEF NameStep, Groups
<1>3. LoopType(SpecType, KindPhases)'
  BY <1>1 DEF LoopType
<1>4. members' \in MembersType /\ seen' = seen /\ seen' \in [Workers -> SUBSET Ids]
  <2>1. Accepted(ToSet(Wanted(w).members)) \in SUBSET Ids
    BY <1>0, SpecItems
  <2> QED
    BY <2>1, BaseParts, AddEffect DEF NameStep
<1>5. ASSUME NEW v \in Workers \ {w} PROVE PassSaw(v)' /\ PassRight(v)'
  BY <1>1, <1>4, OtherPass, BaseParts DEF Same, TypeOK, PassSaw
<1>6. PassSaw(w)' /\ PassRight(w)'
  BY <1>1 DEF PassSaw, PassRight
<1> QED
  BY <1>2, <1>3, <1>4, <1>5, <1>6, BaseNext

LEMMA Forgotten ==
  ASSUME seen \in [Workers -> SUBSET Ids], Forget
  PROVE  /\ seen' \in [Workers -> SUBSET Ids]
         /\ \A v \in Workers : pc'[v] # "idle" => seen'[v] = seen[v]
BY DEF Forget

LEMMA LoopBase ==
  ASSUME BaseInv, NEW w \in Workers, LoopStep(w), Forget, UNCHANGED members
  PROVE  BaseInv'
<1>0. /\ LoopType(SpecType, KindPhases) /\ FreshIsCurrent /\ LoopInv({}) /\ TypeOK
      /\ seen \in [Workers -> SUBSET Ids] /\ \A v \in Workers : PassRight(v) /\ PassSaw(v)
  BY BaseParts DEF TypeOK, PassSaw
<1>1. /\ LoopType(SpecType, KindPhases)'
      /\ \A v \in Workers \ {w} : pc'[v] = pc[v] /\ mem'[v].obj = mem[v].obj
      /\ pc'[w] \notin {"idle", "observe", "refuse", "finish"} =>
           /\ Same(mem'[w].obj, mem[w].obj)
           /\ pc'[w] # pc[w] =>
                /\ pc[w] = "absent" /\ pc'[w] = "create"
                /\ mem'[w].obj = cr' /\ Same(cr', cr) /\ ~cr.deleting
  BY <1>0, TypeParts, LoopKeepsTypes
<1>2. LoopInv({})'
  BY <1>0, TypeParts, LoopKeepsInv
<1>3. members' \in MembersType
  BY BaseParts
<1>4. /\ seen' \in [Workers -> SUBSET Ids]
      /\ \A v \in Workers : pc'[v] # "idle" => seen'[v] = seen[v]
  BY <1>0, Forgotten
<1>5. ASSUME NEW v \in Workers, pc'[v] = pc[v], Same(mem'[v].obj, mem[v].obj),
             pc[v] = "remove" => mem'[v].obj.finalizer = mem[v].obj.finalizer
      PROVE  PassSaw(v)' /\ PassRight(v)'
  <2>1. CASE pc'[v] = "idle"
    BY <2>1 DEF PassSaw, PassRight
  <2>2. CASE pc'[v] # "idle"
    BY <1>0, <1>4, <1>5, <2>2, OtherPass
  <2> QED
    BY <2>1, <2>2
<1>6. ASSUME NEW v \in Workers PROVE PassSaw(v)' /\ PassRight(v)'
  <2>1. CASE v # w
    <3>1. Same(mem'[v].obj, mem[v].obj)
      BY <1>1, <2>1 DEF Same
    <3> QED
      BY <1>1, <1>5, <2>1, <3>1
  <2>2. CASE v = w /\ pc'[w] \in {"idle", "observe", "refuse", "finish"}
    BY <2>2 DEF PassSaw, PassRight
  <2>3. CASE v = w /\ pc'[w] = pc[w] /\ Same(mem'[w].obj, mem[w].obj)
    <3>1. ASSUME pc'[w] = "remove"
          PROVE  mem' = mem
      <4>1. UserSpecs \subseteq SpecType
        BY TypeParts
      <4>2. ASSUME NEW q \in ReconcilerPhases
            PROVE  pc' # [pc EXCEPT ![w] = q]
        BY <1>0, <3>1 DEF ReconcilerPhases, LoopType
      <4> QED
        BY <1>0, <4>1, <4>2, LoopForms DEF Synced
    <3> QED
      BY <1>5, <2>3, <3>1
  <2>4. CASE v = w /\ pc[w] = "absent" /\ pc'[w] = "create" /\ ~cr.deleting
             /\ mem'[w].obj = cr' /\ Same(mem'[w].obj, mem[w].obj) /\ Same(cr', cr)
    BY <1>0, <2>4 DEF PassSaw, PassRight, Wanted, Same
  <2> QED
    BY <1>1, <2>1, <2>2, <2>3, <2>4
<1> QED
  BY <1>1, <1>2, <1>3, <1>4, <1>6, BaseNext

\* A user's edit keeps the group where the new spec only refers to one.
LEMMA UserForms ==
  ASSUME TypeOK, UserEdits
  PROVE  /\ UserStepOver(SpecType)
         /\ cr.present /\ cr'.present =>
              \/ cr'.spec = cr.spec
              \/ \E s \in UserSpecs :
                   cr'.spec = IF s.group = Unset THEN [s EXCEPT !.group = cr.spec.group] ELSE s
         /\ ~cr.present => cr'.spec \in UserSpecs
<1>0. cr \in Objects(SpecType) /\ cr.spec \in SpecType
  BY DEF TypeOK, Objects
<1>1. CASE UserDeletes
  <2>1. cr' = IF cr.finalizer THEN [cr EXCEPT !.deleting = TRUE] ELSE NoObject
    BY <1>1 DEF UserDeletes, UserWrites
  <2>2. cr.present /\ ~NoObject.present
    BY <1>1, TypeParts, LoopNoObjectType DEF UserDeletes
  <2> QED
    BY <1>0, <1>1, <2>1, <2>2 DEF UserStepOver, Objects
<1>2. ASSUME NEW s \in UserSpecs,
             UserApplies(IF cr.present /\ s.group = Unset
                         THEN [s EXCEPT !.group = cr.spec.group] ELSE s)
      PROVE  /\ UserStepOver(SpecType)
             /\ cr.present =>
                  cr'.spec = IF s.group = Unset THEN [s EXCEPT !.group = cr.spec.group] ELSE s
             /\ ~cr.present => cr'.spec \in UserSpecs
  <2> DEFINE t == IF cr.present /\ s.group = Unset
                  THEN [s EXCEPT !.group = cr.spec.group] ELSE s
  <2>1. s \in SpecType
    BY TypeParts
  <2>2. t \in SpecType
    BY <1>0, <2>1 DEF SpecType
  <2>3. UserStepOver(SpecType)
    BY <1>2, <2>2 DEF UserStepOver
  <2>4. cr' = NewObject(t) \/ cr' = [cr EXCEPT !.spec = t]
    BY <1>2 DEF UserApplies, UserWrites
  <2>5. cr'.spec = t
    BY <1>0, <2>4 DEF NewObject, Objects
  <2> QED
    BY <2>3, <2>5
<1> QED
  BY <1>1, <1>2 DEF UserEdits

LEMMA UserBase ==
  ASSUME BaseInv, UserEdits, Forget, UNCHANGED members
  PROVE  BaseInv'
<1>0. /\ LoopType(SpecType, KindPhases) /\ LoopInv({}) /\ TypeOK
      /\ seen \in [Workers -> SUBSET Ids] /\ \A v \in Workers : PassRight(v) /\ PassSaw(v)
  BY BaseParts DEF TypeOK, PassSaw
<1>1. UserStepOver(SpecType)
  BY <1>0, UserForms
<1>2. /\ LoopType(SpecType, KindPhases)' /\ pc' = pc
      /\ \A v \in Workers : mem'[v].obj = mem[v].obj
  BY <1>0, <1>1, TypeParts, LoopUserForms
<1>3. LoopInv({})'
  BY <1>0, <1>1, TypeParts, LoopUser
<1>4. /\ seen' \in [Workers -> SUBSET Ids]
      /\ \A v \in Workers : pc'[v] # "idle" => seen'[v] = seen[v]
  BY <1>0, Forgotten
<1>5. ASSUME NEW v \in Workers PROVE PassSaw(v)' /\ PassRight(v)'
  <2>1. /\ pc'[v] = pc[v] /\ Same(mem'[v].obj, mem[v].obj)
        /\ mem'[v].obj.finalizer = mem[v].obj.finalizer
    BY <1>2 DEF Same
  <2>2. CASE pc'[v] = "idle"
    BY <2>2 DEF PassSaw, PassRight
  <2>3. CASE pc'[v] # "idle"
    BY <1>0, <1>4, <2>1, <2>3, OtherPass
  <2> QED
    BY <2>2, <2>3
<1>6. members' \in MembersType
  BY BaseParts
<1> QED
  BY <1>2, <1>3, <1>4, <1>5, <1>6, BaseNext

\* What others do to a group.
WorldStep(g) == GroupDeleted(g) \/ \E i \in Ids : Joins(g, i) \/ Leaves(g, i)

LEMMA WorldEffects ==
  ASSUME members \in MembersType, NEW g \in Groups, WorldStep(g)
  PROVE  /\ members' \in MembersType
         /\ UNCHANGED <<cr, cache, mem, pc, edits, seen>>
         /\ \E k \in FaultKinds : Fault(k)
         /\ \A h \in Groups \ {g} : members'[h] = members[h]
         /\ \/ members'[g] = Gone
            \/ /\ members[g] # Gone
               /\ \E i \in Ids :
                    /\ members'[g] = members[g] \cup {i}
                    /\ i \notin UNION {Idents(s.members) : s \in UserSpecs}
            \/ /\ members[g] # Gone /\ "leave" \in FaultKinds
               /\ \E i \in Ids : members'[g] = members[g] \ {i}
<1>1. CASE GroupDeleted(g)
  BY <1>1 DEF GroupDeleted, Others, MembersType, Fault
<1>2. ASSUME NEW i \in Ids, Joins(g, i)
      PROVE  /\ members' \in MembersType
             /\ UNCHANGED <<cr, cache, mem, pc, edits, seen>>
             /\ \E k \in FaultKinds : Fault(k)
             /\ \A h \in Groups \ {g} : members'[h] = members[h]
             /\ \/ members'[g] = Gone
                \/ /\ members[g] # Gone /\ members'[g] = members[g] \cup {i}
                   /\ i \notin UNION {Idents(s.members) : s \in UserSpecs}
  BY <1>2, AddEffect DEF Joins, Others, Fault
<1>3. ASSUME NEW i \in Ids, Leaves(g, i)
      PROVE  /\ members' \in MembersType
             /\ UNCHANGED <<cr, cache, mem, pc, edits, seen>>
             /\ \E k \in FaultKinds : Fault(k)
             /\ \A h \in Groups \ {g} : members'[h] = members[h]
             /\ members[g] # Gone /\ members'[g] = members[g] \ {i} /\ "leave" \in FaultKinds
  BY <1>3, RemoveEffect DEF Leaves, Others, Fault
<1> QED
  BY <1>1, <1>2, <1>3 DEF WorldStep

LEMMA WorldBase ==
  ASSUME BaseInv, NEW g \in Groups, WorldStep(g)
  PROVE  BaseInv'
<1>0. /\ LoopType(SpecType, KindPhases) /\ LoopInv({}) /\ TypeOK /\ members \in MembersType
      /\ seen \in [Workers -> SUBSET Ids] /\ \A v \in Workers : PassRight(v) /\ PassSaw(v)
  BY BaseParts DEF TypeOK, PassSaw
<1>1. /\ members' \in MembersType /\ UNCHANGED <<cr, cache, mem, pc, edits, seen>>
      /\ faults' = faults + 1
  BY <1>0, WorldEffects DEF Fault
<1>2. LoopInv({})' /\ LoopType(SpecType, KindPhases)'
  BY <1>0, <1>1, LoopCloud DEF LoopType
<1>3. \A v \in Workers : PassSaw(v)' /\ PassRight(v)'
  BY <1>0, <1>1 DEF PassSaw, PassRight, Group, Wanted
<1> QED
  BY <1>0, <1>1, <1>2, <1>3, BaseNext

LEMMA StutterBase ==
  ASSUME BaseInv, UNCHANGED vars
  PROVE  BaseInv'
BY DEF vars, BaseInv, TypeOK, LoopInv, FreshIsCurrent, Sent, PassKnows, Creating,
       AccountedFor, AtMostOne, PassRight, Group, Wanted

LEMMA InitBase ==
  ASSUME Init
  PROVE  BaseInv
<1>1. LoopType(SpecType, KindPhases) /\ LoopInv({})
  BY TypeParts, LoopStartTypes, LoopStart DEF Init
<1>2. /\ members \in MembersType /\ seen \in [Workers -> SUBSET Ids]
      /\ pc = [w \in Workers |-> "idle"]
  BY DEF Init, ReconcilerInit, MembersType
<1> QED
  BY <1>1, <1>2 DEF BaseInv, TypeOK, LoopType, KindPhases, MembersType, PassRight

LEMMA BaseStep ==
  ASSUME BaseInv, [Next]_vars
  PROVE  BaseInv'
<1>1. ASSUME NEW w \in Workers, LoopStep(w), Forget, UNCHANGED members
      PROVE  BaseInv'
  BY <1>1, LoopBase
<1>2. ASSUME NEW w \in Workers, ExternalStep(w) \/ ExternalFault(w)
      PROVE  BaseInv'
  BY <1>2, HandlerForms, TouchBase, SpecBase, NameBase
<1>3. CASE UserEdits /\ Forget /\ UNCHANGED members
  BY <1>3, UserBase
<1>4. ASSUME NEW g \in Groups, WorldStep(g)
      PROVE  BaseInv'
  BY <1>4, WorldBase
<1>5. CASE UNCHANGED vars
  BY <1>5, StutterBase
<1> QED
  BY <1>1, <1>2, <1>3, <1>4, <1>5 DEF Next, WorkerStep, LoopStep, WorldStep

\* BaseInv is an invariant with any replicas, specs and faults: copies of the CR that
\* can be written back are current, one replica creates at a time, and a pass that
\* goes on knows its group.
THEOREM BaseCorrect == Spec => []BaseInv
<1>1. Init => BaseInv
  BY InitBase
<1>2. BaseInv /\ [Next]_vars => BaseInv'
  BY BaseStep
<1> QED
  BY <1>1, <1>2, PTL DEF Spec

\* The controller keeps every variable in its type, and a pass that found members has
\* seen some of a group the CR names.
THEOREM TypeCorrect == Spec => []TypeOK
<1>1. BaseInv => TypeOK
  BY DEF BaseInv
<1> QED
  BY <1>1, BaseCorrect, PTL

-----------------------------------------------------------------------------
(***************************************************************************)
(* IInv: what one replica's copies say of the groups that are held         *)
(***************************************************************************)
LEMMA PlacedSame ==
  ASSUME NEW o, NEW p, Same(o, p), Placed(p)
  PROVE  Placed(o)
BY DEF Same, Placed

\* A CR that has just been applied, or that is gone, names no group.
LEMMA PlacedNew ==
  ASSUME GroupKept
  PROVE  /\ \A s \in UserSpecs : Placed(NewObject(s))
         /\ Placed(NoObject)
<1>1. \A s \in UserSpecs : Placed(NewObject(s))
  BY DEF GroupKept, Placed, NewObject
<1>2. PICK s \in UserSpecs : NoObject = [NewObject(s) EXCEPT !.present = FALSE]
  BY ReconcilerAssumption DEF NoObject
<1>3. Same([NewObject(s) EXCEPT !.present = TRUE], NewObject(s))
  BY DEF Same, NewObject
<1>4. NoObject.spec = s /\ NoObject.extName = NoName
  BY <1>2 DEF NewObject
<1>5. Placed(NoObject)
  BY <1>4 DEF GroupKept, Placed
<1> QED
  BY <1>1, <1>5

LEMMA KnownParts ==
  ASSUME BaseInv, NEW L \in SUBSET Groups, Known(L)
  PROVE  /\ LoopType(SpecType, KindPhases) /\ FreshIsCurrent /\ LoopInv(L)
         /\ L \subseteq Names
         /\ CopiesInv(L, Names)
         /\ UserSpecs \subseteq SpecType /\ ReconcilerPhases \subseteq KindPhases
<1>1. LoopType(SpecType, KindPhases) /\ FreshIsCurrent /\ L \subseteq Names
  BY BaseParts DEF Groups
<1>2. CopiesInv(L, Names)
  BY <1>1 DEF Known, CopiesKnow, CopiesInv, LoopType, Objects, Copies, Creating, Managed
<1> QED
  BY <1>1, <1>2, TypeParts DEF Known

\* Less is held.
LEMMA KnownFewer ==
  ASSUME NEW L, NEW M, M \subseteq L, Known(L)'
  PROVE  Known(M)'
<1>1. LoopInv(M)'
  BY LoopFewer DEF Known
<1> QED
  BY <1>1 DEF Known, CopiesKnow, CopyRight

\* The new state of the CR and of one replica's copies is as good as the old one.
LEMMA KnownNext ==
  ASSUME NEW w \in Workers, OneReplica, NEW L, LoopInv(L)', Placed(cr)', L \subseteq {cr'.spec.group},
         CopiesKnow(w, L)'
  PROVE  Known(L)'
BY DEF Known, OneReplica

\* A replica whose copy may be used for an update, or written back, finds the CR.
LEMMA StillPresent ==
  ASSUME BaseInv, NEW L \in SUBSET Groups, Known(L), NEW w \in Workers, pc[w] # "idle",
         mem[w].fresh \/ Managed(mem[w].obj)
  PROVE  cr.present
<1>1. CASE Managed(mem[w].obj)
  BY <1>1 DEF Known, CopiesKnow, StillThere
<1>2. CASE mem[w].fresh /\ ~Managed(mem[w].obj)
  <2>1. pc[w] # "created"
    BY <1>2 DEF Known, CopiesKnow, Creating
  <2>2. Same(mem[w].obj, cr) /\ mem[w].obj.present
    BY <1>2, <2>1, KnownParts, LoopFresh DEF FreshIsCurrent
  <2> QED
    BY <2>2 DEF Same
<1> QED
  BY <1>1, <1>2

\* The name that a creation records is the one the CR has, if it has one.
LEMMA NameAgrees ==
  ASSUME BaseInv, NEW L \in SUBSET Groups, Known(L), NEW w \in Workers, Creating(w),
         mem[w].obj.extName # NoName
  PROVE  mem[w].obj.extName = cr.spec.group /\ cr.extName \in {NoName, cr.spec.group}
<1>1. /\ Placed(mem[w].obj) /\ Placed(cr) /\ StillThere(mem[w].obj)
  BY DEF Known, CopiesKnow, Creating
<1>2. mem[w].obj.extName \in Groups
  BY BaseParts DEF LoopType, Copies, Objects, Groups
<1>3. mem[w].obj.spec.group # Unset
  BY <1>1, <1>2, GroupMembershipAssumption DEF Placed
<1> QED
  BY <1>1, <1>3 DEF Placed, StillThere

LEMMA LoopKnown ==
  ASSUME BaseInv, OneReplica, GroupKept, NEW L \in SUBSET Groups, Known(L),
         NEW w \in Workers, LoopStep(w)
  PROVE  Known(L)'
<1> USE DEF CopiesKnow, Managed, Creating
<1>0. /\ LoopType(SpecType, KindPhases) /\ FreshIsCurrent /\ LoopInv(L) /\ L \subseteq Names
      /\ UserSpecs \subseteq SpecType /\ ReconcilerPhases \subseteq KindPhases
      /\ CopiesInv(L, Names) /\ Placed(cr) /\ L \subseteq {cr.spec.group}
      /\ CopiesKnow(w, L)
  BY KnownParts DEF Known
<1>1. LoopInv(L)' /\ CopiesInv(L, Names)'
  BY <1>0, LoopKeepsInv, LoopKeepsCopies
<1>2. /\ CopyRight(cache[w].obj, L)'
      /\ pc'[w] \notin {"created", "finish"} => CopyRight(mem[w].obj, L)'
  BY <1>1 DEF CopiesInv
<1>3. /\ cr \in Objects(SpecType) /\ cache \in [Workers -> Copies(SpecType)]
      /\ mem \in [Workers -> Copies(SpecType)] /\ pc \in [Workers -> KindPhases]
  BY <1>0 DEF LoopType
<1>4. Placed(NoObject) /\ ~NoObject.present /\ NoCopy.obj = NoObject /\ ~NoCopy.fresh
      /\ NoObject.extName = NoName
  BY <1>0, PlacedNew, LoopNoObjectType
<1>5. CASE Synced(w)
  <2>1. /\ cache'[w] = [obj |-> cr, fresh |-> TRUE] /\ UNCHANGED <<cr, mem, pc>>
    BY <1>3, <1>5 DEF Synced
  <2>2. pc[w] # "idle" /\ (mem[w].fresh \/ Managed(mem[w].obj)) => cr.present
    BY StillPresent
  <2>3. pc[w] # "idle" /\ mem[w].fresh /\ mem[w].obj.deleting => cr.deleting
    <3>1. SUFFICES ASSUME pc[w] # "idle", mem[w].fresh, mem[w].obj.deleting
                   PROVE  cr.deleting
      OBVIOUS
    <3>2. pc[w] # "created"
      BY <1>0, <3>1
    <3> QED
      BY <1>0, <3>1, <3>2, LoopFresh DEF Same
  <2>4. CopiesKnow(w, L)'
    BY <1>0, <1>2, <2>1, <2>2, <2>3 DEF StillThere, NameKept
  <2> QED
    BY <1>0, <1>1, <2>1, <2>4, KnownNext
<1>6. ASSUME NEW c \in Copies(SpecType), NEW p \in ReconcilerPhases,
             pc' = [pc EXCEPT ![w] = p], Moves(w, c, p)
      PROVE  Known(L)'
  <2>1. UNCHANGED <<cr, cache>> /\ mem'[w] = c /\ pc'[w] = p
    BY <1>0, <1>3, <1>6 DEF Moves
  <2>2. CASE c = NoCopy /\ p = "idle"
    <3>1. CopiesKnow(w, L)'
      BY <1>0, <1>2, <1>4, <2>1, <2>2 DEF StillThere, NameKept
    <3> QED
      BY <1>0, <1>1, <2>1, <3>1, KnownNext
  <2>3. CASE c \in {mem[w], Stale(mem[w])} /\ p = "finish" /\ pc[w] # "idle"
    <3>1. c.obj = mem[w].obj /\ (c.fresh => mem[w].fresh)
      BY <1>3, <2>3, LoopStaleType
    <3>2. CopiesKnow(w, L)'
      BY <1>0, <1>2, <2>1, <2>3, <3>1 DEF StillThere, NameKept
    <3> QED
      BY <1>0, <1>1, <2>1, <3>2, KnownNext
  <2>4. CASE c = cache[w] /\ p \in {"refuse", "observe"} /\ c.obj.present
    <3>1. c.fresh => c.obj = cr
      BY <1>0, <2>4 DEF FreshIsCurrent
    <3>2. CopiesKnow(w, L)'
      BY <1>0, <1>2, <2>1, <2>4, <3>1 DEF StillThere, NameKept
    <3> QED
      BY <1>0, <1>1, <2>1, <3>2, KnownNext
  <2> QED
    BY <1>6, <2>2, <2>3, <2>4 DEF Moves
<1>7. ASSUME NEW o \in Objects(SpecType), NEW c \in Copies(SpecType), NEW p \in ReconcilerPhases,
             pc' = [pc EXCEPT ![w] = p], Writes(w, o, c, p)
      PROVE  Known(L)'
  <2>1. cr' = o /\ cache'[w].obj = cache[w].obj /\ mem'[w] = c /\ pc'[w] = p
    <3>1. Put(w, o, c)
      BY <1>7 DEF Writes
    <3> QED
      BY <1>0, <1>3, <1>7, <3>1, LoopPut
  <2>2. CASE /\ c = NoCopy /\ p = "idle" /\ Same(o, cr) /\ o.finalizer = cr.finalizer
    <3>1. CopiesKnow(w, L)'
      BY <1>0, <1>2, <1>4, <2>1, <2>2 DEF StillThere, NameKept, Same
    <3>2. Placed(cr)' /\ L \subseteq {cr'.spec.group}
      BY <1>0, <2>1, <2>2, PlacedSame DEF Same
    <3> QED
      BY <1>1, <3>1, <3>2, KnownNext
  <2>3. CASE /\ c.fresh /\ c.obj = o /\ pc[w] \in {"absent", "current", "outdated"}
             /\ p = pc[w] \/ (p = "create" /\ ~cr.deleting)
             /\ mem[w].fresh /\ Same(mem[w].obj, cr) /\ Same(o, cr) /\ o.finalizer
    <3>1. cr.present
      BY <2>3, StillPresent
    <3>2. Placed(cr)' /\ L \subseteq {cr'.spec.group}
      BY <1>0, <2>1, <2>3, PlacedSame DEF Same
    <3>3. CopiesKnow(w, L)'
      BY <1>0, <1>2, <2>1, <2>3, <3>1, <3>2 DEF StillThere, NameKept, Same
    <3> QED
      BY <1>1, <3>2, <3>3, KnownNext
  <2>4. CASE /\ c.fresh /\ c.obj = o /\ p = "finish" /\ pc[w] \in {"created", "createFailed"}
             /\ cache[w].fresh
             /\ o.present = cr.present /\ o.deleting = cr.deleting /\ o.spec = cr.spec
             /\ o.finalizer = cr.finalizer
             /\ o.extName = IF mem[w].obj.extName = NoName THEN cr.extName
                            ELSE mem[w].obj.extName
    <3>1. cache[w].obj = cr
      BY <1>0, <2>4 DEF FreshIsCurrent
    <3>2. o.extName \in {NoName, cr.spec.group} /\ cr.extName \in {NoName, o.extName}
      BY <1>0, <2>4, NameAgrees DEF Placed
    <3>3. Placed(cr)' /\ L \subseteq {cr'.spec.group}
      BY <1>0, <2>1, <2>4, <3>2 DEF Placed
    <3>4. CopiesKnow(w, L)'
      BY <1>0, <1>2, <2>1, <2>4, <3>1, <3>2, <3>3 DEF StillThere, NameKept
    <3> QED
      BY <1>1, <3>3, <3>4, KnownNext
  <2>5. CASE /\ o = NoObject /\ c = NoCopy /\ p = "idle" /\ pc[w] = "absent"
             /\ mem[w].fresh /\ Same(mem[w].obj, cr) /\ cr.deleting
    <3>1. cache[w].obj.deleting
      BY <1>0, <2>5 DEF Same
    <3>2. L = {}
      BY <1>1, <1>4, <2>1, <2>5 DEF LoopInv, AccountedFor
    <3>3. CopiesKnow(w, L)'
      BY <1>0, <1>2, <1>4, <2>1, <2>5, <3>1
    <3> QED
      BY <1>1, <1>4, <2>1, <2>5, <3>2, <3>3, KnownNext
  <2> QED
    BY <1>7, <2>2, <2>3, <2>4, <2>5 DEF Writes
<1> QED
  BY <1>0, <1>5, <1>6, <1>7, LoopForms

-----------------------------------------------------------------------------
\* What is held after members were added or removed.
LEMMA HeldTypes == Held \subseteq Groups /\ Held \in SUBSET Groups
BY DEF Held

LEMMA HeldSame ==
  ASSUME UNCHANGED members
  PROVE  Held' = Held
BY DEF Held, Granted

LEMMA HeldAdd ==
  ASSUME members \in MembersType, NEW g \in Groups, NEW S \in SUBSET Ids, AddTo(g, S)
  PROVE  /\ Held' \subseteq Held \cup {g}
         /\ S = {} \/ members[g] = Gone => Held' = Held
<1>1. /\ \A h \in Groups \ {g} : members'[h] = members[h]
      /\ members[g] = Gone => members'[g] = Gone
      /\ members[g] # Gone => members'[g] = members[g] \cup S
  BY AddEffect
<1>2. \A h \in Groups \ {g} : Granted(h)' = Granted(h)
  BY <1>1 DEF Granted
<1>3. S = {} \/ members[g] = Gone => Granted(g)' = Granted(g)
  BY <1>1 DEF Granted
<1> QED
  BY <1>2, <1>3 DEF Held

LEMMA HeldRemove ==
  ASSUME members \in MembersType, NEW g \in Groups, NEW S, RemoveFrom(g, S)
  PROVE  Held' \subseteq Held
<1>1. /\ \A h \in Groups \ {g} : members'[h] = members[h]
      /\ members[g] = Gone => members'[g] = Gone
      /\ members[g] # Gone => members'[g] = members[g] \ S
  BY RemoveEffect
<1>2. \A h \in Groups : Granted(h)' \subseteq Granted(h)
  <2>1. TAKE h \in Groups
  <2>2. CASE h # g
    BY <1>1, <2>2 DEF Granted
  <2>3. CASE h = g /\ members[g] = Gone
    BY <1>1, <2>3 DEF Granted
  <2>4. CASE h = g /\ members[g] # Gone
    BY <1>1, <2>4 DEF Granted
  <2> QED
    BY <2>2, <2>3, <2>4
<1> QED
  BY <1>2 DEF Held

\* The CR that an update works for names the group the update changes, and nothing
\* speaks against somebody's having access through it.
LEMMA UpdateMayGrant ==
  ASSUME IInv, OneReplica, NEW w \in Workers, Updating(w)
  PROVE  /\ Wanted(w).group \in Groups /\ Wanted(w).group = cr.extName
         /\ Known(Held \cup {Wanted(w).group})
<1> DEFINE g == Wanted(w).group
           M == Held \cup {g}
<1>0. /\ BaseInv /\ LoopInv(Held) /\ Placed(cr) /\ Held \subseteq {cr.spec.group}
      /\ CopiesKnow(w, Held)
  BY DEF IInv, Known
<1>1. /\ FreshIsCurrent /\ Group(w) \in Groups /\ LoopType(SpecType, KindPhases)
  BY <1>0, BaseParts DEF TypeOK, Updating
<1>2. pc[w] = "outdated" /\ Managed(mem[w].obj)
  BY <1>1 DEF Updating, Managed, FreshIsCurrent
<1>3. /\ cr.present /\ cr.finalizer
      /\ g = cr.extName /\ g = cr.spec.group /\ g \in Groups
  <2>1. StillThere(mem[w].obj) /\ NameKept(mem[w].obj) /\ Placed(mem[w].obj)
    BY <1>0, <1>2 DEF CopiesKnow
  <2>2. Group(w) # NoName
    BY <1>1, ReconcilerAssumption DEF Groups
  <2> QED
    BY <1>0, <1>1, <1>2, <2>1, <2>2
       DEF StillThere, NameKept, Placed, Managed, Group, Wanted
<1>4. LoopInv(M)
  <2>1. AccountedFor(M) /\ AtMostOne(M)
    BY <1>0, <1>3 DEF LoopInv, AccountedFor, AtMostOne
  <2>2. PassKnows(w, M)
    BY <1>0, <1>2 DEF LoopInv, PassKnows, Creating
  <2> QED
    BY <1>0, <2>1, <2>2 DEF LoopInv, OneReplica
<1>5. CopiesKnow(w, M)
  <2>1. CopyRight(cache[w].obj, M) /\ CopyRight(mem[w].obj, M)
    BY <1>0, <1>2, <1>3 DEF CopiesKnow, CopyRight, StillThere
  <2> QED
    BY <1>0, <2>1 DEF CopiesKnow
<1> QED
  BY <1>0, <1>3, <1>4, <1>5 DEF Known, OneReplica

\* A handler's step, for what is held before it and after it.
LEMMA TouchKnown ==
  ASSUME BaseInv, OneReplica, NEW L \in SUBSET Groups, Known(L), NEW w \in Workers,
         NEW p \in KindPhases, TouchStep(w, p),
         p = "absent" /\ mem[w].fresh => mem[w].obj.extName \notin L
  PROVE  Known(L)'
<1>0. /\ LoopType(SpecType, KindPhases) /\ LoopInv(L) /\ CopiesInv(L, Names)
      /\ Placed(cr) /\ L \subseteq {cr.spec.group} /\ CopiesKnow(w, L)
  BY KnownParts DEF Known
<1>1. /\ Touches(w, p) /\ UNCHANGED <<cr, cache>>
      /\ pc'[w] = p /\ mem'[w].fresh = mem[w].fresh /\ Same(mem'[w].obj, mem[w].obj)
      /\ mem'[w].obj.finalizer = mem[w].obj.finalizer
  <2>1. Touches(w, p)
    BY DEF TouchStep
  <2>2. mem'[w].obj.finalizer = mem[w].obj.finalizer
    BY <1>0, <2>1 DEF Touches, LoopType, Copies, Objects
  <2> QED
    BY <1>0, <2>1, <2>2, LoopTouchTypes DEF Touches
<1>2. LoopInv(L)'
  BY <1>0, <1>1, TouchPhases, LoopTouch
<1>3. CopiesInv(L, Names)'
  BY <1>0, <1>1, TouchPhases, LoopTouchCopies
<1>4. CopiesKnow(w, L)'
  <2>1. Placed(mem[w].obj)'
    BY <1>0, <1>1, PlacedSame DEF CopiesKnow
  <2>2. /\ CopyRight(cache[w].obj, L)'
        /\ pc'[w] \notin {"created", "finish"} => CopyRight(mem[w].obj, L)'
    BY <1>3 DEF CopiesInv
  <2>3. /\ pc[w] \notin {"idle", "created", "finish"}
        /\ p \in {"create", "created", "createFailed"} => pc[w] = "create"
    BY TouchPhases
  <2> QED
    BY <1>0, <1>1, <2>1, <2>2, <2>3
       DEF CopiesKnow, StillThere, NameKept, Managed, Creating, Same
<1> QED
  BY <1>0, <1>1, <1>2, <1>4, KnownNext

\* If the cloud refuses one of the members that a copy lists, it refuses them all.
LEMMA RefusesAll ==
  ASSUME RefusedWhole, NEW o, Placed(o), NEW m \in ToSet(o.spec.members),
         m.type # TypeOf[m.id]
  PROVE  Accepted(ToSet(o.spec.members)) = {}
BY DEF RefusedWhole, Placed, Accepted

\* What is held after the step is part of what the loop knew about.
LEMMA KnownHeld ==
  ASSUME NEW L, Known(L)', Held' \subseteq L
  PROVE  Known(Held)'
<1>1. PICK M : M = Held'
  OBVIOUS
<1>2. Known(M)'
  BY <1>1, KnownFewer
<1> QED
  BY <1>1, <1>2 DEF Known, CopiesKnow, CopyRight, LoopInv, PassKnows, AccountedFor, AtMostOne

LEMMA TouchI ==
  ASSUME IInv, OneReplica, Trustworthy, RefusedWhole, NEW w \in Workers,
         NEW p \in KindPhases, TouchStep(w, p)
  PROVE  Known(Held)'
<1>0. /\ BaseInv /\ Known(Held) /\ Held \in SUBSET Groups /\ CopiesKnow(w, Held)
      /\ members \in MembersType /\ Wanted(w) \in SpecType /\ PassRight(w) /\ TypeOK
  BY BaseParts, TypeParts, HeldTypes DEF IInv, Known
<1>1. ASSUME NEW L \in SUBSET Groups, Known(L), Held' \subseteq L,
             p = "absent" /\ mem[w].fresh => mem[w].obj.extName \notin L
      PROVE  Known(Held)'
  <2>1. Known(L)'
    BY <1>0, <1>1, TouchKnown
  <2> QED
    BY <1>1, <2>1, KnownHeld
<1>2. CASE Tries(w, p)
  <2>1. Wanted(w).group \in Groups
    BY <1>0, <1>2 DEF Tries, PassRight, SpecType
  <2>2. PICK S \in SUBSET Accepted(ToSet(Wanted(w).members)) :
          /\ AddTo(Wanted(w).group, S)
          /\ \/ S = {} \/ members[Wanted(w).group] = Gone
             \/ \E m \in ToSet(Wanted(w).members) : m.type # TypeOf[m.id]
    BY <1>2 DEF Tries, Trustworthy
  <2>3. S \in SUBSET Ids
    BY <1>0, <2>2, SpecItems
  <2>4. S = {} \/ members[Wanted(w).group] = Gone
    BY <1>0, <2>2, RefusesAll DEF CopiesKnow, Wanted
  <2>5. Held' = Held
    BY <1>0, <2>1, <2>2, <2>3, <2>4, HeldAdd
  <2> QED
    BY <1>0, <1>1, <1>2, <2>5 DEF Tries
<1>3. CASE Looks(w, p)
  <2>1. Held' = Held
    BY <1>3, HeldSame DEF Looks
  <2>2. p = "absent" => mem[w].obj.extName \notin Held
    <3>1. SUFFICES ASSUME p = "absent", mem[w].obj.extName \in Held
                   PROVE  FALSE
      OBVIOUS
    <3>2. ~HasMembers(Group(w))
      BY <1>3, <3>1 DEF Looks, Trustworthy
    <3>3. Group(w) \in Groups /\ Granted(Group(w)) # {}
      BY <3>1 DEF Held, Group
    <3> QED
      BY <3>2, <3>3, ReconcilerAssumption DEF HasMembers, Granted, Groups
  <2> QED
    BY <1>0, <1>1, <2>1, <2>2
<1>4. CASE Adds(w, p)
  <2>1. Wanted(w).group \in Groups /\ Known(Held \cup {Wanted(w).group})
    BY <1>4, UpdateMayGrant DEF Adds
  <2>2. PICK S \in SUBSET Accepted(Diff(w).add) : AddTo(Wanted(w).group, S)
    BY <1>4 DEF Adds
  <2>3. S \in SUBSET Ids
    <3>1. Diff(w).add \in SUBSET Item
      BY <1>0, SpecItems DEF Diff, MembersDiff
    <3> QED
      BY <2>2, <3>1, ItemTypes
  <2>4. Held' \subseteq Held \cup {Wanted(w).group}
    BY <1>0, <2>1, <2>2, <2>3, HeldAdd
  <2> QED
    BY <1>0, <1>1, <1>4, <2>1, <2>4 DEF Adds
<1>5. CASE Removes(w, p) \/ Revokes(w, p)
  <2>1. Removes(w, p) => Wanted(w).group \in Groups
    BY <1>0 DEF Removes, PassRight, SpecType
  <2>2. Revokes(w, p) => Group(w) \in Groups
    BY <1>0 DEF Revokes, TypeOK
  <2>3. Held' \subseteq Held
    BY <1>0, <1>5, <2>1, <2>2, HeldRemove DEF Removes, Revokes
  <2>4. p = "finish"
    BY <1>5 DEF Removes, Revokes
  <2> QED
    BY <1>0, <1>1, <2>3, <2>4
<1> QED
  BY <1>2, <1>3, <1>4, <1>5 DEF TouchStep

\* The reference is resolved: nobody has access yet.
LEMMA SpecKnown ==
  ASSUME BaseInv, OneReplica, NEW L \in SUBSET Groups, Known(L), NEW w \in Workers,
         NEW g \in Groups, SpecStep(w, g)
  PROVE  Known(L)'
<1>0. /\ CopiesKnow(w, L) /\ LoopType(SpecType, KindPhases) /\ LoopInv(L) /\ FreshIsCurrent
      /\ Placed(cr) /\ L \subseteq {cr.spec.group}
      /\ Wanted(w) \in SpecType /\ cr.ready \in BOOLEAN
  BY BaseParts, TypeParts DEF Known, LoopType, Objects
<1>1. [Wanted(w) EXCEPT !.group = g] \in SpecType /\ "observe" \in KindPhases
  BY <1>0 DEF SpecType, KindPhases, ReconcilerPhases
<1>2. /\ mem[w].fresh /\ pc[w] = "observe" /\ Wanted(w).group = Unset /\ ~mem[w].obj.deleting
      /\ SpecWritten(w, [Wanted(w) EXCEPT !.group = g], cr.ready, "observe")
  BY DEF SpecStep, SpecWritten
<1>3. /\ LoopInv(L)'
      /\ pc'[w] = "observe"
      /\ \A v \in Workers : cache'[v].obj = cache[v].obj
      /\ cr'.spec = [Wanted(w) EXCEPT !.group = g]
      /\ cr'.extName = cr.extName /\ cr'.deleting = cr.deleting
      /\ cr'.present = cr.present /\ Same(mem'[w].obj, cr') /\ Same(mem[w].obj, cr)
  BY <1>0, <1>1, <1>2, LoopSpecWritten
<1>4. /\ cr'.finalizer = cr.finalizer /\ mem'[w].obj.finalizer = cr.finalizer
      /\ cr.finalizer = mem[w].obj.finalizer
  <2>1. Sent(w) = cr /\ cr.finalizer = mem[w].obj.finalizer
    BY <1>0, <1>2, LoopFresh
  <2> DEFINE o == [cr EXCEPT !.spec = [Wanted(w) EXCEPT !.group = g]]
             c == [obj |-> [o EXCEPT !.ready = cr.ready], fresh |-> TRUE]
  <2>2. o \in Objects(SpecType) /\ c \in Copies(SpecType) /\ o.finalizer = cr.finalizer
        /\ c.obj.finalizer = cr.finalizer
    BY <1>0, <1>1 DEF LoopType, Objects, Copies
  <2>3. Put(w, o, c)
    BY <1>2, <2>1 DEF SpecWritten
  <2> HIDE DEF o, c
  <2>4. cr' = o /\ mem'[w] = c
    BY <1>0, <2>2, <2>3, LoopPut
  <2> QED
    BY <2>1, <2>2, <2>4
<1>5. L = {} /\ cr.spec.group = Unset /\ cr.present
  <2>1. cr.spec.group = Unset /\ cr.present
    BY <1>0, <1>2, <1>3 DEF Same, Wanted, FreshIsCurrent
  <2> QED
    BY <1>0, <2>1, GroupMembershipAssumption
<1>6. Placed(cr)'
  <2>1. cr'.spec.members = cr.spec.members
    BY <1>0, <1>3 DEF SpecType, Same, Wanted
  <2>2. cr.extName = NoName
    <3>1. cr.extName \in Groups \cup {NoName}
      BY <1>0 DEF LoopType, Objects, Groups
    <3> QED
      BY <1>0, <1>5, <3>1, GroupMembershipAssumption DEF Placed
  <2> QED
    BY <1>0, <1>3, <1>5, <2>1, <2>2 DEF Placed
<1>7. CopiesKnow(w, {})'
  <2>1. Placed(mem[w].obj)'
    BY <1>3, <1>6, PlacedSame
  <2> QED
    BY <1>0, <1>2, <1>3, <1>4, <1>5, <2>1
       DEF CopiesKnow, StillThere, NameKept, Managed, Creating, Same, CopyRight, Wanted
<1> QED
  BY <1>3, <1>5, <1>6, <1>7, KnownNext

\* Create adds the members and the CR is going to name their group.
LEMMA NameKnown ==
  ASSUME BaseInv, OneReplica, NEW L \in SUBSET Groups, Known(L), NEW w \in Workers,
         NEW g \in Groups, NameStep(w, g)
  PROVE  Known({g})'
<1>0. /\ CopiesKnow(w, L) /\ LoopType(SpecType, KindPhases) /\ LoopInv(L)
      /\ Placed(cr) /\ Wanted(w) \in SpecType
  BY BaseParts, TypeParts DEF Known
<1>1. /\ TakesName(w, g) /\ pc[w] = "create" /\ pc' = [pc EXCEPT ![w] = "created"]
      /\ UNCHANGED <<cr, cache>> /\ g = Wanted(w).group
      /\ AddTo(g, Accepted(ToSet(Wanted(w).members)))
      /\ mem' = [mem EXCEPT ![w].obj = [@ EXCEPT !.extName = g, !.ready = FALSE]]
  BY DEF NameStep, TakesName
<1>3. LoopInv({g})'
  BY <1>0, <1>1, TypeParts, LoopCreate DEF Groups
<1>4. g = cr.spec.group /\ StillThere(cache[w].obj) /\ NameKept(cache[w].obj)
      /\ Managed(mem[w].obj) /\ StillThere(mem[w].obj) /\ Placed(mem[w].obj)
  BY <1>0, <1>1, GroupMembershipAssumption DEF CopiesKnow, Creating, StillThere, Wanted
<1>5. /\ mem'[w].obj.extName = g /\ mem'[w].obj.spec = mem[w].obj.spec
      /\ mem'[w].obj.present = mem[w].obj.present
      /\ mem'[w].obj.deleting = mem[w].obj.deleting
      /\ mem'[w].obj.finalizer = mem[w].obj.finalizer
      /\ mem'[w].fresh = mem[w].fresh /\ pc'[w] = "created"
  BY <1>0, <1>1 DEF LoopType, Copies, Objects
<1>6. CopiesKnow(w, {g})'
  <2>1. Placed(mem[w].obj)'
    BY <1>1, <1>4, <1>5 DEF Placed, Wanted
  <2>2. CopyRight(cache[w].obj, {g})'
    <3>1. cache[w].obj.extName = g => cr.extName = g
      BY <1>4, ReconcilerAssumption DEF NameKept, Groups
    <3> QED
      BY <1>1, <1>4, <3>1 DEF CopyRight, StillThere
  <2> QED
    BY <1>0, <1>1, <1>4, <1>5, <2>1, <2>2
       DEF CopiesKnow, StillThere, NameKept, Managed, Creating
<1> QED
  BY <1>0, <1>1, <1>3, <1>4, <1>6, KnownNext

LEMMA NameI ==
  ASSUME IInv, OneReplica, NEW w \in Workers, NEW g \in Groups, NameStep(w, g)
  PROVE  Known(Held)'
<1>0. /\ BaseInv /\ Known(Held) /\ Held \in SUBSET Groups /\ LoopInv(Held)
      /\ members \in MembersType /\ Wanted(w) \in SpecType
  BY BaseParts, TypeParts, HeldTypes DEF IInv, Known
<1>1. Known({g})'
  BY <1>0, NameKnown
<1>2. Held' \subseteq Held \cup {g} /\ Held = {}
  <2>1. Accepted(ToSet(Wanted(w).members)) \in SUBSET Ids
    BY <1>0, SpecItems
  <2>2. pc[w] = "create" /\ AddTo(g, Accepted(ToSet(Wanted(w).members)))
    BY DEF NameStep, TakesName
  <2> QED
    BY <1>0, <2>1, <2>2, HeldAdd DEF LoopInv, PassKnows
<1> QED
  BY <1>1, <1>2, KnownHeld

\* A spec that is applied to a CR is of the CR's group.
LEMMA PlacedEdit ==
  ASSUME TypeOK, Placed(cr), cr'.extName = cr.extName,
         \/ cr'.spec = cr.spec
         \/ \E s \in UserSpecs :
              cr'.spec = IF s.group = Unset THEN [s EXCEPT !.group = cr.spec.group] ELSE s
  PROVE  Placed(cr)' /\ cr'.spec.group = cr.spec.group
<1>1. CASE cr'.spec = cr.spec
  BY <1>1 DEF Placed
<1>2. ASSUME NEW s \in UserSpecs,
             cr'.spec = IF s.group = Unset THEN [s EXCEPT !.group = cr.spec.group] ELSE s
      PROVE  cr'.spec.group = cr.spec.group /\ cr'.spec.members = s.members
  BY <1>2, TypeParts DEF Placed, SpecType
<1> QED
  BY <1>1, <1>2 DEF Placed

\* The CR that a user replaces or removes has no finalizer, nor has any copy of it.
LEMMA UserKnown ==
  ASSUME BaseInv, GroupKept, NEW L \in SUBSET Groups, Known(L), UserEdits
  PROVE  Known(L)'
<1>0. /\ LoopType(SpecType, KindPhases) /\ LoopInv(L)
      /\ UserSpecs \subseteq SpecType /\ TypeOK
      /\ Placed(cr) /\ L \subseteq {cr.spec.group}
  BY KnownParts DEF Known, BaseInv
<1>1. /\ UserStepOver(SpecType)
      /\ cr.present /\ cr'.present =>
           \/ cr'.spec = cr.spec
           \/ \E s \in UserSpecs :
                cr'.spec = IF s.group = Unset THEN [s EXCEPT !.group = cr.spec.group] ELSE s
      /\ ~cr.present => cr'.spec \in UserSpecs
  BY <1>0, UserForms
<1>2. /\ pc' = pc
      /\ \A v \in Workers : /\ mem'[v].obj = mem[v].obj /\ ~mem'[v].fresh
                            /\ cache'[v].obj = cache[v].obj /\ ~cache'[v].fresh
      /\ \/ cr' = NoObject /\ ~cr.finalizer /\ cr.present /\ ~cr.deleting
         \/ (\E s \in SpecType : cr' = NewObject(s)) /\ ~cr.present
         \/ /\ cr'.present = cr.present /\ cr'.finalizer = cr.finalizer
            /\ cr'.creation = cr.creation /\ cr'.extName = cr.extName /\ cr.present
            /\ \/ cr'.deleting = cr.deleting /\ cr'.spec \in SpecType
               \/ cr'.deleting /\ ~cr.deleting /\ cr'.spec = cr.spec
  BY <1>0, <1>1, LoopUserForms
<1>3. LoopInv(L)'
  BY <1>0, <1>1, LoopUser
<1>4. CASE ~cr.finalizer \/ ~cr.present
  <2>1. L = {}
    BY <1>0, <1>4 DEF LoopInv, AccountedFor
  <2>2. Placed(cr)'
    <3>1. CASE cr' = NoObject
      BY <3>1, PlacedNew
    <3>2. CASE (\E s \in SpecType : cr' = NewObject(s)) /\ ~cr.present
      BY <1>1, <3>2, PlacedNew DEF NewObject
    <3>3. CASE cr'.present /\ cr.present /\ cr'.extName = cr.extName
      BY <1>0, <1>1, <3>3, PlacedEdit
    <3> QED
      BY <1>2, <3>1, <3>2, <3>3
  <2>3. ASSUME NEW w \in Workers
        PROVE  CopiesKnow(w, {})'
    BY <1>0, <1>2, <1>4 DEF Known, CopiesKnow, CopyRight, Managed, StillThere, Creating
  <2> QED
    BY <1>0, <1>3, <2>1, <2>2, <2>3 DEF Known
<1>5. CASE cr.finalizer /\ cr.present
  <2>1. /\ cr'.present /\ cr'.finalizer /\ cr'.extName = cr.extName
        /\ cr.deleting => cr'.deleting
    BY <1>2, <1>5
  <2>2. Placed(cr)' /\ cr'.spec.group = cr.spec.group
    BY <1>0, <1>1, <1>5, <2>1, PlacedEdit
  <2>3. ASSUME NEW w \in Workers
        PROVE  CopiesKnow(w, L)'
    <3>1. CopyRight(cache[w].obj, L)'
          /\ (pc'[w] \notin {"created", "finish"} => CopyRight(mem[w].obj, L)')
      BY <1>0, <1>2, <2>1 DEF Known, CopiesKnow, CopyRight
    <3> QED
      BY <1>0, <1>2, <1>5, <2>1, <2>2, <3>1
         DEF Known, CopiesKnow, Managed, StillThere, NameKept, Creating
  <2> QED
    BY <1>0, <1>3, <2>2, <2>3 DEF Known
<1> QED
  BY <1>4, <1>5

\* The CR, its copies and the passes stay as they are.
LEMMA KnownElsewhere ==
  ASSUME NEW L \in SUBSET Groups, Known(L), UNCHANGED <<cr, cache, mem, pc>>
  PROVE  Known(L)'
BY LoopCloud DEF Known, CopiesKnow, CopyRight, StillThere, NameKept, Creating

\* What others do brings nobody in through the CR.
LEMMA WorldI ==
  ASSUME IInv, NEW g \in Groups, WorldStep(g)
  PROVE  Known(Held)'
<1>0. Known(Held) /\ members \in MembersType /\ LoopInv(Held)
  BY BaseParts DEF IInv, Known
<1>1. /\ UNCHANGED <<cr, cache, mem, pc>>
      /\ \A h \in Groups \ {g} : members'[h] = members[h]
      /\ \/ members'[g] = Gone
         \/ /\ members[g] # Gone
            /\ \E i \in Ids :
                 /\ members'[g] = members[g] \cup {i}
                 /\ i \notin UNION {Idents(s.members) : s \in UserSpecs}
         \/ /\ members[g] # Gone
            /\ \E i \in Ids : members'[g] = members[g] \ {i}
  BY <1>0, WorldEffects
<1>2. \A h \in Groups : Granted(h)' \subseteq Granted(h)
  BY <1>1 DEF Granted
<1>3. Held' \subseteq Held
  BY <1>2 DEF Held
<1>4. \A L \in {Held} : Known(L)'
  BY <1>0, <1>1, HeldTypes, KnownElsewhere
<1> QED
  BY <1>3, <1>4, KnownHeld

LEMMA StutterI ==
  ASSUME IInv, UNCHANGED vars
  PROVE  Known(Held)'
<1>1. Held' = Held /\ UNCHANGED <<cr, cache, mem, pc>> /\ Known(Held)
  BY HeldSame DEF vars, IInv
<1>2. \A L \in {Held} : Known(L)'
  BY <1>1, HeldTypes, KnownElsewhere
<1> QED
  BY <1>1, <1>2, KnownHeld

LEMMA InitI ==
  ASSUME Init, GroupKept
  PROVE  IInv
<1>1. BaseInv /\ LoopInv({})
  BY InitBase, LoopStart DEF Init
<1>2. /\ \E s \in UserSpecs : cr = NewObject(s)
      /\ \A w \in Workers : cache[w] = NoCopy /\ mem[w] = NoCopy /\ pc[w] = "idle"
      /\ \A g \in Groups : members[g] = {}
  BY DEF Init, ReconcilerInit
<1>3. Held = {}
  BY <1>2, NotGone DEF Held, Granted
<1>4. Placed(cr) /\ Placed(NoObject) /\ ~NoObject.present /\ NoCopy.obj = NoObject
  BY <1>2, PlacedNew, TypeParts, LoopNoObjectType
<1>5. \A w \in Workers : CopiesKnow(w, {})
  BY <1>2, <1>4 DEF CopiesKnow, CopyRight, Managed, Creating
<1> QED
  BY <1>1, <1>3, <1>4, <1>5 DEF IInv, Known

LEMMA InvStep ==
  ASSUME OneReplica, Trustworthy, RefusedWhole, GroupKept, IInv, [Next]_vars
  PROVE  IInv'
<1>0. BaseInv'
  BY BaseStep DEF IInv
<1>1. ASSUME NEW w \in Workers, LoopStep(w), UNCHANGED members
      PROVE  Known(Held)'
  <2>1. \A L \in {Held} : Known(L)'
    BY <1>1, HeldTypes, LoopKnown DEF IInv
  <2> QED
    BY <1>1, <2>1, HeldSame, KnownHeld
<1>2. ASSUME NEW w \in Workers, ExternalStep(w) \/ ExternalFault(w)
      PROVE  Known(Held)'
  <2>1. ASSUME NEW g \in Groups, SpecStep(w, g)
        PROVE  Known(Held)'
    <3>1. \A L \in {Held} : Known(L)'
      BY <2>1, HeldTypes, SpecKnown DEF IInv
    <3> QED
      BY <2>1, <3>1, HeldSame, KnownHeld DEF SpecStep
  <2> QED
    BY <1>2, <2>1, HandlerForms, TouchI, NameI DEF IInv
<1>3. ASSUME UserEdits, UNCHANGED members
      PROVE  Known(Held)'
  <2>1. \A L \in {Held} : Known(L)'
    BY <1>3, HeldTypes, UserKnown DEF IInv
  <2> QED
    BY <1>3, <2>1, HeldSame, KnownHeld
<1>4. ASSUME NEW g \in Groups, WorldStep(g)
      PROVE  Known(Held)'
  BY <1>4, WorldI
<1>5. UNCHANGED vars => Known(Held)'
  BY StutterI
<1>6. Known(Held)'
  BY <1>1, <1>2, <1>3, <1>4, <1>5 DEF Next, WorkerStep, LoopStep, WorldStep
<1> QED
  BY <1>0, <1>6 DEF IInv

\* While a group has members that the CR brought there, the CR is theirs, and what the
\* one replica that runs knows of it lets it grant and revoke access.
THEOREM InvCorrect ==
  ASSUME OneReplica, Trustworthy, RefusedWhole, GroupKept
  PROVE  Spec => []IInv
<1>1. Init => IInv
  BY InitI
<1>2. IInv /\ [Next]_vars => IInv'
  BY InvStep
<1> QED
  BY <1>1, <1>2, PTL DEF Spec

\* Nobody keeps access that no CR accounts for, wherever the replica crashes, however
\* often the spec is edited or the CR deleted and applied again, whoever leaves or
\* joins a group, and though the same group is granted anew under the same name.
THEOREM NoOrphans ==
  ASSUME OneReplica, Trustworthy, RefusedWhole, GroupKept
  PROVE  Spec => []Accounted
<1>1. Spec => []IInv
  BY InvCorrect
<1>2. IInv => Accounted
  BY DEF IInv, Known, LoopInv, AccountedFor, Accounted, Held
<1> QED
  BY <1>1, <1>2, PTL

\* A step that takes an ID out of a group takes it out of the group that the pass's copy
\* names, for a deletion of a CR that lists it or an update to a spec that does not.
LEMMA TakenOut ==
  ASSUME IInv, NEW w \in Workers, TakesOut(w), NEW g \in Groups,
         NEW i \in Ids, i \in members[g] \ members'[g]
  PROVE  /\ g = Group(w) /\ members[g] # Gone
         /\ \/ /\ pc[w] \in {"current", "outdated"} /\ mem[w].obj.deleting
               /\ i \in Idents(Wanted(w).members)
            \/ pc[w] = "remove" /\ i \notin Idents(Wanted(w).members)
<1>0. /\ members \in MembersType /\ seen \in [Workers -> SUBSET Ids] /\ TypeOK
      /\ Placed(mem[w].obj)
  BY BaseParts DEF IInv, Known, CopiesKnow
<1>1. members'[g] # members[g]
  OBVIOUS
<1>2. CASE UpdateRemove(w) \/ UpdateRemovePartly(w)
  <2>1. /\ pc[w] = "remove"
        /\ \E S \in SUBSET Diff(w).remove : RemoveFrom(Wanted(w).group, S)
    BY <1>2 DEF UpdateRemove, UpdateRemovePartly
  <2>2. Group(w) \in Groups
    BY <1>0, <2>1 DEF TypeOK
  <2>3. Wanted(w).group = Group(w)
    BY <1>0, <2>2, ReconcilerAssumption DEF Placed, Group, Wanted, Groups
  <2>4. PICK S \in SUBSET Diff(w).remove : RemoveFrom(Group(w), S)
    BY <2>1, <2>3
  <2>5. /\ g = Group(w) /\ members[g] # Gone
        /\ members'[g] = members[g] \ S
    BY <1>0, <1>1, <2>2, <2>4, RemoveEffect
  <2>6. i \in Diff(w).remove
    BY <2>4, <2>5
  <2>7. i \notin Idents(Wanted(w).members)
    BY <2>6 DEF Diff, MembersDiff
  <2> QED
    BY <2>1, <2>5, <2>7
<1>3. CASE Delete(w) \/ DeleteFails(w)
  <2>1. /\ pc[w] \in {"current", "outdated"} /\ mem[w].obj.deleting
        /\ \E S \in SUBSET Idents(Wanted(w).members) : RemoveFrom(Group(w), S)
    BY <1>3 DEF Delete, DeleteFails
  <2>2. Group(w) \in Groups
    BY <1>0, <2>1 DEF TypeOK
  <2>3. PICK S \in SUBSET Idents(Wanted(w).members) : RemoveFrom(Group(w), S)
    BY <2>1
  <2>4. /\ g = Group(w) /\ members[g] # Gone
        /\ members'[g] = members[g] \ S
    BY <1>0, <1>1, <2>2, <2>3, RemoveEffect
  <2> QED
    BY <2>1, <2>3, <2>4
<1> QED
  BY <1>2, <1>3 DEF TakesOut

\* No step of a pass, of an update or a deletion, complete or failing half-way, takes
\* anybody out of a group but for the CR that names the group now, and only if this one
\* is being deleted or the spec that the pass works from leaves them out.
THEOREM RevokesOnRequest ==
  ASSUME OneReplica, Trustworthy, RefusedWhole, GroupKept
  PROVE  Spec => RevokedOnRequest
<1>1. Spec => []IInv
  BY InvCorrect
<1>2. ASSUME IInv, NEW w \in Workers, NEW g \in Groups, NEW i \in Ids,
             TakesOut(w), i \in members[g] \ members'[g]
      PROVE  /\ cr.present /\ cr.extName = g
             /\ \/ cr.deleting
                \/ /\ i \notin Idents(Wanted(w).members)
                   /\ mem[w].fresh => i \notin Idents(cr.spec.members)
  <2>0. /\ FreshIsCurrent /\ PassRight(w) /\ TypeOK /\ Placed(mem[w].obj)
        /\ CopiesKnow(w, Held) /\ AccountedFor(Held)
    BY <1>2, BaseParts DEF IInv, Known, CopiesKnow, LoopInv
  <2>1. g = Group(w) /\ members[g] # Gone /\ g # NoName
    BY <1>2, TakenOut, ReconcilerAssumption DEF Groups
  <2>2. CASE /\ pc[w] \in {"current", "outdated"} /\ mem[w].obj.deleting
             /\ i \in Idents(Wanted(w).members)
    <3>1. i \in UNION {Idents(s.members) : s \in UserSpecs}
      BY <2>0, <2>2 DEF Placed, Wanted
    <3>2. g \in Held
      BY <1>2, <2>1, <3>1 DEF Held, Granted
    <3>3. CopyRight(mem[w].obj, Held)
      BY <2>0, <2>2 DEF CopiesKnow
    <3> QED
      BY <2>0, <2>1, <2>2, <3>2, <3>3 DEF CopyRight, Group, AccountedFor
  <2>3. CASE pc[w] = "remove" /\ i \notin Idents(Wanted(w).members)
    <3>1. Managed(mem[w].obj)
      BY <2>0, <2>3 DEF PassRight, FreshIsCurrent, Managed
    <3>2. StillThere(mem[w].obj) /\ NameKept(mem[w].obj)
      BY <2>0, <2>3, <3>1 DEF CopiesKnow
    <3>3. cr.present /\ cr.extName = g
      BY <2>1, <3>2 DEF StillThere, NameKept, Group
    <3>4. mem[w].fresh => cr.spec = Wanted(w)
      <4>1. ASSUME mem[w].fresh
            PROVE  Same(mem[w].obj, cr)
        <5>1. LoopType(SpecType, KindPhases)
          BY <1>2, BaseParts DEF IInv
        <5> QED
          BY <2>0, <2>3, <4>1, <5>1, LoopFresh
      <4> QED
        BY <4>1 DEF Same, Wanted
    <3> QED
      BY <2>3, <3>3, <3>4
  <2> QED
    BY <1>2, <2>2, <2>3, TakenOut
<1>3. IInv /\ [Next]_vars =>
        [\A w \in Workers, g \in Groups, i \in Ids :
           TakesOut(w) /\ i \in members[g] \ members'[g] =>
             /\ cr.present /\ cr.extName = g
             /\ \/ cr.deleting
                \/ /\ i \notin Idents(Wanted(w).members)
                   /\ mem[w].fresh => i \notin Idents(cr.spec.members)]_vars
  BY <1>2
<1> QED
  BY <1>1, <1>3, PTL DEF Spec, RevokedOnRequest

-----------------------------------------------------------------------------
(***************************************************************************)
(* Replacing members never empties a group.  Faults are free, but that     *)
(* nobody takes the members away that the update counts on.                *)
(***************************************************************************)
NobodyLeaves == "leave" \notin FaultKinds

SpecsNotEmpty == \A s \in UserSpecs : s.members # <<>>

\* What a pass that updates has seen is still in the group, and what it has added is.
StillMembers(w) ==
  pc[w] \in {"outdated", "remove"} /\ ~mem[w].obj.deleting =>
    \/ members[Wanted(w).group] = Gone
    \/ /\ seen[w] \subseteq members[Wanted(w).group]
       /\ pc[w] = "remove" => Idents(Wanted(w).members) \subseteq members[Wanted(w).group]

UpdateInv == BaseInv /\ Known({}) /\ \A w \in Workers : StillMembers(w)

LEMMA UpdateParts ==
  ASSUME UpdateInv, NEW w \in Workers
  PROVE  /\ BaseInv /\ Known({}) /\ CopiesKnow(w, {}) /\ StillMembers(w) /\ PassRight(w)
         /\ LoopType(SpecType, KindPhases) /\ FreshIsCurrent
         /\ members \in MembersType /\ seen \in [Workers -> SUBSET Ids]
         /\ Wanted(w) \in SpecType /\ TypeOK
         /\ {} \in SUBSET Groups
BY BaseParts, TypeParts DEF UpdateInv, Known

\* A pass that found members works on the group that its spec names.
LEMMA SameGroup ==
  ASSUME UpdateInv, NEW w \in Workers, Group(w) \in Groups
  PROVE  Group(w) = Wanted(w).group
BY UpdateParts, ReconcilerAssumption DEF CopiesKnow, Placed, Group, Wanted, Groups

\* A group that nothing leaves keeps what an update counts on.
LEMMA MembersStay ==
  ASSUME NEW w \in Workers, StillMembers(w), pc'[w] = pc[w], Same(mem'[w].obj, mem[w].obj),
         seen'[w] = seen[w],
         \/ members'[Wanted(w).group] = Gone
         \/ /\ members[Wanted(w).group] # Gone
            /\ members[Wanted(w).group] \subseteq members'[Wanted(w).group]
  PROVE  StillMembers(w)'
BY DEF StillMembers, Wanted, Same

\* Once all is added, every member that is wanted is in the group.
LEMMA AllAdded ==
  ASSUME UpdateInv, NEW w \in Workers, Adds(w, "remove"), members'[Wanted(w).group] # Gone
  PROVE  /\ seen[w] \subseteq members'[Wanted(w).group]
         /\ Idents(Wanted(w).members) \subseteq members'[Wanted(w).group]
<1> DEFINE g == Wanted(w).group
           items == ToSet(Wanted(w).members)
<1>1. /\ Updating(w) /\ AddTo(g, Accepted(Diff(w).add))
      /\ Diff(w).add = {} \/ ~Refused(g, Diff(w).add)
  BY DEF Adds
<1>2. /\ members \in MembersType /\ items \in SUBSET Item /\ g \in Groups /\ StillMembers(w)
      /\ Diff(w).add = {m \in items : m.id \notin seen[w]}
  BY <1>1, UpdateParts, SpecItems DEF Diff, MembersDiff, Updating, PassRight, SpecType
<1>3. Accepted(Diff(w).add) \in SUBSET Ids
  BY <1>2, ItemTypes
<1>4. /\ members[g] # Gone /\ members'[g] = members[g] \cup Accepted(Diff(w).add)
      /\ seen[w] \subseteq members[g]
  BY <1>1, <1>2, <1>3, AddEffect DEF StillMembers, Updating
<1>5. \A m \in items : m.id \in seen[w] \/ m.id \in Accepted(Diff(w).add)
  BY <1>1, <1>2, <1>4 DEF Refused, Accepted
<1> QED
  BY <1>4, <1>5 DEF Idents

LEMMA UpdateTouch ==
  ASSUME UpdateInv, OneReplica, NEW w \in Workers, NEW p \in KindPhases, TouchStep(w, p)
  PROVE  StillMembers(w)'
<1>1. /\ pc'[w] = p /\ Same(mem'[w].obj, mem[w].obj)
  BY UpdateParts, LoopTouchTypes DEF TouchStep
<1>2. CASE p \notin {"outdated", "remove"} \/ mem[w].obj.deleting
  BY <1>1, <1>2 DEF StillMembers, Same
<1>3. CASE p = "outdated" /\ ~mem[w].obj.deleting
  <2>1. Looks(w, p)
    BY <1>3 DEF TouchStep, Tries, Adds, Removes, Revokes
  <2>2. HasMembers(Group(w)) /\ seen'[w] = members[Group(w)] /\ members' = members
    BY <1>3, <2>1, UpdateParts DEF Looks
  <2>3. Group(w) \in Groups
    BY <2>2, UpdateParts DEF HasMembers, LoopType, Copies, Objects, Groups, Group
  <2> QED
    BY <1>1, <1>3, <2>2, <2>3, SameGroup DEF StillMembers, Wanted, Same
<1>4. CASE p = "remove" /\ ~mem[w].obj.deleting
  <2>1. Adds(w, "remove") /\ seen' = seen
    BY <1>4 DEF TouchStep, Tries, Looks, Adds, Removes, Revokes
  <2> QED
    BY <1>1, <1>4, <2>1, AllAdded DEF StillMembers, Wanted, Same
<1> QED
  BY <1>2, <1>3, <1>4

LEMMA UpdateStep ==
  ASSUME OneReplica, GroupKept, NobodyLeaves, UpdateInv, [Next]_vars
  PROVE  UpdateInv'
<1>0. BaseInv' /\ BaseInv /\ Known({}) /\ {} \in SUBSET Groups
  BY BaseStep DEF UpdateInv
<1> SUFFICES Known({})' /\ \A w \in Workers : StillMembers(w)'
  BY <1>0 DEF UpdateInv
<1>1. ASSUME NEW w \in Workers, LoopStep(w), Forget, UNCHANGED members
      PROVE  Known({})' /\ StillMembers(w)'
  <2>1. Known({})'
    BY <1>0, <1>1, LoopKnown
  <2>2. pc'[w] \notin {"idle", "observe", "refuse", "finish"} =>
           /\ Same(mem'[w].obj, mem[w].obj)
           /\ pc'[w] # pc[w] => pc'[w] = "create"
    BY <1>1, UpdateParts, TypeParts, LoopKeepsTypes
  <2>3. pc'[w] # "idle" => seen'[w] = seen[w]
    BY <1>1, UpdateParts, Forgotten
  <2>4. StillMembers(w)'
    <3>1. CASE pc'[w] \notin {"outdated", "remove"}
      BY <3>1 DEF StillMembers
    <3>2. CASE pc'[w] \in {"outdated", "remove"}
      <4>1. pc'[w] = pc[w] /\ Same(mem'[w].obj, mem[w].obj) /\ seen'[w] = seen[w]
        BY <2>2, <2>3, <3>2
      <4> QED
        BY <1>1, <4>1, UpdateParts, MembersStay
    <3> QED
      BY <3>1, <3>2
  <2> QED
    BY <2>1, <2>4
<1>2. ASSUME NEW w \in Workers, ExternalStep(w) \/ ExternalFault(w)
      PROVE  Known({})' /\ StillMembers(w)'
  <2>1. ASSUME NEW p \in KindPhases, TouchStep(w, p)
        PROVE  Known({})' /\ StillMembers(w)'
    BY <1>0, <2>1, TouchKnown, UpdateTouch
  <2>2. ASSUME NEW g \in Groups, SpecStep(w, g)
        PROVE  Known({})' /\ StillMembers(w)'
    <3>1. pc' = [pc EXCEPT ![w] = "observe"]
      BY <2>2 DEF SpecStep, SpecWritten
    <3>2. StillMembers(w)'
      BY <3>1, UpdateParts DEF StillMembers, LoopType
    <3> QED
      BY <1>0, <2>2, <3>2, SpecKnown
  <2>3. ASSUME NEW g \in Groups, NameStep(w, g)
        PROVE  Known({})' /\ StillMembers(w)'
    <3>1. pc' = [pc EXCEPT ![w] = "created"]
      BY <2>3 DEF NameStep, TakesName
    <3>2. StillMembers(w)'
      BY <3>1, UpdateParts DEF StillMembers, LoopType
    <3>3. Known({g})'
      BY <1>0, <2>3, NameKnown
    <3> QED
      BY <3>2, <3>3, KnownFewer
  <2> QED
    BY <1>0, <1>2, <2>1, <2>2, <2>3, HandlerForms
<1>3. ASSUME UserEdits, Forget, UNCHANGED members
      PROVE  Known({})' /\ \A w \in Workers : StillMembers(w)'
  <2>1. ASSUME NEW w \in Workers
        PROVE  StillMembers(w)'
    <3>1. pc'[w] = pc[w] /\ mem'[w].obj = mem[w].obj
      BY <1>0, <1>3, UpdateParts, UserForms, TypeParts, LoopUserForms
    <3>2. pc'[w] # "idle" => seen'[w] = seen[w]
      BY <1>3, UpdateParts, Forgotten
    <3> QED
      BY <1>3, <3>1, <3>2, UpdateParts, MembersStay DEF StillMembers, Same
  <2> QED
    BY <1>0, <1>3, <2>1, UserKnown
<1>4. ASSUME NEW g \in Groups, WorldStep(g)
      PROVE  Known({})' /\ \A w \in Workers : StillMembers(w)'
  <2>1. /\ UNCHANGED <<cr, cache, mem, pc, seen>>
        /\ \A h \in Groups : \/ members'[h] = Gone
                             \/ members[h] # Gone /\ members[h] \subseteq members'[h]
                             \/ members'[h] = members[h]
    <3>1. members \in MembersType
      BY <1>0, BaseParts
    <3> QED
      BY <1>4, <3>1, WorldEffects DEF NobodyLeaves
  <2>2. ASSUME NEW w \in Workers
        PROVE  StillMembers(w)'
    <3>1. StillMembers(w) /\ PassRight(w) /\ Wanted(w) \in SpecType
      BY UpdateParts
    <3>2. CASE pc[w] \in {"outdated", "remove"} /\ ~mem[w].obj.deleting
      <4>1. Wanted(w).group \in Groups
        BY <3>1, <3>2 DEF PassRight, SpecType
      <4> QED
        BY <2>1, <3>1, <4>1 DEF StillMembers, Wanted
    <3>3. CASE ~(pc[w] \in {"outdated", "remove"} /\ ~mem[w].obj.deleting)
      BY <2>1, <3>3 DEF StillMembers
    <3> QED
      BY <3>2, <3>3
  <2> QED
    BY <1>0, <2>1, <2>2, KnownElsewhere
<1>5. UNCHANGED vars => Known({})' /\ \A w \in Workers : StillMembers(w)'
  BY <1>0, KnownElsewhere DEF vars, UpdateInv, StillMembers, Wanted
<1> QED
  BY <1>1, <1>2, <1>3, <1>4, <1>5 DEF Next, WorkerStep, LoopStep, WorldStep, OneReplica

\* A group that an update works on is not empty afterwards.
LEMMA UpdateKeepsSome ==
  ASSUME SpecsNotEmpty, UpdateInv, NEW w \in Workers, NEW p \in KindPhases, TouchStep(w, p),
         Updating(w) \/ pc[w] = "remove",
         NEW g \in Groups, members[g] \notin {Gone, {}}
  PROVE  members'[g] # {}
<1>0. /\ members \in MembersType /\ Wanted(w) \in SpecType /\ PassRight(w)
      /\ StillMembers(w) /\ Placed(mem[w].obj)
  BY UpdateParts DEF CopiesKnow
<1>1. Wanted(w).group \in Groups /\ ~mem[w].obj.deleting
  BY <1>0 DEF PassRight, SpecType, Updating
<1>2. CASE Looks(w, p) \/ Tries(w, p) \/ Revokes(w, p)
  BY <1>1, <1>2 DEF Looks, Tries, Revokes, Updating
<1>3. CASE Adds(w, p)
  <2>1. PICK S \in SUBSET Accepted(Diff(w).add) : AddTo(Wanted(w).group, S)
    BY <1>3 DEF Adds
  <2>2. S \in SUBSET Ids
    <3>1. Diff(w).add \in SUBSET Item
      BY <1>0, SpecItems DEF Diff, MembersDiff
    <3> QED
      BY <2>1, <3>1, ItemTypes
  <2>3. members'[g] \in {members[g], members[g] \cup S}
    BY <1>0, <1>1, <2>1, <2>2, AddEffect
  <2> QED
    BY <2>3
<1>4. CASE Removes(w, p)
  <2>1. PICK S \in SUBSET Diff(w).remove : RemoveFrom(Wanted(w).group, S)
    BY <1>4 DEF Removes
  <2>2. CASE g # Wanted(w).group
    BY <1>0, <1>1, <2>1, <2>2, RemoveEffect
  <2>3. CASE g = Wanted(w).group
    <3>1. /\ Idents(Wanted(w).members) \subseteq members[g]
          /\ members'[g] = members[g] \ S
      BY <1>0, <1>1, <1>4, <2>1, <2>3, RemoveEffect DEF StillMembers, Removes
    <3>2. PICK i \in Idents(Wanted(w).members) : TRUE
      <4>1. Wanted(w).members \in Seq(Item) /\ Wanted(w).members # <<>>
        BY <1>0 DEF SpecType, SpecsNotEmpty, Placed, Wanted
      <4>2. 1 \in DOMAIN Wanted(w).members
        BY <4>1
      <4> QED
        BY <4>2 DEF Idents, ToSet
    <3>3. i \notin S
      BY <2>1, <3>2 DEF Diff, MembersDiff
    <3> QED
      BY <3>1, <3>2, <3>3
  <2> QED
    BY <2>2, <2>3
<1> QED
  BY <1>2, <1>3, <1>4 DEF TouchStep

\* An update first adds and then removes, and it removes only if all was added: a group
\* whose members are replaced is never empty in between, whatever the cloud refuses or
\* loses, and however old the copy is that names the new members.
THEOREM NeverEmpties ==
  ASSUME OneReplica, GroupKept, NobodyLeaves, SpecsNotEmpty
  PROVE  Spec => NeverEmptied
<1>1. Init => UpdateInv
  <2> SUFFICES ASSUME Init PROVE UpdateInv
    OBVIOUS
  <2>1. IInv
    BY InitI
  <2>2. LoopInv({})
    BY LoopStart DEF Init
  <2>3. Known({})
    BY <2>1, <2>2 DEF IInv, Known, CopiesKnow, CopyRight
  <2> QED
    BY <2>1, <2>3 DEF IInv, UpdateInv, StillMembers, Init, ReconcilerInit
<1>2. UpdateInv /\ [Next]_vars => UpdateInv'
  BY UpdateStep
<1>3. ASSUME UpdateInv, [Next]_vars, NEW w \in Workers, NEW g \in Groups,
             Updating(w) \/ pc[w] = "remove", members[g] \notin {Gone, {}}
      PROVE  members'[g] # {}
  <2>1. UNCHANGED members => members'[g] # {}
    BY <1>3
  <2>2. ExternalStep(w) \/ ExternalFault(w) => members'[g] # {}
    <3>1. ASSUME NEW h \in Groups, SpecStep(w, h) \/ NameStep(w, h)
          PROVE  FALSE
      BY <1>3, <3>1 DEF SpecStep, NameStep, TakesName, Updating
    <3> QED
      BY <1>3, <3>1, UpdateParts, HandlerForms, UpdateKeepsSome
  <2>3. ASSUME NEW h \in Groups, WorldStep(h)
        PROVE  members'[g] # {}
    <3>1. members \in MembersType
      BY <1>3, UpdateParts
    <3> QED
      BY <1>3, <2>3, <3>1, WorldEffects DEF NobodyLeaves, Gone
  <2> QED
    BY <1>3, <2>1, <2>2, <2>3 DEF Next, WorkerStep, WorldStep, OneReplica, vars
<1>4. UpdateInv /\ [Next]_vars =>
        [\A w \in Workers, g \in Groups :
           (Updating(w) \/ pc[w] = "remove") /\ members[g] \notin {Gone, {}}
             => members'[g] # {}]_vars
  BY <1>3
<1> QED
  BY <1>1, <1>2, <1>4, PTL DEF Spec, NeverEmptied
=============================================================================
