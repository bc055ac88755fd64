--------------------------- MODULE IamEntity_proofs ---------------------------
(***************************************************************************)
(* Proofs about IamEntity.                                                 *)
(***************************************************************************)
EXTENDS IamEntity, Sequences, ManagedReconciler_proofs

-----------------------------------------------------------------------------
(***************************************************************************)
(* What the clients of the kinds return is well formed                     *)
(***************************************************************************)
LEMMA GroupTypes ==
  ASSUME NEW spec \in Group!SpecType, NEW is \in Group!Content
  PROVE  /\ Group!Created(spec) \in Group!Content
         /\ Group!Updated(spec, is) \in Group!Content
         /\ Group!Edited(is) \subseteq Group!Content
         /\ Group!Observe(spec, is).spec \in Group!SpecType
         /\ spec.kind = "AccessGroup" /\ is.kind = "AccessGroup"
BY DEF Group!SpecType, Group!Content, Group!Created, Group!Updated, Group!Edited,
       Group!Observe, Group!LateInitializeSpec

LEMMA RuleTypes ==
  ASSUME NEW spec \in Rule!SpecType, NEW is \in Rule!Content
  PROVE  /\ spec.group # Unset => Rule!Created(spec) \in Rule!Content
         /\ Rule!Created(spec).group = spec.group
         /\ Rule!Updated(spec, is) \in Rule!Content
         /\ Rule!Updated(spec, is).group = is.group
         /\ Rule!Edited(is) \subseteq Rule!Content
         /\ \A e \in Rule!Edited(is) : e.group = is.group
         /\ Rule!Observe(spec, is).spec = spec
         /\ spec.kind = "AccessGroupRule" /\ is.kind = "AccessGroupRule"
         /\ \A g \in AccessGroups : Rule!Resolved(spec, g) \in Rule!SpecType
BY DEF Rule!SpecType, Rule!Content, Rule!Created, Rule!Updated, Rule!Edited,
       Rule!Observe, Rule!LateInitializeSpec, Rule!Resolved

LEMMA RoleTypes ==
  ASSUME NEW spec \in Role!SpecType, NEW is \in Role!Content
  PROVE  /\ Role!Created(spec) \in Role!Content
         /\ Role!Updated(spec, is) \in Role!Content
         /\ Role!Edited(is) \subseteq Role!Content
         /\ Role!Observe(spec, is).spec \in Role!SpecType
         /\ spec.kind = "CustomRole" /\ is.kind = "CustomRole"
BY DEF Role!SpecType, Role!Content, Role!Created, Role!Updated, Role!Edited,
       Role!Observe, Role!LateInitializeSpec

LEMMA ListElements ==
  ASSUME NEW T, NEW list \in Seq(T)
  PROVE  /\ DOMAIN list = 1..Len(list) /\ Len(list) \in Nat
         /\ \A i \in DOMAIN list : list[i] \in T
OBVIOUS

LEMMA ListOf ==
  ASSUME NEW T, NEW n \in Nat, NEW f \in [1..n -> T]
  PROVE  f \in Seq(T)
OBVIOUS

\* Sending a policy keeps the length of its lists; filling in takes an operator only
\* from an attribute that is there.
LEMMA PolicyTypes ==
  ASSUME NEW spec \in Pol!SpecType, NEW is \in Pol!Content
  PROVE  /\ Pol!Created(spec) \in Pol!Content
         /\ Pol!Updated(spec, is) \in Pol!Content
         /\ Pol!Edited(is) \subseteq Pol!Content
         /\ ~Pol!LateInitPanics(spec, is) => Pol!Observe(spec, is).spec \in Pol!SpecType
         /\ spec.kind = "Policy" /\ is.kind = "Policy"
<1> DEFINE Ops == Operators \cup {Unset}
<1>1. /\ spec.kind = "Policy" /\ spec.roles \in Seq(Roles)
      /\ spec.resource \in Seq([attribute : Attributes, operator : Ops])
      /\ spec.description \in Descriptions \cup {Unset}
  BY DEF Pol!SpecType, Pol!Resource
<1>2. /\ is.kind = "Policy" /\ is.roles \in Seq(Roles)
      /\ is.resource \in Seq([attribute : Attributes, operator : Operators])
      /\ is.description \in Descriptions \cup {Unset}
  BY DEF Pol!Content, Pol!Resource
<1>3. Pol!GenerateSDKRoles(spec.roles) \in Seq(Roles)
  <2>1. /\ DOMAIN spec.roles = 1..Len(spec.roles) /\ Len(spec.roles) \in Nat
        /\ \A i \in DOMAIN spec.roles : spec.roles[i] \in Roles
    BY <1>1, ListElements
  <2>2. Pol!GenerateSDKRoles(spec.roles) \in [1..Len(spec.roles) -> Roles]
    BY <2>1 DEF Pol!GenerateSDKRoles, Pol!Last
  <2> QED
    BY <2>1, <2>2, ListOf
<1>4. Pol!GenerateSDKResources(spec.resource)
        \in Seq([attribute : Attributes, operator : Operators])
  <2>1. /\ DOMAIN spec.resource = 1..Len(spec.resource) /\ Len(spec.resource) \in Nat
        /\ \A i \in DOMAIN spec.resource :
             spec.resource[i] \in [attribute : Attributes, operator : Ops]
    BY <1>1, ListElements
  <2> DEFINE sent == [i \in DOMAIN spec.resource |->
                        [spec.resource[i] EXCEPT !.operator =
                           IF @ = Unset THEN DefaultOperator ELSE @]]
  <2>2. ASSUME NEW i \in DOMAIN spec.resource
        PROVE  sent[i] \in [attribute : Attributes, operator : Operators]
    <3>1. spec.resource[i] \in [attribute : Attributes, operator : Ops]
      BY <2>1
    <3> QED
      BY <3>1, IamAssumption
  <2> HIDE DEF sent
  <2>3. sent \in [1..Len(spec.resource) -> [attribute : Attributes, operator : Operators]]
    BY <2>1, <2>2 DEF sent
  <2>4. Pol!GenerateSDKResources(spec.resource) = sent
    BY DEF Pol!GenerateSDKResources, sent
  <2> QED
    BY <2>1, <2>3, <2>4, ListOf
<1>5. Pol!Created(spec) \in Pol!Content
  BY <1>1, <1>3, <1>4 DEF Pol!Created, Pol!Content, Pol!Resource
<1>6. Pol!Updated(spec, is) \in Pol!Content
  BY <1>2, <1>5 DEF Pol!Updated, Pol!Content
<1>7. Pol!Edited(is) \subseteq Pol!Content
  <2>1. <<>> \in Seq(Roles)
    OBVIOUS
  <2> QED
    BY <2>1 DEF Pol!Edited, Pol!Content
<1>8. ASSUME ~Pol!LateInitPanics(spec, is)
      PROVE  Pol!Observe(spec, is).spec \in Pol!SpecType
  <2>1. /\ DOMAIN spec.resource = 1..Len(spec.resource) /\ Len(spec.resource) \in Nat
        /\ \A i \in DOMAIN spec.resource :
             spec.resource[i] \in [attribute : Attributes, operator : Ops]
    BY <1>1, ListElements
  <2>2. /\ DOMAIN is.resource = 1..Len(is.resource) /\ Len(is.resource) \in Nat
        /\ \A i \in DOMAIN is.resource :
             is.resource[i] \in [attribute : Attributes, operator : Operators]
    BY <1>2, ListElements
  <2> DEFINE filled == Pol!OperatorsFilled(spec.resource, is.resource)
  <2>3. ASSUME NEW i \in DOMAIN spec.resource
        PROVE  filled[i] \in [attribute : Attributes, operator : Ops]
    <3>1. spec.resource[i] \in [attribute : Attributes, operator : Ops]
      BY <2>1
    <3>2. CASE spec.resource[i].operator = Unset
      <4>1. i \in DOMAIN is.resource
        BY <1>8, <2>1, <2>2, <3>2 DEF Pol!LateInitPanics
      <4>2. is.resource[i] \in [attribute : Attributes, operator : Operators]
        BY <2>2, <4>1
      <4> QED
        BY <3>1, <3>2, <4>2 DEF Pol!OperatorsFilled
    <3>3. CASE spec.resource[i].operator # Unset
      BY <3>1, <3>3 DEF Pol!OperatorsFilled
    <3> QED
      BY <3>2, <3>3
  <2>4. filled \in [1..Len(spec.resource) -> [attribute : Attributes, operator : Ops]]
    BY <2>1, <2>3 DEF Pol!OperatorsFilled
  <2>5. filled \in Seq([attribute : Attributes, operator : Ops])
    BY <2>1, <2>4, ListOf
  <2>6. Pol!LateInitializeSpec(spec, is) \in Pol!SpecType
    BY <1>1, <1>2, <2>5 DEF Pol!LateInitializeSpec, Pol!SpecType, Pol!Resource
  <2> QED
    BY <2>6 DEF Pol!Observe
<1> QED
  BY <1>1, <1>2, <1>5, <1>6, <1>7, <1>8

\* What the handlers of IamEntity rely on, of any kind.
LEMMA SpecTypes ==
  ASSUME NEW spec \in SpecType
  PROVE  /\ spec.kind = "AccessGroup" => spec \in Group!SpecType
         /\ spec.kind = "AccessGroupRule" => spec \in Rule!SpecType
         /\ spec.kind = "CustomRole" => spec \in Role!SpecType
         /\ spec.kind = "Policy" => spec \in Pol!SpecType
         /\ spec.kind \in {"AccessGroup", "AccessGroupRule", "CustomRole", "Policy"}
BY DEF SpecType, Group!SpecType, Group!Content, Rule!SpecType, Role!SpecType,
       Role!Content, Pol!SpecType

LEMMA ContentTypes ==
  ASSUME NEW is \in Content
  PROVE  /\ is.kind = "AccessGroup" => is \in Group!Content
         /\ is.kind = "AccessGroupRule" => is \in Rule!Content
         /\ is.kind = "CustomRole" => is \in Role!Content
         /\ is.kind = "Policy" => is \in Pol!Content
         /\ is.kind \in {"AccessGroup", "AccessGroupRule", "CustomRole", "Policy"}
BY DEF Content, Group!Content, Rule!Content, Role!Content, Pol!Content

LEMMA CreatedTypes ==
  ASSUME NEW spec \in SpecType, ~Refers(spec)
  PROVE  /\ Created(spec) \in Content
         /\ SameKind(spec, Created(spec)) /\ SameGroup(spec, Created(spec))
<1>1. CASE spec.kind = "AccessGroup"
  BY <1>1, SpecTypes
     DEF Created, Group!Created, Content, SameKind, SameGroup, Group!SpecType
<1>2. CASE spec.kind = "AccessGroupRule"
  <2>1. spec \in Rule!SpecType /\ spec.group # Unset /\ Created(spec) = spec
    BY <1>2, SpecTypes DEF Created, Rule!Created, Refers
  <2>2. spec \in Rule!Content
    BY <2>1 DEF Rule!SpecType, Rule!Content
  <2> QED
    BY <2>1, <2>2 DEF Content, SameKind, SameGroup
<1>3. CASE spec.kind = "CustomRole"
  BY <1>3, SpecTypes
     DEF Created, Role!Created, Content, SameKind, SameGroup, Role!SpecType
<1>4. CASE spec.kind = "Policy"
  <2>1. Created(spec) = Pol!Created(spec) /\ spec \in Pol!SpecType
    BY <1>4, SpecTypes DEF Created
  <2>2. Pol!Created(spec) \in Pol!Content /\ Pol!Created(spec).kind = "Policy"
    <3>1. <<>> \in Seq(Roles) /\ <<>> \in Pol!Resource(Operators)
      BY DEF Pol!Resource
    <3>2. PICK is : is = [kind |-> "Policy", roles |-> <<>>, resource |-> <<>>,
                          description |-> Unset]
      OBVIOUS
    <3>3. is \in Pol!Content
      BY <3>1, <3>2 DEF Pol!Content
    <3>4. Pol!Created(spec) \in Pol!Content
      BY <2>1, <3>3, PolicyTypes
    <3> QED
      BY <3>4 DEF Pol!Content
  <2> QED
    BY <1>4, <2>1, <2>2 DEF Content, SameKind, SameGroup
<1> QED
  BY <1>1, <1>2, <1>3, <1>4, SpecTypes

LEMMA UpdatedTypes ==
  ASSUME NEW spec \in SpecType, NEW is \in Content, SameKind(spec, is)
  PROVE  /\ Updated(spec, is) \in Content
         /\ SameKind(is, Updated(spec, is)) /\ SameGroup(is, Updated(spec, is))
<1>1. CASE spec.kind = "AccessGroup"
  <2>1. Updated(spec, is) = Group!Updated(spec, is) /\ is.kind = "AccessGroup"
    BY <1>1 DEF Updated, SameKind
  <2>2. Group!Updated(spec, is) \in Group!Content
    BY <1>1, <2>1, SpecTypes, ContentTypes, GroupTypes
  <2> QED
    BY <2>1, <2>2 DEF Content, SameKind, SameGroup, Group!Content
<1>2. CASE spec.kind = "AccessGroupRule"
  <2>1. Updated(spec, is) = Rule!Updated(spec, is) /\ is.kind = "AccessGroupRule"
    BY <1>2 DEF Updated, SameKind
  <2>2. Rule!Updated(spec, is) \in Rule!Content /\ Rule!Updated(spec, is).group = is.group
    BY <1>2, <2>1, SpecTypes, ContentTypes, RuleTypes
  <2> QED
    BY <2>1, <2>2 DEF Content, SameKind, SameGroup, Rule!Content
<1>3. CASE spec.kind = "CustomRole"
  <2>1. Updated(spec, is) = Role!Updated(spec, is) /\ is.kind = "CustomRole"
    BY <1>3 DEF Updated, SameKind
  <2>2. Role!Updated(spec, is) \in Role!Content
    BY <1>3, <2>1, SpecTypes, ContentTypes, RoleTypes
  <2> QED
    BY <2>1, <2>2 DEF Content, SameKind, SameGroup, Role!Content
<1>4. CASE spec.kind = "Policy"
  <2>1. Updated(spec, is) = Pol!Updated(spec, is) /\ is.kind = "Policy"
    BY <1>4 DEF Updated, SameKind
  <2>2. Pol!Updated(spec, is) \in Pol!Content
    BY <1>4, <2>1, SpecTypes, ContentTypes, PolicyTypes
  <2> QED
    BY <2>1, <2>2 DEF Content, SameKind, SameGroup, Pol!Content
<1> QED
  BY <1>1, <1>2, <1>3, <1>4, SpecTypes

LEMMA EditedTypes ==
  ASSUME NEW is \in Content, NEW e \in Edited(is)
  PROVE  e \in Content /\ SameKind(is, e) /\ SameGroup(is, e)
<1>1. CASE is.kind = "AccessGroup"
  BY <1>1, ContentTypes
     DEF Edited, Group!Edited, Group!Content, Content, SameKind, SameGroup
<1>2. CASE is.kind = "AccessGroupRule"
  BY <1>2, ContentTypes
     DEF Edited, Rule!Edited, Rule!Content, Content, SameKind, SameGroup
<1>3. CASE is.kind = "CustomRole"
  BY <1>3, ContentTypes
     DEF Edited, Role!Edited, Role!Content, Content, SameKind, SameGroup
<1>4. CASE is.kind = "Policy"
  <2>1. is \in Pol!Content /\ e \in Pol!Edited(is)
    BY <1>4, ContentTypes DEF Edited
  <2>2. <<>> \in Seq(Roles)
    OBVIOUS
  <2>3. e \in Pol!Content
    BY <2>1, <2>2 DEF Pol!Edited, Pol!Content
  <2> QED
    BY <1>4, <2>3 DEF Content, SameKind, SameGroup, Pol!Content
<1> QED
  BY <1>1, <1>2, <1>3, <1>4, ContentTypes

LEMMA ObservedTypes ==
  ASSUME NEW spec \in SpecType, NEW is \in Content, SameKind(spec, is),
         ~LateInitPanics(spec, is)
  PROVE  /\ Observe(spec, is).spec \in SpecType
         /\ SameKind(spec, Observe(spec, is).spec)
         /\ spec.kind = "AccessGroupRule" => Observe(spec, is).spec = spec
<1>1. CASE spec.kind = "AccessGroup"
  <2>1. Observe(spec, is) = Group!Observe(spec, is) /\ is.kind = "AccessGroup"
    BY <1>1 DEF Observe, SameKind
  <2>2. Group!Observe(spec, is).spec \in Group!SpecType
    BY <1>1, <2>1, SpecTypes, ContentTypes, GroupTypes
  <2> QED
    BY <1>1, <2>1, <2>2 DEF SpecType, SameKind, Group!SpecType, Group!Content
<1>2. CASE spec.kind = "AccessGroupRule"
  <2>1. Observe(spec, is) = Rule!Observe(spec, is) /\ is.kind = "AccessGroupRule"
    BY <1>2 DEF Observe, SameKind
  <2>2. Rule!Observe(spec, is).spec = spec
    BY <1>2, <2>1, SpecTypes, ContentTypes, RuleTypes
  <2> QED
    BY <2>1, <2>2 DEF SameKind
<1>3. CASE spec.kind = "CustomRole"
  <2>1. Observe(spec, is) = Role!Observe(spec, is) /\ is.kind = "CustomRole"
    BY <1>3 DEF Observe, SameKind
  <2>2. Role!Observe(spec, is).spec \in Role!SpecType
    BY <1>3, <2>1, SpecTypes, ContentTypes, RoleTypes
  <2> QED
    BY <1>3, <2>1, <2>2 DEF SpecType, SameKind, Role!SpecType, Role!Content
<1>4. CASE spec.kind = "Policy"
  <2>1. /\ Observe(spec, is) = Pol!Observe(spec, is) /\ is.kind = "Policy"
        /\ ~Pol!LateInitPanics(spec, is)
    BY <1>4 DEF Observe, SameKind, LateInitPanics
  <2>2. Pol!Observe(spec, is).spec \in Pol!SpecType
    BY <1>4, <2>1, SpecTypes, ContentTypes, PolicyTypes
  <2> QED
    BY <1>4, <2>1, <2>2 DEF SpecType, SameKind, Pol!SpecType
<1> QED
  BY <1>1, <1>2, <1>3, <1>4, SpecTypes

LEMMA ResolvedTypes ==
  ASSUME NEW spec \in SpecType, Refers(spec), NEW g \in AccessGroups
  PROVE  /\ Resolved(spec, g) \in SpecType /\ SameKind(spec, Resolved(spec, g))
         /\ Resolved(spec, g).group = g
<1>1. spec \in Rule!SpecType
  BY SpecTypes DEF Refers
<1>2. /\ Resolved(spec, g) \in Rule!SpecType /\ Resolved(spec, g).group = g
      /\ Resolved(spec, g).kind = spec.kind
  BY <1>1 DEF Resolved, Rule!Resolved, Rule!SpecType
<1> QED
  BY <1>2 DEF SpecType, SameKind

-----------------------------------------------------------------------------
(***************************************************************************)
(* Steps of the handlers, by what they do to the CR and to the entity      *)
(***************************************************************************)
KindPhases == ReconcilerPhases \cup {"compare"}

\* What a GET that found something returned.
Seen == [match : BOOLEAN, is : Content]

\* TypeOK in the terms of the loop's lemmas.
LEMMA TypeParts ==
  /\ TypeOK => LoopType(SpecType, KindPhases)
  /\ UserSpecs \subseteq SpecType /\ ReconcilerPhases \subseteq KindPhases
BY IamAssumption DEF TypeOK, LoopType, KindPhases

LEMMA PastGet ==
  ASSUME TypeOK, NEW w \in Workers, pc[w] \in {"compare", "current", "outdated"}
  PROVE  Id(w) \in Names /\ seen[w] \in Seen /\ seen[w].is \in Content
BY DEF TypeOK, Seen

\* A handler that does no more to the CR than to w's memory of its status.
TouchStep(w, p) ==
  /\ Touches(w, p)
  /\ \/ pc[w] = "observe" /\ p \in {"compare", "absent", "finish"}
     \/ pc[w] = "compare" /\ p \in {"current", "outdated", "finish"}
     \/ pc[w] = "create" /\ p \in {"created", "createFailed"}
     \/ pc[w] \in {"current", "outdated"} /\ p = "finish"

\* One that writes a spec, from Observe or from the resolution before it.
SpecStep(w, s, r, p) ==
  /\ SpecWritten(w, s, r, p)
  /\ UNCHANGED <<faults, edits, entity, seen>>
  /\ \/ /\ pc[w] = "observe" /\ p = "observe" /\ ~mem[w].obj.deleting
        /\ Refers(mem[w].obj.spec)
        /\ \E g \in AccessGroups : s = Resolved(mem[w].obj.spec, g)
     \/ /\ pc[w] = "compare" /\ p \in {"current", "outdated"}
        /\ ~LateInitPanics(mem[w].obj.spec, seen[w].is)
        /\ s = Observe(mem[w].obj.spec, seen[w].is).spec

\* What a touching handler does to the entities and to what was seen of them.
Gets(w, p) ==
  /\ p = "compare" /\ UNCHANGED entity
  /\ Live(Id(w)) /\ Reaches(mem[w].obj.spec, entity[Id(w)].is)
  /\ mem[w].obj.deleting \/ ~Refers(mem[w].obj.spec)
  /\ seen' = [seen EXCEPT ![w] = Tagged(entity[Id(w)].is)]

GetsNothing(w, p) ==
  /\ p = "absent" /\ UNCHANGED <<entity, seen>>
  /\ mem[w].obj.deleting \/ ~Refers(mem[w].obj.spec)
  /\ \/ ~(Live(Id(w)) /\ Reaches(mem[w].obj.spec, entity[Id(w)].is))
     \/ "misread" \in FaultKinds

Leaves(w, p) ==
  /\ UNCHANGED <<entity, seen>>
  /\ p \notin {"compare", "absent"}
  /\ pc[w] # "compare" => p \notin {"current", "outdated"}

\* The entity n after a write by the handlers of w or by somebody else.
Loses(w, p, n) ==
  /\ pc[w] = "create" /\ p = "createFailed" /\ "lost" \in FaultKinds
  /\ n \in Names /\ entity[n] = Unknown
  /\ Write(n, [state |-> "live", is |-> Created(mem[w].obj.spec)])

Replaces(w, p, n) ==
  /\ pc[w] = "outdated" /\ p = "finish" /\ ~mem[w].obj.deleting
  /\ n = Id(w) /\ Live(n) /\ seen[w].match
  /\ Write(n, [state |-> "live", is |-> Updated(mem[w].obj.spec, entity[n].is)])

TakesDown(w, p, n) ==
  /\ pc[w] \in {"current", "outdated"} /\ p = "finish" /\ mem[w].obj.deleting
  /\ n = Id(w) /\ Live(n) /\ Write(n, Deleted)

CloudStep(w, p) ==
  \/ Gets(w, p) \/ GetsNothing(w, p) \/ Leaves(w, p)
  \/ \E n \in Names : Loses(w, p, n) \/ Replaces(w, p, n) \/ TakesDown(w, p, n)

\* Create, and the panic in Observe.
NameStep(w, n) ==
  /\ TakesName(w, n) /\ entity[n] = Unknown
  /\ Write(n, [state |-> "live", is |-> Created(mem[w].obj.spec)])
  /\ UNCHANGED <<faults, edits>>

PanicStep(w) ==
  /\ UNCHANGED <<cr, cache, entity, faults, edits>>
  /\ pc[w] = "compare" /\ pc' = [pc EXCEPT ![w] = "idle"]
  /\ mem' = [mem EXCEPT ![w] = NoCopy]
  /\ seen' = [seen EXCEPT ![w] = NotSeen]

LEMMA TouchesReady ==
  ASSUME NEW w \in Workers, NEW p, UNCHANGED <<cr, cache>>, pc' = [pc EXCEPT ![w] = p],
         UNCHANGED mem \/ NotReady(w) \/ mem' = [mem EXCEPT ![w].obj.ready = TRUE]
  PROVE  Touches(w, p)
BY DEF Touches, NotReady

\* Every step of a handler is of one of these forms.
LEMMA HandlerForms ==
  ASSUME TypeOK, KindsRight, NEW w \in Workers, ExternalStep(w) \/ ExternalFault(w)
  PROVE  /\ faults' \in Nat /\ edits' \in Nat
         /\ \/ \E p \in KindPhases : TouchStep(w, p) /\ CloudStep(w, p)
            \/ \E s \in SpecType, r \in BOOLEAN, p \in KindPhases : SpecStep(w, s, r, p)
            \/ \E n \in Names : NameStep(w, n)
            \/ PanicStep(w)
<1> DEFINE Goal == /\ faults' \in Nat /\ edits' \in Nat
                   /\ \/ \E p \in KindPhases : TouchStep(w, p) /\ CloudStep(w, p)
                      \/ \E s \in SpecType, r \in BOOLEAN, p \in KindPhases : SpecStep(w, s, r, p)
                      \/ \E n \in Names : NameStep(w, n)
                      \/ PanicStep(w)
<1>0. {"observe", "absent", "compare", "current", "outdated", "create", "created",
       "createFailed", "finish", "idle"} \subseteq KindPhases
  BY DEF KindPhases, ReconcilerPhases
<1>1. LoopType(SpecType, KindPhases) /\ mem[w].obj \in Objects(SpecType)
      /\ Sent(w) \in Objects(SpecType) /\ Same(Sent(w), mem[w].obj)
  BY TypeParts, LoopSentType
<1>2. mem[w].obj.spec \in SpecType /\ Sent(w).spec = mem[w].obj.spec
      /\ mem[w].obj.ready \in BOOLEAN
  BY <1>1 DEF Objects, Same
<1>3. faults \in Nat /\ edits \in Nat
  BY DEF TypeOK
<1> HIDE DEF Goal
<1>4. CASE Resolve(w)
  <2>1. PICK g \in AccessGroups :
          ClientUpdate(w, [Sent(w) EXCEPT !.spec = Resolved(@, g)], "observe")
    BY <1>4 DEF Resolve
  <2> DEFINE s == Resolved(mem[w].obj.spec, g)
             o == [Sent(w) EXCEPT !.spec = s]
  <2>2. Refers(mem[w].obj.spec) /\ s \in SpecType
    BY <1>2, <1>4, ResolvedTypes DEF Resolve
  <2>3. o \in Objects(SpecType) /\ [o EXCEPT !.ready = o.ready] = o /\ o.ready \in BOOLEAN
        /\ ClientUpdate(w, o, "observe")
    BY <1>1, <1>2, <2>1, <2>2 DEF Objects
  <2>4. CASE mem[w].fresh
    <3>1. SpecWritten(w, s, o.ready, "observe")
      <4>1. Put(w, o, [obj |-> o, fresh |-> TRUE]) /\ pc' = [pc EXCEPT ![w] = "observe"]
        BY <2>3, <2>4 DEF ClientUpdate, Go
      <4> QED
        BY <2>3, <2>4, <4>1 DEF SpecWritten
    <3>2. SpecStep(w, s, o.ready, "observe")
      BY <1>4, <3>1 DEF Resolve, SpecStep
    <3> QED
      BY <1>0, <1>3, <1>4, <2>2, <2>3, <3>2 DEF Resolve, Goal
  <2>5. CASE ~mem[w].fresh
    <3>1. UNCHANGED <<cr, cache, mem>> /\ pc' = [pc EXCEPT ![w] = "finish"]
      BY <2>3, <2>5 DEF ClientUpdate, Go
    <3>2. TouchStep(w, "finish") /\ CloudStep(w, "finish")
      BY <1>4, <3>1, TouchesReady DEF Resolve, TouchStep, CloudStep, Leaves
    <3> QED
      BY <1>0, <1>3, <1>4, <3>2 DEF Resolve, Goal
  <2> QED
    BY <2>4, <2>5
<1>5. CASE ObserveGet(w)
  <2>1. CASE Live(Id(w)) /\ Reaches(mem[w].obj.spec, entity[Id(w)].is)
    <3>1. TouchStep(w, "compare") /\ Gets(w, "compare")
      BY <1>5, <2>1, TouchesReady DEF ObserveGet, Observing, Go, TouchStep, Gets
    <3> QED
      BY <1>0, <1>3, <1>5, <3>1 DEF ObserveGet, CloudStep, Goal
  <2>2. CASE ~(Live(Id(w)) /\ Reaches(mem[w].obj.spec, entity[Id(w)].is))
    <3>1. TouchStep(w, "absent") /\ GetsNothing(w, "absent")
      BY <1>5, <2>2, TouchesReady DEF ObserveGet, Observing, Go, TouchStep, GetsNothing
    <3> QED
      BY <1>0, <1>3, <1>5, <3>1 DEF ObserveGet, CloudStep, Goal
  <2> QED
    BY <2>1, <2>2
<1>6. CASE ObserveMisread(w)
  <2>1. TouchStep(w, "absent") /\ GetsNothing(w, "absent")
    BY <1>6, TouchesReady DEF ObserveMisread, Observing, Fault, Go, TouchStep, GetsNothing
  <2> QED
    BY <1>0, <1>3, <1>6, <2>1 DEF ObserveMisread, Fault, CloudStep, Goal
<1>7. CASE ResolveFails(w) \/ ObserveFails(w) \/ UpdateFails(w) \/ DeleteFails(w)
  <2>1. TouchStep(w, "finish")
    BY <1>7, TouchesReady
       DEF ResolveFails, ObserveFails, UpdateFails, DeleteFails, Observing, Updating, Go,
           TouchStep
  <2>2. Leaves(w, "finish")
    BY <1>7
       DEF ResolveFails, ObserveFails, UpdateFails, DeleteFails, Leaves
  <2>3. faults' \in Nat /\ edits' \in Nat
    BY <1>3, <1>7 DEF ResolveFails, ObserveFails, UpdateFails, DeleteFails, Fault
  <2> QED
    BY <1>0, <2>1, <2>2, <2>3 DEF CloudStep, Goal
<1>8. CASE ObserveCompare(w)
  <2> DEFINE spec == Observe(mem[w].obj.spec, seen[w].is).spec
             o == [Sent(w) EXCEPT !.spec = spec]
             c == [obj |-> [o EXCEPT !.ready = TRUE], fresh |-> TRUE]
  <2>1. /\ pc[w] = "compare" /\ ~LateInitPanics(mem[w].obj.spec, seen[w].is)
        /\ UNCHANGED <<faults, edits, entity, seen>>
    BY <1>8 DEF ObserveCompare
  <2>2. PICK p \in {"current", "outdated"} :
          \/ /\ spec = mem[w].obj.spec
             /\ mem' = [mem EXCEPT ![w].obj.ready = TRUE]
             /\ Go(w, p)
             /\ UNCHANGED <<cr, cache>>
          \/ /\ spec # mem[w].obj.spec /\ mem[w].fresh
             /\ Put(w, o, c)
             /\ Go(w, p)
          \/ /\ spec # mem[w].obj.spec /\ ~mem[w].fresh
             /\ Go(w, "finish")
             /\ UNCHANGED <<cr, cache, mem>>
    BY <1>8 DEF ObserveCompare
  <2>3. CASE spec = mem[w].obj.spec /\ Go(w, p) /\ UNCHANGED <<cr, cache>>
             /\ mem' = [mem EXCEPT ![w].obj.ready = TRUE]
    <3>1. TouchStep(w, p) /\ Leaves(w, p)
      BY <2>1, <2>3, TouchesReady DEF Go, TouchStep, Leaves
    <3> QED
      BY <1>0, <1>3, <2>1, <3>1 DEF CloudStep, Goal
  <2>4. CASE ~mem[w].fresh /\ Go(w, "finish") /\ UNCHANGED <<cr, cache, mem>>
    <3>1. TouchStep(w, "finish") /\ Leaves(w, "finish")
      BY <2>1, <2>4, TouchesReady DEF Go, TouchStep, Leaves
    <3> QED
      BY <1>0, <1>3, <2>1, <3>1 DEF CloudStep, Goal
  <2>5. CASE mem[w].fresh /\ Put(w, o, c) /\ Go(w, p)
    <3>1. SpecWritten(w, spec, TRUE, p)
      BY <2>5 DEF SpecWritten, Go
    <3>2. SpecStep(w, spec, TRUE, p)
      BY <2>1, <3>1 DEF SpecStep
    <3>3. spec \in SpecType
      <4>1. SameKind(mem[w].obj.spec, seen[w].is) /\ seen[w].is \in Content
        BY <2>1, PastGet DEF KindsRight
      <4> QED
        BY <1>2, <2>1, <4>1, ObservedTypes
    <3> QED
      BY <1>0, <1>3, <2>1, <3>2, <3>3 DEF Goal
  <2> QED
    BY <2>2, <2>3, <2>4, <2>5
<1>9. CASE ObservePanics(w)
  <2>1. PanicStep(w)
    BY <1>9 DEF ObservePanics, PanicStep, Go
  <2> QED
    BY <1>3, <2>1 DEF PanicStep, Goal
<1>10. CASE Create(w)
  <2>1. PICK n \in Names : NameStep(w, n)
    BY <1>10 DEF Create, NameStep, TakesName, Go
  <2> QED
    BY <1>3, <2>1 DEF NameStep, Goal
<1>11. CASE CreateFails(w)
  <2>1. PICK p \in {"created", "createFailed"} : TouchStep(w, p) /\ Leaves(w, p)
    BY <1>11, TouchesReady DEF CreateFails, Go, TouchStep, Leaves
  <2> QED
    BY <1>0, <1>3, <1>11, <2>1 DEF CreateFails, Fault, CloudStep, Goal
<1>12. CASE CreateLost(w)
  <2>1. PICK n \in Names : Loses(w, "createFailed", n)
    BY <1>12 DEF CreateLost, Fault, Loses
  <2>2. TouchStep(w, "createFailed")
    BY <1>12, TouchesReady DEF CreateLost, Go, TouchStep
  <2> QED
    BY <1>0, <1>3, <1>12, <2>1, <2>2 DEF CreateLost, Fault, CloudStep, Goal
<1>13. CASE Update(w)
  <2>1. TouchStep(w, "finish")
    BY <1>13, TouchesReady DEF Update, Updating, Go, TouchStep
  <2>2. CASE Live(Id(w)) /\ seen[w].match
    <3>1. Replaces(w, "finish", Id(w)) /\ Id(w) \in Names
      <4>1. Id(w) \in Names
        BY <1>13, PastGet DEF Update, Updating
      <4> QED
        BY <1>13, <2>2, <4>1 DEF Update, Updating, Replaces
    <3> QED
      BY <1>0, <1>3, <1>13, <2>1, <3>1 DEF Update, CloudStep, Goal
  <2>3. CASE ~(Live(Id(w)) /\ seen[w].match)
    <3>1. Leaves(w, "finish")
      BY <1>13, <2>3 DEF Update, Leaves
    <3> QED
      BY <1>0, <1>3, <1>13, <2>1, <3>1 DEF Update, CloudStep, Goal
  <2> QED
    BY <2>2, <2>3
<1>14. CASE Delete(w)
  <2>1. TouchStep(w, "finish")
    BY <1>14, TouchesReady DEF Delete, Go, TouchStep
  <2>2. CASE Live(Id(w))
    <3>1. TakesDown(w, "finish", Id(w)) /\ Id(w) \in Names
      <4>1. Id(w) \in Names
        BY <1>14, PastGet DEF Delete
      <4> QED
        BY <1>14, <2>2, <4>1 DEF Delete, TakesDown
    <3> QED
      BY <1>0, <1>3, <1>14, <2>1, <3>1 DEF Delete, CloudStep, Goal
  <2>3. CASE ~Live(Id(w))
    <3>1. Leaves(w, "finish")
      BY <1>14, <2>3 DEF Delete, Leaves
    <3> QED
      BY <1>0, <1>3, <1>14, <2>1, <3>1 DEF Delete, CloudStep, Goal
  <2> QED
    BY <2>2, <2>3
<1> QED
  BY <1>4, <1>5, <1>6, <1>7, <1>8, <1>9, <1>10, <1>11, <1>12, <1>13, <1>14
     DEF ExternalStep, ExternalFault, Goal

-----------------------------------------------------------------------------
(***************************************************************************)
(* What a step may do to the entities and to what passes have seen         *)
(***************************************************************************)
\* IDs are not given back, and an entity keeps its kind and its group.
Evolves ==
  \A n \in Names :
    /\ entity[n] # Unknown => entity'[n] # Unknown
    /\ entity'[n].state = "live" =>
         \/ entity[n] = Unknown
         \/ /\ entity[n].state = "live"
            /\ SameKind(entity[n].is, entity'[n].is) /\ SameGroup(entity[n].is, entity'[n].is)

\* Worker v remembers the same entity, and its ETag does not match a changed one.
Remembers(v) ==
  /\ seen'[v] = seen[v] \/ seen'[v] = [seen[v] EXCEPT !.match = FALSE]
  /\ seen'[v].match /\ Id(v) \in Names => entity'[Id(v)] = entity[Id(v)]

EntityTypes == entity \in [Names -> Entities] /\ seen \in [Workers -> {NotSeen} \cup Seen]

LEMMA SeenTypes ==
  /\ NotSeen \notin Seen /\ ~NotSeen.match
  /\ \A s \in Seen : /\ [s EXCEPT !.match = FALSE] \in Seen
                     /\ [s EXCEPT !.match = FALSE].is = s.is
                     /\ ~[s EXCEPT !.match = FALSE].match
  /\ [NotSeen EXCEPT !.match = FALSE] = NotSeen
  /\ \A is \in Content : Tagged(is) \in Seen /\ Tagged(is).is = is
<1>1. NotSeen \notin Seen
  <2>1. DOMAIN NotSeen = {"match"}
    BY DEF NotSeen
  <2>2. \A s \in Seen : "is" \in DOMAIN s
    BY DEF Seen
  <2> QED
    BY <2>1, <2>2
<1>2. ~NotSeen.match /\ [NotSeen EXCEPT !.match = FALSE] = NotSeen
  <2>1. NotSeen \in [match : BOOLEAN] /\ NotSeen.match = FALSE
    BY DEF NotSeen
  <2> QED
    BY <2>1
<1>3. \A s \in Seen : /\ [s EXCEPT !.match = FALSE] \in Seen
                      /\ [s EXCEPT !.match = FALSE].is = s.is
                      /\ ~[s EXCEPT !.match = FALSE].match
  BY DEF Seen
<1>4. \A is \in Content : Tagged(is) \in Seen /\ Tagged(is).is = is
  BY DEF Seen, Tagged
<1> QED
  BY <1>1, <1>2, <1>3, <1>4

LEMMA EntityStates ==
  /\ Unknown.state = "unknown" /\ Deleted.state = "deleted"
  /\ Unknown \in Entities /\ Deleted \in Entities
  /\ \A e \in Entities : e.state = "live" => e.is \in Content
  /\ \A is \in Content : /\ [state |-> "live", is |-> is] \in Entities
                         /\ [state |-> "live", is |-> is].state = "live"
                         /\ [state |-> "live", is |-> is].is = is
BY DEF Entities, Unknown, Deleted

\* Nothing happens to the entities.
LEMMA EntitiesKept ==
  ASSUME TypeOK, UNCHANGED <<entity, seen>>
  PROVE  EntityTypes' /\ Evolves /\ \A v \in Workers : Remembers(v)
<1>1. entity \in [Names -> Entities] /\ seen \in [Workers -> {NotSeen} \cup Seen]
  BY DEF TypeOK, Seen
<1>2. \A n \in Names : entity[n].state = "live" \/ entity[n] = Unknown \/ entity[n] = Deleted
  BY <1>1 DEF Entities
<1> QED
  BY <1>1, <1>2, EntityStates DEF EntityTypes, Evolves, Remembers, SameKind, SameGroup

\* One entity is written, by whomever.
LEMMA EntityWritten ==
  ASSUME TypeOK, NEW n \in Names, NEW e \in Entities, e # Unknown, Write(n, e),
         e.state = "live" =>
           \/ entity[n] = Unknown
           \/ entity[n].state = "live" /\ SameKind(entity[n].is, e.is) /\ SameGroup(entity[n].is, e.is)
  PROVE  /\ EntityTypes' /\ Evolves /\ \A v \in Workers : Remembers(v)
         /\ entity'[n] = e /\ \A m \in Names \ {n} : entity'[m] = entity[m]
<1>1. entity \in [Names -> Entities] /\ seen \in [Workers -> {NotSeen} \cup Seen]
  BY DEF TypeOK, Seen
<1>2. \A m \in Names : entity[m].state = "live" \/ entity[m] = Unknown \/ entity[m] = Deleted
  BY <1>1 DEF Entities
<1>3. /\ entity' \in [Names -> Entities] /\ entity'[n] = e
      /\ \A m \in Names \ {n} : entity'[m] = entity[m]
  BY <1>1 DEF Write
<1>4. Evolves
  BY <1>2, <1>3, EntityStates DEF Evolves, SameKind, SameGroup
<1>5. ASSUME NEW v \in Workers
      PROVE  /\ seen'[v] \in {NotSeen} \cup Seen
             /\ \/ seen'[v] = seen[v] /\ Id(v) # n
                \/ seen'[v] = [seen[v] EXCEPT !.match = FALSE] /\ ~seen'[v].match
  <2>1. seen'[v] = IF Id(v) = n THEN [seen[v] EXCEPT !.match = FALSE] ELSE seen[v]
    BY DEF Write
  <2>2. seen[v] = NotSeen \/ seen[v] \in Seen
    BY <1>1
  <2> QED
    BY <2>1, <2>2, SeenTypes
<1>6. seen' \in [Workers -> {NotSeen} \cup Seen]
  BY <1>5 DEF Write
<1>7. \A v \in Workers : Remembers(v)
  <2> SUFFICES ASSUME NEW v \in Workers PROVE Remembers(v)
    OBVIOUS
  <2> QED
    BY <1>3, <1>5 DEF Remembers
<1> QED
  BY <1>3, <1>4, <1>6, <1>7 DEF EntityTypes

\* A worker whose pass is over forgets.
LEMMA Forgotten ==
  ASSUME TypeOK, UNCHANGED entity, Forget
  PROVE  EntityTypes' /\ Evolves /\ \A v \in Workers : pc'[v] # "idle" => Remembers(v)
<1>1. entity \in [Names -> Entities] /\ seen \in [Workers -> {NotSeen} \cup Seen]
  BY DEF TypeOK, Seen
<1>2. \A n \in Names : entity[n].state = "live" \/ entity[n] = Unknown \/ entity[n] = Deleted
  BY <1>1 DEF Entities
<1>3. seen' \in [Workers -> {NotSeen} \cup Seen]
  BY <1>1 DEF Forget
<1>4. \A v \in Workers : pc'[v] # "idle" => seen'[v] = seen[v]
  BY DEF Forget
<1> QED
  BY <1>1, <1>2, <1>3, <1>4, EntityStates
     DEF EntityTypes, Evolves, Remembers, SameKind, SameGroup

-----------------------------------------------------------------------------
(***************************************************************************)
(* BaseInv, by parts: what holds whatever the cloud's replies are worth    *)
(***************************************************************************)
\* What BaseInv says of the pass of w.
PassRight(w) ==
  /\ Creating(w) => SameKind(mem[w].obj.spec, cr.spec)
  /\ pc[w] \in {"compare", "current", "outdated"} =>
       /\ Id(w) \in Names /\ seen[w] \in Seen /\ SameKind(mem[w].obj.spec, seen[w].is)
       /\ seen[w].match /\ Live(Id(w)) => entity[Id(w)].is = seen[w].is
  /\ pc[w] \in {"absent", "compare", "current", "outdated", "create"} =>
       mem[w].obj.deleting \/ ~Refers(mem[w].obj.spec)

LEMMA BaseParts ==
  ASSUME BaseInv
  PROVE  /\ TypeOK /\ KindsRight
         /\ LoopType(SpecType, KindPhases) /\ EntityTypes
         /\ LoopInv({}) /\ FreshIsCurrent /\ CopiesInv({}, Given)
         /\ KindRight(cr)
         /\ \A w \in Workers : /\ KindRight(mem[w].obj) /\ KindRight(cache[w].obj)
                               /\ PassRight(w)
<1>1. TypeOK /\ KindsRight /\ LoopInv({}) /\ CopiesInv({}, Given)
  BY DEF BaseInv
<1>2. LoopType(SpecType, KindPhases) /\ EntityTypes /\ FreshIsCurrent
  BY <1>1, TypeParts DEF TypeOK, EntityTypes, Seen, LoopInv
<1>3. \A w \in Workers : PassRight(w)
  <2> SUFFICES ASSUME NEW w \in Workers PROVE PassRight(w)
    OBVIOUS
  <2>1. pc[w] \in {"compare", "current", "outdated"} => Id(w) \in Names /\ seen[w] \in Seen
    BY <1>1, PastGet
  <2> QED
    BY <1>1, <2>1 DEF BaseInv, KindsRight, SeenRight, PassRight
<1> QED
  BY <1>1, <1>2, <1>3 DEF KindsRight

LEMMA BaseNext ==
  ASSUME LoopType(SpecType, KindPhases)', EntityTypes', LoopInv({})',
         CopiesInv({}, Given)', KindRight(cr)',
         \A w \in Workers : /\ KindRight(mem[w].obj)' /\ KindRight(cache[w].obj)'
                            /\ PassRight(w)'
  PROVE  BaseInv'
<1>1. TypeOK'
  BY SeenTypes DEF LoopType, EntityTypes, PassRight, TypeOK, KindPhases, Seen
<1>2. KindsRight'
  BY DEF KindsRight, PassRight
<1>3. SeenRight'
  BY DEF SeenRight, PassRight
<1> QED
  BY <1>1, <1>2, <1>3 DEF BaseInv

\* A copy after a step that says of kind and name what one said before it.
LEMMA CopyKind ==
  ASSUME BaseInv, Evolves, NEW o, NEW p,
         p = cr \/ \E v \in Workers : p = mem[v].obj \/ p = cache[v].obj,
         o.extName = p.extName, o.spec.kind = p.spec.kind
  PROVE  o.extName \in Alive' => o.spec.kind = entity'[o.extName].is.kind
<1>1. p.extName \in Given \cup {NoName} /\ KindRight(p)
  BY BaseParts DEF CopiesInv
<1> SUFFICES ASSUME o.extName \in Alive'
             PROVE  o.spec.kind = entity'[o.extName].is.kind
  OBVIOUS
<1>2. /\ o.extName \in Names /\ o.extName # NoName
      /\ entity'[o.extName].state = "live"
  BY DEF Alive, Live
<1>3. entity[o.extName] # Unknown
  BY <1>1, <1>2 DEF Given
<1> QED
  BY <1>1, <1>2, <1>3 DEF Evolves, KindRight, Alive, Live, SameKind

\* The names that copies may have, after a step.
LEMMA GivenGrows ==
  ASSUME Evolves, NEW L, NEW M, M \subseteq L, NEW G, G \subseteq Given,
         CopiesInv(L, G)'
  PROVE  CopiesInv(M, Given)'
<1>1. G \subseteq Given'
  BY DEF Evolves, Given
<1> QED
  BY <1>1 DEF CopiesInv, CopyRight

\* A pass that the step does not run.
LEMMA OtherPass ==
  ASSUME BaseInv, Evolves, NEW v \in Workers,
         pc'[v] = pc[v], Same(mem'[v].obj, mem[v].obj),
         pc[v] # "idle" => Remembers(v),
         Creating(v) => SameKind(cr.spec, cr'.spec)
  PROVE  PassRight(v)'
<1>1. PassRight(v)
  BY BaseParts
<1>2. Id(v)' = Id(v) /\ mem'[v].obj.spec = mem[v].obj.spec
      /\ mem'[v].obj.deleting = mem[v].obj.deleting
  BY DEF Same, Id
<1>3. Creating(v)' => SameKind(mem'[v].obj.spec, cr'.spec)
  BY <1>1, <1>2 DEF PassRight, Creating, SameKind
<1>4. ASSUME pc[v] \in {"compare", "current", "outdated"}
      PROVE  /\ Id(v)' \in Names /\ seen'[v] \in Seen
             /\ SameKind(mem'[v].obj.spec, seen'[v].is)
             /\ seen'[v].match /\ Live(Id(v))' => entity'[Id(v)'].is = seen'[v].is
  <2>1. /\ seen[v] \in Seen /\ Remembers(v) /\ Id(v) \in Names
        /\ SameKind(mem[v].obj.spec, seen[v].is)
        /\ seen[v].match /\ Live(Id(v)) => entity[Id(v)].is = seen[v].is
    BY <1>1, <1>4 DEF PassRight
  <2>2. seen'[v] \in Seen /\ seen'[v].is = seen[v].is /\ (seen'[v].match => seen[v].match)
    BY <2>1, SeenTypes DEF Remembers
  <2>3. seen'[v].match => entity'[Id(v)] = entity[Id(v)]
    BY <2>1 DEF Remembers
  <2> QED
    BY <1>2, <2>1, <2>2, <2>3 DEF Live, SameKind
<1> QED
  BY <1>1, <1>2, <1>3, <1>4 DEF PassRight

-----------------------------------------------------------------------------
(***************************************************************************)
(* BaseInv is kept by every step                                           *)
(***************************************************************************)
\* The loop's own steps.
LEMMA LoopBase ==
  ASSUME BaseInv, NEW w \in Workers, LoopStep(w), Forget, UNCHANGED entity
  PROVE  BaseInv'
<1>0. LoopType(SpecType, KindPhases) /\ FreshIsCurrent /\ LoopInv({}) /\ TypeOK
  BY BaseParts
<1>1. /\ LoopType(SpecType, KindPhases)'
      /\ \A v \in Workers \ {w} : pc'[v] = pc[v] /\ mem'[v].obj = mem[v].obj
      /\ pc'[w] \notin {"idle", "observe", "refuse", "finish"} =>
           /\ Same(mem'[w].obj, mem[w].obj)
           /\ pc'[w] # pc[w] =>
                /\ pc[w] = "absent" /\ pc'[w] = "create"
                /\ mem'[w].obj = cr' /\ Same(cr', cr) /\ ~cr.deleting
  BY <1>0, TypeParts, LoopKeepsTypes
<1>2. /\ \/ Same(cr', cr)
         \/ cr' = NoObject /\ pc[w] = "absent"
         \/ /\ pc[w] \in {"created", "createFailed"}
            /\ cr'.spec = cr.spec
            /\ cr'.extName = IF mem[w].obj.extName = NoName THEN cr.extName
                             ELSE mem[w].obj.extName
      /\ \A v \in Workers : cache'[v].obj \in {cache[v].obj, cr}
      /\ \/ Same(mem'[w].obj, mem[w].obj) /\ pc'[w] \in {pc[w], "finish"}
         \/ mem'[w].obj = cache[w].obj
         \/ mem'[w].obj = cr' \/ mem'[w].obj = NoObject
  BY <1>0, TypeParts, LoopSources
<1>3. EntityTypes' /\ Evolves /\ \A v \in Workers : pc'[v] # "idle" => Remembers(v)
  BY <1>0, Forgotten
<1>4. LoopInv({})'
  BY <1>0, TypeParts, LoopKeepsInv
<1>5. CopiesInv({}, Given)'
  <2>1. PICK G : G = Given
    OBVIOUS
  <2>2. CopiesInv({}, G)
    BY <2>1, BaseParts
  <2>3. CopiesInv({}, G)'
    BY <1>0, <2>2, TypeParts, LoopKeepsCopies
  <2> QED
    BY <1>3, <2>1, <2>3, GivenGrows
<1>6. NoObject.extName = NoName /\ NoName \notin Alive' /\ NoObject.creation = "none"
  BY TypeParts, LoopNoObjectType, ReconcilerAssumption DEF Alive
<1>7. KindRight(cr)'
  <2>1. CASE Same(cr', cr)
    BY <1>3, <2>1, CopyKind DEF Same, KindRight
  <2>2. CASE cr' = NoObject
    BY <1>6, <2>2 DEF KindRight
  <2>3. CASE /\ pc[w] \in {"created", "createFailed"} /\ cr'.spec = cr.spec
             /\ cr'.extName = IF mem[w].obj.extName = NoName THEN cr.extName
                              ELSE mem[w].obj.extName
    <3>1. SameKind(mem[w].obj.spec, cr.spec)
      BY <2>3, BaseParts DEF PassRight, Creating
    <3>2. PICK p \in {cr, mem[w].obj} : cr'.extName = p.extName
      BY <2>3
    <3>3. cr'.spec.kind = p.spec.kind
      BY <2>3, <3>1, <3>2 DEF SameKind
    <3> QED
      BY <1>3, <3>2, <3>3, CopyKind DEF KindRight
  <2> QED
    BY <1>2, <2>1, <2>2, <2>3
<1>8. ASSUME NEW v \in Workers
      PROVE  KindRight(mem[v].obj)' /\ KindRight(cache[v].obj)'
  <2>1. KindRight(cache[v].obj)'
    BY <1>2, <1>3, CopyKind DEF KindRight
  <2>2. CASE v # w
    BY <1>1, <1>3, <2>1, <2>2, CopyKind DEF KindRight
  <2>3. CASE v = w /\ (Same(mem'[w].obj, mem[w].obj) \/ mem'[w].obj = cache[w].obj)
    BY <1>3, <2>1, <2>3, CopyKind DEF KindRight, Same
  <2>4. CASE v = w /\ mem'[w].obj = cr'
    BY <1>7, <2>1, <2>4 DEF KindRight
  <2>5. CASE v = w /\ mem'[w].obj = NoObject
    BY <1>6, <2>1, <2>5 DEF KindRight
  <2> QED
    BY <1>2, <2>2, <2>3, <2>4, <2>5
<1>9. ASSUME NEW v \in Workers, Creating(v), Creating(v)'
      PROVE  SameKind(cr.spec, cr'.spec)
  <2>1. cr'.creation = "pending"
    BY <1>4, <1>9 DEF LoopInv, PassKnows
  <2> QED
    BY <1>2, <1>6, <2>1 DEF Same, SameKind
<1>10. ASSUME NEW v \in Workers, pc'[v] = pc[v], Same(mem'[v].obj, mem[v].obj)
       PROVE  PassRight(v)'
  <2>1. pc[v] # "idle" => Remembers(v)
    BY <1>3, <1>10
  <2>2. Creating(v) => SameKind(cr.spec, cr'.spec)
    BY <1>9, <1>10 DEF Creating
  <2> QED
    BY <1>3, <1>10, <2>1, <2>2, OtherPass
<1>11. ASSUME NEW v \in Workers PROVE PassRight(v)'
  <2>1. CASE v # w
    <3>1. Same(mem'[v].obj, mem[v].obj)
      BY <1>1, <2>1 DEF Same
    <3> QED
      BY <1>1, <1>10, <2>1, <3>1
  <2>2. CASE v = w /\ pc'[w] \in {"idle", "observe", "refuse", "finish"}
    BY <2>2 DEF PassRight, Creating
  <2>3. CASE v = w /\ pc'[w] = pc[w] /\ Same(mem'[w].obj, mem[w].obj)
    BY <1>10, <2>3
  <2>4. CASE v = w /\ pc[w] = "absent" /\ pc'[w] = "create" /\ mem'[w].obj = cr'
             /\ Same(mem'[w].obj, mem[w].obj)
    <3>1. mem[w].obj.deleting \/ ~Refers(mem[w].obj.spec)
      BY <2>4, BaseParts DEF PassRight
    <3> QED
      BY <2>4, <3>1 DEF PassRight, Creating, SameKind, Same
  <2> QED
    BY <1>1, <2>1, <2>2, <2>3, <2>4
<1> QED
  BY <1>1, <1>3, <1>4, <1>5, <1>7, <1>8, <1>11, BaseNext

\* What a touching handler does to the entities.
LEMMA CloudEvolves ==
  ASSUME BaseInv, NEW w \in Workers, NEW p \in KindPhases, CloudStep(w, p)
  PROVE  /\ EntityTypes' /\ Evolves
         /\ \A v \in Workers \ {w} : Remembers(v)
         /\ Gets(w, p) \/ Remembers(w)
<1>0. TypeOK /\ mem[w].obj.spec \in SpecType
  BY BaseParts DEF LoopType, Copies, Objects
<1>1. entity \in [Names -> Entities] /\ seen \in [Workers -> {NotSeen} \cup Seen]
  BY BaseParts DEF EntityTypes
<1>2. CASE GetsNothing(w, p) \/ Leaves(w, p)
  BY <1>0, <1>2, EntitiesKept DEF GetsNothing, Leaves
<1>3. CASE Gets(w, p)
  <2>1. UNCHANGED entity /\ Live(Id(w)) /\ Id(w) \in Names
    <3>1. Id(w) \in Names \cup {NoName}
      BY BaseParts DEF LoopType, Copies, Objects, Id
    <3> QED
      BY <1>3, <3>1 DEF Gets, Live
  <2>2. entity[Id(w)].is \in Content
    BY <1>1, <2>1, EntityStates DEF Live
  <2>3. seen' \in [Workers -> {NotSeen} \cup Seen] /\ \A v \in Workers \ {w} : seen'[v] = seen[v]
    BY <1>1, <1>3, <2>2, SeenTypes DEF Gets
  <2>4. \A n \in Names : entity[n].state = "live" \/ entity[n] = Unknown \/ entity[n] = Deleted
    BY <1>1 DEF Entities
  <2> QED
    BY <1>1, <1>3, <2>1, <2>3, <2>4, EntityStates
       DEF EntityTypes, Evolves, Remembers, SameKind, SameGroup
<1>4. CASE \E n \in Names : Loses(w, p, n)
  <2>1. PICK n \in Names : Loses(w, p, n)
    BY <1>4
  <2>2. ~Refers(mem[w].obj.spec)
    BY <2>1, BaseParts DEF Loses, PassRight, CopiesInv
  <2>3. Created(mem[w].obj.spec) \in Content
    BY <1>0, <2>2, CreatedTypes
  <2> QED
    BY <1>0, <2>1, <2>3, EntityStates, EntityWritten DEF Loses
<1>5. CASE \E n \in Names : Replaces(w, p, n)
  <2>1. PICK n \in Names : Replaces(w, p, n)
    BY <1>5
  <2>2. entity[n].state = "live" /\ entity[n].is \in Content /\ n = Id(w)
    BY <1>1, <2>1, EntityStates DEF Replaces, Live
  <2>3. SameKind(mem[w].obj.spec, entity[n].is)
    BY <2>1, <2>2, BaseParts DEF KindRight, Alive, Replaces, SameKind, Id
  <2>4. /\ Updated(mem[w].obj.spec, entity[n].is) \in Content
        /\ SameKind(entity[n].is, Updated(mem[w].obj.spec, entity[n].is))
        /\ SameGroup(entity[n].is, Updated(mem[w].obj.spec, entity[n].is))
    BY <1>0, <2>2, <2>3, UpdatedTypes
  <2> QED
    BY <1>0, <2>1, <2>2, <2>4, EntityStates, EntityWritten DEF Replaces
<1>6. CASE \E n \in Names : TakesDown(w, p, n)
  BY <1>0, <1>6, EntityStates, EntityWritten DEF TakesDown
<1> QED
  BY <1>2, <1>3, <1>4, <1>5, <1>6 DEF CloudStep

LEMMA TouchBase ==
  ASSUME BaseInv, NEW w \in Workers, NEW p \in KindPhases, TouchStep(w, p),
         CloudStep(w, p), faults' \in Nat, edits' \in Nat
  PROVE  BaseInv'
<1>0. LoopType(SpecType, KindPhases) /\ LoopInv({}) /\ TypeOK /\ PassRight(w)
  BY BaseParts
<1>1. /\ Touches(w, p)
      /\ UNCHANGED <<cr, cache>>
      /\ LoopType(SpecType, KindPhases)'
      /\ pc'[w] = p /\ \A v \in Workers \ {w} : pc'[v] = pc[v] /\ mem'[v] = mem[v]
      /\ Same(mem'[w].obj, mem[w].obj)
  BY <1>0, LoopTouchTypes DEF TouchStep, Touches, LoopType
<1>2. /\ EntityTypes' /\ Evolves
      /\ \A v \in Workers \ {w} : Remembers(v)
      /\ Gets(w, p) \/ Remembers(w)
  BY CloudEvolves
<1>3. LoopInv({})'
  BY <1>0, <1>1, LoopTouch DEF TouchStep
<1>4. CopiesInv({}, Given)'
  <2>1. PICK G : G = Given
    OBVIOUS
  <2>2. CopiesInv({}, G)
    BY <2>1, BaseParts
  <2>3. CopiesInv({}, G)'
    BY <1>0, <1>1, <2>2, LoopTouchCopies DEF TouchStep
  <2> QED
    BY <1>2, <2>1, <2>3, GivenGrows
<1>5. \A v \in Workers : Same(mem'[v].obj, mem[v].obj)
  BY <1>1 DEF Same
<1>6. /\ KindRight(cr)'
      /\ \A v \in Workers : KindRight(mem[v].obj)' /\ KindRight(cache[v].obj)'
  BY <1>1, <1>2, <1>5, CopyKind DEF KindRight, Same
<1>7. ASSUME NEW v \in Workers \ {w} PROVE PassRight(v)'
  BY <1>1, <1>2, <1>5, OtherPass DEF SameKind
<1>8. PassRight(w)'
  <2>1. mem'[w].obj.spec = mem[w].obj.spec /\ Id(w)' = Id(w)
        /\ mem'[w].obj.deleting = mem[w].obj.deleting
    BY <1>1 DEF Same, Id
  <2>2. CASE p \in {"finish", "created", "createFailed"}
    BY <1>0, <1>1, <2>1, <2>2 DEF TouchStep, PassRight, Creating, SameKind
  <2>3. CASE p = "absent"
    <3>1. mem[w].obj.deleting \/ ~Refers(mem[w].obj.spec)
      BY <2>3
         DEF CloudStep, Gets, GetsNothing, Leaves, Loses, Replaces, TakesDown
    <3> QED
      BY <1>1, <2>1, <2>3, <3>1 DEF PassRight, Creating
  <2>4. CASE Gets(w, p)
    <3>1. /\ UNCHANGED entity /\ Live(Id(w)) /\ p = "compare"
          /\ mem[w].obj.deleting \/ ~Refers(mem[w].obj.spec)
          /\ seen'[w] = Tagged(entity[Id(w)].is)
      BY <1>0, <2>4 DEF Gets, TypeOK
    <3>2. Id(w) \in Names
      <4>1. Id(w) \in Names \cup {NoName}
        BY <1>0 DEF LoopType, Copies, Objects, Id
      <4> QED
        BY <3>1, <4>1 DEF Live
    <3>3. entity[Id(w)].is \in Content /\ SameKind(mem[w].obj.spec, entity[Id(w)].is)
      <4>1. entity[Id(w)].is \in Content
        BY <3>1, <3>2, BaseParts, EntityStates DEF Live, EntityTypes
      <4> QED
        BY <3>1, <3>2, <4>1, BaseParts DEF KindRight, Alive, Id, SameKind
    <3> QED
      BY <1>1, <2>1, <3>1, <3>2, <3>3, SeenTypes DEF PassRight, Creating
  <2>5. CASE p \in {"current", "outdated"}
    <3>1. pc[w] = "compare" /\ Remembers(w)
      BY <1>2, <2>5 DEF TouchStep, Gets
    <3>2. /\ seen[w] \in Seen /\ Id(w) \in Names
          /\ SameKind(mem[w].obj.spec, seen[w].is)
          /\ seen[w].match /\ Live(Id(w)) => entity[Id(w)].is = seen[w].is
          /\ mem[w].obj.deleting \/ ~Refers(mem[w].obj.spec)
      BY <1>0, <3>1 DEF PassRight
    <3>3. seen'[w] \in Seen /\ seen'[w].is = seen[w].is /\ (seen'[w].match => seen[w].match)
      BY <3>1, <3>2, SeenTypes DEF Remembers
    <3>4. seen'[w].match => entity'[Id(w)] = entity[Id(w)]
      BY <3>1, <3>2 DEF Remembers
    <3> QED
      BY <1>1, <2>1, <2>5, <3>2, <3>3, <3>4 DEF PassRight, Creating, Live, SameKind
  <2>6. CASE p = "compare"
    <3>1. Gets(w, p)
      BY <2>6 DEF CloudStep, GetsNothing, Leaves, Loses, Replaces, TakesDown
    <3> QED
      BY <2>4, <3>1
  <2> QED
    BY <2>2, <2>3, <2>5, <2>6 DEF TouchStep
<1> QED
  BY <1>1, <1>2, <1>3, <1>4, <1>6, <1>7, <1>8, BaseNext

\* The resolution of a reference, and late initialisation.
LEMMA SpecBase ==
  ASSUME BaseInv, NEW w \in Workers, NEW s \in SpecType, NEW r \in BOOLEAN,
         NEW p \in KindPhases, SpecStep(w, s, r, p)
  PROVE  BaseInv'
<1>0. /\ LoopType(SpecType, KindPhases) /\ LoopInv({}) /\ TypeOK /\ PassRight(w)
      /\ mem[w].obj.spec \in SpecType
  BY BaseParts DEF LoopType, Copies, Objects
<1>1. /\ SpecWritten(w, s, r, p)
      /\ pc[w] \notin {"idle", "refuse", "create", "created", "createFailed", "finish"}
      /\ p \notin {"idle", "refuse", "absent", "create", "created", "createFailed"}
  BY DEF SpecStep
<1>2. /\ LoopInv({})'
      /\ cr' \in Objects(SpecType)
      /\ cache' \in [Workers -> Copies(SpecType)]
      /\ mem' \in [Workers -> Copies(SpecType)]
      /\ pc' \in [Workers -> KindPhases]
      /\ pc'[w] = p
      /\ \A v \in Workers \ {w} : pc'[v] = pc[v] /\ mem'[v].obj = mem[v].obj
      /\ \A v \in Workers : cache'[v].obj = cache[v].obj
      /\ cr'.spec = s /\ cr'.extName = cr.extName /\ cr'.deleting = cr.deleting
      /\ cr'.present = cr.present /\ Same(mem'[w].obj, cr') /\ Same(mem[w].obj, cr)
  BY <1>0, <1>1, LoopSpecWritten
<1>3. LoopType(SpecType, KindPhases)'
  BY <1>0, <1>2 DEF SpecStep, LoopType
<1>4. EntityTypes' /\ Evolves /\ \A v \in Workers : Remembers(v)
  BY <1>0, EntitiesKept DEF SpecStep
<1>5. SameKind(mem[w].obj.spec, s) /\ SameKind(cr.spec, s)
  <2>1. CASE pc[w] = "observe"
    BY <1>0, <1>2, <2>1, ResolvedTypes DEF SpecStep, Same
  <2>2. CASE pc[w] = "compare"
    <3>1. seen[w].is \in Content /\ SameKind(mem[w].obj.spec, seen[w].is)
      BY <1>0, <2>2, PastGet DEF PassRight
    <3> QED
      BY <1>0, <1>2, <2>2, <3>1, ObservedTypes DEF SpecStep, Same
  <2> QED
    BY <2>1, <2>2 DEF SpecStep
<1>6. CopiesInv({}, Given)'
  <2>1. PICK G : G = Given
    OBVIOUS
  <2>2. CopiesInv({}, G)
    BY <2>1, BaseParts
  <2>3. CopiesInv({}, G)'
    BY <1>0, <1>1, <2>2, LoopSpecWrittenCopies
  <2> QED
    BY <1>4, <2>1, <2>3, GivenGrows
<1>7. /\ KindRight(cr)'
      /\ \A v \in Workers : KindRight(mem[v].obj)' /\ KindRight(cache[v].obj)'
  <2>1. KindRight(cr)'
    BY <1>2, <1>4, <1>5, CopyKind DEF KindRight, SameKind
  <2>2. KindRight(mem[w].obj)'
    BY <1>2, <2>1 DEF KindRight, Same
  <2>3. \A v \in Workers \ {w} : KindRight(mem[v].obj)'
    BY <1>2, <1>4, CopyKind DEF KindRight
  <2>4. \A v \in Workers : KindRight(cache[v].obj)'
    BY <1>2, <1>4, CopyKind DEF KindRight
  <2> QED
    BY <2>1, <2>2, <2>3, <2>4
<1>8. ASSUME NEW v \in Workers \ {w} PROVE PassRight(v)'
  <2>1. pc'[v] = pc[v] /\ Same(mem'[v].obj, mem[v].obj)
    BY <1>2 DEF Same
  <2> QED
    BY <1>2, <1>4, <1>5, <2>1, OtherPass DEF SameKind
<1>9. PassRight(w)'
  <2>1. CASE pc[w] = "observe"
    <3>1. pc'[w] = "observe"
      BY <1>2, <2>1 DEF SpecStep
    <3> QED
      BY <3>1 DEF PassRight, Creating
  <2>2. CASE pc[w] = "compare"
    <3>1. /\ p \in {"current", "outdated"} /\ seen' = seen /\ entity' = entity
          /\ ~LateInitPanics(mem[w].obj.spec, seen[w].is)
          /\ s = Observe(mem[w].obj.spec, seen[w].is).spec
      BY <2>2 DEF SpecStep
    <3>2. /\ Id(w) \in Names /\ seen[w] \in Seen /\ seen[w].is \in Content
          /\ SameKind(mem[w].obj.spec, seen[w].is)
          /\ seen[w].match /\ Live(Id(w)) => entity[Id(w)].is = seen[w].is
          /\ mem[w].obj.deleting \/ ~Refers(mem[w].obj.spec)
      BY <1>0, <2>2, PastGet DEF PassRight
    <3>3. /\ mem'[w].obj.spec = s /\ Id(w)' = Id(w)
          /\ mem'[w].obj.deleting = mem[w].obj.deleting
      BY <1>2 DEF Same, Id
    <3>4. ~Refers(mem[w].obj.spec) => ~Refers(s)
      BY <1>0, <1>5, <3>1, <3>2, ObservedTypes DEF Refers, SameKind
    <3>5. SameKind(s, seen[w].is)
      BY <1>5, <3>2 DEF SameKind
    <3> QED
      BY <1>2, <3>1, <3>2, <3>3, <3>4, <3>5 DEF PassRight, Creating, Live
  <2> QED
    BY <2>1, <2>2 DEF SpecStep
<1> QED
  BY <1>2, <1>3, <1>4, <1>6, <1>7, <1>8, <1>9, BaseNext

\* A creation that is reported.
LEMMA NameBase ==
  ASSUME BaseInv, NEW w \in Workers, NEW n \in Names, NameStep(w, n)
  PROVE  BaseInv'
<1>0. /\ LoopType(SpecType, KindPhases) /\ LoopInv({}) /\ TypeOK /\ PassRight(w)
      /\ mem[w].obj.spec \in SpecType /\ pc[w] = "create" /\ TakesName(w, n)
  BY BaseParts DEF LoopType, Copies, Objects, NameStep, TakesName
<1>1. /\ cr' \in Objects(SpecType)
      /\ cache' \in [Workers -> Copies(SpecType)]
      /\ mem' \in [Workers -> Copies(SpecType)]
      /\ pc' \in [Workers -> KindPhases]
      /\ pc'[w] = "created"
      /\ \A v \in Workers \ {w} : pc'[v] = pc[v] /\ mem'[v] = mem[v]
      /\ mem'[w].obj.extName = n
      /\ mem'[w].obj.spec = mem[w].obj.spec
  BY <1>0, TypeParts, LoopCreateTypes
<1>2. UNCHANGED <<cr, cache>>
  BY <1>0 DEF TakesName
<1>3. LoopType(SpecType, KindPhases)'
  BY <1>0, <1>1 DEF NameStep, LoopType
<1>4. ~Refers(mem[w].obj.spec)
  BY <1>0, BaseParts DEF PassRight, CopiesInv
<1>5. Created(mem[w].obj.spec) \in Content /\ SameKind(mem[w].obj.spec, Created(mem[w].obj.spec))
  BY <1>0, <1>4, CreatedTypes
<1>6. /\ EntityTypes' /\ Evolves /\ \A v \in Workers : Remembers(v)
      /\ entity'[n].is = Created(mem[w].obj.spec)
  BY <1>0, <1>5, EntityStates, EntityWritten DEF NameStep
<1>7. LoopInv({})'
  BY <1>0, TypeParts, LoopCreate
<1>8. CopiesInv({}, Given)'
  <2>1. PICK G : G = Given
    OBVIOUS
  <2>2. CopiesInv({}, G) /\ n \notin G
    BY <2>1, BaseParts DEF Given, NameStep
  <2>3. PICK H : H = Given'
    OBVIOUS
  <2>4. G \cup {n} \subseteq H
    BY <1>0, <1>5, <1>6, <2>1, <2>3, EntityStates, EntityWritten DEF Given, Evolves, NameStep
  <2>5. CopiesInv({}, H)'
    BY <1>0, <2>2, <2>4, TypeParts, LoopCreateCopies
  <2> QED
    BY <2>3, <2>5 DEF CopiesInv, CopyRight
<1>9. /\ KindRight(cr)'
      /\ \A v \in Workers : KindRight(mem[v].obj)' /\ KindRight(cache[v].obj)'
  <2>1. KindRight(cr)' /\ \A v \in Workers : KindRight(cache[v].obj)'
    BY <1>1, <1>6, <1>2, CopyKind DEF KindRight
  <2>2. \A v \in Workers \ {w} : KindRight(mem[v].obj)'
    BY <1>1, <1>6, <1>2, CopyKind DEF KindRight
  <2>3. KindRight(mem[w].obj)'
    BY <1>1, <1>5, <1>6 DEF KindRight, SameKind
  <2> QED
    BY <2>1, <2>2, <2>3
<1>10. ASSUME NEW v \in Workers \ {w} PROVE PassRight(v)'
  <2>1. pc'[v] = pc[v] /\ Same(mem'[v].obj, mem[v].obj)
    BY <1>1 DEF Same
  <2> QED
    BY <1>1, <1>6, <1>2, <2>1, OtherPass DEF SameKind
<1>11. PassRight(w)'
  BY <1>0, <1>1, <1>2 DEF PassRight, Creating, SameKind
<1> QED
  BY <1>3, <1>6, <1>7, <1>8, <1>9, <1>10, <1>11, BaseNext

\* The panic of late initialisation.
LEMMA PanicBase ==
  ASSUME BaseInv, NEW w \in Workers, PanicStep(w)
  PROVE  BaseInv'
<1>0. LoopType(SpecType, KindPhases) /\ LoopInv({}) /\ TypeOK /\ CopiesInv({}, Given)
  BY BaseParts
<1>1. NoCopy \in Copies(SpecType) /\ NoCopy.obj = NoObject /\ ~NoCopy.fresh
      /\ NoObject.extName = NoName
  BY TypeParts, LoopNoObjectType
<1>2. /\ UNCHANGED <<cr, cache, entity>>
      /\ pc'[w] = "idle" /\ mem'[w] = NoCopy
      /\ \A v \in Workers \ {w} : pc'[v] = pc[v] /\ mem'[v] = mem[v] /\ seen'[v] = seen[v]
      /\ seen' \in [Workers -> {NotSeen} \cup Seen]
      /\ LoopType(SpecType, KindPhases)'
  BY <1>0, <1>1 DEF PanicStep, LoopType, TypeOK, Seen, KindPhases, ReconcilerPhases
<1>3. EntityTypes' /\ Evolves /\ \A v \in Workers \ {w} : Remembers(v)
  <2>1. entity \in [Names -> Entities]
    BY BaseParts DEF EntityTypes
  <2>2. \A n \in Names : entity[n].state = "live" \/ entity[n] = Unknown \/ entity[n] = Deleted
    BY <2>1 DEF Entities
  <2> QED
    BY <1>2, <2>1, <2>2, EntityStates
       DEF EntityTypes, Evolves, Remembers, SameKind, SameGroup
<1>4. LoopInv({})'
  <2>1. PassKnows(w, {})'
    BY <1>2 DEF PassKnows, Creating
  <2> QED
    BY <1>0, <1>1, <2>1, LoopMoveKnows DEF PanicStep
<1>5. CopiesInv({}, Given)'
  <2>1. Given' = Given
    BY <1>2 DEF Given
  <2> QED
    BY <1>0, <1>1, <1>2, <2>1 DEF CopiesInv, CopyRight
<1>6. /\ KindRight(cr)'
      /\ \A v \in Workers : KindRight(mem[v].obj)' /\ KindRight(cache[v].obj)'
  <2>1. KindRight(cr)' /\ \A v \in Workers : KindRight(cache[v].obj)'
    BY <1>2, <1>3, CopyKind DEF KindRight
  <2>2. \A v \in Workers \ {w} : KindRight(mem[v].obj)'
    BY <1>2, <1>3, CopyKind DEF KindRight
  <2>3. KindRight(mem[w].obj)'
    BY <1>1, <1>2, ReconcilerAssumption DEF KindRight, Alive
  <2> QED
    BY <2>1, <2>2, <2>3
<1>7. ASSUME NEW v \in Workers \ {w} PROVE PassRight(v)'
  <2>1. pc'[v] = pc[v] /\ Same(mem'[v].obj, mem[v].obj)
    BY <1>2 DEF Same
  <2> QED
    BY <1>2, <1>3, <2>1, OtherPass DEF SameKind
<1>8. PassRight(w)'
  BY <1>2 DEF PassRight, Creating
<1> QED
  BY <1>2, <1>3, <1>4, <1>5, <1>6, <1>7, <1>8, BaseNext

\* Somebody else changes or deletes an entity.
LEMMA DriftForms ==
  ASSUME TypeOK, NEW n \in Names, Drifts(n)
  PROVE  /\ UNCHANGED <<cr, cache, mem, pc, edits>> /\ faults' \in Nat
         /\ EntityTypes' /\ Evolves /\ \A v \in Workers : Remembers(v)
         /\ \A m \in Names \ {n} : entity'[m] = entity[m]
         /\ Live(n)
<1>1. Live(n) /\ entity[n] \in Entities /\ entity[n].is \in Content
  BY EntityStates DEF Drifts, Live, TypeOK
<1>2. CASE Write(n, Deleted)
  BY <1>1, <1>2, EntityStates, EntityWritten DEF Drifts, Fault, TypeOK
<1>3. CASE \E c \in Edited(entity[n].is) : Write(n, [state |-> "live", is |-> c])
  <2>1. PICK c \in Edited(entity[n].is) : Write(n, [state |-> "live", is |-> c])
    BY <1>3
  <2>2. c \in Content /\ SameKind(entity[n].is, c) /\ SameGroup(entity[n].is, c)
    BY <1>1, EditedTypes
  <2>3. /\ EntityTypes' /\ Evolves /\ \A v \in Workers : Remembers(v)
        /\ \A m \in Names \ {n} : entity'[m] = entity[m]
    BY <1>1, <2>1, <2>2, EntityStates, EntityWritten DEF Live
  <2> QED
    BY <1>1, <2>3 DEF Drifts, Fault, TypeOK
<1> QED
  BY <1>2, <1>3 DEF Drifts

LEMMA DriftBase ==
  ASSUME BaseInv, NEW n \in Names, Drifts(n)
  PROVE  BaseInv'
<1>0. LoopType(SpecType, KindPhases) /\ LoopInv({}) /\ TypeOK
  BY BaseParts
<1>1. /\ UNCHANGED <<cr, cache, mem, pc, edits>> /\ faults' \in Nat
      /\ EntityTypes' /\ Evolves /\ \A v \in Workers : Remembers(v)
  BY <1>0, DriftForms
<1>2. LoopType(SpecType, KindPhases)' /\ LoopInv({})'
  BY <1>0, <1>1, LoopCloud DEF LoopType
<1>3. CopiesInv({}, Given)'
  <2>1. PICK G : G = Given
    OBVIOUS
  <2>2. CopiesInv({}, G)
    BY <2>1, BaseParts
  <2>3. CopiesInv({}, G)'
    BY <1>1, <2>2, LoopCloudCopies
  <2> QED
    BY <1>1, <2>1, <2>3, GivenGrows
<1>4. /\ KindRight(cr)'
      /\ \A v \in Workers : KindRight(mem[v].obj)' /\ KindRight(cache[v].obj)'
  BY <1>1, CopyKind DEF KindRight
<1>5. ASSUME NEW v \in Workers PROVE PassRight(v)'
  <2>1. pc'[v] = pc[v] /\ Same(mem'[v].obj, mem[v].obj)
    BY <1>1 DEF Same
  <2> QED
    BY <1>1, <2>1, OtherPass DEF SameKind
<1> QED
  BY <1>1, <1>2, <1>3, <1>4, <1>5, BaseNext

\* What users do: a CR that is there keeps its kind, and a reference its value.
LEMMA UserForms ==
  ASSUME TypeOK, UserEdits
  PROVE  /\ UserStepOver(SpecType)
         /\ cr.present /\ cr'.present =>
              \/ cr'.spec = cr.spec
              \/ \E s \in UserSpecs :
                   /\ SameKind(cr.spec, s)
                   /\ cr'.spec = IF Refers(s) THEN [s EXCEPT !.group = cr.spec.group] ELSE s
                   /\ SameKind(s, cr'.spec)
                   /\ s.kind = "AccessGroupRule" /\ Refers(s) => cr'.spec.group = cr.spec.group
         /\ ~cr.present => cr'.spec \in UserSpecs
<1>0. cr \in Objects(SpecType) /\ cr.spec \in SpecType
  BY DEF TypeOK, Objects
<1>1. CASE UserDeletes
  <2>1. cr' = IF cr.finalizer THEN [cr EXCEPT !.deleting = TRUE] ELSE NoObject
    BY <1>1 DEF UserDeletes, UserWrites
  <2>2. cr.present /\ ~NoObject.present
    BY <1>1, TypeParts, LoopNoObjectType DEF UserDeletes
  <2> QED
    BY <1>0, <1>1, <2>1, <2>2 DEF UserStepOver, Objects
<1>2. ASSUME NEW s \in UserSpecs, cr.present => SameKind(cr.spec, s),
             UserApplies(IF cr.present /\ Refers(s) THEN [s EXCEPT !.group = cr.spec.group]
                         ELSE s)
      PROVE  /\ UserStepOver(SpecType)
             /\ cr.present /\ cr'.present =>
                   /\ SameKind(cr.spec, s)
                   /\ cr'.spec = IF Refers(s) THEN [s EXCEPT !.group = cr.spec.group] ELSE s
                   /\ SameKind(s, cr'.spec)
                   /\ s.kind = "AccessGroupRule" /\ Refers(s) => cr'.spec.group = cr.spec.group
             /\ ~cr.present => cr'.spec \in UserSpecs
  <2> DEFINE t == IF cr.present /\ Refers(s) THEN [s EXCEPT !.group = cr.spec.group] ELSE s
  <2>1. s \in SpecType
    BY TypeParts
  <2>2. /\ t \in SpecType /\ SameKind(s, t)
        /\ cr.present /\ Refers(s) => t.group = cr.spec.group
    <3>1. CASE cr.present /\ Refers(s)
      <4>1. s \in Rule!SpecType
        BY <2>1, <3>1, SpecTypes DEF Refers
      <4>2. cr.spec \in Rule!SpecType
        BY <1>0, <1>2, <3>1, SpecTypes DEF Refers, SameKind
      <4>3. /\ [s EXCEPT !.group = cr.spec.group] \in Rule!SpecType
            /\ [s EXCEPT !.group = cr.spec.group].group = cr.spec.group
            /\ [s EXCEPT !.group = cr.spec.group].kind = s.kind
        BY <4>1, <4>2 DEF Rule!SpecType
      <4> QED
        BY <3>1, <4>3 DEF SpecType, SameKind
    <3>2. CASE ~(cr.present /\ Refers(s))
      BY <2>1, <3>2 DEF SameKind
    <3> QED
      BY <3>1, <3>2
  <2>3. UserStepOver(SpecType)
    BY <1>2, <2>2 DEF UserStepOver
  <2>4. cr' = NewObject(t) \/ cr' = [cr EXCEPT !.spec = t]
    BY <1>2 DEF UserApplies, UserWrites
  <2>5. cr'.spec = t
    BY <1>0, <2>4 DEF NewObject, Objects
  <2> QED
    BY <1>2, <2>2, <2>3, <2>5
<1> QED
  BY <1>1, <1>2 DEF UserEdits

LEMMA UserBase ==
  ASSUME BaseInv, UserEdits, Forget, UNCHANGED entity
  PROVE  BaseInv'
<1>0. LoopType(SpecType, KindPhases) /\ LoopInv({}) /\ TypeOK
  BY BaseParts
<1>1. UserStepOver(SpecType)
  BY <1>0, UserForms
<1>2. /\ LoopType(SpecType, KindPhases)'
      /\ pc' = pc
      /\ \A v \in Workers : mem'[v].obj = mem[v].obj /\ cache'[v].obj = cache[v].obj
      /\ \/ cr' = NoObject /\ ~cr.finalizer /\ cr.present /\ ~cr.deleting
         \/ (\E s \in SpecType : cr' = NewObject(s)) /\ ~cr.present
         \/ /\ cr'.present = cr.present /\ cr'.extName = cr.extName /\ cr.present
            /\ cr'.creation = cr.creation
  BY <1>0, <1>1, TypeParts, LoopUserForms
<1>3. EntityTypes' /\ Evolves /\ \A v \in Workers : pc'[v] # "idle" => Remembers(v)
  BY <1>0, Forgotten
<1>4. LoopInv({})'
  BY <1>0, <1>1, TypeParts, LoopUser
<1>5. CopiesInv({}, Given)'
  <2>1. PICK G : G = Given
    OBVIOUS
  <2>2. CopiesInv({}, G)
    BY <2>1, BaseParts
  <2>3. CopiesInv({}, G)'
    BY <1>0, <1>1, <2>2, TypeParts, LoopUserCopies
  <2> QED
    BY <1>3, <2>1, <2>3, GivenGrows
<1>6. NoObject.extName = NoName /\ NoName \notin Alive' /\ NoObject.creation = "none"
      /\ \A s : NewObject(s).extName = NoName /\ NewObject(s).creation = "none"
  BY TypeParts, LoopNoObjectType, ReconcilerAssumption DEF Alive, NewObject
<1>7. cr.present /\ cr'.present => SameKind(cr.spec, cr'.spec)
  BY <1>0, UserForms DEF SameKind
<1>8. KindRight(cr)'
  <2>1. CASE cr.present /\ cr'.present /\ cr'.extName = cr.extName
    BY <1>3, <1>7, <2>1, CopyKind DEF KindRight, SameKind
  <2>2. CASE cr'.extName = NoName
    BY <1>6, <2>2 DEF KindRight
  <2> QED
    BY <1>2, <1>6, <2>1, <2>2
<1>9. \A v \in Workers : KindRight(mem[v].obj)' /\ KindRight(cache[v].obj)'
  BY <1>2, <1>3, CopyKind DEF KindRight
<1>10. ASSUME NEW v \in Workers PROVE PassRight(v)'
  <2>1. pc'[v] = pc[v] /\ Same(mem'[v].obj, mem[v].obj)
    BY <1>2 DEF Same
  <2>2. Creating(v) => SameKind(cr.spec, cr'.spec)
    <3>1. Creating(v) => Creating(v)'
      BY <2>1 DEF Creating
    <3>2. Creating(v) => cr'.creation = "pending"
      BY <1>4, <3>1 DEF LoopInv, PassKnows
    <3>3. cr'.creation = "pending" => cr.present /\ cr'.present
      BY <1>2, <1>6
    <3> QED
      BY <1>7, <3>2, <3>3
  <2> QED
    BY <1>3, <2>1, <2>2, OtherPass
<1> QED
  BY <1>2, <1>3, <1>4, <1>5, <1>8, <1>9, <1>10, BaseNext

LEMMA StutterBase ==
  ASSUME BaseInv, UNCHANGED vars
  PROVE  BaseInv'
<1>1. UNCHANGED <<cr, cache, mem, pc, faults, edits, entity, seen>>
  BY DEF vars
<1> QED
  BY <1>1
     DEF BaseInv, TypeOK, Id, LoopInv, FreshIsCurrent, Sent, PassKnows, Creating, AccountedFor,
         AtMostOne, CopiesInv, CopyRight, Given, KindsRight, KindRight, SeenRight, Alive, Live

LEMMA InitBase ==
  ASSUME Init
  PROVE  BaseInv /\ Given = {} /\ Alive = {}
<1>1. LoopType(SpecType, KindPhases) /\ LoopInv({}) /\ CopiesInv({}, {})
  BY TypeParts, LoopStartTypes, LoopStart, LoopStartCopies DEF Init
<1>2. Given = {} /\ Alive = {}
  BY EntityStates DEF Init, Given, Alive, Live
<1>3. /\ entity \in [Names -> Entities] /\ seen \in [Workers -> {NotSeen} \cup Seen]
      /\ pc = [w \in Workers |-> "idle"]
  BY EntityStates DEF Init, ReconcilerInit
<1>4. TypeOK
  BY <1>1, <1>3 DEF LoopType, TypeOK, KindPhases, Seen
<1>5. KindsRight /\ SeenRight
  BY <1>2, <1>3 DEF KindsRight, KindRight, SeenRight, Creating
<1>6. CopiesInv({}, Given)
  BY <1>1, <1>2
<1> QED
  BY <1>1, <1>2, <1>4, <1>5, <1>6 DEF BaseInv

LEMMA BaseStep ==
  ASSUME BaseInv, [Next]_vars
  PROVE  BaseInv'
<1>0. TypeOK /\ KindsRight
  BY BaseParts
<1>1. ASSUME NEW w \in Workers, LoopStep(w), Forget, UNCHANGED entity
      PROVE  BaseInv'
  BY <1>1, LoopBase
<1>2. ASSUME NEW w \in Workers, ExternalStep(w) \/ ExternalFault(w)
      PROVE  BaseInv'
  BY <1>0, <1>2, HandlerForms, TouchBase, SpecBase, NameBase, PanicBase
<1>3. CASE UserEdits /\ Forget /\ UNCHANGED entity
  BY <1>3, UserBase
<1>4. ASSUME NEW n \in Names, Drifts(n)
      PROVE  BaseInv'
  BY <1>4, DriftBase
<1>5. CASE UNCHANGED vars
  BY <1>5, StutterBase
<1> QED
  BY <1>1, <1>2, <1>3, <1>4, <1>5 DEF Next, WorkerStep, LoopStep

\* BaseInv is an invariant whatever the faults: copies of the CR, annotations, ETags
\* and entities agree as the four controllers rely on.
THEOREM BaseCorrect == Spec => []BaseInv
<1>1. Init => BaseInv
  BY InitBase
<1>2. BaseInv /\ [Next]_vars => BaseInv'
  BY BaseStep
<1> QED
  BY <1>1, <1>2, PTL DEF Spec

\* The controllers of the four IAM kinds keep every variable in its type; a pass that
\* is past its GET knows the ID of its entity and has seen it.
THEOREM TypeCorrect == Spec => []TypeOK
<1>1. BaseInv => TypeOK
  BY DEF BaseInv
<1> QED
  BY <1>1, BaseCorrect, PTL

\* If-Match works: an update by any replica, on whatever stale copy of the CR and
\* after whatever faults, only ever replaces what the pass that sends it has seen.
THEOREM LosesNoUpdate == Spec => NoLostUpdate
<1>1. ASSUME BaseInv, NEW w \in Workers, NEW n \in Names, Update(w), entity'[n] # entity[n]
      PROVE  entity[n].is = seen[w].is
  <2>1. Live(Id(w)) /\ seen[w].match
    BY <1>1 DEF Update
  <2>2. n = Id(w)
    <3>1. TypeOK
      BY <1>1, BaseParts
    <3>2. Write(Id(w), [state |-> "live",
                        is |-> Updated(mem[w].obj.spec, entity[Id(w)].is)])
      BY <1>1, <2>1 DEF Update
    <3> QED
      BY <1>1, <3>1, <3>2 DEF Write, TypeOK
  <2> QED
    BY <1>1, <2>1, <2>2 DEF BaseInv, SeenRight, Update, Updating
<1>2. BaseInv /\ [Next]_vars =>
        [\A w \in Workers, n \in Names :
           Update(w) /\ entity'[n] # entity[n] => entity[n].is = seen[w].is]_vars
  BY <1>1
<1> QED
  BY <1>2, BaseCorrect, PTL DEF Spec, NoLostUpdate

-----------------------------------------------------------------------------
(***************************************************************************)
(* IInv is kept by every step, if replies can be trusted                   *)
(***************************************************************************)
\* The entities that were alive, as a constant of the loop's lemmas.
LEMMA IParts ==
  ASSUME IInv
  PROVE  /\ BaseInv /\ TypeOK /\ KindsRight /\ LoopType(SpecType, KindPhases)
         /\ FreshIsCurrent /\ GroupsRight
         /\ LoopInv(Alive) /\ CopiesInv(Alive, Given)
         /\ Alive \subseteq Names
BY BaseParts DEF IInv, Alive

\* Back from a constant that bounds what is alive after a step.
LEMMA AliveNext ==
  ASSUME Evolves, NEW L, Alive' \subseteq L, LoopInv(L)',
         NEW G, G \subseteq Given', CopiesInv(L, G)'
  PROVE  LoopInv(Alive)' /\ CopiesInv(Alive, Given)'
<1>1. LoopInv(Alive)'
  BY DEF LoopInv, PassKnows, AccountedFor, AtMostOne
<1>2. CopiesInv(Alive, Given)'
  BY DEF CopiesInv, CopyRight
<1> QED
  BY <1>1, <1>2

LEMMA GroupsNext ==
  ASSUME GroupsRight, Evolves, Alive' \subseteq Alive,
         SameKind(cr.spec, cr'.spec), SameGroup(cr.spec, cr'.spec),
         \A v \in Workers : Creating(v)' => SameGroup(mem'[v].obj.spec, cr'.spec)
  PROVE  GroupsRight'
<1>1. ASSUME NEW n \in Alive'
      PROVE  SameKind(cr'.spec, entity'[n].is) /\ SameGroup(cr'.spec, entity'[n].is)
  <2>1. n \in Alive /\ n \in Names /\ entity'[n].state = "live" /\ entity[n].state = "live"
    BY <1>1 DEF Alive, Live
  <2>2. SameKind(entity[n].is, entity'[n].is) /\ SameGroup(entity[n].is, entity'[n].is)
    BY <2>1, EntityStates DEF Evolves
  <2>3. SameKind(cr.spec, entity[n].is) /\ SameGroup(cr.spec, entity[n].is)
    BY <2>1 DEF GroupsRight
  <2> QED
    BY <2>2, <2>3 DEF SameKind, SameGroup
<1>2. \A s \in UserSpecs :
        SameKind(s, cr'.spec) /\ s.kind = "AccessGroupRule" => s.group \in {Unset, cr'.spec.group}
  BY DEF GroupsRight, SameKind, SameGroup
<1> QED
  BY <1>1, <1>2 DEF GroupsRight

\* Specs that users apply to a new CR.
LEMMA GroupsFresh ==
  ASSUME GroupKept, Alive' = {}, cr'.spec \in UserSpecs, \A v \in Workers : ~Creating(v)'
  PROVE  GroupsRight'
BY DEF GroupKept, GroupsRight, SameKind

LEMMA LoopI ==
  ASSUME GroupKept, IInv, NEW w \in Workers, LoopStep(w), Forget, UNCHANGED entity
  PROVE  IInv'
<1>0. /\ BaseInv /\ LoopType(SpecType, KindPhases) /\ FreshIsCurrent /\ TypeOK
      /\ GroupsRight /\ Alive \subseteq Names
  BY IParts
<1>1. BaseInv'
  BY <1>0, LoopBase
<1>2. /\ \A v \in Workers \ {w} : pc'[v] = pc[v] /\ mem'[v].obj = mem[v].obj
      /\ pc'[w] \notin {"idle", "observe", "refuse", "finish"} =>
           /\ Same(mem'[w].obj, mem[w].obj)
           /\ pc'[w] # pc[w] => mem'[w].obj = cr'
  BY <1>0, TypeParts, LoopKeepsTypes
<1>3. /\ cr'.spec = cr.spec \/ cr' = NoObject
      /\ NoObject.spec \in UserSpecs /\ ~NoObject.present /\ NoObject.creation = "none"
  <2>1. Same(cr', cr) \/ cr' = NoObject \/ cr'.spec = cr.spec
    BY <1>0, TypeParts, LoopSources
  <2>2. (CHOOSE s \in UserSpecs : TRUE) \in UserSpecs
    BY ReconcilerAssumption
  <2> QED
    BY <2>1, <2>2, TypeParts, LoopNoObjectType DEF Same, NoObject, NewObject
<1>4. Evolves /\ Alive' = Alive /\ Given' = Given
  BY <1>0, Forgotten DEF Alive, Live, Given
<1>5. PICK L : L = Alive
  OBVIOUS
<1>6. PICK G : G = Given
  OBVIOUS
<1>7. LoopInv(L) /\ CopiesInv(L, G) /\ L \subseteq Names
  BY <1>0, <1>5, <1>6, IParts
<1>8. LoopInv(L)' /\ CopiesInv(L, G)'
  BY <1>0, <1>7, TypeParts, LoopKeepsInv, LoopKeepsCopies
<1>9. LoopInv(Alive)' /\ CopiesInv(Alive, Given)'
  BY <1>4, <1>5, <1>6, <1>8, AliveNext
<1>10. \A v \in Workers : Creating(v)' => cr'.creation = "pending"
  BY <1>9 DEF LoopInv, PassKnows
<1>11. GroupsRight'
  <2>1. CASE cr' = NoObject
    <3>1. Alive' = {}
      BY <1>3, <1>9, <2>1 DEF LoopInv, AccountedFor
    <3> QED
      BY <1>3, <1>10, <2>1, <3>1, GroupsFresh
  <2>2. CASE cr'.spec = cr.spec
    <3>1. ASSUME NEW v \in Workers, Creating(v)'
          PROVE  SameGroup(mem'[v].obj.spec, cr'.spec)
      <4>1. CASE Creating(v) /\ mem'[v].obj.spec = mem[v].obj.spec
        BY <1>0, <2>2, <4>1 DEF GroupsRight
      <4>2. CASE mem'[v].obj = cr'
        BY <4>2 DEF SameGroup
      <4> QED
        BY <1>2, <3>1, <4>1, <4>2 DEF Creating, Same
    <3> QED
      BY <1>0, <1>4, <2>2, <3>1, GroupsNext DEF SameKind, SameGroup
  <2> QED
    BY <1>3, <2>1, <2>2
<1> QED
  BY <1>1, <1>9, <1>11 DEF IInv

LEMMA TouchI ==
  ASSUME Trustworthy, IInv, NEW w \in Workers, NEW p \in KindPhases, TouchStep(w, p),
         CloudStep(w, p), faults' \in Nat, edits' \in Nat
  PROVE  IInv'
<1>0. /\ BaseInv /\ LoopType(SpecType, KindPhases) /\ FreshIsCurrent /\ TypeOK
      /\ GroupsRight /\ Alive \subseteq Names
  BY IParts
<1>1. BaseInv'
  BY <1>0, TouchBase
<1>2. EntityTypes' /\ Evolves
  BY <1>0, CloudEvolves
<1>3. /\ Touches(w, p) /\ UNCHANGED <<cr, cache>>
      /\ pc'[w] = p /\ \A v \in Workers \ {w} : pc'[v] = pc[v] /\ mem'[v] = mem[v]
      /\ Same(mem'[w].obj, mem[w].obj)
  BY <1>0, LoopTouchTypes DEF TouchStep, Touches
<1>4. Alive' \subseteq Alive
  <2>1. CASE Gets(w, p) \/ GetsNothing(w, p) \/ Leaves(w, p)
    BY <2>1 DEF Gets, GetsNothing, Leaves, Alive, Live
  <2>2. CASE \E n \in Names : Replaces(w, p, n) \/ TakesDown(w, p, n)
    BY <1>0, <2>2 DEF Replaces, TakesDown, Write, Alive, Live, TypeOK
  <2> QED
    BY <2>1, <2>2 DEF CloudStep, Loses, Trustworthy
<1>5. p = "absent" /\ mem[w].fresh => mem[w].obj.extName \notin Alive
  <2> SUFFICES ASSUME p = "absent", mem[w].fresh, Id(w) \in Alive
               PROVE  FALSE
    BY DEF Id
  <2>1. GetsNothing(w, p)
    BY DEF CloudStep, Gets, Leaves, Loses, Replaces, TakesDown
  <2>2. ~Reaches(mem[w].obj.spec, entity[Id(w)].is)
    BY <2>1 DEF GetsNothing, Alive, Trustworthy
  <2>3. mem[w].obj.spec = cr.spec
    BY <1>0, LoopFresh DEF TouchStep, Same
  <2>4. SameKind(cr.spec, entity[Id(w)].is) /\ SameGroup(cr.spec, entity[Id(w)].is)
    BY <1>0 DEF GroupsRight
  <2> QED
    BY <2>2, <2>3, <2>4 DEF Reaches, Rule!Reaches, SameGroup
<1>6. PICK L : L = Alive
  OBVIOUS
<1>7. PICK G : G = Given
  OBVIOUS
<1>8. LoopInv(L) /\ CopiesInv(L, G)
  BY <1>6, <1>7, IParts
<1>9. LoopInv(L)'
  BY <1>0, <1>3, <1>5, <1>6, <1>8, LoopTouch DEF TouchStep
<1>10. CopiesInv(L, G)'
  BY <1>0, <1>3, <1>8, LoopTouchCopies DEF TouchStep
<1>11. LoopInv(Alive)' /\ CopiesInv(Alive, Given)'
  <2>1. G \subseteq Given'
    BY <1>2, <1>7 DEF Evolves, Given
  <2> QED
    BY <1>2, <1>4, <1>6, <1>9, <1>10, <2>1, AliveNext
<1>12. GroupsRight'
  <2>1. ASSUME NEW v \in Workers, Creating(v)'
        PROVE  SameGroup(mem'[v].obj.spec, cr'.spec)
    <3>1. Creating(v) /\ mem'[v].obj.spec = mem[v].obj.spec
      BY <1>3, <2>1 DEF TouchStep, Creating, Same
    <3> QED
      BY <1>0, <1>3, <3>1 DEF GroupsRight
  <2> QED
    BY <1>0, <1>2, <1>3, <1>4, <2>1, GroupsNext DEF SameKind, SameGroup
<1> QED
  BY <1>1, <1>11, <1>12 DEF IInv

LEMMA SpecI ==
  ASSUME IInv, NEW w \in Workers, NEW s \in SpecType, NEW r \in BOOLEAN,
         NEW p \in KindPhases, SpecStep(w, s, r, p)
  PROVE  IInv'
<1>0. /\ BaseInv /\ LoopType(SpecType, KindPhases) /\ FreshIsCurrent /\ TypeOK /\ KindsRight
      /\ GroupsRight /\ Alive \subseteq Names /\ mem[w].obj.spec \in SpecType
  BY IParts DEF LoopType, Copies, Objects
<1>1. /\ SpecWritten(w, s, r, p) /\ mem[w].fresh
      /\ pc[w] \notin {"idle", "refuse", "create", "created", "createFailed", "finish"}
      /\ p \notin {"idle", "refuse", "absent", "create", "created", "createFailed"}
  BY DEF SpecStep, SpecWritten
<1>2. BaseInv' /\ Evolves
  BY <1>0, SpecBase, EntitiesKept DEF SpecStep
<1>3. PICK L : L = Alive
  OBVIOUS
<1>4. PICK G : G = Given
  OBVIOUS
<1>5. LoopInv(L) /\ CopiesInv(L, G)
  BY <1>3, <1>4, IParts
<1>6. /\ LoopInv(L)'
      /\ pc'[w] = p /\ \A v \in Workers \ {w} : pc'[v] = pc[v]
      /\ cr'.spec = s /\ Same(mem[w].obj, cr)
  BY <1>0, <1>1, <1>5, LoopSpecWritten
<1>7. CopiesInv(L, G)'
  BY <1>0, <1>1, <1>5, LoopSpecWrittenCopies
<1>8. UNCHANGED Alive /\ UNCHANGED Given
  BY DEF SpecStep, Alive, Live, Given
<1>9. LoopInv(Alive)' /\ CopiesInv(Alive, Given)'
  BY <1>2, <1>3, <1>4, <1>6, <1>7, <1>8, AliveNext
<1>10. \A v \in Workers : ~Creating(v)'
  <2>1. cr.creation # "pending"
    <3>1. cr.creation = mem[w].obj.creation
      BY <1>0, <1>1, LoopFresh
    <3>2. mem[w].obj.creation # "pending"
      BY <1>1, IParts DEF LoopInv, PassKnows, Creating
    <3> QED
      BY <3>1, <3>2
  <2>2. \A v \in Workers : ~Creating(v)
    BY <2>1, IParts DEF LoopInv, PassKnows
  <2> QED
    BY <1>1, <1>6, <2>2 DEF Creating
<1>11. CASE pc[w] = "observe"
  <2>1. Refers(cr.spec) /\ SameKind(cr.spec, s)
    BY <1>0, <1>6, <1>11, ResolvedTypes DEF SpecStep, Same
  <2>2. Alive = {}
    <3> SUFFICES ASSUME NEW n \in Alive PROVE FALSE
      OBVIOUS
    <3>1. entity[n].is.kind = "AccessGroupRule" /\ entity[n].is.group = Unset
      BY <1>0, <2>1 DEF GroupsRight, Refers, SameKind, SameGroup
    <3>2. entity[n].is \in Content
      BY <1>0, EntityStates DEF Alive, Live, TypeOK
    <3>3. entity[n].is.group \in AccessGroups
      BY <3>1, <3>2, ContentTypes DEF Rule!Content
    <3> QED
      BY <3>1, <3>3, IamAssumption
  <2>3. GroupsRight'
    BY <1>0, <1>6, <1>8, <1>10, <2>1, <2>2 DEF GroupsRight, SameKind, Refers
  <2> QED
    BY <1>2, <1>9, <2>3 DEF IInv
<1>12. CASE pc[w] = "compare"
  <2>1. seen[w].is \in Content /\ SameKind(mem[w].obj.spec, seen[w].is)
    BY <1>0, <1>12, PastGet DEF KindsRight
  <2>2. SameKind(cr.spec, cr'.spec) /\ SameGroup(cr.spec, cr'.spec)
    BY <1>0, <1>6, <1>12, <2>1, ObservedTypes DEF SpecStep, Same, SameGroup
  <2>3. GroupsRight'
    BY <1>0, <1>2, <1>8, <1>10, <2>2, GroupsNext
  <2> QED
    BY <1>2, <1>9, <2>3 DEF IInv
<1> QED
  BY <1>11, <1>12 DEF SpecStep

LEMMA NameI ==
  ASSUME IInv, NEW w \in Workers, NEW n \in Names, NameStep(w, n)
  PROVE  IInv' /\ Alive = {} /\ Alive' = {n} /\ cr.present /\ UNCHANGED cr
<1>0. /\ BaseInv /\ LoopType(SpecType, KindPhases) /\ FreshIsCurrent /\ TypeOK
      /\ GroupsRight /\ Alive \subseteq Names /\ mem[w].obj.spec \in SpecType
      /\ pc[w] = "create" /\ TakesName(w, n) /\ UNCHANGED <<cr, cache>>
  BY IParts DEF LoopType, Copies, Objects, NameStep, TakesName
<1>1. Alive = {} /\ cr.present /\ cr.creation = "pending"
      /\ \A v \in Workers : Creating(v) => v = w
  BY <1>0, IParts DEF LoopInv, PassKnows, Creating
<1>2. ~Refers(mem[w].obj.spec)
  BY <1>0, BaseParts DEF PassRight, CopiesInv
<1>3. /\ Created(mem[w].obj.spec) \in Content
      /\ SameKind(mem[w].obj.spec, Created(mem[w].obj.spec))
      /\ SameGroup(mem[w].obj.spec, Created(mem[w].obj.spec))
  BY <1>0, <1>2, CreatedTypes
<1>4. BaseInv'
  BY <1>0, NameBase
<1>5. /\ Evolves /\ entity'[n] = [state |-> "live", is |-> Created(mem[w].obj.spec)]
      /\ \A m \in Names \ {n} : entity'[m] = entity[m]
  BY <1>0, <1>3, EntityStates, EntityWritten DEF NameStep
<1>6. /\ entity'[n].state = "live" /\ entity'[n].is = Created(mem[w].obj.spec)
      /\ entity'[n] # Unknown
  BY <1>3, <1>5, EntityStates
<1>7. Alive' = {n}
  BY <1>1, <1>5, <1>6, ReconcilerAssumption DEF Alive, Live
<1>8. LoopInv(Alive)' /\ CopiesInv(Alive, Given)'
  <2>1. PICK L : L = Alive
    OBVIOUS
  <2>2. PICK G : G = Given
    OBVIOUS
  <2>3. LoopInv(L) /\ CopiesInv(L, G) /\ n \notin G
    BY <2>1, <2>2, IParts DEF Given, NameStep
  <2>4. LoopInv({n})'
    BY <1>0, <2>3, TypeParts, LoopCreate
  <2>5. PICK H : H = Given'
    OBVIOUS
  <2>6. G \cup {n} \subseteq H
    BY <1>5, <1>6, <2>2, <2>5 DEF Given, Evolves
  <2>7. CopiesInv({n}, H)'
    BY <1>0, <2>3, <2>6, TypeParts, LoopCreateCopies
  <2> QED
    BY <1>5, <1>7, <2>4, <2>5, <2>7, AliveNext
<1>9. /\ \A v \in Workers \ {w} : pc'[v] = pc[v]
      /\ mem'[w].obj.spec = mem[w].obj.spec
  BY <1>0, TypeParts, LoopCreateTypes
<1>10. SameKind(mem[w].obj.spec, cr.spec) /\ SameGroup(mem[w].obj.spec, cr.spec)
  BY <1>0, BaseParts DEF GroupsRight, Creating, PassRight
<1>11. GroupsRight'
  <2>1. SameKind(cr.spec, entity'[n].is) /\ SameGroup(cr.spec, entity'[n].is)
    BY <1>3, <1>6, <1>10 DEF SameKind, SameGroup
  <2>2. \A v \in Workers : Creating(v)' => v = w
    BY <1>1, <1>9 DEF Creating
  <2> QED
    BY <1>0, <1>7, <1>9, <1>10, <2>1, <2>2 DEF GroupsRight
<1> QED
  BY <1>0, <1>1, <1>4, <1>7, <1>8, <1>11 DEF IInv

LEMMA PanicI ==
  ASSUME IInv, NEW w \in Workers, PanicStep(w)
  PROVE  IInv'
<1>0. /\ BaseInv /\ LoopType(SpecType, KindPhases) /\ FreshIsCurrent /\ TypeOK
      /\ GroupsRight /\ LoopInv(Alive) /\ CopiesInv(Alive, Given)
  BY IParts
<1>1. NoCopy \in Copies(SpecType) /\ NoCopy.obj = NoObject /\ ~NoCopy.fresh
      /\ NoObject.extName = NoName
  BY TypeParts, LoopNoObjectType
<1>2. /\ UNCHANGED <<cr, cache, entity>>
      /\ pc'[w] = "idle" /\ mem'[w] = NoCopy
      /\ \A v \in Workers \ {w} : pc'[v] = pc[v] /\ mem'[v] = mem[v]
  BY <1>0, <1>1 DEF PanicStep, LoopType, TypeOK
<1>3. BaseInv'
  BY <1>0, PanicBase
<1>4. Alive' = Alive /\ Given' = Given
  BY <1>2 DEF Alive, Live, Given
<1>5. LoopInv(Alive)'
  <2>1. PICK L : L = Alive
    OBVIOUS
  <2>2. PassKnows(w, L)'
    BY <1>2 DEF PassKnows, Creating
  <2>3. LoopInv(L)
    BY <1>0, <2>1
  <2>4. LoopInv(L)'
    BY <1>0, <1>1, <2>2, <2>3, LoopMoveKnows DEF PanicStep
  <2> QED
    BY <1>4, <2>1, <2>4 DEF LoopInv, PassKnows, AccountedFor, AtMostOne
<1>6. CopiesInv(Alive, Given)'
  <2>1. NoName \notin Alive
    BY ReconcilerAssumption DEF Alive
  <2> QED
    BY <1>0, <1>1, <1>2, <1>4, <2>1 DEF CopiesInv, CopyRight
<1>7. GroupsRight'
  BY <1>0, <1>2, <1>4 DEF GroupsRight, Creating
<1> QED
  BY <1>3, <1>5, <1>6, <1>7 DEF IInv

LEMMA DriftI ==
  ASSUME IInv, NEW n \in Names, Drifts(n)
  PROVE  IInv' /\ Alive' \subseteq Alive
<1>0. BaseInv /\ TypeOK /\ GroupsRight
  BY IParts
<1>1. /\ UNCHANGED <<cr, cache, mem, pc, edits>> /\ Evolves
      /\ \A m \in Names \ {n} : entity'[m] = entity[m]
      /\ Live(n)
  BY <1>0, DriftForms
<1>2. BaseInv'
  BY <1>0, DriftBase
<1>3. Alive' \subseteq Alive
  BY <1>1 DEF Alive, Live
<1>4. LoopInv(Alive)' /\ CopiesInv(Alive, Given)'
  <2>1. PICK L : L = Alive
    OBVIOUS
  <2>2. PICK G : G = Given
    OBVIOUS
  <2>3. LoopInv(L) /\ CopiesInv(L, G)
    BY <2>1, <2>2, IParts
  <2>4. LoopInv(L)' /\ CopiesInv(L, G)'
    BY <1>1, <2>3, LoopCloud, LoopCloudCopies
  <2>5. G \subseteq Given'
    BY <1>1, <2>2 DEF Evolves, Given
  <2> QED
    BY <1>1, <1>3, <2>1, <2>4, <2>5, AliveNext
<1>5. GroupsRight'
  <2>1. \A v \in Workers : Creating(v)' => SameGroup(mem'[v].obj.spec, cr'.spec)
    BY <1>0, <1>1 DEF GroupsRight, Creating
  <2> QED
    BY <1>0, <1>1, <1>3, <2>1, GroupsNext DEF SameKind, SameGroup
<1> QED
  BY <1>2, <1>3, <1>4, <1>5 DEF IInv

LEMMA UserI ==
  ASSUME GroupKept, IInv, UserEdits, Forget, UNCHANGED entity
  PROVE  IInv'
<1>0. /\ BaseInv /\ TypeOK /\ GroupsRight /\ LoopType(SpecType, KindPhases)
      /\ LoopInv(Alive)
  BY IParts
<1>1. UserStepOver(SpecType)
  BY <1>0, UserForms
<1>2. /\ pc' = pc
      /\ \A v \in Workers : mem'[v].obj = mem[v].obj
      /\ \/ cr' = NoObject /\ cr.present
         \/ (\E s \in SpecType : cr' = NewObject(s)) /\ ~cr.present
         \/ cr'.present = cr.present /\ cr.present
  BY <1>0, <1>1, TypeParts, LoopUserForms
<1>3. BaseInv'
  BY <1>0, UserBase
<1>4. Evolves /\ Alive' = Alive /\ Given' = Given
  BY <1>0, Forgotten DEF Alive, Live, Given
<1>5. LoopInv(Alive)' /\ CopiesInv(Alive, Given)'
  <2>1. PICK L : L = Alive
    OBVIOUS
  <2>2. PICK G : G = Given
    OBVIOUS
  <2>3. LoopInv(L) /\ CopiesInv(L, G)
    BY <2>1, <2>2, IParts
  <2>4. LoopInv(L)' /\ CopiesInv(L, G)'
    BY <1>0, <1>1, <2>3, TypeParts, LoopUser, LoopUserCopies
  <2> QED
    BY <1>4, <2>1, <2>2, <2>4, AliveNext
<1>6. \A v \in Workers : Creating(v)' => cr'.creation = "pending"
  BY <1>5 DEF LoopInv, PassKnows
<1>7. \A v \in Workers : Creating(v) <=> Creating(v)'
  BY <1>2 DEF Creating
<1>8. CASE cr.present /\ cr'.present
  <2>1. SameKind(cr.spec, cr'.spec) /\ SameGroup(cr.spec, cr'.spec)
    <3>1. CASE cr'.spec = cr.spec
      BY <3>1 DEF SameKind, SameGroup
    <3>2. CASE \E s \in UserSpecs :
                 /\ SameKind(cr.spec, s)
                 /\ cr'.spec = IF Refers(s) THEN [s EXCEPT !.group = cr.spec.group] ELSE s
                 /\ SameKind(s, cr'.spec)
                 /\ s.kind = "AccessGroupRule" /\ Refers(s) => cr'.spec.group = cr.spec.group
      BY <1>0, <3>2 DEF GroupsRight, Refers, SameKind, SameGroup
    <3> QED
      BY <1>0, <1>8, <3>1, <3>2, UserForms
  <2>2. \A v \in Workers : Creating(v)' => SameGroup(mem'[v].obj.spec, cr'.spec)
    <3> SUFFICES ASSUME NEW v \in Workers, Creating(v)'
                 PROVE  SameGroup(mem'[v].obj.spec, cr'.spec)
      OBVIOUS
    <3>1. SameGroup(mem[v].obj.spec, cr.spec) /\ SameKind(mem[v].obj.spec, cr.spec)
      BY <1>0, <1>7, BaseParts DEF GroupsRight, PassRight
    <3> QED
      BY <1>2, <2>1, <3>1 DEF SameKind, SameGroup
  <2>3. GroupsRight'
    BY <1>0, <1>4, <2>1, <2>2, GroupsNext
  <2> QED
    BY <1>3, <1>5, <2>3 DEF IInv
<1>9. CASE ~(cr.present /\ cr'.present)
  <2>1. Alive' = {}
    BY <1>0, <1>4, <1>5, <1>9 DEF LoopInv, AccountedFor
  <2>2. cr'.spec \in UserSpecs /\ cr'.creation = "none"
    <3>1. CASE ~cr.present
      <4>1. cr'.spec \in UserSpecs
        BY <1>0, <3>1, UserForms
      <4> QED
        BY <1>2, <3>1, <4>1 DEF NewObject
    <3>2. CASE cr.present
      <4>1. cr' = NoObject
        BY <1>2, <1>9, <3>2
      <4>2. (CHOOSE s \in UserSpecs : TRUE) \in UserSpecs
        BY ReconcilerAssumption
      <4> QED
        BY <4>1, <4>2 DEF NoObject, NewObject
    <3> QED
      BY <3>1, <3>2
  <2>3. GroupsRight'
    BY <1>6, <2>1, <2>2, GroupsFresh
  <2> QED
    BY <1>3, <1>5, <2>3 DEF IInv
<1> QED
  BY <1>8, <1>9

LEMMA StutterI ==
  ASSUME IInv, UNCHANGED vars
  PROVE  IInv'
<1>1. BaseInv'
  BY StutterBase DEF IInv
<1>2. UNCHANGED <<cr, cache, mem, pc, faults, edits, entity, seen>>
  BY DEF vars
<1>3. Alive' = Alive /\ Given' = Given
  BY <1>2 DEF Alive, Live, Given
<1>4. LoopInv(Alive)'
  BY <1>2, <1>3
     DEF IInv, LoopInv, FreshIsCurrent, Sent, PassKnows, Creating, AccountedFor, AtMostOne
<1>5. CopiesInv(Alive, Given)'
  BY <1>2, <1>3 DEF IInv, CopiesInv, CopyRight
<1>6. GroupsRight'
  BY <1>2, <1>3 DEF IInv, GroupsRight, Creating
<1> QED
  BY <1>1, <1>4, <1>5, <1>6 DEF IInv

LEMMA InitI ==
  ASSUME GroupKept, Init
  PROVE  IInv
<1>1. BaseInv /\ Given = {} /\ Alive = {}
  BY InitBase
<1>2. LoopInv(Alive) /\ CopiesInv(Alive, Given)
  BY <1>1 DEF BaseInv
<1>3. PICK s \in UserSpecs : cr = NewObject(s)
  BY DEF Init, ReconcilerInit
<1>4. cr.spec \in UserSpecs /\ \A w \in Workers : ~Creating(w)
  BY <1>3 DEF NewObject, Init, ReconcilerInit, Creating
<1>5. GroupsRight
  BY <1>1, <1>4 DEF GroupKept, GroupsRight, SameKind
<1> QED
  BY <1>1, <1>2, <1>5 DEF IInv

LEMMA InvStep ==
  ASSUME Trustworthy, GroupKept, IInv, [Next]_vars
  PROVE  IInv'
<1>0. TypeOK /\ KindsRight
  BY IParts
<1>1. ASSUME NEW w \in Workers, LoopStep(w), Forget, UNCHANGED entity
      PROVE  IInv'
  BY <1>1, LoopI
<1>2. ASSUME NEW w \in Workers, ExternalStep(w) \/ ExternalFault(w)
      PROVE  IInv'
  BY <1>0, <1>2, HandlerForms, TouchI, SpecI, NameI, PanicI
<1>3. CASE UserEdits /\ Forget /\ UNCHANGED entity
  BY <1>3, UserI
<1>4. ASSUME NEW n \in Names, Drifts(n)
      PROVE  IInv'
  BY <1>4, DriftI
<1>5. CASE UNCHANGED vars
  BY <1>5, StutterI
<1> QED
  BY <1>1, <1>2, <1>3, <1>4, <1>5 DEF Next, WorkerStep, LoopStep

\* The invariant of the four controllers holds if what they are told of a creation
\* and of what is not there is true, and the rules of one CR stay in one group.
THEOREM InvCorrect ==
  ASSUME Trustworthy, GroupKept
  PROVE  Spec => []IInv
<1>1. Init => IInv
  BY InitI
<1>2. IInv /\ [Next]_vars => IInv'
  BY InvStep
<1> QED
  BY <1>1, <1>2, PTL DEF Spec

\* No access group, rule, policy or role is orphaned or made twice, wherever the
\* replicas crash and however old the copies are that they work from.
THEOREM NoOrphans ==
  ASSUME Trustworthy, GroupKept
  PROVE  Spec => []Accounted
<1>1. Spec => []IInv
  BY InvCorrect
<1>2. IInv => Accounted
  BY DEF IInv, LoopInv, AccountedFor, Accounted, Alive
<1> QED
  BY <1>1, <1>2, PTL

\* Delete, which carries no ETag, takes down only what the CR names that is being
\* deleted now, although a pass may work from a copy of an earlier version.
THEOREM DeletesOnRequest ==
  ASSUME Trustworthy, GroupKept
  PROVE  Spec => DeletedOnRequest
<1>1. Spec => []IInv
  BY InvCorrect
<1>2. ASSUME IInv, NEW n \in Names, NEW w \in Workers, Delete(w), entity'[n] # entity[n]
      PROVE  cr.deleting /\ cr.extName = n
  <2>1. pc[w] \in {"current", "outdated"} /\ mem[w].obj.deleting /\ Live(Id(w))
    BY <1>2 DEF Delete
  <2>2. n = Id(w)
    BY <1>2, <2>1, IParts DEF Delete, Write, TypeOK
  <2>3. CopyRight(mem[w].obj, Alive) /\ Id(w) \in Alive
    BY <1>2, <2>1, <2>2, IParts DEF CopiesInv, Alive
  <2> QED
    BY <2>1, <2>2, <2>3 DEF CopyRight, Id
<1>3. IInv /\ [Next]_vars =>
        [\A n \in Names :
           (\E w \in Workers : Delete(w)) /\ entity'[n] # entity[n]
             => cr.deleting /\ cr.extName = n]_vars
  BY <1>2
<1> QED
  BY <1>1, <1>3, PTL DEF Spec, DeletedOnRequest

-----------------------------------------------------------------------------
(***************************************************************************)
(* The controllers of the IAM kinds implement ExternalResource: one        *)
(* resource at a time, made for a CR that is there, taken down only for    *)
(* one that is being deleted, and none left when the CR goes.              *)
(***************************************************************************)
\* A step of the abstract specification, or none.
AbstractStep == [Resource!Next]_(Resource!vars)

LEMMA Stutter ==
  ASSUME Claim' = Claim, Alive' = Alive
  PROVE  AbstractStep
BY DEF AbstractStep, Resource!vars

LEMMA SameClaim ==
  ASSUME cr'.present = cr.present, cr'.deleting = cr.deleting
  PROVE  Claim' = Claim
BY DEF Claim

\* The loop changes no entity; when it lets the CR go there is none.
LEMMA LoopRefines ==
  ASSUME IInv, IInv', NEW w \in Workers, LoopStep(w), UNCHANGED entity
  PROVE  AbstractStep
<1>1. \/ Same(cr', cr)
      \/ cr' = NoObject
      \/ cr'.present = cr.present /\ cr'.deleting = cr.deleting
  BY IParts, TypeParts, LoopSources
<1>2. Alive' = Alive
  BY DEF Alive, Live
<1>3. CASE cr'.present = cr.present /\ cr'.deleting = cr.deleting
  BY <1>2, <1>3, SameClaim, Stutter
<1>4. CASE cr' = NoObject
  <2>1. ~cr'.present
    BY <1>4, TypeParts, LoopNoObjectType
  <2>2. Alive' = {}
    BY <2>1 DEF IInv, LoopInv, AccountedFor
  <2>3. Claim' = "none"
    BY <2>1 DEF Claim
  <2>4. CASE Claim = "none"
    BY <1>2, <2>3, <2>4, Stutter
  <2>5. CASE Claim # "none"
    <3>1. Resource!Release
      BY <1>2, <2>2, <2>3, <2>5 DEF Resource!Release
    <3> QED
      BY <3>1 DEF AbstractStep, Resource!Next
  <2> QED
    BY <2>4, <2>5
<1> QED
  BY <1>1, <1>3, <1>4 DEF Same

\* A handler that gives no name at most takes the entity down, for a CR that is
\* being deleted.
LEMMA TouchRefines ==
  ASSUME Trustworthy, IInv, NEW w \in Workers, NEW p \in KindPhases, TouchStep(w, p),
         CloudStep(w, p)
  PROVE  AbstractStep
<1>0. TypeOK /\ Claim' = Claim
  BY IParts, SameClaim DEF TouchStep, Touches
<1>1. CASE Gets(w, p) \/ GetsNothing(w, p) \/ Leaves(w, p)
  BY <1>0, <1>1, Stutter DEF Gets, GetsNothing, Leaves, Alive, Live
<1>2. ASSUME NEW n \in Names, Replaces(w, p, n)
      PROVE  AbstractStep
  <2>1. Alive' = Alive
    BY <1>0, <1>2 DEF Replaces, Write, Alive, Live, TypeOK
  <2> QED
    BY <1>0, <2>1, Stutter
<1>3. ASSUME NEW n \in Names, TakesDown(w, p, n)
      PROVE  AbstractStep
  <2>1. /\ n = Id(w) /\ n \in Alive /\ pc[w] \in {"current", "outdated"}
        /\ mem[w].obj.deleting /\ Write(n, Deleted)
    BY <1>3 DEF TakesDown, Alive
  <2>2. cr.extName = n /\ cr.deleting /\ cr.present /\ Alive = {n}
    BY <2>1, IParts DEF CopiesInv, CopyRight, Id, LoopInv, AccountedFor, AtMostOne
  <2>3. Alive' = {}
    BY <1>0, <2>1, <2>2 DEF Write, Alive, Live, TypeOK, Deleted
  <2>4. Claim = "deleting"
    BY <2>2 DEF Claim
  <2>5. Resource!TakeDown
    BY <1>0, <2>2, <2>3, <2>4 DEF Resource!TakeDown
  <2> QED
    BY <2>5 DEF AbstractStep, Resource!Next
<1> QED
  BY <1>1, <1>2, <1>3 DEF CloudStep, Loses, Trustworthy

\* What Observe writes to the API server is the spec.
LEMMA SpecRefines ==
  ASSUME IInv, NEW w \in Workers, NEW s \in SpecType, NEW r \in BOOLEAN,
         NEW p \in KindPhases, SpecStep(w, s, r, p)
  PROVE  AbstractStep
<1>1. /\ SpecWritten(w, s, r, p)
      /\ pc[w] \notin {"idle", "refuse", "create", "created", "createFailed", "finish"}
      /\ p \notin {"idle", "refuse", "absent", "create", "created", "createFailed"}
  BY DEF SpecStep
<1>2. PICK L : L = Alive
  OBVIOUS
<1>3. LoopInv(L) /\ LoopType(SpecType, KindPhases)
  BY <1>2, IParts
<1>4. cr'.present = cr.present /\ cr'.deleting = cr.deleting
  BY <1>1, <1>3, LoopSpecWritten
<1>5. Alive' = Alive
  BY DEF SpecStep, Alive, Live
<1> QED
  BY <1>4, <1>5, SameClaim, Stutter

\* Create makes one where none is, for a CR that is there.
LEMMA NameRefines ==
  ASSUME IInv, NEW w \in Workers, NEW n \in Names, NameStep(w, n)
  PROVE  AbstractStep
<1>1. Alive = {} /\ Alive' = {n} /\ cr.present /\ UNCHANGED cr
  BY NameI
<1>2. Claim # "none" /\ Claim' = Claim
  BY <1>1 DEF Claim
<1>3. Resource!Make
  BY <1>1, <1>2 DEF Resource!Make
<1> QED
  BY <1>3 DEF AbstractStep, Resource!Next

\* Somebody else's deletion is one that the abstract resource allows for.
LEMMA DriftRefines ==
  ASSUME IInv, NEW n \in Names, Drifts(n)
  PROVE  AbstractStep
<1>1. /\ UNCHANGED cr /\ Live(n) /\ \A m \in Names \ {n} : entity'[m] = entity[m]
      /\ "drift" \in FaultKinds
  BY IParts, DriftForms DEF Drifts, Fault
<1>2. Alive = {n} /\ Claim' = Claim
  BY <1>1 DEF IInv, LoopInv, AtMostOne, Alive, Claim
<1>3. Alive' \subseteq Alive
  BY DriftI
<1>4. CASE Alive' = Alive
  BY <1>2, <1>4, Stutter
<1>5. CASE Alive' = {}
  <2>1. Resource!Vanish
    BY <1>1, <1>2, <1>5 DEF Resource!Vanish
  <2> QED
    BY <2>1 DEF AbstractStep, Resource!Next
<1>6. Alive' = {} \/ Alive' = {n}
  BY <1>2, <1>3
<1> QED
  BY <1>2, <1>4, <1>5, <1>6

\* A CR is applied, and let go without a deletion, only where there is no entity.
LEMMA UserRefines ==
  ASSUME IInv, UserEdits, UNCHANGED entity
  PROVE  AbstractStep
<1>0. /\ TypeOK /\ LoopType(SpecType, KindPhases)
      /\ ~cr.present \/ ~cr.finalizer => Alive = {}
  BY IParts DEF LoopInv, AccountedFor
<1>1. Alive' = Alive
  BY DEF Alive, Live
<1>2. UserStepOver(SpecType)
  BY <1>0, UserForms
<1>3. \/ cr' = NoObject /\ ~cr.finalizer /\ cr.present /\ ~cr.deleting
      \/ (\E s \in SpecType : cr' = NewObject(s)) /\ ~cr.present
      \/ cr'.present = cr.present /\ cr'.deleting = cr.deleting
      \/ cr'.present /\ cr.present /\ cr'.deleting /\ ~cr.deleting
  <2>1. UserSpecs \subseteq SpecType
    BY TypeParts
  <2> QED
    BY <1>0, <1>2, <2>1, LoopUserForms, ZenonT(30)
<1>4. CASE cr' = NoObject /\ ~cr.finalizer /\ cr.present /\ ~cr.deleting
  <2>1. ~cr'.present
    BY <1>4, TypeParts, LoopNoObjectType
  <2>2. Claim # "none" /\ Claim' = "none"
    BY <1>4, <2>1 DEF Claim
  <2>3. Resource!Release
    BY <1>0, <1>1, <1>4, <2>2 DEF Resource!Release
  <2> QED
    BY <2>3 DEF AbstractStep, Resource!Next
<1>5. CASE (\E s \in SpecType : cr' = NewObject(s)) /\ ~cr.present
  <2>1. Claim = "none" /\ Claim' = "there"
    BY <1>5 DEF Claim, NewObject
  <2>2. Resource!Apply
    BY <1>0, <1>1, <1>5, <2>1 DEF Resource!Apply
  <2> QED
    BY <2>2 DEF AbstractStep, Resource!Next
<1>6. CASE cr'.present /\ cr.present /\ cr'.deleting /\ ~cr.deleting
  <2>1. Claim = "there" /\ Claim' = "deleting"
    BY <1>6 DEF Claim
  <2>2. Resource!AskDeletion
    BY <1>1, <2>1 DEF Resource!AskDeletion
  <2> QED
    BY <2>2 DEF AbstractStep, Resource!Next
<1>7. CASE cr'.present = cr.present /\ cr'.deleting = cr.deleting
  BY <1>1, <1>7, SameClaim, Stutter
<1> QED
  BY <1>3, <1>4, <1>5, <1>6, <1>7

-----------------------------------------------------------------------------
\* Every step maps to a step of the abstract specification or to none.
LEMMA RefinementStep ==
  ASSUME Trustworthy, IInv, IInv', [Next]_vars
  PROVE  AbstractStep
<1>0. TypeOK /\ KindsRight
  BY IParts
<1>1. ASSUME NEW w \in Workers, LoopStep(w), UNCHANGED entity
      PROVE  AbstractStep
  BY <1>1, LoopRefines
<1>2. ASSUME NEW w \in Workers, ExternalStep(w) \/ ExternalFault(w)
      PROVE  AbstractStep
  <2>1. CASE PanicStep(w)
    BY <2>1, SameClaim, Stutter DEF PanicStep, Alive, Live
  <2> QED
    BY <1>0, <1>2, <2>1, HandlerForms, TouchRefines, SpecRefines, NameRefines
<1>3. CASE UserEdits /\ Forget /\ UNCHANGED entity
  BY <1>3, UserRefines
<1>4. ASSUME NEW n \in Names, Drifts(n)
      PROVE  AbstractStep
  BY <1>4, DriftRefines
<1>5. CASE UNCHANGED vars
  BY <1>5, SameClaim, Stutter DEF vars, Alive, Live
<1> QED
  BY <1>1, <1>2, <1>3, <1>4, <1>5 DEF Next, WorkerStep, LoopStep

LEMMA RefinementInit ==
  ASSUME Init
  PROVE  Resource!Init
<1>1. Alive = {}
  BY InitBase
<1>2. PICK s \in UserSpecs : cr = NewObject(s)
  BY DEF Init, ReconcilerInit
<1> QED
  BY <1>1, <1>2 DEF NewObject, Claim, Resource!Init

\* The four controllers, the loop and the cloud together implement ExternalResource.
THEOREM Refinement ==
  ASSUME Trustworthy, GroupKept
  PROVE  Spec => KeepsPromise
<1>1. Spec => []IInv
  BY InvCorrect
<1>2. Init => Resource!Init
  BY RefinementInit
<1>3. IInv /\ IInv' /\ [Next]_vars => [Resource!Next]_(Resource!vars)
  BY RefinementStep DEF AbstractStep
<1> QED
  BY <1>1, <1>2, <1>3, PTL DEF Spec, KeepsPromise, Resource!Spec
=============================================================================
