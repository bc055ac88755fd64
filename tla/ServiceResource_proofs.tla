------------------------ MODULE ServiceResource_proofs ------------------------
(***************************************************************************)
(* Proofs about ServiceResource.                                           *)
(***************************************************************************)
EXTENDS ServiceResource, ManagedReconciler_proofs

-----------------------------------------------------------------------------
(***************************************************************************)
(* What the clients of the kinds return is well formed                     *)
(***************************************************************************)
AllKinds ==
  {"ResourceKey", "Topic", "CloudantDatabase", "Bucket", "ScalingGroup",
   "AutoscalingGroup", "Whitelist"}

LEMMA SpecTypes ==
  ASSUME NEW spec \in SpecType
  PROVE  /\ spec.kind = "ResourceKey" => spec \in Key!SpecType
         /\ spec.kind = "Topic" => spec \in Top!SpecType
         /\ spec.kind = "CloudantDatabase" => spec \in Db!SpecType
         /\ spec.kind = "Bucket" => spec \in Buck!SpecType
         /\ spec.kind = "ScalingGroup" => spec \in Scal!SpecType
         /\ spec.kind = "AutoscalingGroup" => spec \in Autos!SpecType
         /\ spec.kind = "Whitelist" => spec \in White!SpecType
         /\ spec.kind \in AllKinds
BY DEF SpecType, Key!SpecType, Top!SpecType, Db!SpecType, Buck!SpecType, Scal!SpecType,
       Autos!SpecType, White!SpecType, AllKinds

LEMMA ContentTypes ==
  ASSUME NEW is \in Content
  PROVE  /\ is.kind = "ResourceKey" => is \in Key!Content
         /\ is.kind = "Topic" => is \in Top!Content
         /\ is.kind = "CloudantDatabase" => is \in Db!Content
         /\ is.kind = "Bucket" => is \in Buck!Content
         /\ is.kind = "ScalingGroup" => is \in Scal!Content
         /\ is.kind = "AutoscalingGroup" => is \in Autos!Content
         /\ is.kind = "Whitelist" => is \in White!Content
         /\ is.kind \in AllKinds
BY DEF Content, Key!Content, Top!Content, Db!Content, Buck!Content, Scal!Content,
       Autos!Content, White!Content, AllKinds

\* A reference that is resolved, and the value of one that an apply leaves alone.
LEMMA SourceTypes ==
  ASSUME NEW spec \in SpecType
  PROVE  /\ spec.source \in Sources \cup {Unset}
         /\ spec.kind = "Bucket" => spec.name \in GivenNames
         /\ spec.kind \in NamedKinds => spec.name \in GivenNames
         /\ \A x \in Sources \cup {Unset} :
              /\ [spec EXCEPT !.source = x] \in SpecType
              /\ [spec EXCEPT !.source = x].source = x
              /\ [spec EXCEPT !.source = x].kind = spec.kind
              /\ spec.kind = "Bucket" => [spec EXCEPT !.source = x].name = spec.name
<1> DEFINE Goal == /\ spec.source \in Sources \cup {Unset}
                   /\ spec.kind \in NamedKinds => spec.name \in GivenNames
                   /\ \A x \in Sources \cup {Unset} :
                        /\ [spec EXCEPT !.source = x] \in SpecType
                        /\ [spec EXCEPT !.source = x].source = x
                        /\ [spec EXCEPT !.source = x].kind = spec.kind
                        /\ spec.kind = "Bucket" => [spec EXCEPT !.source = x].name = spec.name
<1>1. CASE spec \in Key!SpecType
  BY <1>1 DEF Key!SpecType, SpecType, NamedKinds
<1>2. CASE spec \in Top!SpecType
  BY <1>2 DEF Top!SpecType, SpecType, NamedKinds
<1>3. CASE spec \in Db!SpecType
  BY <1>3 DEF Db!SpecType, SpecType, NamedKinds
<1>4. CASE spec \in Buck!SpecType
  BY <1>4 DEF Buck!SpecType, SpecType, NamedKinds
<1>5. CASE spec \in Scal!SpecType
  BY <1>5 DEF Scal!SpecType, SpecType, NamedKinds
<1>6. CASE spec \in Autos!SpecType
  BY <1>6 DEF Autos!SpecType, SpecType, NamedKinds
<1>7. CASE spec \in White!SpecType
  BY <1>7 DEF White!SpecType, SpecType, NamedKinds
<1>8. Goal
  BY <1>1, <1>2, <1>3, <1>4, <1>5, <1>6, <1>7 DEF SpecType
<1> QED
  BY <1>8 DEF NamedKinds

LEMMA ContentSource ==
  ASSUME NEW is \in Content, is.kind \notin SettingKinds
  PROVE  is.source \in Sources
BY ContentTypes
   DEF Key!Content, Top!Content, Db!Content, Buck!Content, AllKinds, SettingKinds,
       ScalingKinds

-----------------------------------------------------------------------------
\* Updates, other people's edits and late initialisation, kind by kind: the source of
\* a thing and of a spec stays.
LEMMA KeyTypes ==
  ASSUME NEW spec \in Key!SpecType, NEW is \in Key!Content
  PROVE  /\ Key!Updated(spec, is) \in Key!Content
         /\ Key!Updated(spec, is).source = is.source
         /\ Key!Edited(is) \subseteq Key!Content
         /\ \A e \in Key!Edited(is) : e.source = is.source
         /\ Key!Observe(spec, is).spec \in Key!SpecType
         /\ Key!Observe(spec, is).spec.source = spec.source
BY DEF Key!SpecType, Key!Content, Key!Updated, Key!Edited, Key!Observe,
       Key!LateInitializeSpec

LEMMA TopicTypes ==
  ASSUME NEW spec \in Top!SpecType, NEW is \in Top!Content, NEW found
  PROVE  /\ Top!Updated(spec, found, is) \in Top!Content
         /\ Top!Updated(spec, found, is).source = is.source
         /\ Top!Edited(is) \subseteq Top!Content
         /\ \A e \in Top!Edited(is) : e.source = is.source
         /\ Top!Observe(spec, is).spec \in Top!SpecType
         /\ Top!Observe(spec, is).spec.source = spec.source
<1>1. /\ Top!Updated(spec, found, is) \in Top!Content
      /\ Top!Updated(spec, found, is).source = is.source
  <2> DEFINE n == IF Top!SendsCount(spec, found) THEN spec.partitionCount ELSE is.partitions
             cs == [c \in KnownConfigs |->
                      IF spec.configs[c] = Unset THEN is.configs[c] ELSE spec.configs[c]]
  <2>1. n \in PartitionCounts \cup {1}
    BY DEF Top!SendsCount, Top!SpecType, Top!Content
  <2>2. cs \in [KnownConfigs -> ConfigValues]
    BY ServiceKindsAssumption DEF Top!SpecType, Top!Content
  <2>3. Top!Updated(spec, found, is) = [is EXCEPT !.partitions = n, !.configs = cs]
    BY DEF Top!Updated, Top!Content
  <2> HIDE DEF n, cs
  <2> QED
    BY <2>1, <2>2, <2>3 DEF Top!Content
<1>2. /\ Top!Edited(is) \subseteq Top!Content
      /\ \A e \in Top!Edited(is) : e.source = is.source
  BY DEF Top!Edited, Top!Content
<1>3. /\ Top!Observe(spec, is).spec \in Top!SpecType
      /\ Top!Observe(spec, is).spec.source = spec.source
  <2> DEFINE m == IF spec.partitionCount # Unset THEN spec.partitionCount
                  ELSE IF spec.partitions = Unset THEN is.partitions ELSE spec.partitions
             n == IF spec.partitionCount = Unset THEN is.partitions ELSE spec.partitionCount
             cs == [c \in ConfigNames |->
                      CASE c \notin KnownConfigs -> Unset
                        [] c \in KnownConfigs /\ spec.configs[c] # Unset -> spec.configs[c]
                        [] OTHER -> is.configs[c]]
  <2>1. m \in PartitionCounts \cup {1, Unset} /\ n \in PartitionCounts \cup {1, Unset}
    BY DEF Top!SpecType, Top!Content
  <2>2. cs \in [ConfigNames -> ConfigValues \cup {Unset}]
    <3> SUFFICES ASSUME NEW c \in ConfigNames PROVE cs[c] \in ConfigValues \cup {Unset}
      OBVIOUS
    <3> QED
      BY DEF Top!SpecType, Top!Content
  <2>3. Top!LateInitializeSpec(spec, is)
          = [spec EXCEPT !.partitions = m, !.partitionCount = n, !.configs = cs]
    BY DEF Top!LateInitializeSpec, Top!SpecType
  <2> HIDE DEF m, n, cs
  <2> QED
    BY <2>1, <2>2, <2>3 DEF Top!SpecType, Top!Observe
<1> QED
  BY <1>1, <1>2, <1>3

LEMMA DatabaseTypes ==
  ASSUME NEW spec \in Db!SpecType, NEW is \in Db!Content
  PROVE  /\ Db!Observe(spec, is).spec \in Db!SpecType
         /\ Db!Observe(spec, is).spec.source = spec.source
BY DEF Db!SpecType, Db!Content, Db!Observe, Db!LateInitializeSpec

\* The memory of a group is converted there and back within the naturals.
LEMMA ScalingTypes ==
  ASSUME NEW spec \in Scal!SpecType, NEW is \in Scal!Content
  PROVE  /\ \A found \in Scal!Content :
              Unset \notin {spec.members, spec.memberMemory} =>
                Scal!Updated(spec, found, is) \in Scal!Content
         /\ Scal!Edited(is) \subseteq Scal!Content
         /\ Scal!Deployed \subseteq Scal!Content
         /\ Scal!Observe(spec, is).spec \in Scal!SpecType
         /\ Scal!Observe(spec, is).spec.source = spec.source
         /\ Unset \notin {Scal!Observe(spec, is).spec.members,
                          Scal!Observe(spec, is).spec.memberMemory}
<1>1. MemberCounts \subseteq Nat \ {0} /\ Totals \subseteq Nat /\ Unset \notin Nat
  BY ServiceKindsAssumption
<1>2. is.members \in MemberCounts /\ is.members \in Nat \ {0} /\ is.memory \in Nat
  BY <1>1 DEF Scal!Content
<1>3. \A a \in Nat, b \in Nat \ {0} : a \div b \in Nat
  OBVIOUS
<1>4. \A a, b \in Nat : a * b \in Nat
  OBVIOUS
<1>5. Scal!MemberMemory(is) \in Nat
  BY <1>2, <1>3 DEF Scal!MemberMemory
<1>6. ASSUME NEW found \in Scal!Content, Unset \notin {spec.members, spec.memberMemory}
      PROVE  Scal!Updated(spec, found, is) \in Scal!Content
  <2>1. /\ spec.members \in MemberCounts /\ spec.members \in Nat /\ spec.memberMemory \in Nat
        /\ found.members \in Nat
    BY <1>1, <1>6 DEF Scal!SpecType, Scal!Content
  <2>2. (Scal!Total(spec, found) \div is.members) * spec.members \in Nat
    BY <1>2, <1>3, <1>4, <2>1 DEF Scal!Total
  <2> QED
    BY <2>1, <2>2 DEF Scal!Updated, Scal!Content
<1>7. Scal!Edited(is) \subseteq Scal!Content /\ Scal!Deployed \subseteq Scal!Content
  BY <1>1 DEF Scal!Edited, Scal!Deployed, Scal!Content
<1>8. /\ Scal!Observe(spec, is).spec \in Scal!SpecType
      /\ Scal!Observe(spec, is).spec.source = spec.source
      /\ Unset \notin {Scal!Observe(spec, is).spec.members,
                       Scal!Observe(spec, is).spec.memberMemory}
  BY <1>1, <1>2, <1>5 DEF Scal!SpecType, Scal!Observe, Scal!LateInitializeSpec
<1> QED
  BY <1>6, <1>7, <1>8

LEMMA AutoscalingTypes ==
  ASSUME NEW spec \in Autos!SpecType, NEW is \in Autos!Content
  PROVE  /\ Autos!Updated(spec, is) \in Autos!Content
         /\ Autos!Edited(is) \subseteq Autos!Content
         /\ Autos!Observe(spec, is).spec \in Autos!SpecType
         /\ Autos!Observe(spec, is).spec.source = spec.source
<1>1. Autos!Filled(spec.scalers, is.scalers) \in [Scaled -> Scalers]
  BY DEF Autos!Filled, Autos!SpecType, Autos!Content
<1> QED
  BY <1>1
     DEF Autos!SpecType, Autos!Content, Autos!Updated, Autos!Edited, Autos!Deployed,
         Autos!Observe, Autos!LateInitializeSpec

LEMMA WhitelistTypes ==
  ASSUME NEW spec \in White!SpecType, NEW is \in White!Content
  PROVE  /\ White!Replace(spec, is) \in White!Content
         /\ White!Emptied(is) \in White!Content
         /\ White!Edited(is) \subseteq White!Content
         /\ White!Deployed \subseteq White!Content
         /\ White!Observe(spec, is).spec \in White!SpecType
         /\ White!Observe(spec, is).spec.source = spec.source
<1>1. <<>> \in Seq(Addresses) /\ \A a \in Addresses : <<a>> \in Seq(Addresses)
  OBVIOUS
<1>2. White!Replace(spec, is) \in White!Content /\ White!Emptied(is) \in White!Content
  BY <1>1 DEF White!Replace, White!Emptied, White!SpecType, White!Content
<1>3. White!Edited(is) \subseteq White!Content
  <2>1. \A s \in Seq(Addresses) : [is EXCEPT !.addresses = s] \in White!Content
    BY DEF White!Content
  <2>2. {<<>>} \cup {<<a>> : a \in Addresses} \subseteq Seq(Addresses)
    BY <1>1
  <2> QED
    BY <2>1, <2>2 DEF White!Edited
<1>5. White!Deployed \subseteq White!Content
  BY <1>1 DEF White!Deployed, White!Content
<1>4. /\ White!Observe(spec, is).spec \in White!SpecType
      /\ White!Observe(spec, is).spec.source = spec.source
  BY DEF White!Observe, White!LateInitializeSpec, White!SpecType, White!Content
<1> QED
  BY <1>2, <1>3, <1>4, <1>5

\* Of any kind.
LEMMA UpdatedTypes ==
  ASSUME NEW spec \in SpecType, NEW is \in Content, NEW found \in Content,
         spec.kind = is.kind, found.kind = is.kind,
         spec.kind = "ScalingGroup" => Unset \notin {spec.members, spec.memberMemory}
  PROVE  /\ Updated(spec, found, is) \in Content
         /\ Updated(spec, found, is).kind = is.kind
         /\ is.kind = "Bucket" => Updated(spec, found, is).name = is.name
         /\ is.kind \notin SettingKinds => SamePlace(is, Updated(spec, found, is))
<1>1. CASE spec.kind = "ResourceKey"
  <2>1. Updated(spec, found, is) = Key!Updated(spec, is)
    BY <1>1 DEF Updated
  <2>2. Key!Updated(spec, is) \in Key!Content /\ Key!Updated(spec, is).source = is.source
    BY <1>1, SpecTypes, ContentTypes, KeyTypes
  <2> QED
    BY <1>1, <2>1, <2>2 DEF Content, Key!Content, SamePlace
<1>2. CASE spec.kind = "Topic"
  <2>1. Updated(spec, found, is) = Top!Updated(spec, found, is)
    BY <1>2 DEF Updated
  <2>2. /\ Top!Updated(spec, found, is) \in Top!Content
        /\ Top!Updated(spec, found, is).source = is.source
    <3>1. spec \in Top!SpecType /\ is \in Top!Content
      BY <1>2, SpecTypes, ContentTypes
    <3> QED
      BY <3>1, TopicTypes
  <2> QED
    BY <1>2, <2>1, <2>2 DEF Content, Top!Content, SamePlace
<1>3. CASE spec.kind \in {"CloudantDatabase", "Bucket"}
  <2>1. Updated(spec, found, is) = is
    BY <1>3 DEF Updated
  <2> QED
    BY <2>1 DEF SamePlace
<1>4. CASE spec.kind = "ScalingGroup"
  <2>1. Updated(spec, found, is) = Scal!Updated(spec, found, is)
    BY <1>4 DEF Updated
  <2>2. Scal!Updated(spec, found, is) \in Scal!Content
    BY <1>4, SpecTypes, ContentTypes, ScalingTypes
  <2> QED
    BY <1>4, <2>1, <2>2 DEF Content, Scal!Content, SettingKinds, ScalingKinds
<1>5. CASE spec.kind = "AutoscalingGroup"
  <2>1. Updated(spec, found, is) = Autos!Updated(spec, is)
    BY <1>5 DEF Updated
  <2>2. Autos!Updated(spec, is) \in Autos!Content
    BY <1>5, SpecTypes, ContentTypes, AutoscalingTypes
  <2> QED
    BY <1>5, <2>1, <2>2 DEF Content, Autos!Content, SettingKinds, ScalingKinds
<1>6. CASE spec.kind = "Whitelist"
  <2>1. Updated(spec, found, is) = White!Replace(spec, is)
    BY <1>6 DEF Updated, White!Updated
  <2>2. White!Replace(spec, is) \in White!Content
    BY <1>6, SpecTypes, ContentTypes, WhitelistTypes
  <2> QED
    BY <1>6, <2>1, <2>2 DEF Content, White!Content, SettingKinds
<1> QED
  BY <1>1, <1>2, <1>3, <1>4, <1>5, <1>6, SpecTypes DEF AllKinds

LEMMA EditedTypes ==
  ASSUME NEW is \in Content, NEW e \in Edited(is)
  PROVE  /\ e \in Content /\ e.kind = is.kind
         /\ is.kind = "Bucket" => e.name = is.name
         /\ is.kind \notin SettingKinds => SamePlace(is, e)
<1>1. CASE is.kind = "ResourceKey"
  BY <1>1, ContentTypes DEF Edited, Key!Edited, Key!Content, Content, SamePlace
<1>2. CASE is.kind = "Topic"
  BY <1>2, ContentTypes DEF Edited, Top!Edited, Top!Content, Content, SamePlace
<1>3. CASE is.kind \in {"CloudantDatabase", "Bucket"}
  BY <1>3 DEF Edited
<1>4. CASE is.kind = "ScalingGroup"
  <2>1. e \in Scal!Deployed
    BY <1>4 DEF Edited, Scal!Edited
  <2>2. e \in Scal!Content
    BY <2>1, ServiceKindsAssumption DEF Scal!Deployed, Scal!Content
  <2> QED
    BY <1>4, <2>2 DEF Content, Scal!Content, SettingKinds, ScalingKinds
<1>5. CASE is.kind = "AutoscalingGroup"
  BY <1>5
     DEF Edited, Autos!Edited, Autos!Deployed, Autos!Content, Content, SettingKinds,
         ScalingKinds
<1>6. CASE is.kind = "Whitelist"
  <2>1. e \in White!Edited(is) /\ is \in White!Content
    BY <1>6, ContentTypes DEF Edited
  <2>2. PICK spec : spec = [kind |-> "Whitelist", source |-> Unset, addresses |-> Unset]
    OBVIOUS
  <2>3. spec \in White!SpecType
    BY <2>2 DEF White!SpecType
  <2>4. e \in White!Content
    BY <2>1, <2>3, WhitelistTypes
  <2> QED
    BY <1>6, <2>4 DEF Content, White!Content, SettingKinds
<1> QED
  BY <1>1, <1>2, <1>3, <1>4, <1>5, <1>6, ContentTypes DEF AllKinds

LEMMA DeployedTypes ==
  ASSUME NEW kind \in SettingKinds, NEW is \in Deployed(kind)
  PROVE  is \in Content /\ is.kind = kind
<1>1. CASE kind = "ScalingGroup"
  <2>1. is \in Scal!Deployed
    BY <1>1 DEF Deployed
  <2>2. is \in Scal!Content
    BY <2>1, ServiceKindsAssumption DEF Scal!Deployed, Scal!Content
  <2> QED
    BY <1>1, <2>2 DEF Content, Scal!Content
<1>2. CASE kind = "AutoscalingGroup"
  BY <1>2 DEF Deployed, Autos!Deployed, Autos!Content, Content
<1>3. CASE kind = "Whitelist"
  <2>1. is = [kind |-> "Whitelist", addresses |-> <<>>]
    BY <1>3 DEF Deployed, White!Deployed
  <2>2. <<>> \in Seq(Addresses)
    OBVIOUS
  <2> QED
    BY <1>3, <2>1, <2>2 DEF Content, White!Content
<1> QED
  BY <1>1, <1>2, <1>3 DEF SettingKinds, ScalingKinds

LEMMA ObservedTypes ==
  ASSUME NEW spec \in SpecType, NEW is \in Content, spec.kind = is.kind
  PROVE  /\ Observe(spec, is).spec \in SpecType
         /\ Observe(spec, is).spec.kind = spec.kind
         /\ SamePlace(spec, Observe(spec, is).spec)
         /\ Observe(spec, is).ready \in BOOLEAN
         /\ spec.kind = "ScalingGroup" =>
              Unset \notin {Observe(spec, is).spec.members,
                            Observe(spec, is).spec.memberMemory}
<1>1. CASE spec.kind = "ResourceKey"
  <2>1. /\ Observe(spec, is) = Key!Observe(spec, is)
        /\ Key!Observe(spec, is).ready = TRUE
    BY <1>1 DEF Observe, Key!Observe
  <2>2. /\ Key!Observe(spec, is).spec \in Key!SpecType
        /\ Key!Observe(spec, is).spec.source = spec.source
    BY <1>1, SpecTypes, ContentTypes, KeyTypes
  <2> QED
    BY <1>1, <2>1, <2>2 DEF SpecType, Key!SpecType, SamePlace
<1>2. CASE spec.kind = "Topic"
  <2>1. /\ Observe(spec, is) = Top!Observe(spec, is)
        /\ Top!Observe(spec, is).ready = TRUE
    BY <1>2 DEF Observe, Top!Observe
  <2>2. /\ Top!Observe(spec, is).spec \in Top!SpecType
        /\ Top!Observe(spec, is).spec.source = spec.source
    BY <1>2, SpecTypes, ContentTypes, TopicTypes
  <2> QED
    BY <1>2, <2>1, <2>2 DEF SpecType, Top!SpecType, SamePlace
<1>3. CASE spec.kind = "CloudantDatabase"
  <2>1. /\ Observe(spec, is) = Db!Observe(spec, is)
        /\ Db!Observe(spec, is).ready = TRUE
    BY <1>3 DEF Observe, Db!Observe
  <2>2. /\ Db!Observe(spec, is).spec \in Db!SpecType
        /\ Db!Observe(spec, is).spec.source = spec.source
    BY <1>3, SpecTypes, ContentTypes, DatabaseTypes
  <2> QED
    BY <1>3, <2>1, <2>2 DEF SpecType, Db!SpecType, SamePlace
<1>4. CASE spec.kind = "Bucket"
  <2>1. Observe(spec, is).spec = spec /\ Observe(spec, is).ready = FALSE
    BY <1>4 DEF Observe, Buck!Observe
  <2> QED
    BY <1>4, <2>1 DEF SamePlace
<1>5. CASE spec.kind = "ScalingGroup"
  <2>1. /\ Observe(spec, is) = Scal!Observe(spec, is)
        /\ Scal!Observe(spec, is).ready = TRUE
    BY <1>5 DEF Observe, Scal!Observe
  <2>2. /\ Scal!Observe(spec, is).spec \in Scal!SpecType
        /\ Scal!Observe(spec, is).spec.source = spec.source
        /\ Unset \notin {Scal!Observe(spec, is).spec.members,
                         Scal!Observe(spec, is).spec.memberMemory}
    BY <1>5, SpecTypes, ContentTypes, ScalingTypes
  <2> QED
    BY <1>5, <2>1, <2>2 DEF SpecType, Scal!SpecType, SamePlace
<1>6. CASE spec.kind = "AutoscalingGroup"
  <2>1. /\ Observe(spec, is) = Autos!Observe(spec, is)
        /\ Autos!Observe(spec, is).ready = TRUE
    BY <1>6 DEF Observe, Autos!Observe
  <2>2. /\ Autos!Observe(spec, is).spec \in Autos!SpecType
        /\ Autos!Observe(spec, is).spec.source = spec.source
    BY <1>6, SpecTypes, ContentTypes, AutoscalingTypes
  <2> QED
    BY <1>6, <2>1, <2>2 DEF SpecType, Autos!SpecType, SamePlace
<1>7. CASE spec.kind = "Whitelist"
  <2>1. /\ Observe(spec, is) = White!Observe(spec, is)
        /\ White!Observe(spec, is).ready = TRUE
    BY <1>7 DEF Observe, White!Observe
  <2>2. /\ White!Observe(spec, is).spec \in White!SpecType
        /\ White!Observe(spec, is).spec.source = spec.source
    BY <1>7, SpecTypes, ContentTypes, WhitelistTypes
  <2> QED
    BY <1>7, <2>1, <2>2 DEF SpecType, White!SpecType, SamePlace
<1> QED
  BY <1>1, <1>2, <1>3, <1>4, <1>5, <1>6, <1>7, SpecTypes DEF AllKinds

\* The states of what the cloud knows.
EntityTypes == entity \in [Names -> Entities] /\ seen \in [Workers -> Content \cup {NotSeen}]

BearersRight == \A n \in Names : Live(n) => BearerRight(n)

LEMMA EntityStates ==
  /\ Unknown.state = "unknown" /\ Deleted.state = "deleted"
  /\ Unknown \in Entities /\ Deleted \in Entities
  /\ \A e \in Entities : /\ e.state = "live" => e.is \in Content
                         /\ e.state = "live" \/ e = Unknown \/ e = Deleted
                         /\ e.state = "live" => \A is \in Content :
                              /\ [e EXCEPT !.is = is] \in Entities
                              /\ [e EXCEPT !.is = is].state = "live"
                              /\ [e EXCEPT !.is = is].by = e.by
                              /\ [e EXCEPT !.is = is].is = is
  /\ \A by \in Owners, is \in Content :
       /\ Bearer(by, is) \in Entities
       /\ Bearer(by, is).state = "live" /\ Bearer(by, is).by = by /\ Bearer(by, is).is = is
BY DEF Entities, Unknown, Deleted, Bearer

LEMMA SourceNames ==
  /\ Sources \subseteq Names /\ GivenNames \subseteq Names /\ NoName \notin Names
  /\ UserSpecs \subseteq SpecType
BY ServiceResourceAssumption, ReconcilerAssumption

\* What may be made for a spec whose reference is resolved: where the spec says, and
\* under a name that nobody has, but for a whitelist.
LEMMA CreationTypes ==
  ASSUME EntityTypes, BearersRight, NEW spec \in SpecType, spec.source \in Sources,
         spec.kind = source.kind, NEW c \in Creations(spec, entity)
  PROVE  /\ c.name \in Names
         /\ spec.kind \notin ScalingKinds =>
              /\ c.is \in Content /\ c.is.kind = spec.kind
              /\ spec.kind = "Bucket" => c.is.name = c.name
         /\ spec.kind \notin SettingKinds =>
              SamePlace(spec, c.is) /\ entity[c.name].state # "live"
         /\ spec.kind = "ResourceKey" => entity[c.name] = Unknown
<1>0. entity \in [Names -> Entities] /\ DOMAIN entity = Names
  BY DEF EntityTypes
<1>1. CASE spec.kind = "ResourceKey"
  <2>1. spec \in Key!SpecType
    BY <1>1, SpecTypes
  <2>2. PICK n \in {m \in Names : entity[m].state = "unknown"} :
          c = [name |-> n, is |-> Key!Created(spec)]
    BY <1>0, <1>1 DEF Creations, Key!Creations
  <2>3. /\ Key!Created(spec) \in Key!Content /\ Key!Created(spec).source = spec.source
    BY <2>1, ServiceKindsAssumption DEF Key!Created, Key!SpecType, Key!Content
  <2>4. entity[n] = Unknown
    BY <1>0, <2>2, EntityStates
  <2> QED
    BY <1>1, <2>2, <2>3, <2>4, EntityStates DEF Content, Key!Content, SamePlace
<1>2. CASE spec.kind = "Topic"
  <2>1. spec \in Top!SpecType /\ spec.name \in Names
    BY <1>2, SpecTypes, SourceTypes, SourceNames DEF NamedKinds
  <2>2. /\ c.name = spec.name /\ c.is = Top!Created(spec)
        /\ entity[spec.name].state # "live"
    BY <1>2 DEF Creations, Top!Creations
  <2>3. Top!Created(spec) \in Top!Content /\ Top!Created(spec).source = spec.source
    <3> DEFINE n == CASE spec.partitionCount # Unset -> spec.partitionCount
                      [] spec.partitionCount = Unset /\ spec.partitions # Unset
                           -> spec.partitions
                      [] OTHER -> 1
               cs == [k \in KnownConfigs |-> IF spec.configs[k] = Unset THEN DefaultValue
                                             ELSE spec.configs[k]]
    <3>1. n \in PartitionCounts \cup {1}
      BY <2>1 DEF Top!SpecType
    <3>2. cs \in [KnownConfigs -> ConfigValues]
      BY <2>1, ServiceKindsAssumption DEF Top!SpecType
    <3>3. Top!Created(spec) = [kind |-> "Topic", source |-> spec.source, name |-> spec.name,
                               partitions |-> n, configs |-> cs]
      BY DEF Top!Created
    <3>4. spec.name \in GivenNames
      BY <2>1 DEF Top!SpecType
    <3> HIDE DEF n, cs
    <3> QED
      BY <3>1, <3>2, <3>3, <3>4 DEF Top!Content
  <2> QED
    BY <1>2, <2>1, <2>2, <2>3 DEF Content, Top!Content, SamePlace
<1>3. CASE spec.kind = "CloudantDatabase"
  <2>1. spec \in Db!SpecType /\ spec.name \in Names
    BY <1>3, SpecTypes, SourceTypes, SourceNames DEF NamedKinds
  <2>2. /\ c.name = spec.name /\ c.is = Db!Created(spec)
        /\ entity[spec.name].state # "live"
    BY <1>3 DEF Creations, Db!Creations
  <2>3. Db!Created(spec) \in Db!Content /\ Db!Created(spec).source = spec.source
    BY <2>1, ServiceKindsAssumption DEF Db!Created, Db!SpecType, Db!Content
  <2> QED
    BY <1>3, <2>1, <2>2, <2>3 DEF Content, Db!Content, SamePlace
<1>4. CASE spec.kind = "Bucket"
  <2>1. spec \in Buck!SpecType /\ spec.name \in Names
    BY <1>4, SpecTypes, SourceTypes, SourceNames DEF NamedKinds
  <2>2. /\ c.name = spec.name /\ c.is = spec
        /\ entity[spec.name].state # "live"
    BY <1>4 DEF Creations, Buck!Creations, Buck!Created
  <2>3. spec \in Buck!Content
    BY <2>1 DEF Buck!SpecType, Buck!Content
  <2> QED
    BY <1>4, <2>1, <2>2, <2>3 DEF Content, SamePlace
<1>5. CASE spec.kind \in ScalingKinds
  <2>1. c = [name |-> spec.source]
    BY <1>5 DEF ScalingKinds, Creations, Scal!Creations, Autos!Creations
  <2> QED
    BY <1>5, <2>1, SourceNames DEF ScalingKinds, SettingKinds
<1>6. CASE spec.kind = "Whitelist"
  <2>1. spec \in White!SpecType /\ spec.source \in Names
    BY <1>6, SpecTypes, SourceNames
  <2>2. /\ c.name = spec.source /\ c.is = White!Replace(spec, entity[spec.source].is)
        /\ entity[spec.source].state = "live"
    BY <1>6 DEF Creations, White!Creations
  <2>3. entity[spec.source].is \in White!Content
    <3>1. entity[spec.source].is \in Content
      BY <1>0, <2>1, <2>2, EntityStates
    <3>2. entity[spec.source].is.kind = "Whitelist"
      BY <1>6, <2>1, <2>2, SourceNames DEF BearersRight, BearerRight, Live
    <3> QED
      BY <3>1, <3>2, ContentTypes
  <2>4. White!Replace(spec, entity[spec.source].is) \in White!Content
    BY <2>1, <2>3, WhitelistTypes
  <2> QED
    BY <1>6, <2>1, <2>2, <2>4 DEF Content, White!Content, SettingKinds
<1> QED
  BY <1>1, <1>2, <1>3, <1>4, <1>5, <1>6, SpecTypes DEF AllKinds, ScalingKinds

-----------------------------------------------------------------------------
(***************************************************************************)
(* Steps of the handlers, by what they do to the CR and to the cloud       *)
(***************************************************************************)
KindPhases == ReconcilerPhases \cup {"compare", "patch"}

\* A pass that is past its GET, for TypeOK.
PastGet(w) ==
  pc[w] \in {"compare", "current", "outdated", "patch"} =>
    ExtName(w) \in Names /\ seen[w].kind = Asked(w).kind

SourceType ==
  source \in [kind : {s.kind : s \in UserSpecs}, at : Sources, ready : BOOLEAN,
              up : SUBSET Sources]

\* TypeOK in the terms of the loop's lemmas.
LEMMA TypeParts ==
  /\ TypeOK <=> /\ LoopType(SpecType, KindPhases) /\ EntityTypes /\ SourceType
                /\ \A w \in Workers : PastGet(w)
  /\ UserSpecs \subseteq SpecType /\ ReconcilerPhases \subseteq KindPhases
BY SourceNames DEF TypeOK, LoopType, KindPhases, EntityTypes, SourceType, PastGet

LEMMA BaseParts ==
  ASSUME BaseInv
  PROVE  /\ TypeOK /\ LoopType(SpecType, KindPhases) /\ EntityTypes /\ SourceType
         /\ LoopInv({}) /\ FreshIsCurrent /\ CopiesInv({}, Names)
         /\ KindRight(cr) /\ BearersRight
         /\ \A w \in Workers : /\ KindRight(mem[w].obj) /\ KindRight(cache[w].obj)
                               /\ PastGet(w) /\ PassRight(w)
BY TypeParts DEF BaseInv, LoopInv, BearersRight

LEMMA BaseNext ==
  ASSUME LoopType(SpecType, KindPhases)', EntityTypes', SourceType', LoopInv({})',
         CopiesInv({}, Names)', KindRight(cr)', BearersRight',
         \A w \in Workers : /\ KindRight(mem[w].obj)' /\ KindRight(cache[w].obj)'
                            /\ PastGet(w)' /\ PassRight(w)'
  PROVE  BaseInv'
<1>1. TypeOK'
  BY TypeParts DEF TypeOK, LoopType, KindPhases, EntityTypes, SourceType, PastGet
<1> QED
  BY <1>1 DEF BaseInv, BearersRight

\* What a worker that is in a pass knows of its CR.
LEMMA AskedTypes ==
  ASSUME BaseInv, NEW w \in Workers
  PROVE  /\ Asked(w) \in SpecType /\ ExtName(w) \in Names \cup {NoName}
         /\ pc[w] # "idle" => Asked(w).kind = source.kind
         /\ Observed(Asked(w), ExtName(w)) \in Names \cup {NoName}
         /\ Patched(Asked(w), ExtName(w)) \in Names \cup {NoName}
         /\ seen[w] \in Content \cup {NotSeen}
<1>1. mem[w].obj \in Objects(SpecType)
  BY BaseParts DEF LoopType, Copies
<1>2. Asked(w) \in SpecType /\ ExtName(w) \in Names \cup {NoName}
  BY <1>1 DEF Objects, Asked, ExtName
<1>3. pc[w] # "idle" => Asked(w).kind = source.kind
  BY BaseParts DEF FreshIsCurrent, KindRight, Asked
<1>4. Asked(w).kind \in NamedKinds => Asked(w).name \in Names
  BY <1>2, SourceTypes, SourceNames
<1> QED
  BY <1>2, <1>3, <1>4, BaseParts DEF Observed, Patched, NamedKinds, EntityTypes

\* A handler that does no more to the CR than to w's memory of its status.
TouchStep(w, p) ==
  /\ Touches(w, p)
  /\ \/ pc[w] = "observe" /\ p \in {"compare", "absent", "finish"}
     \/ pc[w] = "compare" /\ p \in {"current", "outdated", "finish"}
     \/ pc[w] = "create" /\ p = "createFailed"
     \/ pc[w] = "outdated" /\ p \in {"patch", "finish"}
     \/ pc[w] \in {"current", "patch"} /\ p = "finish"
  /\ UNCHANGED source /\ edits' \in Nat /\ faults' \in Nat

\* One that writes a spec, from Observe or from the resolution before it.
SpecStep(w, s, r, p) ==
  /\ SpecWritten(w, s, r, p)
  /\ UNCHANGED <<faults, edits, source, entity, seen>>
  /\ \/ /\ pc[w] = "observe" /\ p = "observe" /\ ~mem[w].obj.deleting
        /\ Asked(w).source = Unset
        /\ s = Resolved(Asked(w), source.at)
     \/ /\ pc[w] = "compare" /\ p \in {"current", "outdated"}
        /\ s = Observe(Asked(w), seen[w]).spec

\* What a touching handler does to the things and to what was seen of them.
Resolvable(w) == mem[w].obj.deleting \/ Asked(w).source # Unset

Gets(w, p) ==
  /\ \/ pc[w] = "observe" /\ p = "compare" /\ Resolvable(w)
     \/ pc[w] = "outdated" /\ p = "patch" /\ Asked(w).kind = "Topic"
  /\ UNCHANGED entity /\ ExtName(w) # NoName
  /\ \E n \in Names : Live(n) /\ seen' = [seen EXCEPT ![w] = entity[n].is]

GetsNothing(w, p) ==
  /\ p = "absent" /\ UNCHANGED <<entity, seen>> /\ Resolvable(w)
  /\ ~Found(w, Observed(Asked(w), ExtName(w)))

Leaves(w, p) ==
  /\ UNCHANGED <<entity, seen>>
  /\ p \notin {"compare", "absent", "patch"}
  /\ p \in {"current", "outdated"} => Asked(w) = Observe(Asked(w), seen[w]).spec

Changes(w, p, n) ==
  /\ pc[w] \in {"outdated", "patch"} /\ p = "finish" /\ Live(n) /\ UNCHANGED seen
  /\ Write(n, [entity[n] EXCEPT !.is = Updated(Asked(w), seen[w], @)])

TakesDown(w, p, n) ==
  /\ pc[w] \in {"current", "outdated"} /\ p = "finish" /\ mem[w].obj.deleting
  /\ n = Observed(Asked(w), ExtName(w)) /\ Live(n) /\ UNCHANGED seen
  /\ TakeDown(Asked(w), n)

CloudStep(w, p) ==
  \/ Gets(w, p) \/ GetsNothing(w, p) \/ Leaves(w, p)
  \/ \E n \in Names : Changes(w, p, n) \/ TakesDown(w, p, n)

\* Create.
NameStep(w, c) ==
  /\ TakesName(w, c.name) /\ Produce(w, c)
  /\ UNCHANGED <<faults, edits, source, seen>>

LEMMA TouchesReady ==
  ASSUME NEW w \in Workers, NEW p, UNCHANGED <<cr, cache>>, pc' = [pc EXCEPT ![w] = p],
         \/ UNCHANGED mem \/ NotReady(w)
         \/ \E r \in BOOLEAN : mem' = [mem EXCEPT ![w].obj.ready = r]
  PROVE  Touches(w, p)
BY DEF Touches, NotReady

HandlerForm(w) ==
  \/ \E p \in KindPhases : TouchStep(w, p) /\ CloudStep(w, p)
  \/ \E s \in SpecType, r \in BOOLEAN, p \in KindPhases : SpecStep(w, s, r, p)
  \/ \E c \in Creatable(Asked(w)) : NameStep(w, c)

\* Every step of a handler is of one of these forms.
LEMMA HandlerForms ==
  ASSUME BaseInv, NEW w \in Workers, ExternalStep(w) \/ ExternalFault(w)
  PROVE  HandlerForm(w)
<1>0. {"observe", "absent", "compare", "current", "outdated", "create", "created",
       "createFailed", "patch", "finish", "idle"} \subseteq KindPhases
  BY DEF KindPhases, ReconcilerPhases
<1>1. /\ mem[w].obj \in Objects(SpecType) /\ Sent(w) \in Objects(SpecType)
      /\ Same(Sent(w), mem[w].obj)
  BY BaseParts, LoopSentType
<1>2. /\ Asked(w) \in SpecType /\ Sent(w).spec = Asked(w) /\ mem[w].obj.ready \in BOOLEAN
      /\ Asked(w) = mem[w].obj.spec
  BY <1>1 DEF Objects, Same, Asked
<1>3. faults \in Nat /\ edits \in Nat /\ source.at \in Sources
  BY BaseParts DEF LoopType, SourceType
<1>4. CASE Resolve(w)
  <2> DEFINE s == Resolved(Asked(w), source.at)
             o == [Sent(w) EXCEPT !.spec = s]
  <2>1. s \in SpecType
    BY <1>2, <1>3, SourceTypes DEF Resolved
  <2>2. /\ o \in Objects(SpecType) /\ [o EXCEPT !.ready = o.ready] = o
        /\ o.ready \in BOOLEAN /\ ClientUpdate(w, o, "observe")
    BY <1>1, <1>2, <1>4, <2>1 DEF Objects, Resolve
  <2>3. CASE mem[w].fresh
    <3>1. Put(w, o, [obj |-> o, fresh |-> TRUE]) /\ pc' = [pc EXCEPT ![w] = "observe"]
      BY <2>2, <2>3 DEF ClientUpdate, Go
    <3>2. SpecWritten(w, s, o.ready, "observe")
      BY <2>2, <2>3, <3>1 DEF SpecWritten
    <3>3. SpecStep(w, s, o.ready, "observe")
      BY <1>4, <3>2 DEF Resolve, SpecStep
    <3> QED
      BY <1>0, <2>1, <2>2, <3>3 DEF HandlerForm
  <2>4. CASE ~mem[w].fresh
    <3>1. UNCHANGED <<cr, cache, mem>> /\ pc' = [pc EXCEPT ![w] = "finish"]
      BY <2>2, <2>4 DEF ClientUpdate, Go
    <3>2. TouchStep(w, "finish")
      BY <1>3, <1>4, <3>1, TouchesReady DEF Resolve, TouchStep
    <3>3. CloudStep(w, "finish")
      BY <1>4 DEF Resolve, CloudStep, Leaves
    <3> QED
      BY <1>0, <3>2, <3>3 DEF HandlerForm
  <2> QED
    BY <2>3, <2>4
<1>5. CASE Unresolved(w) \/ ResolveFails(w) \/ ConnectFails(w) \/ ObserveFails(w)
  <2>1. /\ pc[w] = "observe" /\ UNCHANGED <<cr, cache, mem, edits, source, entity, seen>>
        /\ pc' = [pc EXCEPT ![w] = "finish"] /\ faults' \in Nat
    BY <1>3, <1>5 DEF Unresolved, ResolveFails, ConnectFails, ObserveFails, Fault, Go
  <2>2. TouchStep(w, "finish")
    BY <1>3, <2>1, TouchesReady DEF TouchStep
  <2>3. CloudStep(w, "finish")
    BY <2>1 DEF CloudStep, Leaves
  <2> QED
    BY <1>0, <2>2, <2>3 DEF HandlerForm
<1>6. CASE UpdateFails(w) \/ DeleteFails(w)
  <2>1. /\ pc[w] \in {"current", "outdated", "patch"}
        /\ UNCHANGED <<cr, cache, edits, source, entity, seen>>
        /\ UNCHANGED mem \/ NotReady(w)
        /\ pc' = [pc EXCEPT ![w] = "finish"] /\ faults' \in Nat
    BY <1>3, <1>6
       DEF UpdateFails, DeleteFails, Patching, Updating, Deleting, Fault, Go
  <2>2. TouchStep(w, "finish")
    BY <1>3, <2>1, TouchesReady DEF TouchStep
  <2>3. CloudStep(w, "finish")
    BY <2>1 DEF CloudStep, Leaves
  <2> QED
    BY <1>0, <2>2, <2>3 DEF HandlerForm
<1>7. CASE CreateRefused(w) \/ CreateFails(w)
  <2>1. /\ pc[w] = "create" /\ UNCHANGED <<cr, cache, edits, source, entity, seen>>
        /\ NotReady(w) /\ pc' = [pc EXCEPT ![w] = "createFailed"] /\ faults' \in Nat
    BY <1>3, <1>7 DEF CreateRefused, CreateFails, Fault, Go
  <2>2. TouchStep(w, "createFailed")
    BY <1>3, <2>1, TouchesReady DEF TouchStep
  <2>3. CloudStep(w, "createFailed")
    BY <2>1 DEF CloudStep, Leaves
  <2> QED
    BY <1>0, <2>2, <2>3 DEF HandlerForm
<1>8. CASE ObserveGet(w)
  <2> DEFINE n == Observed(Asked(w), ExtName(w))
  <2>1. n \in Names \cup {NoName}
    BY AskedTypes
  <2>2. /\ pc[w] = "observe" /\ Resolvable(w)
        /\ UNCHANGED <<cr, cache, mem, faults, edits, source, entity>>
    BY <1>8 DEF ObserveGet, Resolvable
  <2>3. CASE Found(w, n)
    <3>1. pc' = [pc EXCEPT ![w] = "compare"] /\ seen' = [seen EXCEPT ![w] = entity[n].is]
      BY <1>8, <2>3 DEF ObserveGet, Go
    <3>2. TouchStep(w, "compare")
      BY <1>3, <2>2, <3>1, TouchesReady DEF TouchStep
    <3>3. Gets(w, "compare")
      <4>1. n \in Names /\ Live(n) /\ ExtName(w) # NoName
        BY <2>1, <2>3 DEF Found, Live
      <4> HIDE DEF n
      <4> QED
        BY <2>2, <3>1, <4>1 DEF Gets
    <3> QED
      BY <1>0, <3>2, <3>3 DEF HandlerForm, CloudStep
  <2>4. CASE ~Found(w, n)
    <3>1. pc' = [pc EXCEPT ![w] = "absent"] /\ UNCHANGED seen
      BY <1>8, <2>4 DEF ObserveGet, Go
    <3>2. TouchStep(w, "absent")
      BY <1>3, <2>2, <3>1, TouchesReady DEF TouchStep
    <3>3. GetsNothing(w, "absent")
      BY <2>2, <2>4, <3>1 DEF GetsNothing
    <3> QED
      BY <1>0, <3>2, <3>3 DEF HandlerForm, CloudStep
  <2> QED
    BY <2>3, <2>4
<1>9. CASE ObserveCompare(w)
  <2> DEFINE pass == Observe(Asked(w), seen[w])
             spec == pass.spec
             ready == mem[w].obj.ready \/ pass.ready
             o == [Sent(w) EXCEPT !.spec = spec]
             c == [obj |-> [o EXCEPT !.ready = ready], fresh |-> TRUE]
  <2>1. pc[w] = "compare" /\ UNCHANGED <<faults, edits, source, entity, seen>>
    BY <1>9 DEF ObserveCompare
  <2>2. /\ seen[w] \in Content /\ seen[w].kind = Asked(w).kind
    <3>1. seen[w].kind = Asked(w).kind /\ seen[w] \in Content \cup {NotSeen}
      BY <2>1, BaseParts, AskedTypes DEF PastGet
    <3>2. Asked(w).kind \in AllKinds /\ NotSeen.kind = "none"
      BY <1>2, SpecTypes DEF NotSeen
    <3> QED
      BY <3>1, <3>2 DEF AllKinds
  <2>3. spec \in SpecType /\ ready \in BOOLEAN
    BY <1>2, <2>2, ObservedTypes
  <2>4. PICK p \in {"current", "outdated"} :
          \/ /\ spec = Asked(w)
             /\ mem' = [mem EXCEPT ![w].obj.ready = ready]
             /\ Go(w, p)
             /\ UNCHANGED <<cr, cache>>
          \/ /\ spec # Asked(w) /\ mem[w].fresh
             /\ Put(w, o, c)
             /\ Go(w, p)
          \/ /\ spec # Asked(w) /\ ~mem[w].fresh
             /\ Go(w, "finish")
             /\ UNCHANGED <<cr, cache, mem>>
    BY <1>9 DEF ObserveCompare
  <2>5. CASE spec = Asked(w) /\ Go(w, p) /\ UNCHANGED <<cr, cache>>
             /\ mem' = [mem EXCEPT ![w].obj.ready = ready]
    <3>1. TouchStep(w, p)
      BY <1>3, <2>1, <2>3, <2>5, TouchesReady DEF Go, TouchStep
    <3>2. CloudStep(w, p)
      BY <2>1, <2>5 DEF CloudStep, Leaves
    <3> QED
      BY <1>0, <3>1, <3>2 DEF HandlerForm
  <2>6. CASE ~mem[w].fresh /\ Go(w, "finish") /\ UNCHANGED <<cr, cache, mem>>
    <3>1. TouchStep(w, "finish")
      BY <1>3, <2>1, <2>6, TouchesReady DEF Go, TouchStep
    <3>2. CloudStep(w, "finish")
      BY <2>1 DEF CloudStep, Leaves
    <3> QED
      BY <1>0, <3>1, <3>2 DEF HandlerForm
  <2>7. CASE mem[w].fresh /\ Put(w, o, c) /\ Go(w, p)
    <3>1. SpecWritten(w, spec, ready, p)
      BY <2>7 DEF SpecWritten, Go
    <3>2. SpecStep(w, spec, ready, p)
      BY <2>1, <3>1 DEF SpecStep
    <3> HIDE DEF spec, ready
    <3> QED
      BY <1>0, <2>3, <3>2 DEF HandlerForm
  <2> QED
    BY <2>4, <2>5, <2>6, <2>7
<1>10. CASE Create(w)
  <2>1. PICK c \in Creatable(Asked(w)) :
          /\ Produce(w, c)
          /\ mem' = [mem EXCEPT ![w].obj = [@ EXCEPT !.extName = c.name, !.ready = FALSE]]
    BY <1>10 DEF Create
  <2>2. NameStep(w, c)
    BY <1>10, <2>1 DEF Create, NameStep, TakesName, Go
  <2> QED
    BY <2>2 DEF HandlerForm
<1>11. CASE UpdateGet(w)
  <2>1. /\ pc[w] = "outdated" /\ Asked(w).kind = "Topic"
        /\ UNCHANGED <<cr, cache, mem, faults, edits, source, entity>>
    BY <1>11 DEF UpdateGet, Updating
  <2>2. CASE Found(w, ExtName(w))
    <3>1. /\ pc' = [pc EXCEPT ![w] = "patch"]
          /\ seen' = [seen EXCEPT ![w] = entity[ExtName(w)].is]
      BY <1>11, <2>2 DEF UpdateGet, Go
    <3>2. TouchStep(w, "patch")
      BY <1>3, <2>1, <3>1, TouchesReady DEF TouchStep
    <3>3. Gets(w, "patch")
      <4>1. ExtName(w) \in Names /\ Live(ExtName(w)) /\ ExtName(w) # NoName
        BY <2>2, AskedTypes DEF Found
      <4> QED
        BY <2>1, <3>1, <4>1 DEF Gets
    <3> QED
      BY <1>0, <3>2, <3>3 DEF HandlerForm, CloudStep
  <2>3. CASE ~Found(w, ExtName(w))
    <3>1. pc' = [pc EXCEPT ![w] = "finish"] /\ UNCHANGED seen
      BY <1>11, <2>3 DEF UpdateGet, Go
    <3>2. TouchStep(w, "finish")
      BY <1>3, <2>1, <3>1, TouchesReady DEF TouchStep
    <3>3. CloudStep(w, "finish")
      BY <2>1, <3>1 DEF CloudStep, Leaves
    <3> QED
      BY <1>0, <3>2, <3>3 DEF HandlerForm
  <2> QED
    BY <2>2, <2>3
<1>12. CASE Update(w)
  <2> DEFINE n == Patched(Asked(w), ExtName(w))
  <2>1. /\ pc[w] \in {"outdated", "patch"} /\ pc' = [pc EXCEPT ![w] = "finish"]
        /\ UNCHANGED <<cr, cache, mem, faults, edits, source, seen>>
    BY <1>12 DEF Update, Patching, Updating, Go
  <2>2. TouchStep(w, "finish")
    BY <1>3, <2>1, TouchesReady DEF TouchStep
  <2>3. \/ UNCHANGED entity
        \/ Live(n) /\ Write(n, [entity[n] EXCEPT !.is = Updated(Asked(w), seen[w], @)])
    BY <1>12 DEF Update
  <2>4. CASE UNCHANGED entity
    <3>1. CloudStep(w, "finish")
      BY <2>1, <2>4 DEF CloudStep, Leaves
    <3> QED
      BY <1>0, <2>2, <3>1 DEF HandlerForm
  <2>5. CASE Live(n) /\ Write(n, [entity[n] EXCEPT !.is = Updated(Asked(w), seen[w], @)])
    <3>1. n \in Names
      BY <2>5, AskedTypes DEF Live
    <3> HIDE DEF n
    <3>2. Changes(w, "finish", n)
      BY <2>1, <2>5 DEF Changes
    <3> QED
      BY <1>0, <2>2, <3>1, <3>2 DEF HandlerForm, CloudStep
  <2> QED
    BY <2>3, <2>4, <2>5
<1>13. CASE Delete(w)
  <2> DEFINE n == Observed(Asked(w), ExtName(w))
  <2>1. /\ pc[w] \in {"current", "outdated"} /\ pc' = [pc EXCEPT ![w] = "finish"]
        /\ mem[w].obj.deleting /\ NotReady(w)
        /\ UNCHANGED <<cr, cache, faults, edits, source, seen>>
    BY <1>13 DEF Delete, Deleting, Go
  <2>2. TouchStep(w, "finish")
    BY <1>3, <2>1, TouchesReady DEF TouchStep
  <2>3. \/ UNCHANGED entity
        \/ Live(n) /\ TakeDown(Asked(w), n)
    BY <1>13 DEF Delete
  <2>4. CASE UNCHANGED entity
    <3>1. CloudStep(w, "finish")
      BY <2>1, <2>4 DEF CloudStep, Leaves
    <3> QED
      BY <1>0, <2>2, <3>1 DEF HandlerForm
  <2>5. CASE Live(n) /\ TakeDown(Asked(w), n)
    <3>1. n \in Names
      BY <2>5, AskedTypes DEF Live
    <3>2. TakesDown(w, "finish", n)
      BY <2>1, <2>5 DEF TakesDown
    <3> HIDE DEF n
    <3> QED
      BY <1>0, <2>2, <3>1, <3>2 DEF HandlerForm, CloudStep
  <2> QED
    BY <2>3, <2>4, <2>5
<1> QED
  BY <1>4, <1>5, <1>6, <1>7, <1>8, <1>9, <1>10, <1>11, <1>12, <1>13
     DEF ExternalStep, ExternalFault

-----------------------------------------------------------------------------
(***************************************************************************)
(* What a step may do to what the cloud knows                              *)
(***************************************************************************)
\* Names are not forgotten.
Grows == \A n \in Names : entity[n] # Unknown => entity'[n] # Unknown

\* Nothing of the CR's comes to be, and what stays stays in its place.
AliveKept == \A n \in Alive' : n \in Alive /\ SamePlace(entity[n].is, entity'[n].is)

LEMMA SeenContent ==
  ASSUME BaseInv, NEW w \in Workers, pc[w] \in {"compare", "current", "outdated", "patch"}
  PROVE  /\ ExtName(w) \in Names /\ seen[w] \in Content
         /\ seen[w].kind = Asked(w).kind /\ Asked(w).kind = source.kind
<1>1. /\ ExtName(w) \in Names /\ seen[w].kind = Asked(w).kind
      /\ seen[w] \in Content \cup {NotSeen}
      /\ Asked(w).kind = source.kind /\ Asked(w) \in SpecType
  BY BaseParts, AskedTypes DEF PastGet
<1>2. Asked(w).kind \in AllKinds /\ NotSeen.kind = "none"
  BY <1>1, SpecTypes DEF NotSeen
<1> QED
  BY <1>1, <1>2 DEF AllKinds

LEMMA LiveContent ==
  ASSUME BaseInv, NEW n \in Names, Live(n)
  PROVE  /\ entity[n] \in Entities /\ entity[n].state = "live" /\ entity[n].is \in Content
         /\ entity[n].is.kind = source.kind
         /\ source.kind = "Bucket" => entity[n].is.name = n
BY BaseParts, EntityStates DEF EntityTypes, Live, BearersRight, BearerRight

\* One name is written, by whomever.
LEMMA EntityWritten ==
  ASSUME BaseInv, source'.kind = source.kind, NEW n \in Names, NEW e \in Entities,
         e # Unknown, Write(n, e),
         e.state = "live" => /\ e.is.kind = source.kind
                             /\ source.kind = "Bucket" => e.is.name = n
  PROVE  /\ entity' \in [Names -> Entities] /\ BearersRight' /\ Grows
         /\ entity'[n] = e /\ \A m \in Names \ {n} : entity'[m] = entity[m]
<1>1. entity \in [Names -> Entities] /\ BearersRight
  BY BaseParts DEF EntityTypes
<1>2. /\ entity' \in [Names -> Entities] /\ entity'[n] = e
      /\ \A m \in Names \ {n} : entity'[m] = entity[m]
  BY <1>1 DEF Write
<1>3. BearersRight'
  <2> SUFFICES ASSUME NEW m \in Names, Live(m)' PROVE BearerRight(m)'
    BY DEF BearersRight
  <2>1. CASE m = n
    BY <1>2, <2>1 DEF Live, BearerRight
  <2>2. CASE m # n
    BY <1>1, <1>2, <2>2 DEF Live, BearerRight, BearersRight
  <2> QED
    BY <2>1, <2>2
<1> QED
  BY <1>2, <1>3 DEF Grows

\* Nothing changes.
LEMMA EntitiesKept ==
  ASSUME BaseInv, source'.kind = source.kind, UNCHANGED entity
  PROVE  /\ entity' \in [Names -> Entities] /\ BearersRight' /\ Grows
         /\ source.kind \notin SettingKinds => AliveKept
         /\ Alive' = Alive
<1>1. entity' \in [Names -> Entities] /\ BearersRight' /\ Grows /\ Alive' = Alive
  BY BaseParts
     DEF EntityTypes, BearersRight, BearerRight, Live, Grows, Alive, Own
<1>2. AliveKept
  BY <1>1 DEF AliveKept, SamePlace
<1> QED
  BY <1>1, <1>2

\* A thing is changed and stays the one that it is.
LEMMA EntityChanged ==
  ASSUME BaseInv, source'.kind = source.kind, NEW n \in Names, Live(n), NEW is \in Content,
         is.kind = source.kind, source.kind = "Bucket" => is.name = n,
         source.kind \notin SettingKinds => SamePlace(entity[n].is, is),
         Write(n, [entity[n] EXCEPT !.is = is])
  PROVE  /\ entity' \in [Names -> Entities] /\ BearersRight' /\ Grows
         /\ source.kind \notin SettingKinds => AliveKept
         /\ Alive' = Alive
<1> DEFINE e == [entity[n] EXCEPT !.is = is]
<1>0. entity[n] \in Entities /\ entity[n].state = "live"
  BY LiveContent
<1>1. /\ e \in Entities /\ e.state = "live" /\ e.by = entity[n].by /\ e.is = is
      /\ e # Unknown
  <2>1. e \in Entities /\ e.state = "live" /\ e.by = entity[n].by /\ e.is = is
    <3>1. PICK old \in Entities : old = entity[n] /\ old.state = "live"
      BY <1>0
    <3>2. /\ [old EXCEPT !.is = is] \in Entities /\ [old EXCEPT !.is = is].state = "live"
          /\ [old EXCEPT !.is = is].by = old.by /\ [old EXCEPT !.is = is].is = is
      BY <3>1, EntityStates
    <3>3. e = [old EXCEPT !.is = is]
      BY <3>1
    <3> QED
      BY <3>1, <3>2, <3>3
  <2> QED
    BY <2>1, EntityStates, Zenon
<1> HIDE DEF e
<1>2. /\ entity' \in [Names -> Entities] /\ BearersRight' /\ Grows
      /\ entity'[n] = e /\ \A m \in Names \ {n} : entity'[m] = entity[m]
  <2>1. Write(n, e)
    BY DEF e
  <2> QED
    BY <1>1, <2>1, EntityWritten
<1>3. Alive' = Alive
  BY <1>1, <1>2 DEF Alive, Own, Live
<1>4. source.kind \notin SettingKinds => AliveKept
  BY <1>1, <1>2, <1>3 DEF AliveKept, SamePlace, Alive
<1> QED
  BY <1>2, <1>3, <1>4

\* A name is written and what is under it then is not the CR's.
LEMMA EntityTaken ==
  ASSUME BaseInv, source'.kind = source.kind, NEW n \in Names, NEW e \in Entities,
         Write(n, e), e = Deleted \/ (e.by = "others" /\ e.state = "live"),
         e.state = "live" => /\ e.is.kind = source.kind
                             /\ source.kind = "Bucket" => e.is.name = n
  PROVE  /\ entity' \in [Names -> Entities] /\ BearersRight' /\ Grows
         /\ source.kind \notin SettingKinds => AliveKept
         /\ Alive' = Alive \ {n}
<1>1. e # Unknown
  BY EntityStates
<1>2. /\ entity' \in [Names -> Entities] /\ BearersRight' /\ Grows
      /\ entity'[n] = e /\ \A m \in Names \ {n} : entity'[m] = entity[m]
  BY <1>1, EntityWritten
<1>3. Alive' = Alive \ {n}
  BY <1>2, EntityStates DEF Alive, Own, Live
<1>4. source.kind \notin SettingKinds => AliveKept
  BY <1>2, <1>3 DEF AliveKept, SamePlace, Alive
<1> QED
  BY <1>2, <1>3, <1>4

\* What a touching handler does.
LEMMA CloudEffects ==
  ASSUME BaseInv, NEW w \in Workers, NEW p \in KindPhases, UNCHANGED source, CloudStep(w, p)
  PROVE  /\ EntityTypes' /\ BearersRight' /\ Grows
         /\ source.kind \notin SettingKinds => AliveKept
         /\ Alive' = Alive \/ \E n \in Names : TakesDown(w, p, n) /\ Alive' = Alive \ {n}
         /\ \A v \in Workers \ {w} : seen'[v] = seen[v]
         /\ \/ ~Gets(w, p) /\ UNCHANGED seen
            \/ /\ Gets(w, p) /\ ExtName(w) \in Names
               /\ seen'[w] \in Content /\ seen'[w].kind = source.kind
<1>0. seen \in [Workers -> Content \cup {NotSeen}] /\ source'.kind = source.kind
  BY BaseParts DEF EntityTypes
<1>1. CASE Gets(w, p)
  <2>1. PICK n \in Names : Live(n) /\ seen' = [seen EXCEPT ![w] = entity[n].is]
    BY <1>1 DEF Gets
  <2>2. entity[n].is \in Content /\ entity[n].is.kind = source.kind
    BY <2>1, LiveContent
  <2>3. /\ seen' \in [Workers -> Content \cup {NotSeen}] /\ seen'[w] = entity[n].is
        /\ \A v \in Workers \ {w} : seen'[v] = seen[v]
    BY <1>0, <2>1, <2>2
  <2>4. ExtName(w) \in Names /\ UNCHANGED entity
    BY <1>1, AskedTypes DEF Gets
  <2> QED
    BY <1>0, <1>1, <2>2, <2>3, <2>4, EntitiesKept DEF EntityTypes
<1>2. CASE UNCHANGED entity /\ UNCHANGED seen /\ ~Gets(w, p)
  BY <1>0, <1>2, EntitiesKept DEF EntityTypes
<1>3. ASSUME NEW n \in Names, Changes(w, p, n)
      PROVE  /\ entity' \in [Names -> Entities] /\ BearersRight' /\ Grows
             /\ source.kind \notin SettingKinds => AliveKept
             /\ Alive' = Alive
             /\ UNCHANGED seen /\ p = "finish"
  <2>1. /\ pc[w] \in {"outdated", "patch"} /\ Live(n) /\ UNCHANGED seen /\ p = "finish"
        /\ Write(n, [entity[n] EXCEPT !.is = Updated(Asked(w), seen[w], @)])
    BY <1>3 DEF Changes
  <2> DEFINE is == Updated(Asked(w), seen[w], entity[n].is)
  <2>2. /\ seen[w] \in Content /\ seen[w].kind = Asked(w).kind
        /\ Asked(w).kind = source.kind /\ Asked(w) \in SpecType
    BY <2>1, SeenContent, AskedTypes
  <2>3. entity[n].is \in Content /\ entity[n].is.kind = source.kind
        /\ (source.kind = "Bucket" => entity[n].is.name = n)
    BY <2>1, LiveContent
  <2>4. Asked(w).kind = "ScalingGroup" => Unset \notin {Asked(w).members, Asked(w).memberMemory}
    BY <2>1, BaseParts DEF PassRight
  <2>5. /\ is \in Content /\ is.kind = source.kind
        /\ source.kind = "Bucket" => is.name = n
        /\ source.kind \notin SettingKinds => SamePlace(entity[n].is, is)
    BY <2>2, <2>3, <2>4, UpdatedTypes
  <2>6. Write(n, [entity[n] EXCEPT !.is = is])
    <3>1. [entity[n] EXCEPT !.is = Updated(Asked(w), seen[w], @)] = [entity[n] EXCEPT !.is = is]
      OBVIOUS
    <3> QED
      BY <2>1, <3>1
  <2> HIDE DEF is
  <2> QED
    BY <1>0, <2>1, <2>5, <2>6, EntityChanged
<1>4. ASSUME NEW n \in Names, TakesDown(w, p, n)
      PROVE  /\ entity' \in [Names -> Entities] /\ BearersRight' /\ Grows
             /\ source.kind \notin SettingKinds => AliveKept
             /\ Alive' = Alive \ {n}
             /\ UNCHANGED seen /\ p = "finish"
  <2>1. /\ pc[w] \in {"current", "outdated"} /\ Live(n) /\ UNCHANGED seen /\ p = "finish"
        /\ TakeDown(Asked(w), n)
    BY <1>4 DEF TakesDown
  <2>2. Asked(w).kind = source.kind /\ Asked(w) \in SpecType
    BY <2>1, SeenContent, AskedTypes
  <2>3. CASE Asked(w).kind = "Whitelist"
    <3>1. entity[n].is \in White!Content
      BY <2>1, <2>2, <2>3, LiveContent, ContentTypes
    <3>2. White!Emptied(entity[n].is) \in White!Content
      BY <2>2, <2>3, <3>1, SpecTypes, WhitelistTypes
    <3>3. /\ White!Emptied(entity[n].is) \in Content
          /\ White!Emptied(entity[n].is).kind = "Whitelist"
      BY <3>2 DEF Content, White!Content
    <3>4. Write(n, Bearer("others", White!Emptied(entity[n].is)))
      BY <2>1, <2>3 DEF TakeDown
    <3> DEFINE e == Bearer("others", White!Emptied(entity[n].is))
    <3>5. e \in Entities /\ e.by = "others" /\ e.state = "live" /\ e.is.kind = "Whitelist"
      BY <3>3, EntityStates DEF Owners
    <3>6. Write(n, e)
      BY <3>4
    <3> HIDE DEF e
    <3>7. source.kind = "Whitelist"
      BY <2>2, <2>3
    <3> QED
      BY <1>0, <2>1, <3>5, <3>6, <3>7, EntityTaken
  <2>4. CASE Asked(w).kind # "Whitelist"
    <3>1. Write(n, Deleted)
      BY <2>1, <2>4 DEF TakeDown
    <3> QED
      BY <1>0, <2>1, <3>1, EntityStates, EntityTaken
  <2> QED
    BY <2>3, <2>4
<1>5. ASSUME p = "finish" PROVE ~Gets(w, p)
  BY <1>5 DEF Gets
<1> QED
  BY <1>0, <1>1, <1>2, <1>3, <1>4, <1>5 DEF CloudStep, GetsNothing, Leaves, EntityTypes

-----------------------------------------------------------------------------
(***************************************************************************)
(* BaseInv is kept by every step                                           *)
(***************************************************************************)
\* A pass that the step does not run.
LEMMA OtherPass ==
  ASSUME BaseInv, NEW v \in Workers, pc'[v] = pc[v], Same(mem'[v].obj, mem[v].obj),
         pc[v] # "idle" => seen'[v] = seen[v]
  PROVE  PastGet(v)' /\ PassRight(v)'
BY BaseParts DEF PastGet, PassRight, Same, Asked, ExtName

\* What the loop and the users leave of what was seen.
LEMMA Forgotten ==
  ASSUME BaseInv, Forget, UNCHANGED <<source, entity>>
  PROVE  /\ EntityTypes' /\ BearersRight' /\ SourceType' /\ Grows
         /\ source.kind \notin SettingKinds => AliveKept
         /\ Alive' = Alive /\ Given' = Given
         /\ \A v \in Workers : pc'[v] # "idle" => seen'[v] = seen[v]
<1>1. seen \in [Workers -> Content \cup {NotSeen}]
  BY BaseParts DEF EntityTypes
<1>2. /\ seen' \in [Workers -> Content \cup {NotSeen}]
      /\ \A v \in Workers : pc'[v] # "idle" => seen'[v] = seen[v]
  BY <1>1 DEF Forget
<1>3. SourceType'
  BY BaseParts DEF SourceType
<1> QED
  BY <1>2, <1>3, EntitiesKept DEF EntityTypes, Given

\* The loop's own steps.
LEMMA LoopBase ==
  ASSUME BaseInv, NEW w \in Workers, LoopStep(w), Forget, UNCHANGED <<source, entity>>
  PROVE  BaseInv'
<1>0. LoopType(SpecType, KindPhases) /\ FreshIsCurrent /\ LoopInv({}) /\ TypeOK
  BY BaseParts
<1>1. /\ LoopType(SpecType, KindPhases)'
      /\ \A v \in Workers \ {w} : pc'[v] = pc[v] /\ mem'[v].obj = mem[v].obj
      /\ pc'[w] \notin {"idle", "observe", "refuse", "finish"} =>
           /\ Same(mem'[w].obj, mem[w].obj)
           /\ pc'[w] # pc[w] =>
                /\ pc[w] = "absent" /\ pc'[w] = "create"
                /\ mem'[w].obj = cr' /\ Same(cr', cr) /\ ~cr.deleting
  BY <1>0, TypeParts, LoopKeepsTypes
<1>2. /\ \/ Same(cr', cr)
         \/ cr' = NoObject /\ pc[w] = "absent"
         \/ cr'.present = cr.present /\ cr'.spec = cr.spec
      /\ \A v \in Workers : cache'[v].obj \in {cache[v].obj, cr}
      /\ \/ Same(mem'[w].obj, mem[w].obj) /\ pc'[w] \in {pc[w], "finish"}
         \/ mem'[w].obj = cache[w].obj
         \/ mem'[w].obj = cr' \/ mem'[w].obj = NoObject
  BY <1>0, TypeParts, LoopSources
<1>3. /\ EntityTypes' /\ BearersRight' /\ SourceType'
      /\ \A v \in Workers : pc'[v] # "idle" => seen'[v] = seen[v]
  BY Forgotten
<1>4. LoopInv({})'
  BY <1>0, TypeParts, LoopKeepsInv
<1>5. CopiesInv({}, Names)'
  BY <1>0, BaseParts, TypeParts, LoopKeepsCopies
<1>6. ~NoObject.present
  BY TypeParts, LoopNoObjectType
<1>7. KindRight(cr)'
  BY <1>2, <1>6, BaseParts DEF KindRight, Same
<1>8. ASSUME NEW v \in Workers PROVE KindRight(mem[v].obj)' /\ KindRight(cache[v].obj)'
  <2>1. KindRight(cache[v].obj)'
    BY <1>2, BaseParts DEF KindRight
  <2>2. KindRight(mem[v].obj)'
    BY <1>1, <1>2, <1>6, <1>7, BaseParts DEF KindRight, Same
  <2> QED
    BY <2>1, <2>2
<1>9. ASSUME NEW v \in Workers PROVE PastGet(v)' /\ PassRight(v)'
  <2>1. CASE pc'[v] = pc[v] /\ Same(mem'[v].obj, mem[v].obj)
    BY <1>3, <2>1, OtherPass
  <2>2. CASE v # w
    <3>1. Same(mem'[v].obj, mem[v].obj)
      BY <1>1, <2>2 DEF Same
    <3> QED
      BY <1>1, <2>1, <2>2, <3>1
  <2>3. CASE v = w /\ pc'[w] \in {"idle", "observe", "refuse", "finish"}
    BY <2>3 DEF PastGet, PassRight
  <2>4. CASE v = w /\ pc[w] = "absent" /\ pc'[w] = "create"
             /\ Same(mem'[w].obj, mem[w].obj)
    <3>1. mem[w].obj.deleting \/ Asked(w).source # Unset
      BY <2>4, BaseParts DEF PassRight
    <3> QED
      BY <2>4, <3>1 DEF PastGet, PassRight, Same, Asked
  <2> QED
    BY <1>1, <2>1, <2>2, <2>3, <2>4
<1> QED
  BY <1>1, <1>3, <1>4, <1>5, <1>7, <1>8, <1>9, BaseNext

LEMMA TouchBase ==
  ASSUME BaseInv, NEW w \in Workers, NEW p \in KindPhases, TouchStep(w, p), CloudStep(w, p)
  PROVE  BaseInv'
<1>0. LoopType(SpecType, KindPhases) /\ LoopInv({}) /\ PassRight(w) /\ PastGet(w)
  BY BaseParts
<1>1. /\ Touches(w, p) /\ UNCHANGED <<cr, cache, source>>
      /\ LoopType(SpecType, KindPhases)'
      /\ pc'[w] = p /\ \A v \in Workers \ {w} : pc'[v] = pc[v] /\ mem'[v] = mem[v]
      /\ Same(mem'[w].obj, mem[w].obj)
  BY <1>0, LoopTouchTypes DEF TouchStep, Touches, LoopType
<1>2. /\ EntityTypes' /\ BearersRight'
      /\ \A v \in Workers \ {w} : seen'[v] = seen[v]
      /\ \/ ~Gets(w, p) /\ UNCHANGED seen
         \/ /\ Gets(w, p) /\ ExtName(w) \in Names
            /\ seen'[w] \in Content /\ seen'[w].kind = source.kind
  BY <1>1, CloudEffects
<1>3. LoopInv({})'
  BY <1>0, <1>1, LoopTouch DEF TouchStep
<1>4. CopiesInv({}, Names)'
  BY <1>0, <1>1, BaseParts, LoopTouchCopies DEF TouchStep
<1>5. SourceType'
  BY <1>1, BaseParts DEF SourceType
<1>6. \A v \in Workers : Same(mem'[v].obj, mem[v].obj)
  BY <1>1 DEF Same
<1>7. /\ KindRight(cr)'
      /\ \A v \in Workers : KindRight(mem[v].obj)' /\ KindRight(cache[v].obj)'
  BY <1>1, <1>6, BaseParts DEF KindRight, Same
<1>8. ASSUME NEW v \in Workers \ {w} PROVE PastGet(v)' /\ PassRight(v)'
  BY <1>1, <1>2, <1>6, OtherPass
<1>9. PastGet(w)' /\ PassRight(w)'
  <2>1. /\ Asked(w)' = Asked(w) /\ ExtName(w)' = ExtName(w)
        /\ mem'[w].obj.deleting = mem[w].obj.deleting
        /\ Asked(w).kind = source.kind /\ Asked(w) \in SpecType
    <3>1. pc[w] # "idle"
      BY DEF TouchStep
    <3> QED
      BY <1>1, <3>1, AskedTypes DEF Same, Asked, ExtName
  <2>2. CASE p \in {"finish", "createFailed"}
    BY <1>1, <2>2 DEF PastGet, PassRight
  <2>3. CASE p = "absent"
    <3>1. Resolvable(w)
      BY <2>3 DEF CloudStep, Gets, GetsNothing, Leaves, Changes, TakesDown
    <3> QED
      BY <1>1, <2>1, <2>3, <3>1 DEF PastGet, PassRight, Resolvable
  <2>4. CASE p \in {"compare", "patch"}
    <3>1. Gets(w, p)
      BY <2>4 DEF CloudStep, GetsNothing, Leaves, Changes, TakesDown
    <3>2. PastGet(w)'
      BY <1>1, <1>2, <2>1, <3>1 DEF PastGet
    <3>3. PassRight(w)'
      BY <1>0, <1>1, <2>1, <2>4, <3>1 DEF Gets, PassRight, Resolvable
    <3> QED
      BY <3>2, <3>3
  <2>5. CASE p \in {"current", "outdated"}
    <3>1. pc[w] = "compare"
      BY <2>5 DEF TouchStep
    <3>2. seen' = seen
      BY <1>2, <2>5 DEF Gets
    <3>3. Asked(w) = Observe(Asked(w), seen[w]).spec
      BY <2>5 DEF CloudStep, Gets, GetsNothing, Leaves, Changes, TakesDown
    <3>4. ExtName(w) \in Names /\ seen[w] \in Content /\ seen[w].kind = Asked(w).kind
      BY <3>1, SeenContent
    <3>5. Asked(w).kind = "ScalingGroup" => Unset \notin {Asked(w).members, Asked(w).memberMemory}
      BY <2>1, <3>3, <3>4, ObservedTypes
    <3>6. PastGet(w)'
      BY <1>1, <2>1, <3>2, <3>4 DEF PastGet
    <3>7. PassRight(w)'
      BY <1>0, <1>1, <2>1, <3>1, <3>5 DEF PassRight
    <3> QED
      BY <3>6, <3>7
  <2> QED
    BY <2>2, <2>3, <2>4, <2>5 DEF TouchStep
<1> QED
  BY <1>1, <1>2, <1>3, <1>4, <1>5, <1>7, <1>8, <1>9, BaseNext

\* The resolution of a reference, and late initialisation.
LEMMA SpecBase ==
  ASSUME BaseInv, NEW w \in Workers, NEW s \in SpecType, NEW r \in BOOLEAN,
         NEW p \in KindPhases, SpecStep(w, s, r, p)
  PROVE  BaseInv' /\ s.kind = Asked(w).kind /\ cr.spec = Asked(w) /\ cr'.spec = s
         /\ (pc[w] = "compare" => SamePlace(cr.spec, s))
<1>0. LoopType(SpecType, KindPhases) /\ LoopInv({}) /\ PassRight(w) /\ PastGet(w)
  BY BaseParts
<1>1. /\ SpecWritten(w, s, r, p)
      /\ pc[w] \notin {"idle", "refuse", "create", "created", "createFailed", "finish"}
      /\ p \notin {"idle", "refuse", "absent", "create", "created", "createFailed"}
      /\ UNCHANGED <<faults, edits, source, entity, seen>>
  BY DEF SpecStep
<1>2. /\ LoopInv({})'
      /\ cr' \in Objects(SpecType)
      /\ cache' \in [Workers -> Copies(SpecType)]
      /\ mem' \in [Workers -> Copies(SpecType)]
      /\ pc' \in [Workers -> KindPhases]
      /\ pc'[w] = p
      /\ \A v \in Workers \ {w} : pc'[v] = pc[v] /\ mem'[v].obj = mem[v].obj
      /\ \A v \in Workers : cache'[v].obj = cache[v].obj
      /\ cr'.spec = s /\ cr'.extName = cr.extName /\ cr'.deleting = cr.deleting
      /\ cr'.present = cr.present /\ Same(mem'[w].obj, cr') /\ Same(mem[w].obj, cr)
  BY <1>0, <1>1, LoopSpecWritten
<1>3. LoopType(SpecType, KindPhases)'
  BY <1>0, <1>1, <1>2 DEF LoopType
<1>4. EntityTypes' /\ BearersRight' /\ SourceType'
  <2>1. SourceType' /\ seen' \in [Workers -> Content \cup {NotSeen}]
    BY <1>1, BaseParts DEF SourceType, EntityTypes
  <2> QED
    BY <1>1, <2>1, EntitiesKept DEF EntityTypes
<1>5. Asked(w) \in SpecType /\ Asked(w).kind = source.kind /\ cr.spec = Asked(w)
  BY <1>1, <1>2, AskedTypes DEF Same, Asked
<1>6. ASSUME pc[w] = "compare"
      PROVE  /\ s = Observe(Asked(w), seen[w]).spec /\ p \in {"current", "outdated"}
             /\ ExtName(w) \in Names /\ seen[w] \in Content
             /\ seen[w].kind = Asked(w).kind
  BY <1>6, SeenContent DEF SpecStep
<1>7. /\ s.kind = Asked(w).kind
      /\ pc[w] = "compare" => SamePlace(Asked(w), s)
      /\ pc[w] = "compare" /\ s.kind = "ScalingGroup" =>
           Unset \notin {s.members, s.memberMemory}
  <2>1. CASE pc[w] = "observe"
    <3>1. s = [Asked(w) EXCEPT !.source = source.at] /\ source.at \in Sources
      BY <2>1, BaseParts DEF SpecStep, Resolved, SourceType
    <3> QED
      BY <1>5, <2>1, <3>1, SourceTypes
  <2>2. CASE pc[w] = "compare"
    BY <1>5, <1>6, <2>2, ObservedTypes
  <2> QED
    BY <2>1, <2>2 DEF SpecStep
<1>8. CopiesInv({}, Names)'
  BY <1>0, <1>1, BaseParts, LoopSpecWrittenCopies
<1>9. /\ KindRight(cr)'
      /\ \A v \in Workers : KindRight(mem[v].obj)' /\ KindRight(cache[v].obj)'
  <2>1. KindRight(cr)'
    BY <1>1, <1>2, <1>5, <1>7 DEF KindRight
  <2>2. KindRight(mem[w].obj)'
    BY <1>2, <2>1 DEF KindRight, Same
  <2>3. \A v \in Workers \ {w} : KindRight(mem[v].obj)'
    BY <1>1, <1>2, BaseParts DEF KindRight
  <2>4. \A v \in Workers : KindRight(cache[v].obj)'
    BY <1>1, <1>2, BaseParts DEF KindRight
  <2> QED
    BY <2>1, <2>2, <2>3, <2>4
<1>10. ASSUME NEW v \in Workers \ {w} PROVE PastGet(v)' /\ PassRight(v)'
  <2>1. pc'[v] = pc[v] /\ Same(mem'[v].obj, mem[v].obj) /\ seen'[v] = seen[v]
    BY <1>1, <1>2 DEF Same
  <2> QED
    BY <2>1, OtherPass
<1>11. PastGet(w)' /\ PassRight(w)'
  <2>1. CASE pc[w] = "observe"
    <3>1. pc'[w] = "observe"
      BY <1>2, <2>1 DEF SpecStep
    <3> QED
      BY <3>1 DEF PastGet, PassRight
  <2>2. CASE pc[w] = "compare"
    <3>1. /\ Asked(w)' = s /\ ExtName(w)' = ExtName(w) /\ seen'[w] = seen[w]
          /\ mem'[w].obj.deleting = mem[w].obj.deleting
      BY <1>1, <1>2 DEF Same, Asked, ExtName
    <3>2. PastGet(w)'
      BY <1>6, <1>7, <2>2, <3>1 DEF PastGet
    <3>3. s.source = Asked(w).source
      BY <1>7, <2>2 DEF SamePlace
    <3>4. PassRight(w)'
      BY <1>0, <1>2, <1>6, <1>7, <2>2, <3>1, <3>3 DEF PassRight
    <3> QED
      BY <3>2, <3>4
  <2> QED
    BY <2>1, <2>2 DEF SpecStep
<1>12. BaseInv'
  BY <1>2, <1>3, <1>4, <1>8, <1>9, <1>10, <1>11, BaseNext
<1> QED
  BY <1>2, <1>5, <1>7, <1>12

\* A creation that is reported, with what the service has made.
LEMMA NameEffects ==
  ASSUME BaseInv, NEW w \in Workers, NEW c \in Creatable(Asked(w)), NameStep(w, c)
  PROVE  /\ c \in Creations(Asked(w), entity) /\ c.name \in Names
         /\ Asked(w) \in SpecType /\ Asked(w).kind = source.kind /\ Asked(w).source \in Sources
         /\ entity' \in [Names -> Entities] /\ BearersRight' /\ Grows
         /\ source.kind \notin ScalingKinds =>
              /\ c.is \in Content /\ entity'[c.name] = Bearer("cr", c.is)
              /\ \A m \in Names \ {c.name} : entity'[m] = entity[m]
<1>1. pc[w] = "create" /\ Produce(w, c) /\ UNCHANGED source
  BY DEF NameStep, TakesName
<1>2. Asked(w) \in SpecType /\ Asked(w).kind = source.kind
  BY <1>1, AskedTypes
<1>3. Asked(w).source \in Sources
  <2>1. ~mem[w].obj.deleting
    BY <1>1, BaseParts DEF CopiesInv
  <2>2. Asked(w).source # Unset
    BY <1>1, <2>1, BaseParts DEF PassRight
  <2> QED
    BY <1>2, <2>2, SourceTypes
<1>4. c \in Creations(Asked(w), entity)
  BY DEF Creatable
<1>5. /\ c.name \in Names
      /\ Asked(w).kind \notin ScalingKinds =>
           /\ c.is \in Content /\ c.is.kind = Asked(w).kind
           /\ Asked(w).kind = "Bucket" => c.is.name = c.name
  BY <1>2, <1>3, <1>4, BaseParts, CreationTypes
<1>6. CASE source.kind \in ScalingKinds
  BY <1>1, <1>2, <1>3, <1>4, <1>5, <1>6, EntitiesKept DEF Produce
<1>7. CASE source.kind \notin ScalingKinds
  <2> DEFINE e == Bearer("cr", c.is)
  <2>1. e \in Entities /\ e.state = "live" /\ e.is = c.is /\ e # Unknown
    BY <1>2, <1>5, <1>7, EntityStates DEF Owners
  <2>2. Write(c.name, e)
    BY <1>1, <1>2, <1>7 DEF Produce
  <2>3. c.is \in Content /\ c.is.kind = source.kind /\ (source.kind = "Bucket" => c.is.name = c.name)
    BY <1>2, <1>5, <1>7
  <2> HIDE DEF e
  <2>4. /\ entity' \in [Names -> Entities] /\ BearersRight' /\ Grows
        /\ entity'[c.name] = e /\ \A m \in Names \ {c.name} : entity'[m] = entity[m]
    BY <1>1, <1>5, <2>1, <2>2, <2>3, EntityWritten
  <2> QED
    BY <1>2, <1>3, <1>4, <1>5, <2>3, <2>4 DEF e
<1> QED
  BY <1>6, <1>7

LEMMA NameBase ==
  ASSUME BaseInv, NEW w \in Workers, NEW c \in Creatable(Asked(w)), NameStep(w, c)
  PROVE  BaseInv'
<1>0. /\ LoopType(SpecType, KindPhases) /\ LoopInv({})
      /\ pc[w] = "create" /\ TakesName(w, c.name) /\ UNCHANGED <<faults, edits, source, seen>>
      /\ UNCHANGED <<cr, cache>>
  BY BaseParts DEF NameStep, TakesName
<1>1. c.name \in Names /\ entity' \in [Names -> Entities] /\ BearersRight'
  BY NameEffects
<1>2. /\ cr' \in Objects(SpecType)
      /\ cache' \in [Workers -> Copies(SpecType)]
      /\ mem' \in [Workers -> Copies(SpecType)]
      /\ pc' \in [Workers -> KindPhases]
      /\ pc'[w] = "created"
      /\ \A v \in Workers \ {w} : pc'[v] = pc[v] /\ mem'[v] = mem[v]
      /\ mem'[w].obj.present = mem[w].obj.present
      /\ mem'[w].obj.spec = mem[w].obj.spec
  BY <1>0, <1>1, TypeParts, LoopCreateTypes
<1>3. LoopType(SpecType, KindPhases)' /\ EntityTypes' /\ SourceType'
  BY <1>0, <1>1, <1>2, BaseParts DEF LoopType, EntityTypes, SourceType
<1>4. LoopInv({})'
  BY <1>0, <1>1, TypeParts, LoopCreate
<1>5. CopiesInv({}, Names)'
  BY <1>0, <1>1, BaseParts, TypeParts, LoopCreateCopies
<1>6. /\ KindRight(cr)'
      /\ \A v \in Workers : KindRight(mem[v].obj)' /\ KindRight(cache[v].obj)'
  <2>1. KindRight(mem[w].obj)'
    BY <1>0, <1>2, BaseParts DEF KindRight
  <2> QED
    BY <1>0, <1>2, <2>1, BaseParts DEF KindRight
<1>7. ASSUME NEW v \in Workers PROVE PastGet(v)' /\ PassRight(v)'
  <2>1. CASE v # w
    <3>1. pc'[v] = pc[v] /\ Same(mem'[v].obj, mem[v].obj) /\ seen'[v] = seen[v]
      BY <1>0, <1>2, <2>1 DEF Same
    <3> QED
      BY <3>1, OtherPass
  <2>2. CASE v = w
    BY <1>2, <2>2 DEF PastGet, PassRight
  <2> QED
    BY <2>1, <2>2
<1> QED
  BY <1>1, <1>3, <1>4, <1>5, <1>6, <1>7, BaseNext

\* What happens outside of the cluster.
WorldStep ==
  \/ SourceReady \/ SourceReplaced
  \/ \E i \in Sources : SourceDeleted(i)
  \/ \E n \in Names : Drifts(n)
  \/ \E s \in UserSpecs : NameTaken(s)

LEMMA WorldEffects ==
  ASSUME BaseInv, WorldStep
  PROVE  /\ UNCHANGED <<cr, cache, mem, pc, edits, seen>> /\ faults' \in Nat
         /\ SourceType' /\ source'.kind = source.kind
         /\ entity' \in [Names -> Entities] /\ BearersRight' /\ Grows
         /\ source.kind \notin SettingKinds =>
              /\ AliveKept
              /\ Alive' = Alive \/ FaultKinds \cap {"drift", "replace"} # {}
<1>0. /\ source \in [kind : {s.kind : s \in UserSpecs}, at : Sources, ready : BOOLEAN,
                     up : SUBSET Sources]
      /\ faults \in Nat /\ edits \in Nat /\ SourceType
  BY BaseParts DEF SourceType, LoopType
<1>1. CASE SourceReady
  <2>1. /\ source' = [source EXCEPT !.ready = TRUE, !.up = @ \cup {source.at}]
        /\ UNCHANGED <<cr, cache, mem, pc, faults, edits, seen>>
    BY <1>1 DEF SourceReady
  <2>2. SourceType' /\ source'.kind = source.kind
    BY <1>0, <2>1 DEF SourceType
  <2>3. CASE source.kind \in SettingKinds
    <3>1. PICK is \in Deployed(source.kind) : Write(source.at, Bearer("others", is))
      BY <1>1, <2>3 DEF SourceReady
    <3>2. is \in Content /\ is.kind = source.kind
      BY <2>3, DeployedTypes
    <3> DEFINE e == Bearer("others", is)
    <3>3. e \in Entities /\ e.by = "others" /\ e.state = "live" /\ e.is = is
      BY <3>2, EntityStates DEF Owners
    <3>4. source.at \in Names /\ source.kind # "Bucket" /\ Write(source.at, e)
      BY <1>0, <2>3, <3>1, SourceNames DEF SettingKinds, ScalingKinds
    <3> HIDE DEF e
    <3> QED
      BY <1>0, <2>1, <2>2, <2>3, <3>2, <3>3, <3>4, EntityTaken
  <2>4. CASE UNCHANGED entity
    BY <1>0, <2>1, <2>2, <2>4, EntitiesKept
  <2> QED
    BY <1>1, <2>3, <2>4 DEF SourceReady
<1>2. CASE SourceReplaced
  <2>1. /\ source.at + 1 \in Sources
        /\ source' = [source EXCEPT !.ready = FALSE, !.at = @ + 1]
        /\ faults' = faults + 1
        /\ UNCHANGED <<cr, cache, mem, pc, edits, entity, seen>>
    BY <1>2 DEF SourceReplaced, Fault
  <2>2. SourceType' /\ source'.kind = source.kind
    BY <1>0, <2>1 DEF SourceType
  <2> QED
    BY <1>0, <2>1, <2>2, EntitiesKept
<1>3. ASSUME NEW i \in Sources, SourceDeleted(i)
      PROVE  /\ UNCHANGED <<cr, cache, mem, pc, edits, seen>> /\ faults' \in Nat
             /\ SourceType' /\ source'.kind = source.kind
             /\ entity' \in [Names -> Entities] /\ BearersRight' /\ Grows
             /\ AliveKept /\ "replace" \in FaultKinds
  <2>1. /\ i = source.at => i + 1 \in Sources
        /\ source' = IF i # source.at THEN [source EXCEPT !.up = @ \ {i}]
                     ELSE [source EXCEPT !.up = @ \ {i}, !.ready = FALSE, !.at = i + 1]
        /\ entity' = [n \in Names |-> IF Live(n) /\ In(n, i) THEN Deleted ELSE entity[n]]
        /\ faults' = faults + 1 /\ "replace" \in FaultKinds
        /\ UNCHANGED <<cr, cache, mem, pc, edits, seen>>
    BY <1>3 DEF SourceDeleted, Fault
  <2>2. SourceType' /\ source'.kind = source.kind
    <3>1. CASE i # source.at
      BY <1>0, <2>1, <3>1 DEF SourceType
    <3>2. CASE i = source.at
      <4>1. source' = [source EXCEPT !.up = @ \ {i}, !.ready = FALSE, !.at = i + 1]
        BY <2>1, <3>2
      <4>2. i + 1 \in Sources
        BY <2>1, <3>2
      <4> QED
        BY <1>0, <4>1, <4>2 DEF SourceType
    <3> QED
      BY <3>1, <3>2
  <2>3. /\ entity \in [Names -> Entities] /\ BearersRight
        /\ Deleted \in Entities /\ Deleted # Unknown /\ Deleted.state # "live"
    BY BaseParts, EntityStates DEF EntityTypes
  <2>4. entity' \in [Names -> Entities] /\ \A n \in Names : entity'[n] \in {entity[n], Deleted}
    BY <2>1, <2>3
  <2>5. \A n \in Names : entity'[n].state = "live" => entity'[n] = entity[n]
    BY <2>3, <2>4
  <2>6. BearersRight' /\ AliveKept
    BY <2>2, <2>3, <2>5
       DEF BearersRight, BearerRight, Live, AliveKept, Alive, Own, SamePlace
  <2>7. Grows
    BY <2>3, <2>4 DEF Grows
  <2> QED
    BY <1>0, <2>1, <2>2, <2>4, <2>6, <2>7
<1>4. ASSUME NEW n \in Names, Drifts(n)
      PROVE  /\ UNCHANGED <<cr, cache, mem, pc, edits, source, seen>> /\ faults' \in Nat
             /\ entity' \in [Names -> Entities] /\ BearersRight' /\ Grows
             /\ source.kind \notin SettingKinds => AliveKept
             /\ "drift" \in FaultKinds
  <2>1. /\ UNCHANGED <<cr, cache, mem, pc, edits, source, seen>> /\ Live(n)
        /\ faults' = faults + 1 /\ "drift" \in FaultKinds
        /\ \/ Write(n, Deleted)
           \/ \E is \in Edited(entity[n].is) : Write(n, [entity[n] EXCEPT !.is = is])
    BY <1>4 DEF Drifts, Fault
  <2>2. CASE Write(n, Deleted)
    BY <1>0, <2>1, <2>2, EntityStates, EntityTaken
  <2>3. ASSUME NEW is \in Edited(entity[n].is), Write(n, [entity[n] EXCEPT !.is = is])
        PROVE  /\ entity' \in [Names -> Entities] /\ BearersRight' /\ Grows
               /\ source.kind \notin SettingKinds => AliveKept
    <3>1. entity[n].is \in Content /\ entity[n].is.kind = source.kind
          /\ (source.kind = "Bucket" => entity[n].is.name = n)
      BY <2>1, LiveContent
    <3>2. /\ is \in Content /\ is.kind = entity[n].is.kind
          /\ entity[n].is.kind = "Bucket" => is.name = entity[n].is.name
          /\ entity[n].is.kind \notin SettingKinds => SamePlace(entity[n].is, is)
      BY <3>1, EditedTypes
    <3>3. /\ is \in Content /\ is.kind = source.kind
          /\ source.kind = "Bucket" => is.name = n
          /\ source.kind \notin SettingKinds => SamePlace(entity[n].is, is)
      BY <3>1, <3>2
    <3>4. source'.kind = source.kind /\ Live(n)
      BY <2>1
    <3> QED
      BY <2>3, <3>3, <3>4, EntityChanged
  <2>4. /\ entity' \in [Names -> Entities] /\ BearersRight' /\ Grows
        /\ source.kind \notin SettingKinds => AliveKept
    BY <2>1, <2>2, <2>3, Zenon
  <2> QED
    BY <1>0, <2>1, <2>4
<1>5. ASSUME NEW s \in UserSpecs, NameTaken(s)
      PROVE  /\ UNCHANGED <<cr, cache, mem, pc, edits, source, seen>> /\ faults' \in Nat
             /\ entity' \in [Names -> Entities] /\ BearersRight' /\ Grows
             /\ source.kind \notin SettingKinds => AliveKept /\ Alive' = Alive
  <2>1. /\ s.kind = source.kind /\ s.kind \in NamedKinds /\ faults' = faults + 1
        /\ UNCHANGED <<cr, cache, mem, pc, edits, source, seen>>
    BY <1>5 DEF NameTaken, Fault
  <2>2. PICK c \in Creations(Resolved(s, source.at), entity) :
               Write(c.name, Bearer("others", c.is))
    BY <1>5 DEF NameTaken
  <2> DEFINE t == Resolved(s, source.at)
             e == Bearer("others", c.is)
  <2>3. t \in SpecType /\ t.kind = s.kind /\ t.source = source.at
    BY <1>0, SourceNames, SourceTypes DEF Resolved
  <2>4. /\ c.name \in Names /\ c.is \in Content /\ c.is.kind = t.kind
        /\ t.kind = "Bucket" => c.is.name = c.name
        /\ entity[c.name].state # "live"
    <3>1. t.kind \notin SettingKinds /\ t.kind \notin ScalingKinds
      BY <2>1, <2>3 DEF NamedKinds, SettingKinds, ScalingKinds
    <3>2. c \in Creations(t, entity) /\ t.source \in Sources /\ t.kind = source.kind
      BY <1>0, <2>1, <2>3
    <3> HIDE DEF t
    <3> QED
      BY <2>3, <3>1, <3>2, BaseParts, CreationTypes
  <2>5. e \in Entities /\ e.by = "others" /\ e.state = "live" /\ e.is = c.is
    BY <2>4, EntityStates DEF Owners
  <2>6. Write(c.name, e) /\ c.is.kind = source.kind /\ (source.kind = "Bucket" => c.is.name = c.name)
    BY <2>1, <2>2, <2>3, <2>4
  <2> HIDE DEF e, t
  <2>7. /\ entity' \in [Names -> Entities] /\ BearersRight' /\ Grows
        /\ source.kind \notin SettingKinds => AliveKept
        /\ Alive' = Alive \ {c.name}
    BY <2>1, <2>4, <2>5, <2>6, EntityTaken
  <2>8. c.name \notin Alive
    BY <2>4 DEF Alive, Own, Live
  <2> QED
    BY <1>0, <2>1, <2>7, <2>8
<1>6. CASE \E n \in Names : Drifts(n)
  BY <1>0, <1>4, <1>6 DEF SourceType
<1>7. CASE \E s \in UserSpecs : NameTaken(s)
  BY <1>0, <1>5, <1>7 DEF SourceType
<1> QED
  BY <1>1, <1>2, <1>3, <1>6, <1>7 DEF WorldStep

LEMMA WorldBase ==
  ASSUME BaseInv, WorldStep
  PROVE  BaseInv'
<1>1. /\ UNCHANGED <<cr, cache, mem, pc, edits, seen>> /\ faults' \in Nat
      /\ SourceType' /\ source'.kind = source.kind
      /\ entity' \in [Names -> Entities] /\ BearersRight'
  BY WorldEffects
<1>2. LoopType(SpecType, KindPhases)' /\ EntityTypes'
  BY <1>1, BaseParts DEF LoopType, EntityTypes
<1>3. LoopInv({})' /\ CopiesInv({}, Names)'
  BY <1>1, BaseParts, LoopCloud, LoopCloudCopies
<1>4. /\ KindRight(cr)'
      /\ \A v \in Workers : KindRight(mem[v].obj)' /\ KindRight(cache[v].obj)'
  BY <1>1, BaseParts DEF KindRight
<1>5. ASSUME NEW v \in Workers PROVE PastGet(v)' /\ PassRight(v)'
  BY <1>1, OtherPass DEF Same
<1> QED
  BY <1>1, <1>2, <1>3, <1>4, <1>5, BaseNext

\* An edit of the spec leaves alone the value of a reference.
LEMMA UserForms ==
  ASSUME BaseInv, UserEdits
  PROVE  /\ UserStepOver(SpecType)
         /\ cr'.present => cr'.spec.kind = source.kind
         /\ cr.present /\ cr'.present =>
              \/ cr'.spec = cr.spec
              \/ \E s \in UserSpecs :
                   /\ s.kind = source.kind
                   /\ s.source = Unset => cr'.spec.source = cr.spec.source
                   /\ s.source # Unset => cr'.spec.source = s.source
                   /\ s.kind = "Bucket" => cr'.spec.name = s.name
         /\ ~cr.present => cr'.spec \in UserSpecs
<1>0. cr \in Objects(SpecType) /\ cr.spec \in SpecType /\ KindRight(cr)
  BY BaseParts DEF LoopType, Objects
<1>1. CASE UserDeletes
  <2>1. cr' = IF cr.finalizer THEN [cr EXCEPT !.deleting = TRUE] ELSE NoObject
    BY <1>1 DEF UserDeletes, UserWrites
  <2>2. cr.present /\ ~NoObject.present
    BY <1>1, TypeParts, LoopNoObjectType DEF UserDeletes
  <2> QED
    BY <1>0, <1>1, <2>1, <2>2 DEF UserStepOver, Objects, KindRight
<1>2. ASSUME NEW s \in UserSpecs, s.kind = source.kind,
             UserApplies(IF cr.present /\ s.source = Unset
                         THEN [s EXCEPT !.source = cr.spec.source] ELSE s)
      PROVE  /\ UserStepOver(SpecType)
             /\ cr'.spec.kind = source.kind
             /\ cr.present =>
                   /\ s.source = Unset => cr'.spec.source = cr.spec.source
                   /\ s.source # Unset => cr'.spec.source = s.source
                   /\ s.kind = "Bucket" => cr'.spec.name = s.name
             /\ ~cr.present => cr'.spec \in UserSpecs
  <2> DEFINE t == IF cr.present /\ s.source = Unset THEN [s EXCEPT !.source = cr.spec.source]
                  ELSE s
  <2>1. s \in SpecType
    BY TypeParts
  <2>2. cr.spec.source \in Sources \cup {Unset}
    BY <1>0, SourceTypes
  <2>3. /\ t \in SpecType /\ t.kind = s.kind
        /\ cr.present /\ s.source = Unset => t.source = cr.spec.source
        /\ s.source # Unset => t.source = s.source
        /\ s.kind = "Bucket" => t.name = s.name
        /\ ~cr.present => t \in UserSpecs
    <3>1. CASE cr.present /\ s.source = Unset
      <4>1. t = [s EXCEPT !.source = cr.spec.source]
        BY <3>1
      <4> QED
        BY <2>1, <2>2, <3>1, <4>1, SourceTypes
    <3>2. CASE ~(cr.present /\ s.source = Unset)
      BY <2>1, <3>2
    <3> QED
      BY <3>1, <3>2
  <2>4. UserStepOver(SpecType)
    BY <1>2, <2>3 DEF UserStepOver
  <2>5. cr' = NewObject(t) \/ cr' = [cr EXCEPT !.spec = t]
    BY <1>2 DEF UserApplies, UserWrites
  <2> HIDE DEF t
  <2>6. cr'.spec = t
    BY <1>0, <2>5 DEF NewObject, Objects
  <2> QED
    BY <1>2, <2>3, <2>4, <2>6
<1> QED
  BY <1>1, <1>2 DEF UserEdits

LEMMA UserBase ==
  ASSUME BaseInv, UserEdits, Forget, UNCHANGED <<source, entity>>
  PROVE  BaseInv'
<1>0. LoopType(SpecType, KindPhases) /\ LoopInv({}) /\ TypeOK
  BY BaseParts
<1>1. UserStepOver(SpecType)
  BY UserForms
<1>2. /\ LoopType(SpecType, KindPhases)'
      /\ pc' = pc
      /\ \A v \in Workers : mem'[v].obj = mem[v].obj /\ cache'[v].obj = cache[v].obj
  BY <1>0, <1>1, TypeParts, LoopUserForms
<1>3. /\ EntityTypes' /\ BearersRight' /\ SourceType'
      /\ \A v \in Workers : pc'[v] # "idle" => seen'[v] = seen[v]
  BY Forgotten
<1>4. LoopInv({})' /\ CopiesInv({}, Names)'
  BY <1>0, <1>1, BaseParts, TypeParts, LoopUser, LoopUserCopies
<1>5. /\ KindRight(cr)'
      /\ \A v \in Workers : KindRight(mem[v].obj)' /\ KindRight(cache[v].obj)'
  BY <1>2, BaseParts, UserForms DEF KindRight
<1>6. ASSUME NEW v \in Workers PROVE PastGet(v)' /\ PassRight(v)'
  BY <1>2, <1>3, OtherPass DEF Same
<1> QED
  BY <1>2, <1>3, <1>4, <1>5, <1>6, BaseNext

LEMMA StutterBase ==
  ASSUME BaseInv, UNCHANGED vars
  PROVE  BaseInv'
<1>1. /\ UNCHANGED <<cr, cache, mem, pc, faults, edits>> /\ UNCHANGED <<source, entity, seen>>
  BY DEF vars
<1>2. LoopType(SpecType, KindPhases)' /\ EntityTypes' /\ SourceType'
  BY <1>1, BaseParts DEF LoopType, EntityTypes, SourceType
<1>3. LoopInv({})' /\ CopiesInv({}, Names)'
  BY <1>1, BaseParts, LoopCloud, LoopCloudCopies
<1>4. /\ KindRight(cr)' /\ BearersRight'
      /\ \A v \in Workers : KindRight(mem[v].obj)' /\ KindRight(cache[v].obj)'
  BY <1>1, BaseParts, EntitiesKept DEF KindRight
<1>5. ASSUME NEW v \in Workers PROVE PastGet(v)' /\ PassRight(v)'
  BY <1>1, OtherPass DEF Same
<1> QED
  BY <1>2, <1>3, <1>4, <1>5, BaseNext

LEMMA InitBase ==
  ASSUME Init
  PROVE  BaseInv /\ Given = {} /\ Alive = {}
<1>1. LoopType(SpecType, KindPhases) /\ LoopInv({}) /\ CopiesInv({}, {})
  BY TypeParts, LoopStartTypes, LoopStart, LoopStartCopies DEF Init
<1>2. Given = {} /\ Alive = {} /\ BearersRight
  BY EntityStates DEF Init, Given, Alive, Own, Live, BearersRight
<1>3. EntityTypes /\ pc = [w \in Workers |-> "idle"]
  BY EntityStates DEF Init, ReconcilerInit, EntityTypes
<1>4. SourceType /\ source.kind = cr.spec.kind
  <2>1. PICK s \in UserSpecs : cr = NewObject(s)
    BY DEF Init, ReconcilerInit
  <2> QED
    BY <2>1, ServiceResourceAssumption DEF Init, NewObject, SourceType
<1>5. \A w \in Workers : ~mem[w].obj.present /\ ~cache[w].obj.present
  <2>1. ~NoCopy.obj.present
    BY TypeParts, LoopNoObjectType
  <2>2. mem = [w \in Workers |-> NoCopy] /\ cache = [w \in Workers |-> NoCopy]
    BY DEF Init, ReconcilerInit
  <2> QED
    BY <2>1, <2>2
<1>6. TypeOK /\ \A w \in Workers : PassRight(w)
  BY <1>1, <1>3, <1>4, TypeParts DEF PastGet, PassRight
<1>7. CopiesInv({}, Names)
  BY <1>1 DEF CopiesInv
<1> QED
  BY <1>1, <1>2, <1>4, <1>5, <1>6, <1>7 DEF BaseInv, BearersRight, KindRight

LEMMA BaseStep ==
  ASSUME BaseInv, [Next]_vars
  PROVE  BaseInv'
<1>1. ASSUME NEW w \in Workers, LoopStep(w), Forget, UNCHANGED <<source, entity>>
      PROVE  BaseInv'
  BY <1>1, LoopBase
<1>2. ASSUME NEW w \in Workers, ExternalStep(w) \/ ExternalFault(w)
      PROVE  BaseInv'
  BY <1>2, HandlerForms, TouchBase, SpecBase, NameBase DEF HandlerForm
<1>3. CASE UserEdits /\ Forget /\ UNCHANGED <<source, entity>>
  BY <1>3, UserBase
<1>4. CASE WorldStep
  BY <1>4, WorldBase
<1>5. CASE UNCHANGED vars
  BY <1>5, StutterBase
<1> QED
  BY <1>1, <1>2, <1>3, <1>4, <1>5 DEF Next, WorkerStep, LoopStep, WorldStep

\* BaseInv is an invariant of all seven kinds, whatever the faults: copies of the CR,
\* references and what the cloud knows agree as the controllers rely on.
THEOREM BaseCorrect == Spec => []BaseInv
<1>1. Init => BaseInv
  BY InitBase
<1>2. BaseInv /\ [Next]_vars => BaseInv'
  BY BaseStep
<1> QED
  BY <1>1, <1>2, PTL DEF Spec

\* The controllers of the seven kinds keep every variable in its type; a pass that is
\* past its GET knows the name of its thing and has seen one of its kind.
THEOREM TypeCorrect == Spec => []TypeOK
<1>1. BaseInv => TypeOK
  BY DEF BaseInv
<1> QED
  BY <1>1, BaseCorrect, PTL

\* No step of anybody's gives a copy of the CR a name outside of G, if no creation does.
LEMMA CopiesStep ==
  ASSUME BaseInv, [Next]_vars, NEW G, CopiesInv({}, G),
         \A w \in Workers : \A c \in Creatable(Asked(w)) : NameStep(w, c) => c.name \in G
  PROVE  CopiesInv({}, G)'
<1>0. /\ LoopType(SpecType, KindPhases) /\ LoopInv({}) /\ FreshIsCurrent
      /\ UserSpecs \subseteq SpecType /\ ReconcilerPhases \subseteq KindPhases
  BY BaseParts, TypeParts
<1>1. ASSUME NEW w \in Workers, LoopStep(w)
      PROVE  CopiesInv({}, G)'
  BY <1>0, <1>1, LoopKeepsCopies
<1>2. ASSUME NEW w \in Workers, NEW p \in KindPhases, TouchStep(w, p)
      PROVE  CopiesInv({}, G)'
  BY <1>0, <1>2, LoopTouchCopies DEF TouchStep
<1>3. ASSUME NEW w \in Workers, NEW s \in SpecType, NEW r \in BOOLEAN, NEW p \in KindPhases,
             SpecStep(w, s, r, p)
      PROVE  CopiesInv({}, G)'
  BY <1>0, <1>3, LoopSpecWrittenCopies DEF SpecStep
<1>4. ASSUME NEW w \in Workers, NEW c \in Creatable(Asked(w)), NameStep(w, c)
      PROVE  CopiesInv({}, G)'
  <2>1. c.name \in Names /\ c.name \in G /\ TakesName(w, c.name)
    BY <1>4, NameEffects DEF NameStep
  <2> QED
    BY <1>0, <2>1, LoopCreateCopies
<1>5. ASSUME NEW w \in Workers, ExternalStep(w) \/ ExternalFault(w)
      PROVE  CopiesInv({}, G)'
  BY <1>2, <1>3, <1>4, <1>5, HandlerForms DEF HandlerForm
<1>6. CASE UserEdits
  BY <1>0, <1>6, UserForms, LoopUserCopies
<1>7. CASE WorldStep
  BY <1>7, WorldEffects, LoopCloudCopies
<1>8. CASE UNCHANGED vars
  BY <1>8, LoopCloudCopies DEF vars
<1> QED
  BY <1>1, <1>5, <1>6, <1>7, <1>8 DEF Next, WorkerStep, LoopStep, WorldStep

\* What others made stays theirs or is deleted, whatever the CR knows of it.
LEMMA OthersKeep ==
  ASSUME BaseInv, [Next]_vars, NEW n \in Names, Live(n), entity[n].by = "others",
         source.kind \notin SettingKinds
  PROVE  \/ Live(n)' /\ entity'[n].by = "others"
         \/ entity'[n] = Deleted
<1>0. entity \in [Names -> Entities] /\ n # NoName /\ entity[n].state = "live"
  BY BaseParts DEF EntityTypes, Live
<1>1. entity'[n] = entity[n] => Live(n)' /\ entity'[n].by = "others"
  BY <1>0 DEF Live
<1>2. ASSUME NEW x, entity' = [entity EXCEPT ![n] = [entity[n] EXCEPT !.is = x]]
      PROVE  Live(n)' /\ entity'[n].by = "others"
  <2>1. entity[n] \in [state : {"live"}, by : Owners, is : Content]
    BY <1>0, EntityStates DEF Entities, Unknown, Deleted
  <2> QED
    BY <1>0, <1>2, <2>1 DEF Live
<1>3. ASSUME NEW m, m # n, NEW e, Write(m, e)
      PROVE  entity'[n] = entity[n]
  BY <1>0, <1>3 DEF Write
<1>4. ASSUME Write(n, Deleted)
      PROVE  entity'[n] = Deleted
  BY <1>0, <1>4 DEF Write
<1>5. ASSUME NEW w \in Workers, NEW p \in KindPhases, TouchStep(w, p), CloudStep(w, p)
      PROVE  entity'[n] = entity[n] \/ (Live(n)' /\ entity'[n].by = "others")
             \/ entity'[n] = Deleted
  <2>1. CASE Gets(w, p) \/ GetsNothing(w, p) \/ Leaves(w, p)
    BY <2>1 DEF Gets, GetsNothing, Leaves
  <2>2. ASSUME NEW m \in Names, Changes(w, p, m)
        PROVE  entity'[n] = entity[n] \/ (Live(n)' /\ entity'[n].by = "others")
    BY <1>2, <1>3, <2>2 DEF Changes, Write
  <2>3. ASSUME NEW m \in Names, TakesDown(w, p, m)
        PROVE  entity'[n] = entity[n] \/ entity'[n] = Deleted
    <3>1. Asked(w).kind # "Whitelist"
      BY <2>3, AskedTypes DEF TakesDown, SettingKinds
    <3> QED
      BY <1>3, <1>4, <2>3, <3>1 DEF TakesDown, TakeDown
  <2> QED
    BY <1>5, <2>1, <2>2, <2>3 DEF CloudStep
<1>6. ASSUME NEW w \in Workers, NEW c \in Creatable(Asked(w)), NameStep(w, c)
      PROVE  entity'[n] = entity[n]
  <2>1. /\ c \in Creations(Asked(w), entity) /\ Asked(w) \in SpecType
        /\ Asked(w).kind = source.kind /\ Asked(w).source \in Sources
        /\ \A m \in Names \ {c.name} : entity'[m] = entity[m]
    BY <1>6, NameEffects DEF SettingKinds
  <2>2. entity[c.name].state # "live"
    BY <2>1, BaseParts, CreationTypes
  <2> QED
    BY <1>0, <2>1, <2>2
<1>7. ASSUME NEW w \in Workers, ExternalStep(w) \/ ExternalFault(w)
      PROVE  entity'[n] = entity[n] \/ (Live(n)' /\ entity'[n].by = "others")
             \/ entity'[n] = Deleted
  BY <1>5, <1>6, <1>7, HandlerForms DEF HandlerForm, SpecStep
<1>8. CASE WorldStep
  <2>1. CASE SourceReady \/ SourceReplaced
    BY <1>1, <2>1 DEF SourceReady, SourceReplaced
  <2>2. ASSUME NEW i \in Sources, SourceDeleted(i)
        PROVE  entity'[n] = entity[n] \/ entity'[n] = Deleted
    BY <2>2 DEF SourceDeleted
  <2>3. ASSUME NEW m \in Names, Drifts(m)
        PROVE  entity'[n] = entity[n] \/ (Live(n)' /\ entity'[n].by = "others")
               \/ entity'[n] = Deleted
    BY <1>2, <1>3, <1>4, <2>3 DEF Drifts, Write
  <2>4. ASSUME NEW s \in UserSpecs, NameTaken(s)
        PROVE  entity'[n] = entity[n]
    <3>1. PICK c \in Creations(Resolved(s, source.at), entity) :
            Write(c.name, Bearer("others", c.is))
      BY <2>4 DEF NameTaken
    <3>2. /\ Resolved(s, source.at) \in SpecType
          /\ Resolved(s, source.at).source \in Sources
          /\ Resolved(s, source.at).kind = source.kind
      BY <2>4, BaseParts, TypeParts, SourceTypes DEF NameTaken, Resolved, SourceType
    <3>3. entity[c.name].state # "live"
      BY <3>1, <3>2, BaseParts, CreationTypes
    <3> QED
      BY <1>0, <1>3, <3>1, <3>3
  <2> QED
    BY <1>1, <1>8, <2>1, <2>2, <2>3, <2>4 DEF WorldStep
<1>9. CASE UNCHANGED vars
  BY <1>1, <1>9 DEF vars
<1> QED
  BY <1>1, <1>7, <1>8, <1>9 DEF Next, WorkerStep, WorldStep

\* The kinds of which Update or Observe and Delete go by the name of the spec.  Their
\* CR keeps its name.
SpecNamed == {"Topic", "Bucket"}

RightName(kind, n) ==
  kind \in SpecNamed => \A t \in UserSpecs : t.kind = kind => n = t.name

NameKept == \A s \in UserSpecs : s.kind \in SpecNamed => RightName(s.kind, s.name)

OneNameSpecs == {s \in SpecType : s.kind \in SpecNamed => RightName(s.kind, s.name)}

OneName == {n \in Names : RightName(source.kind, n)}

\* No copy of the CR gives another name, in its spec or in its annotation.
NamesInv == LoopType(OneNameSpecs, KindPhases) /\ CopiesInv({}, OneName)

LEMMA NameStays ==
  ASSUME NEW spec \in OneNameSpecs
  PROVE  /\ \A x \in Sources \cup {Unset} : [spec EXCEPT !.source = x] \in OneNameSpecs
         /\ \A is \in Content : is.kind = spec.kind => Observe(spec, is).spec \in OneNameSpecs
<1>0. spec \in SpecType /\ (spec.kind \in SpecNamed => RightName(spec.kind, spec.name))
  BY DEF OneNameSpecs
<1>1. ASSUME NEW x \in Sources \cup {Unset}
      PROVE  [spec EXCEPT !.source = x] \in OneNameSpecs
  <2>1. [spec EXCEPT !.source = x] \in SpecType /\ [spec EXCEPT !.source = x].kind = spec.kind
    BY <1>0, SourceTypes
  <2>2. spec.kind = "Topic" => [spec EXCEPT !.source = x].name = spec.name
    BY <1>0, SpecTypes DEF Top!SpecType
  <2>3. spec.kind = "Bucket" => [spec EXCEPT !.source = x].name = spec.name
    BY <1>0, SourceTypes
  <2> QED
    BY <1>0, <2>1, <2>2, <2>3 DEF OneNameSpecs, SpecNamed
<1>2. ASSUME NEW is \in Content, is.kind = spec.kind
      PROVE  Observe(spec, is).spec \in OneNameSpecs
  <2>1. /\ Observe(spec, is).spec \in SpecType /\ Observe(spec, is).spec.kind = spec.kind
        /\ spec.kind = "Bucket" => Observe(spec, is).spec.name = spec.name
    BY <1>0, <1>2, ObservedTypes DEF SamePlace
  <2>2. spec.kind = "Topic" => Observe(spec, is).spec.name = spec.name
    BY <1>0, SpecTypes DEF Top!SpecType, Observe, Top!Observe, Top!LateInitializeSpec
  <2> QED
    BY <1>0, <2>1, <2>2 DEF OneNameSpecs, SpecNamed
<1> QED
  BY <1>1, <1>2

\* A creation takes the name that the spec gives.
LEMMA NameAsked ==
  ASSUME BaseInv, NamesInv, NEW w \in Workers, NEW c \in Creatable(Asked(w)), NameStep(w, c)
  PROVE  c.name \in OneName
<1>1. c \in Creations(Asked(w), entity) /\ c.name \in Names /\ Asked(w).kind = source.kind
  BY NameEffects
<1>2. Asked(w) \in OneNameSpecs
  BY DEF NamesInv, LoopType, Copies, Objects, Asked
<1>3. source.kind \in SpecNamed => c.name = Asked(w).name
  BY <1>1 DEF SpecNamed, Creations, Top!Creations, Buck!Creations
<1> QED
  BY <1>1, <1>2, <1>3 DEF OneName, OneNameSpecs, RightName

LEMMA OneNameType ==
  ASSUME NameKept, BaseInv, NamesInv, [Next]_vars
  PROVE  LoopType(OneNameSpecs, KindPhases)'
<1>0. /\ LoopType(OneNameSpecs, KindPhases) /\ LoopInv({}) /\ FreshIsCurrent
      /\ ReconcilerPhases \subseteq KindPhases
  BY BaseParts, TypeParts DEF NamesInv
<1>1. UserSpecs \subseteq OneNameSpecs
  BY TypeParts DEF NameKept, OneNameSpecs
<1>2. ASSUME NEW w \in Workers, LoopStep(w)
      PROVE  LoopType(OneNameSpecs, KindPhases)'
  BY <1>0, <1>1, <1>2, LoopKeepsTypes
<1>3. ASSUME NEW w \in Workers, NEW p \in KindPhases, TouchStep(w, p)
      PROVE  LoopType(OneNameSpecs, KindPhases)'
  BY <1>0, <1>3, LoopTouchTypes DEF TouchStep, LoopType
<1>4. ASSUME NEW w \in Workers, NEW s \in SpecType, NEW r \in BOOLEAN, NEW p \in KindPhases,
             SpecStep(w, s, r, p)
      PROVE  LoopType(OneNameSpecs, KindPhases)'
  <2>1. Asked(w) \in OneNameSpecs
    BY <1>0 DEF LoopType, Copies, Objects, Asked
  <2>2. s \in OneNameSpecs
    <3>1. CASE pc[w] = "observe"
      BY <1>4, <2>1, <3>1, BaseParts, NameStays DEF SpecStep, Resolved, SourceType
    <3>2. CASE pc[w] = "compare"
      BY <1>4, <2>1, <3>2, SeenContent, NameStays DEF SpecStep
    <3> QED
      BY <1>4, <3>1, <3>2 DEF SpecStep
  <2>3. /\ SpecWritten(w, s, r, p) /\ UNCHANGED <<faults, edits>>
        /\ pc[w] \notin {"idle", "refuse", "create", "created", "createFailed", "finish"}
        /\ p \notin {"idle", "refuse", "absent", "create", "created", "createFailed"}
    BY <1>4 DEF SpecStep
  <2>4. /\ cr' \in Objects(OneNameSpecs)
        /\ cache' \in [Workers -> Copies(OneNameSpecs)]
        /\ mem' \in [Workers -> Copies(OneNameSpecs)]
        /\ pc' \in [Workers -> KindPhases]
    BY <1>0, <2>2, <2>3, LoopSpecWritten
  <2> QED
    BY <1>0, <2>3, <2>4 DEF LoopType
<1>5. ASSUME NEW w \in Workers, NEW c \in Creatable(Asked(w)), NameStep(w, c)
      PROVE  LoopType(OneNameSpecs, KindPhases)'
  BY <1>0, <1>5, NameEffects, LoopCreateTypes DEF NameStep, LoopType
<1>6. ASSUME NEW w \in Workers, ExternalStep(w) \/ ExternalFault(w)
      PROVE  LoopType(OneNameSpecs, KindPhases)'
  BY <1>3, <1>4, <1>5, <1>6, HandlerForms DEF HandlerForm
<1>7. CASE UserEdits
  <2>1. cr.spec \in SpecType /\ cr.spec.source \in Sources \cup {Unset}
    BY BaseParts, SourceTypes DEF LoopType, Objects
  <2>2. UserStepOver(OneNameSpecs)
    BY <1>1, <1>7, <2>1, NameStays DEF UserEdits, UserStepOver
  <2> QED
    BY <1>0, <1>1, <2>2, LoopUserForms
<1>8. CASE WorldStep
  BY <1>0, <1>8, WorldEffects, BaseStep, BaseParts DEF LoopType
<1>9. CASE UNCHANGED vars
  BY <1>0, <1>9 DEF vars, LoopType
<1> QED
  BY <1>2, <1>6, <1>7, <1>8, <1>9 DEF Next, WorkerStep, LoopStep, WorldStep

LEMMA KindStays ==
  ASSUME BaseInv, [Next]_vars
  PROVE  source'.kind = source.kind
<1>1. ASSUME NEW w \in Workers, ExternalStep(w) \/ ExternalFault(w)
      PROVE  UNCHANGED source
  BY <1>1, HandlerForms DEF HandlerForm, TouchStep, SpecStep, NameStep
<1>2. WorldStep => source'.kind = source.kind
  BY WorldEffects
<1> QED
  BY <1>1, <1>2 DEF Next, WorkerStep, WorldStep, vars

LEMMA NamesStep ==
  ASSUME NameKept, BaseInv, NamesInv, [Next]_vars
  PROVE  NamesInv'
<1>1. PICK G : G = OneName
  OBVIOUS
<1>2. CopiesInv({}, G)
  BY <1>1 DEF NamesInv
<1>3. \A w \in Workers : \A c \in Creatable(Asked(w)) : NameStep(w, c) => c.name \in G
  BY <1>1, NameAsked
<1>4. CopiesInv({}, G)'
  BY <1>2, <1>3, CopiesStep
<1>5. OneName' = G
  BY <1>1, KindStays DEF OneName
<1>6. CopiesInv({}, OneName)'
  BY <1>4, <1>5 DEF CopiesInv, CopyRight
<1> QED
  BY <1>6, OneNameType DEF NamesInv

LEMMA NamesInit ==
  ASSUME NameKept, Init
  PROVE  NamesInv
<1>1. UserSpecs \subseteq OneNameSpecs /\ ReconcilerPhases \subseteq KindPhases
  BY TypeParts DEF NameKept, OneNameSpecs
<1>2. CopiesInv({}, {})
  BY LoopStartCopies DEF Init
<1> QED
  BY <1>1, <1>2, LoopStartTypes DEF Init, NamesInv, CopiesInv, CopyRight

\* So an update or a deletion is of what the CR names.
LEMMA NamedTarget ==
  ASSUME BaseInv, NamesInv, NEW w \in Workers, pc[w] \in {"current", "outdated", "patch"}
  PROVE  Observed(Asked(w), ExtName(w)) = ExtName(w) /\ Patched(Asked(w), ExtName(w)) = ExtName(w)
<1>1. ExtName(w) \in Names /\ Asked(w).kind = source.kind
  BY SeenContent
<1>2. Asked(w) \in OneNameSpecs
  BY DEF NamesInv, LoopType, Copies, Objects, Asked
<1>3. ExtName(w) \in OneName
  <2>1. NoName \notin Names
    BY SourceNames
  <2> QED
    BY <1>1, <2>1 DEF NamesInv, CopiesInv, ExtName
<1>4. \E t \in UserSpecs : t.kind = source.kind
  BY BaseParts DEF SourceType
<1>5. Asked(w).kind \in SpecNamed => Asked(w).name = ExtName(w)
  BY <1>1, <1>2, <1>3, <1>4 DEF OneName, OneNameSpecs, RightName
<1> QED
  BY <1>5 DEF Observed, Patched, SpecNamed

LEMMA StrangeStep ==
  ASSUME BaseInv, NamesInv, [Next]_vars, NEW n \in Names, Strange(n),
         source.kind \notin SettingKinds
  PROVE  /\ Strange(n)' \/ entity'[n] = Deleted
         /\ (\E w \in Workers : Update(w) \/ Delete(w)) => entity'[n] = entity[n]
<1>0. /\ Live(n) /\ entity[n].by = "others" /\ cr.extName # n
      /\ \A w \in Workers : mem[w].obj.extName # n /\ cache[w].obj.extName # n
  BY DEF Strange
<1>1. CopiesInv({}, Names \ {n})'
  <2>1. CopiesInv({}, Names \ {n})
    BY <1>0, BaseParts DEF CopiesInv, CopyRight
  <2>2. ASSUME NEW w \in Workers, NEW c \in Creatable(Asked(w)), NameStep(w, c)
        PROVE  c.name \in Names \ {n}
    <3>1. /\ c \in Creations(Asked(w), entity) /\ Asked(w) \in SpecType /\ c.name \in Names
          /\ Asked(w).kind = source.kind /\ Asked(w).source \in Sources
      BY <2>2, NameEffects
    <3>2. entity[c.name].state # "live"
      BY <3>1, BaseParts, CreationTypes
    <3> QED
      BY <1>0, <3>1, <3>2 DEF Live
  <2> QED
    BY <2>1, <2>2, CopiesStep
<1>2. Strange(n)' \/ entity'[n] = Deleted
  <2>1. NoName \notin Names
    BY SourceNames
  <2>2. /\ cr'.extName # n
        /\ \A w \in Workers : mem'[w].obj.extName # n /\ cache'[w].obj.extName # n
    BY <1>1, <2>1 DEF CopiesInv
  <2>3. (Live(n)' /\ entity'[n].by = "others") \/ entity'[n] = Deleted
    BY <1>0, OthersKeep
  <2> QED
    BY <2>2, <2>3 DEF Strange
<1>3. ASSUME NEW w \in Workers, Update(w) \/ Delete(w)
      PROVE  entity'[n] = entity[n]
  <2>0. entity \in [Names -> Entities]
    BY BaseParts DEF EntityTypes
  <2>1. /\ pc[w] \in {"current", "outdated", "patch"}
        /\ \/ UNCHANGED entity
           \/ \E e : Write(Observed(Asked(w), ExtName(w)), e)
           \/ \E e : Write(Patched(Asked(w), ExtName(w)), e)
    BY <1>3 DEF Update, Delete, Patching, Updating, Deleting, TakeDown
  <2>2. UNCHANGED entity \/ \E e : Write(ExtName(w), e)
    BY <2>1, NamedTarget
  <2>3. ExtName(w) # n
    BY <1>0 DEF ExtName
  <2> QED
    BY <2>0, <2>2, <2>3 DEF Write
<1> QED
  BY <1>2, <1>3

\* What others made under a name that no copy of the CR gives is neither changed nor
\* taken down by the controllers, nor does the CR come to name it.
THEOREM NeverAdopts ==
  ASSUME NameKept
  PROVE  Spec => NeverAdopted
<1>1. Init => NamesInv
  BY NamesInit
<1>2. BaseInv /\ NamesInv /\ [Next]_vars => NamesInv'
  BY NamesStep
<1>3. BaseInv /\ NamesInv /\ [Next]_vars =>
        [source.kind \notin SettingKinds =>
           \A n \in Names : Strange(n) =>
             /\ Strange(n)' \/ entity'[n] = Deleted
             /\ (\E w \in Workers : Update(w) \/ Delete(w)) => entity'[n] = entity[n]]_vars
  BY StrangeStep
<1> QED
  BY <1>1, <1>2, <1>3, BaseCorrect, PTL DEF Spec, NeverAdopted

-----------------------------------------------------------------------------
(***************************************************************************)
(* IInv is kept by every step, if something is made for each CR and its    *)
(* specs stay in one place                                                 *)
(***************************************************************************)
CopiesRight == source.kind = "ResourceKey" => CopiesInv(Alive, Given)

LEMMA IParts ==
  ASSUME MadeKinds, IInv
  PROVE  /\ BaseInv /\ LoopType(SpecType, KindPhases) /\ FreshIsCurrent /\ LoopInv(Alive)
         /\ PlacesRight /\ CopiesRight /\ Alive \subseteq Names
         /\ source.kind \notin SettingKinds /\ source.kind \notin ScalingKinds
         /\ KindRight(cr) /\ \A w \in Workers : pc[w] # "idle" => Asked(w).kind = source.kind
<1>1. BaseInv /\ LoopInv(Alive) /\ PlacesRight /\ CopiesRight /\ Alive \subseteq Names
  BY DEF IInv, CopiesRight, Alive
<1>2. source.kind \in {s.kind : s \in UserSpecs}
  BY <1>1, BaseParts DEF SourceType
<1>3. source.kind \notin SettingKinds /\ source.kind \notin ScalingKinds
  BY <1>2 DEF MadeKinds, SettingKinds
<1> QED
  BY <1>1, <1>3, BaseParts, AskedTypes

\* Back from a constant that bounds what is alive after a step.
LEMMA AliveNext ==
  ASSUME Grows, source'.kind = source.kind, NEW L, Alive' \subseteq L, LoopInv(L)',
         NEW G, G \subseteq Given, source.kind = "ResourceKey" => CopiesInv(L, G)'
  PROVE  LoopInv(Alive)' /\ CopiesRight'
<1>1. LoopInv(Alive)'
  BY DEF LoopInv, PassKnows, AccountedFor, AtMostOne
<1>2. G \subseteq Given'
  BY DEF Grows, Given
<1>3. CopiesRight'
  BY <1>2 DEF CopiesRight, CopiesInv, CopyRight
<1> QED
  BY <1>1, <1>3

LEMMA INext ==
  ASSUME BaseInv', LoopInv(Alive)', CopiesRight', PlacesRight'
  PROVE  IInv'
BY DEF IInv, CopiesRight

\* Specs of the CR's kind that agree on the place agree with whatever agrees with one.
LEMMA SamePlaces ==
  ASSUME NEW s, NEW t, NEW u, s.kind = t.kind, t.kind = u.kind,
         SamePlace(s, t), SamePlace(t, u)
  PROVE  SamePlace(s, u) /\ SamePlace(t, s)
BY DEF SamePlace

\* The CR keeps its place.
LEMMA PlacesMoved ==
  ASSUME MadeKinds, IInv, SamePlace(cr.spec, cr'.spec), cr.present, cr'.spec.kind = source.kind,
         AliveKept,
         \A v \in Workers : Creating(v)' =>
           \/ Creating(v) /\ mem'[v].obj.spec = mem[v].obj.spec
           \/ mem'[v].obj.spec = cr'.spec
  PROVE  PlacesRight'
<1>0. /\ BaseInv /\ PlacesRight /\ cr.spec.kind = source.kind
      /\ \A w \in Workers : pc[w] # "idle" => Asked(w).kind = source.kind
  BY IParts DEF KindRight
<1>1. ASSUME NEW n \in Alive' PROVE SamePlace(cr'.spec, entity'[n].is)
  <2>1. n \in Alive /\ SamePlace(entity[n].is, entity'[n].is)
    BY <1>1 DEF AliveKept
  <2>2. SamePlace(cr.spec, entity[n].is) /\ entity[n].is.kind = source.kind
    BY <1>0, <2>1, LiveContent DEF PlacesRight, Alive, Own
  <2> QED
    BY <1>0, <2>1, <2>2 DEF SamePlace
<1>2. ASSUME NEW v \in Workers, Creating(v)' PROVE SamePlace(mem'[v].obj.spec, cr'.spec)
  <2>1. CASE Creating(v) /\ mem'[v].obj.spec = mem[v].obj.spec
    <3>1. SamePlace(mem[v].obj.spec, cr.spec) /\ mem[v].obj.spec.kind = source.kind
      BY <1>0, <2>1 DEF PlacesRight, Creating, Asked
    <3> QED
      BY <1>0, <2>1, <3>1, SamePlaces
  <2>2. CASE mem'[v].obj.spec = cr'.spec
    BY <2>2 DEF SamePlace
  <2> QED
    BY <1>2, <2>1, <2>2
<1>3. \A s \in UserSpecs : s.kind = cr'.spec.kind =>
        /\ s.source \in {Unset, cr'.spec.source}
        /\ s.kind = "Bucket" => s.name = cr'.spec.name
  BY <1>0 DEF PlacesRight, SamePlace
<1> QED
  BY <1>1, <1>2, <1>3 DEF PlacesRight

\* There is none.
LEMMA PlacesEmpty ==
  ASSUME LoopInv(Alive)', ~cr'.present
  PROVE  PlacesRight'
<1>1. Alive' = {} /\ \A v \in Workers : ~Creating(v)'
  BY DEF LoopInv, AccountedFor, PassKnows
<1> QED
  BY <1>1 DEF PlacesRight

LEMMA LoopI ==
  ASSUME MadeKinds, IInv, NEW w \in Workers, LoopStep(w), Forget, UNCHANGED <<source, entity>>
  PROVE  IInv'
<1>0. /\ BaseInv /\ LoopType(SpecType, KindPhases) /\ FreshIsCurrent
      /\ Alive \subseteq Names /\ LoopInv(Alive) /\ CopiesRight
      /\ source.kind \notin SettingKinds /\ KindRight(cr)
  BY IParts
<1>1. BaseInv'
  BY <1>0, LoopBase
<1>2. /\ \A v \in Workers \ {w} : pc'[v] = pc[v] /\ mem'[v].obj = mem[v].obj
      /\ pc'[w] \notin {"idle", "observe", "refuse", "finish"} =>
           /\ Same(mem'[w].obj, mem[w].obj)
           /\ pc'[w] # pc[w] => mem'[w].obj = cr'
  BY <1>0, TypeParts, LoopKeepsTypes
<1>3. \/ cr'.spec = cr.spec /\ cr'.present = cr.present
      \/ ~cr'.present
  <2>1. Same(cr', cr) \/ cr' = NoObject \/ (cr'.spec = cr.spec /\ cr'.present = cr.present)
    BY <1>0, TypeParts, LoopSources
  <2> QED
    BY <2>1, TypeParts, LoopNoObjectType DEF Same
<1>4. Grows /\ AliveKept /\ Alive' = Alive /\ Given' = Given
  BY <1>0, Forgotten
<1>5. PICK L : L = Alive
  OBVIOUS
<1>6. PICK G : G = Given
  OBVIOUS
<1>7. LoopInv(L)'
  BY <1>0, <1>5, TypeParts, LoopKeepsInv
<1>8. source.kind = "ResourceKey" => CopiesInv(L, G)'
  <2> SUFFICES ASSUME source.kind = "ResourceKey" PROVE CopiesInv(L, G)'
    OBVIOUS
  <2>1. LoopInv(L) /\ CopiesInv(L, G) /\ L \subseteq Names
    BY <1>0, <1>5, <1>6 DEF CopiesRight
  <2> QED
    BY <1>0, <2>1, TypeParts, LoopKeepsCopies
<1>9. LoopInv(Alive)' /\ CopiesRight'
  BY <1>4, <1>5, <1>6, <1>7, <1>8, AliveNext
<1>10. PlacesRight'
  <2>1. CASE ~cr'.present
    BY <1>9, <2>1, PlacesEmpty
  <2>2. CASE cr'.spec = cr.spec /\ cr.present
    <3>1. SamePlace(cr.spec, cr'.spec) /\ cr'.spec.kind = source.kind
      BY <1>0, <2>2 DEF SamePlace, KindRight
    <3>2. ASSUME NEW v \in Workers, Creating(v)'
          PROVE  \/ Creating(v) /\ mem'[v].obj.spec = mem[v].obj.spec
                 \/ mem'[v].obj.spec = cr'.spec
      BY <1>2, <3>2 DEF Creating, Same
    <3> QED
      BY <1>4, <2>2, <3>1, <3>2, PlacesMoved
  <2> QED
    BY <1>3, <2>1, <2>2
<1> QED
  BY <1>1, <1>9, <1>10, INext

\* A pass that finds nothing and works from a current copy is right.
LEMMA AbsentRight ==
  ASSUME MadeKinds, IInv, NEW w \in Workers, pc[w] = "observe", mem[w].fresh,
         ~Found(w, Observed(Asked(w), ExtName(w)))
  PROVE  ExtName(w) \notin Alive
<1> SUFFICES ASSUME ExtName(w) \in Alive PROVE FALSE
  OBVIOUS
<1>0. /\ BaseInv /\ LoopType(SpecType, KindPhases) /\ FreshIsCurrent /\ PlacesRight
      /\ Alive \subseteq Names /\ source.kind \notin SettingKinds
      /\ Asked(w).kind = source.kind
  BY IParts
<1>1. Asked(w) = cr.spec
  BY <1>0, LoopFresh DEF Same, Asked
<1>2. PICK n \in Names : n = ExtName(w) /\ n \in Alive /\ Live(n)
  BY <1>0 DEF Alive, Own
<1>3. /\ SamePlace(Asked(w), entity[n].is)
      /\ source.kind = "Bucket" => entity[n].is.name = n
  BY <1>0, <1>1, <1>2, LiveContent DEF PlacesRight
<1>4. Observed(Asked(w), ExtName(w)) = n
  BY <1>0, <1>2, <1>3 DEF Observed, SamePlace
<1>5. Reaches(Asked(w), entity[n].is)
  BY <1>0, <1>3 DEF Reaches, Buck!Reaches, SamePlace, SettingKinds
<1>6. Asked(w).kind \notin ScalingKinds /\ ExtName(w) # NoName
  BY <1>0, <1>2 DEF SettingKinds, Live
<1> QED
  BY <1>2, <1>4, <1>5, <1>6 DEF Found

LEMMA TouchI ==
  ASSUME MadeKinds, IInv, NEW w \in Workers, NEW p \in KindPhases, TouchStep(w, p),
         CloudStep(w, p)
  PROVE  IInv'
<1>0. /\ BaseInv /\ LoopType(SpecType, KindPhases) /\ LoopInv(Alive) /\ CopiesRight
      /\ source.kind \notin SettingKinds /\ KindRight(cr)
  BY IParts
<1>1. BaseInv'
  BY <1>0, TouchBase
<1>2. UNCHANGED source /\ Grows /\ AliveKept
  BY <1>0, CloudEffects DEF TouchStep
<1>3. /\ Touches(w, p) /\ UNCHANGED <<cr, cache>>
      /\ pc'[w] = p /\ \A v \in Workers \ {w} : pc'[v] = pc[v] /\ mem'[v] = mem[v]
      /\ Same(mem'[w].obj, mem[w].obj)
  BY <1>0, LoopTouchTypes DEF TouchStep, Touches
<1>4. Alive' \subseteq Alive
  BY <1>2 DEF AliveKept
<1>5. p = "absent" /\ mem[w].fresh => mem[w].obj.extName \notin Alive
  <2> SUFFICES ASSUME p = "absent", mem[w].fresh PROVE ExtName(w) \notin Alive
    BY DEF ExtName
  <2>1. pc[w] = "observe" /\ GetsNothing(w, p)
    BY DEF TouchStep, CloudStep, Gets, Leaves, Changes, TakesDown
  <2> QED
    BY <2>1, AbsentRight DEF GetsNothing
<1>6. PICK L : L = Alive
  OBVIOUS
<1>7. PICK G : G = Given
  OBVIOUS
<1>8. LoopInv(L)'
  <2>1. LoopInv(L)
    BY <1>0, <1>6
  <2> QED
    BY <1>0, <1>3, <1>5, <1>6, <2>1, LoopTouch DEF TouchStep
<1>9. source.kind = "ResourceKey" => CopiesInv(L, G)'
  <2> SUFFICES ASSUME source.kind = "ResourceKey" PROVE CopiesInv(L, G)'
    OBVIOUS
  <2>1. CopiesInv(L, G)
    BY <1>0, <1>6, <1>7 DEF CopiesRight
  <2> QED
    BY <1>0, <1>3, <2>1, LoopTouchCopies DEF TouchStep
<1>10. LoopInv(Alive)' /\ CopiesRight'
  BY <1>2, <1>4, <1>6, <1>7, <1>8, <1>9, AliveNext
<1>11. PlacesRight'
  <2>1. CASE ~cr.present
    BY <1>3, <1>10, <2>1, PlacesEmpty
  <2>2. CASE cr.present
    <3>1. SamePlace(cr.spec, cr'.spec) /\ cr'.spec.kind = source.kind
      BY <1>0, <1>3, <2>2 DEF SamePlace, KindRight
    <3>2. ASSUME NEW v \in Workers, Creating(v)'
          PROVE  Creating(v) /\ mem'[v].obj.spec = mem[v].obj.spec
      BY <1>3, <3>2 DEF TouchStep, Creating, Same
    <3> QED
      BY <1>2, <2>2, <3>1, <3>2, PlacesMoved
  <2> QED
    BY <2>1, <2>2
<1> QED
  BY <1>1, <1>10, <1>11, INext

LEMMA SpecI ==
  ASSUME MadeKinds, IInv, NEW w \in Workers, NEW s \in SpecType, NEW r \in BOOLEAN,
         NEW p \in KindPhases, SpecStep(w, s, r, p)
  PROVE  IInv' /\ cr'.present = cr.present /\ cr'.deleting = cr.deleting /\ Alive' = Alive
<1>0. /\ BaseInv /\ LoopType(SpecType, KindPhases) /\ FreshIsCurrent /\ LoopInv(Alive)
      /\ CopiesRight /\ PlacesRight /\ source.kind \notin SettingKinds /\ KindRight(cr)
      /\ pc[w] # "idle" /\ Asked(w).kind = source.kind
  BY IParts DEF SpecStep
<1>1. /\ SpecWritten(w, s, r, p) /\ mem[w].fresh
      /\ pc[w] \notin {"idle", "refuse", "create", "created", "createFailed", "finish"}
      /\ p \notin {"idle", "refuse", "absent", "create", "created", "createFailed"}
      /\ UNCHANGED <<source, entity>>
  BY DEF SpecStep, SpecWritten
<1>2. BaseInv' /\ s.kind = Asked(w).kind /\ cr.spec = Asked(w) /\ cr'.spec = s
      /\ (pc[w] = "compare" => SamePlace(cr.spec, s))
  BY <1>0, SpecBase
<1>3. Grows /\ AliveKept /\ Alive' = Alive /\ Given' = Given
  BY <1>0, <1>1, EntitiesKept DEF Given
<1>4. PICK L : L = Alive
  OBVIOUS
<1>5. PICK G : G = Given
  OBVIOUS
<1>6. LoopInv(L)
  BY <1>0, <1>4
<1>7. /\ LoopInv(L)'
      /\ pc'[w] = p
      /\ \A v \in Workers \ {w} : pc'[v] = pc[v] /\ mem'[v].obj = mem[v].obj
      /\ cr'.present = cr.present /\ cr'.deleting = cr.deleting
  BY <1>0, <1>1, <1>6, LoopSpecWritten
<1>8. source.kind = "ResourceKey" => CopiesInv(L, G)'
  <2> SUFFICES ASSUME source.kind = "ResourceKey" PROVE CopiesInv(L, G)'
    OBVIOUS
  <2>1. CopiesInv(L, G)
    BY <1>0, <1>4, <1>5 DEF CopiesRight
  <2> QED
    BY <1>0, <1>1, <1>6, <2>1, LoopSpecWrittenCopies
<1>9. LoopInv(Alive)' /\ CopiesRight'
  BY <1>1, <1>3, <1>4, <1>5, <1>7, <1>8, AliveNext
<1>10. \A v \in Workers : Creating(v)' =>
         Creating(v) /\ mem'[v].obj.spec = mem[v].obj.spec
  BY <1>1, <1>7 DEF Creating
<1>11. cr.present
  <2>1. mem[w].obj.present
    BY <1>0 DEF FreshIsCurrent
  <2> QED
    BY <1>0, <1>1, <2>1, LoopFresh DEF Same
<1>12. PlacesRight'
  <2>1. CASE pc[w] = "compare"
    BY <1>0, <1>2, <1>3, <1>10, <1>11, <2>1, PlacesMoved
  <2>2. CASE pc[w] = "observe"
    <3>1. s = [Asked(w) EXCEPT !.source = source.at] /\ Asked(w).source = Unset
      BY <2>2 DEF SpecStep, Resolved
    <3>2. Alive = {}
      <4> SUFFICES ASSUME NEW n \in Alive PROVE FALSE
        OBVIOUS
      <4>1. n \in Names /\ Live(n)
        BY DEF Alive, Own
      <4>2. entity[n].is.source \in Sources
        BY <1>0, <4>1, LiveContent, ContentSource
      <4>3. entity[n].is.source = cr.spec.source
        BY <1>0 DEF PlacesRight, SamePlace
      <4> QED
        BY <1>2, <3>1, <4>2, <4>3, ServiceKindsAssumption
    <3>3. \A v \in Workers : ~Creating(v)
      <4>1. mem[w].obj.creation # "pending"
        BY <1>0, <2>2 DEF LoopInv, PassKnows, Creating
      <4>2. cr.creation = mem[w].obj.creation
        BY <1>0, <1>1, <2>2, LoopFresh
      <4> QED
        BY <1>0, <4>1, <4>2 DEF LoopInv, PassKnows
    <3>4. Asked(w) \in SpecType /\ source.at \in Sources
      BY <1>0, AskedTypes, BaseParts DEF SourceType
    <3>5. s.kind = "Bucket" => s.name = cr.spec.name
      BY <1>2, <3>1, <3>4, SourceTypes
    <3>6. \A t \in UserSpecs : t.kind = cr.spec.kind =>
            t.source = Unset /\ (t.kind = "Bucket" => t.name = cr.spec.name)
      BY <1>0, <1>2, <1>11, <3>1 DEF PlacesRight
    <3>7. \A t \in UserSpecs : t.kind = cr'.spec.kind =>
            t.source = Unset /\ (t.kind = "Bucket" => t.name = cr'.spec.name)
      BY <1>2, <3>5, <3>6
    <3> QED
      BY <1>3, <1>10, <3>2, <3>3, <3>7 DEF PlacesRight
  <2> QED
    BY <2>1, <2>2 DEF SpecStep
<1> QED
  BY <1>2, <1>3, <1>7, <1>9, <1>12, INext

\* What is made is where the spec of the CR says, and there was none.
LEMMA NameI ==
  ASSUME MadeKinds, IInv, NEW w \in Workers, NEW c \in Creatable(Asked(w)), NameStep(w, c)
  PROVE  /\ IInv' /\ c.name \in Names /\ Alive = {} /\ Alive' = {c.name}
         /\ cr.present /\ UNCHANGED cr
<1>0. /\ BaseInv /\ LoopType(SpecType, KindPhases) /\ LoopInv(Alive) /\ CopiesRight /\ PlacesRight
      /\ source.kind \notin SettingKinds /\ source.kind \notin ScalingKinds /\ KindRight(cr)
      /\ pc[w] = "create" /\ TakesName(w, c.name) /\ UNCHANGED <<cr, cache, source>>
  BY IParts DEF NameStep, TakesName
<1>1. Alive = {} /\ cr.present /\ \A v \in Workers : Creating(v) => v = w
  BY <1>0 DEF LoopInv, PassKnows, Creating
<1>2. /\ c \in Creations(Asked(w), entity) /\ c.name \in Names /\ Grows
      /\ Asked(w) \in SpecType /\ Asked(w).kind = source.kind /\ Asked(w).source \in Sources
      /\ c.is \in Content /\ entity'[c.name] = Bearer("cr", c.is)
      /\ \A m \in Names \ {c.name} : entity'[m] = entity[m]
  BY <1>0, NameEffects
<1>3. /\ SamePlace(Asked(w), c.is)
      /\ source.kind = "ResourceKey" => entity[c.name] = Unknown
  BY <1>0, <1>2, BaseParts, CreationTypes
<1>4. BaseInv'
  BY <1>0, NameBase
<1>5. /\ entity'[c.name].state = "live" /\ entity'[c.name].by = "cr" /\ entity'[c.name].is = c.is
      /\ entity'[c.name] # Unknown
  BY <1>2, EntityStates DEF Owners
<1>6. Alive' = {c.name}
  BY <1>1, <1>2, <1>5, SourceNames DEF Alive, Own, Live
<1>7. /\ \A v \in Workers \ {w} : pc'[v] = pc[v]
      /\ mem'[w].obj.spec = Asked(w)
  BY <1>0, <1>2, TypeParts, LoopCreateTypes DEF Asked
<1>8. LoopInv(Alive)'
  <2>1. PICK L : L = Alive
    OBVIOUS
  <2>2. LoopInv(L)
    BY <1>0, <2>1
  <2>3. LoopInv({c.name})'
    <3>1. PICK n \in Names : n = c.name
      BY <1>2
    <3>2. LoopInv({n})'
      BY <1>0, <2>2, <3>1, TypeParts, LoopCreate
    <3> QED
      BY <1>6, <3>1, <3>2 DEF LoopInv, PassKnows, AccountedFor, AtMostOne
  <2> QED
    BY <1>6, <2>3 DEF LoopInv, PassKnows, AccountedFor, AtMostOne
<1>9. CopiesRight'
  <2> SUFFICES ASSUME source.kind = "ResourceKey" PROVE CopiesInv(Alive, Given)'
    BY <1>0 DEF CopiesRight
  <2>1. PICK L : L = Alive
    OBVIOUS
  <2>2. PICK G : G = Given
    OBVIOUS
  <2>3. PICK H : H = Given'
    OBVIOUS
  <2>4. PICK n \in Names : n = c.name
    BY <1>2
  <2>5. CopiesInv(L, G) /\ n \notin G
    BY <1>0, <1>3, <2>1, <2>2, <2>4 DEF CopiesRight, Given
  <2>6. G \cup {n} \subseteq H
    BY <1>2, <1>5, <2>2, <2>3, <2>4 DEF Given, Grows
  <2>7. CopiesInv({n}, H)'
    BY <1>0, <2>4, <2>5, <2>6, TypeParts, LoopCreateCopies
  <2> QED
    BY <1>6, <2>3, <2>4, <2>7 DEF CopiesInv, CopyRight
<1>10. PlacesRight'
  <2>1. SamePlace(mem[w].obj.spec, cr.spec) /\ Asked(w) = mem[w].obj.spec
    BY <1>0 DEF PlacesRight, Creating, Asked
  <2>2. SamePlace(cr.spec, c.is)
    BY <1>0, <1>1, <1>2, <1>3, <2>1 DEF SamePlace, KindRight
  <2>3. \A n \in Alive' : SamePlace(cr'.spec, entity'[n].is)
    BY <1>0, <1>5, <1>6, <2>2
  <2>4. \A v \in Workers : Creating(v)' => v = w
    BY <1>1, <1>7 DEF Creating
  <2>5. \A v \in Workers : Creating(v)' => SamePlace(mem'[v].obj.spec, cr'.spec)
    BY <1>0, <1>7, <2>1, <2>4
  <2> QED
    BY <1>0, <2>3, <2>5 DEF PlacesRight
<1> QED
  BY <1>0, <1>1, <1>2, <1>4, <1>6, <1>8, <1>9, <1>10, INext

LEMMA WorldI ==
  ASSUME MadeKinds, IInv, WorldStep
  PROVE  IInv' /\ AliveKept
<1>0. /\ BaseInv /\ LoopInv(Alive) /\ CopiesRight /\ source.kind \notin SettingKinds /\ KindRight(cr)
  BY IParts
<1>1. /\ UNCHANGED <<cr, cache, mem, pc>> /\ source'.kind = source.kind /\ Grows /\ AliveKept
  BY <1>0, WorldEffects
<1>2. BaseInv'
  BY <1>0, WorldBase
<1>3. PICK L : L = Alive
  OBVIOUS
<1>4. PICK G : G = Given
  OBVIOUS
<1>5. LoopInv(L)'
  BY <1>0, <1>1, <1>3, LoopCloud
<1>6. source.kind = "ResourceKey" => CopiesInv(L, G)'
  BY <1>0, <1>1, <1>3, <1>4, LoopCloudCopies DEF CopiesRight
<1>7. Alive' \subseteq L
  BY <1>1, <1>3 DEF AliveKept
<1>8. LoopInv(Alive)' /\ CopiesRight'
  BY <1>1, <1>4, <1>5, <1>6, <1>7, AliveNext
<1>9. PlacesRight'
  <2>1. CASE ~cr.present
    BY <1>1, <1>8, <2>1, PlacesEmpty
  <2>2. CASE cr.present
    <3>1. SamePlace(cr.spec, cr'.spec) /\ cr'.spec.kind = source.kind
      BY <1>0, <1>1, <2>2 DEF SamePlace, KindRight
    <3>2. \A v \in Workers : Creating(v)' => Creating(v) /\ mem'[v].obj.spec = mem[v].obj.spec
      BY <1>1 DEF Creating
    <3> QED
      BY <1>1, <2>2, <3>1, <3>2, PlacesMoved
  <2> QED
    BY <2>1, <2>2
<1> QED
  BY <1>1, <1>2, <1>8, <1>9, INext

LEMMA UserI ==
  ASSUME MadeKinds, PlaceKept, IInv, UserEdits, Forget, UNCHANGED <<source, entity>>
  PROVE  IInv' /\ Alive' = Alive
<1>0. /\ BaseInv /\ LoopType(SpecType, KindPhases) /\ LoopInv(Alive) /\ CopiesRight /\ PlacesRight
      /\ source.kind \notin SettingKinds /\ KindRight(cr)
  BY IParts
<1>1. BaseInv' /\ UserStepOver(SpecType)
  BY <1>0, UserBase, UserForms
<1>2. /\ pc' = pc
      /\ \A v \in Workers : mem'[v].obj = mem[v].obj
      /\ \/ cr' = NoObject
         \/ (\E s \in SpecType : cr' = NewObject(s)) /\ ~cr.present
         \/ cr'.present = cr.present /\ cr.present
  BY <1>0, <1>1, TypeParts, LoopUserForms
<1>3. Grows /\ AliveKept /\ Alive' = Alive /\ Given' = Given
  BY <1>0, Forgotten
<1>4. PICK L : L = Alive
  OBVIOUS
<1>5. PICK G : G = Given
  OBVIOUS
<1>6. LoopInv(L) /\ LoopInv(L)'
  BY <1>0, <1>1, <1>4, TypeParts, LoopUser
<1>7. source.kind = "ResourceKey" => CopiesInv(L, G)'
  <2> SUFFICES ASSUME source.kind = "ResourceKey" PROVE CopiesInv(L, G)'
    OBVIOUS
  <2>1. CopiesInv(L, G)
    BY <1>0, <1>4, <1>5 DEF CopiesRight
  <2> QED
    BY <1>0, <1>1, <1>6, <2>1, TypeParts, LoopUserCopies
<1>8. LoopInv(Alive)' /\ CopiesRight'
  BY <1>3, <1>4, <1>5, <1>6, <1>7, AliveNext
<1>9. PlacesRight'
  <2>1. CASE ~cr'.present
    BY <1>8, <2>1, PlacesEmpty
  <2>2. CASE cr'.present /\ ~cr.present
    <3>1. cr'.creation = "none" /\ cr'.spec \in UserSpecs
      <4>1. ~NoObject.present
        BY TypeParts, LoopNoObjectType
      <4>2. PICK s \in SpecType : cr' = NewObject(s)
        BY <1>2, <2>2, <4>1
      <4>3. cr'.spec \in UserSpecs
        BY <1>0, <2>2, UserForms
      <4> QED
        BY <4>2, <4>3 DEF NewObject
    <3>2. Alive' = {} /\ \A v \in Workers : ~Creating(v)'
      BY <1>0, <1>3, <1>8, <2>2, <3>1 DEF LoopInv, AccountedFor, PassKnows
    <3> QED
      BY <3>1, <3>2 DEF PlacesRight, PlaceKept, SamePlace
  <2>3. CASE cr'.present /\ cr.present
    <3>1. cr'.spec.kind = source.kind /\ cr.spec.kind = source.kind
      BY <1>0, <2>3, UserForms DEF KindRight
    <3>2. SamePlace(cr.spec, cr'.spec)
      <4>1. CASE cr'.spec = cr.spec
        BY <4>1 DEF SamePlace
      <4>2. ASSUME NEW s \in UserSpecs, s.kind = source.kind,
                   s.source = Unset => cr'.spec.source = cr.spec.source,
                   s.source # Unset => cr'.spec.source = s.source,
                   s.kind = "Bucket" => cr'.spec.name = s.name
            PROVE  SamePlace(cr.spec, cr'.spec)
        BY <1>0, <2>3, <3>1, <4>2 DEF PlacesRight, SamePlace
      <4> QED
        BY <1>0, <2>3, <4>1, <4>2, UserForms
    <3>3. \A v \in Workers : Creating(v)' => Creating(v) /\ mem'[v].obj.spec = mem[v].obj.spec
      BY <1>2 DEF Creating
    <3> QED
      BY <1>3, <2>3, <3>1, <3>2, <3>3, PlacesMoved
  <2> QED
    BY <2>1, <2>2, <2>3
<1> QED
  BY <1>1, <1>3, <1>8, <1>9, INext

LEMMA StutterI ==
  ASSUME MadeKinds, IInv, UNCHANGED vars
  PROVE  IInv'
<1>0. BaseInv /\ LoopInv(Alive) /\ CopiesRight /\ PlacesRight
  BY IParts
<1>1. BaseInv'
  BY <1>0, StutterBase
<1>2. UNCHANGED <<cr, cache, mem, pc>> /\ UNCHANGED <<source, entity>>
  BY DEF vars
<1>3. Alive' = Alive /\ Given' = Given
  BY <1>2 DEF Alive, Own, Live, Given
<1>4. LoopInv(Alive)'
  BY <1>0, <1>2, <1>3
     DEF LoopInv, FreshIsCurrent, Sent, PassKnows, Creating, AccountedFor, AtMostOne
<1>5. CopiesRight'
  BY <1>0, <1>2, <1>3 DEF CopiesRight, CopiesInv, CopyRight
<1>6. PlacesRight'
  BY <1>0, <1>2, <1>3 DEF PlacesRight, Creating, SamePlace
<1> QED
  BY <1>1, <1>4, <1>5, <1>6, INext

LEMMA InitI ==
  ASSUME PlaceKept, Init
  PROVE  IInv
<1>1. BaseInv /\ Given = {} /\ Alive = {}
  BY InitBase
<1>2. LoopInv(Alive)
  BY <1>1 DEF BaseInv
<1>3. CopiesInv(Alive, Given)
  BY <1>1, LoopStartCopies DEF Init
<1>4. PICK s \in UserSpecs : cr = NewObject(s)
  BY DEF Init, ReconcilerInit
<1>5. cr.spec \in UserSpecs /\ \A w \in Workers : ~Creating(w)
  BY <1>4 DEF NewObject, Init, ReconcilerInit, Creating
<1>6. PlacesRight
  BY <1>1, <1>5 DEF PlaceKept, PlacesRight, SamePlace
<1> QED
  BY <1>1, <1>2, <1>3, <1>6 DEF IInv

LEMMA InvStep ==
  ASSUME MadeKinds, PlaceKept, IInv, [Next]_vars
  PROVE  IInv'
<1>1. ASSUME NEW w \in Workers, LoopStep(w), Forget, UNCHANGED <<source, entity>>
      PROVE  IInv'
  BY <1>1, LoopI
<1>2. ASSUME NEW w \in Workers, ExternalStep(w) \/ ExternalFault(w)
      PROVE  IInv'
  BY <1>2, IParts, HandlerForms, TouchI, SpecI, NameI DEF HandlerForm
<1>3. CASE UserEdits /\ Forget /\ UNCHANGED <<source, entity>>
  BY <1>3, UserI
<1>4. CASE WorldStep
  BY <1>4, WorldI
<1>5. CASE UNCHANGED vars
  BY <1>5, StutterI
<1> QED
  BY <1>1, <1>2, <1>3, <1>4, <1>5 DEF Next, WorkerStep, LoopStep, WorldStep

\* The invariant of the kinds for which something is made, if the specs of one CR stay
\* in one place.
THEOREM InvCorrect ==
  ASSUME MadeKinds, PlaceKept
  PROVE  Spec => []IInv
<1>1. Init => IInv
  BY InitI
<1>2. IInv /\ [Next]_vars => IInv'
  BY InvStep
<1> QED
  BY <1>1, <1>2, PTL DEF Spec

\* No key, topic, database or bucket is orphaned or made twice, wherever the replicas
\* crash and however old the copies are that they work from.
THEOREM NoOrphans ==
  ASSUME MadeKinds, PlaceKept
  PROVE  Spec => []Accounted
<1>1. Spec => []IInv
  BY InvCorrect
<1>2. IInv => Accounted
  BY DEF IInv, LoopInv, AccountedFor, Accounted, Alive
<1> QED
  BY <1>1, <1>2, PTL

\* What a CR made is looked for where it was made, although the reference may have come
\* to mean another instance since.
THEOREM StaysInSource ==
  ASSUME MadeKinds, PlaceKept
  PROVE  Spec => []InItsSource
<1>1. Spec => []IInv
  BY InvCorrect
<1>2. IInv => InItsSource
  BY DEF IInv, PlacesRight, SamePlace, InItsSource, Alive
<1> QED
  BY <1>1, <1>2, PTL

\* Only the names of keys are never given again, and so only what copies of the CR say
\* of keys can be relied on.
LEMMA KeysOnly ==
  ASSUME MadeKinds, ~NamesReused, IInv
  PROVE  source.kind = "ResourceKey" /\ CopiesInv(Alive, Given)
<1>1. PICK s \in UserSpecs : s.kind = source.kind
  BY IParts, BaseParts DEF SourceType
<1>2. s.kind \in AllKinds /\ s.kind \notin NamedKinds /\ s.kind \notin SettingKinds
  BY SourceNames, SpecTypes DEF MadeKinds, NamesReused
<1>3. source.kind = "ResourceKey"
  BY <1>1, <1>2 DEF AllKinds, NamedKinds, SettingKinds, ScalingKinds
<1> QED
  BY <1>3, IParts DEF CopiesRight

LEMMA CopyOfKey ==
  ASSUME MadeKinds, ~NamesReused, IInv, NEW w \in Workers,
         pc[w] \in {"current", "outdated"}, mem[w].obj.deleting,
         Observed(Asked(w), ExtName(w)) \in Alive
  PROVE  cr.deleting /\ cr.extName = Observed(Asked(w), ExtName(w))
<1>1. source.kind = "ResourceKey" /\ CopyRight(mem[w].obj, Alive)
  BY KeysOnly DEF CopiesInv
<1>2. Observed(Asked(w), ExtName(w)) = mem[w].obj.extName
  BY <1>1, IParts DEF Observed, ExtName
<1> QED
  BY <1>1, <1>2 DEF CopyRight

\* What a deletion takes down has the name that its pass observed.
LEMMA DeleteTarget ==
  ASSUME MadeKinds, IInv, NEW n \in Names, NEW w \in Workers, Delete(w), Own(n),
         entity'[n] # entity[n]
  PROVE  /\ pc[w] \in {"current", "outdated"} /\ mem[w].obj.deleting
         /\ n = Observed(Asked(w), ExtName(w)) /\ n \in Alive
<1> DEFINE m == Observed(Asked(w), ExtName(w))
<1>1. /\ pc[w] \in {"current", "outdated"} /\ mem[w].obj.deleting
      /\ UNCHANGED entity \/ TakeDown(Asked(w), m)
  BY DEF Delete, Deleting
<1>2. entity \in [Names -> Entities]
  BY IParts, BaseParts DEF EntityTypes
<1>3. \E e : Write(m, e)
  BY <1>1 DEF TakeDown
<1>4. n = m
  BY <1>2, <1>3 DEF Write
<1> QED
  BY <1>1, <1>4 DEF Alive

\* A key is deleted by what the external name of some copy of the CR says, and yet only
\* for the CR that names it and is being deleted now.
THEOREM DeletesOnRequest ==
  ASSUME MadeKinds, PlaceKept, ~NamesReused
  PROVE  Spec => DeletedOnRequest
<1>1. Spec => []IInv
  BY InvCorrect
<1>2. ASSUME IInv, NEW n \in Names, NEW w \in Workers, Delete(w), Own(n),
             entity'[n] # entity[n]
      PROVE  cr.deleting /\ cr.extName = n
  BY <1>2, DeleteTarget, CopyOfKey
<1>3. IInv /\ [Next]_vars =>
        [\A n \in Names :
           (\E w \in Workers : Delete(w)) /\ Own(n) /\ entity'[n] # entity[n]
             => cr.deleting /\ cr.extName = n]_vars
  BY <1>2
<1> QED
  BY <1>1, <1>3, PTL DEF Spec, DeletedOnRequest

-----------------------------------------------------------------------------
(***************************************************************************)
(* With one replica no copy of the CR before is taken for one of the CR    *)
(* that has the same name now                                              *)
(***************************************************************************)
OneReplica == \A v, w \in Workers : v = w

\* What a copy says of a deletion is so, and it is not older than the creation that
\* may be pending.
Marked(o) ==
  o.deleting => cr.deleting /\ (cr.creation = "pending" => o.creation = "pending")

Deciding(w) == ~Creating(w) /\ pc[w] \notin {"idle", "refuse", "finish"}

\* While something is alive, or about to be made, the copies are of the CR it is made
\* for; the informer's copy is never the older of the two.
MarksKnown(w, live) ==
  /\ live # {} \/ Creating(w) => Marked(cache[w].obj)
  /\ live # {} /\ Deciding(w) => Marked(mem[w].obj)
  /\ Deciding(w) /\ mem[w].fresh /\ cache[w].obj.deleting => mem[w].obj.deleting

AloneInv == IInv /\ \A w \in Workers : MarksKnown(w, Alive)

\* The one replica is the one that takes the step.
LEMMA MarksNext ==
  ASSUME OneReplica, NEW w \in Workers, MarksKnown(w, Alive)'
  PROVE  \A v \in Workers : MarksKnown(v, Alive)'
BY DEF OneReplica

LEMMA LoopMarks ==
  ASSUME MadeKinds, AloneInv, NEW w \in Workers, LoopStep(w), Alive' = Alive, IInv'
  PROVE  MarksKnown(w, Alive)'
<1>0. /\ LoopType(SpecType, KindPhases) /\ FreshIsCurrent /\ LoopInv(Alive) /\ LoopInv(Alive)'
      /\ UserSpecs \subseteq SpecType /\ MarksKnown(w, Alive)
      /\ mem[w].obj \in Objects(SpecType) /\ cache[w].obj \in Objects(SpecType)
  BY IParts, TypeParts DEF AloneInv, IInv, LoopType, Copies
<1>1. NoCopy.obj = NoObject /\ ~NoObject.present /\ ~NoObject.deleting
  BY TypeParts, LoopNoObjectType
<1>2. CASE Synced(w)
  <2>1. cache'[w].obj = cr /\ cr' = cr /\ mem' = mem /\ pc' = pc
    BY <1>0, <1>2 DEF Synced, LoopType
  <2>2. Deciding(w) /\ mem[w].fresh => mem[w].obj.deleting = cr.deleting
    BY <1>0, LoopFresh DEF Deciding, Creating, Same
  <2> QED
    BY <1>0, <2>1, <2>2 DEF MarksKnown, Marked, Deciding, Creating
<1>3. ASSUME NEW c \in Copies(SpecType), NEW p \in ReconcilerPhases,
             pc' = [pc EXCEPT ![w] = p], Moves(w, c, p)
      PROVE  MarksKnown(w, Alive)'
  <2>1. cr' = cr /\ cache' = cache /\ mem'[w] = c /\ pc'[w] = p
    BY <1>0, <1>3 DEF Moves, LoopType
  <2>2. CASE p \in {"idle", "finish", "refuse"}
    BY <1>0, <2>1, <2>2 DEF MarksKnown, Marked, Deciding, Creating
  <2>3. CASE p = "observe" /\ c = cache[w]
    BY <1>0, <2>1, <2>3 DEF MarksKnown, Marked, Deciding, Creating
  <2> QED
    BY <1>3, <2>2, <2>3 DEF Moves
<1>4. ASSUME NEW o \in Objects(SpecType), NEW c \in Copies(SpecType), NEW p \in ReconcilerPhases,
             pc' = [pc EXCEPT ![w] = p], Writes(w, o, c, p)
      PROVE  MarksKnown(w, Alive)'
  <2>1. /\ cr' = o /\ mem'[w] = c /\ pc'[w] = p /\ cache'[w].obj = cache[w].obj
    BY <1>0, <1>4, LoopStaleType DEF Writes, Put, LoopType
  <2>2. CASE p \in {"idle", "finish"} /\ o.deleting = cr.deleting
             /\ (o.creation = cr.creation \/ o.creation # "pending")
    BY <1>0, <2>1, <2>2 DEF MarksKnown, Marked, Deciding, Creating
  <2>3. CASE c.obj = o /\ p = pc[w] /\ p \in {"absent", "current", "outdated"} /\ mem[w].fresh
             /\ Same(mem[w].obj, cr) /\ Same(o, cr) /\ o.creation = cr.creation
    BY <1>0, <2>1, <2>3 DEF MarksKnown, Marked, Deciding, Creating, Same
  <2>4. CASE p = "create" /\ pc[w] = "absent" /\ mem[w].fresh /\ Same(mem[w].obj, cr)
             /\ ~cr.deleting
    <3>1. ~cache[w].obj.deleting
      BY <1>0, <2>4 DEF MarksKnown, Deciding, Creating, Same
    <3> QED
      BY <2>1, <2>4, <3>1 DEF MarksKnown, Marked, Deciding, Creating
  <2>5. CASE o = NoObject /\ p = "idle"
    <3>1. Alive' = {}
      BY <1>0, <1>1, <2>1, <2>5 DEF LoopInv, AccountedFor
    <3> QED
      BY <2>1, <2>5, <3>1 DEF MarksKnown, Deciding, Creating
  <2> QED
    BY <1>4, <2>2, <2>3, <2>4, <2>5 DEF Writes, Same
<1> QED
  BY <1>0, <1>2, <1>3, <1>4, LoopForms

LEMMA TouchMarks ==
  ASSUME MadeKinds, AloneInv, NEW w \in Workers, NEW p \in KindPhases, TouchStep(w, p),
         Alive' \subseteq Alive
  PROVE  MarksKnown(w, Alive)'
<1>1. /\ cr' = cr /\ cache' = cache /\ pc'[w] = p /\ mem'[w].fresh = mem[w].fresh
      /\ Same(mem'[w].obj, mem[w].obj) /\ mem'[w].obj.creation = mem[w].obj.creation
  BY IParts, LoopTouchTypes DEF AloneInv, TouchStep, Touches
<1>2. MarksKnown(w, Alive) /\ (Deciding(w)' => Deciding(w)) /\ (Creating(w)' => Creating(w))
  BY <1>1 DEF AloneInv, TouchStep, Deciding, Creating
<1> QED
  BY <1>1, <1>2 DEF MarksKnown, Marked, Same

LEMMA SpecMarks ==
  ASSUME MadeKinds, AloneInv, NEW w \in Workers, NEW s \in SpecType, NEW r \in BOOLEAN,
         NEW p \in KindPhases, SpecStep(w, s, r, p), Alive' = Alive
  PROVE  MarksKnown(w, Alive)'
<1> DEFINE o == [Sent(w) EXCEPT !.spec = s]
           c == [obj |-> [o EXCEPT !.ready = r], fresh |-> TRUE]
<1>0. /\ LoopType(SpecType, KindPhases) /\ FreshIsCurrent /\ MarksKnown(w, Alive)
      /\ Put(w, o, c) /\ pc' = [pc EXCEPT ![w] = p] /\ mem[w].fresh
      /\ pc[w] \in {"observe", "compare"} /\ p \in {"observe", "current", "outdated"}
  BY IParts DEF AloneInv, SpecStep, SpecWritten
<1>1. /\ cr \in Objects(SpecType) /\ Sent(w) = cr /\ Same(mem[w].obj, cr)
  BY <1>0, LoopFresh DEF LoopType
<1>2. /\ cr' = o /\ mem'[w] = c /\ pc'[w] = p /\ cache'[w].obj = cache[w].obj
  BY <1>0, LoopStaleType DEF Put, LoopType
<1>3. /\ o.deleting = cr.deleting /\ o.creation = cr.creation
      /\ c.obj.deleting = cr.deleting /\ c.obj.creation = cr.creation
  BY <1>1 DEF Objects
<1> HIDE DEF o, c
<1> QED
  BY <1>0, <1>1, <1>2, <1>3 DEF MarksKnown, Marked, Deciding, Creating, Same

LEMMA UserMarks ==
  ASSUME MadeKinds, AloneInv, NEW w \in Workers, UserEdits, Alive' = Alive, IInv'
  PROVE  MarksKnown(w, Alive)'
<1>0. /\ BaseInv /\ LoopType(SpecType, KindPhases) /\ LoopInv(Alive) /\ LoopInv(Alive)'
      /\ UserSpecs \subseteq SpecType /\ MarksKnown(w, Alive)
  BY IParts, TypeParts DEF AloneInv, IInv
<1>1. /\ pc' = pc
      /\ mem'[w].obj = mem[w].obj /\ ~mem'[w].fresh /\ cache'[w].obj = cache[w].obj
      /\ \/ cr' = NoObject /\ ~cr.finalizer
         \/ ~cr.present
         \/ /\ cr'.creation = cr.creation
            /\ cr.deleting => cr'.deleting
  BY <1>0, UserForms, LoopUserForms
<1>2. Creating(w) => cr.present /\ cr.finalizer
  BY <1>0 DEF LoopInv, PassKnows
<1>3. Alive # {} => cr.present /\ cr.finalizer
  BY <1>0 DEF LoopInv, AccountedFor
<1> QED
  BY <1>0, <1>1, <1>2, <1>3 DEF MarksKnown, Marked, Deciding, Creating

LEMMA AloneStep ==
  ASSUME MadeKinds, PlaceKept, OneReplica, AloneInv, [Next]_vars
  PROVE  AloneInv'
<1>0. IInv /\ BaseInv /\ source.kind \notin SettingKinds /\ Alive \subseteq Names
  BY IParts DEF AloneInv
<1>1. IInv'
  BY InvStep DEF AloneInv
<1>2. ASSUME UNCHANGED entity
      PROVE  Alive' = Alive
  BY <1>2 DEF Alive, Own, Live
<1>3. ASSUME NEW w \in Workers, LoopStep(w), Forget, UNCHANGED <<source, entity>>
      PROVE  MarksKnown(w, Alive)'
  BY <1>0, <1>1, <1>2, <1>3, LoopMarks, Forgotten
<1>4. ASSUME NEW w \in Workers, NEW p \in KindPhases, TouchStep(w, p), CloudStep(w, p)
      PROVE  MarksKnown(w, Alive)'
  <2>1. AliveKept
    BY <1>0, <1>4, CloudEffects DEF TouchStep
  <2> QED
    BY <1>4, <2>1, TouchMarks DEF AliveKept
<1>5. ASSUME NEW w \in Workers, NEW s \in SpecType, NEW r \in BOOLEAN, NEW p \in KindPhases,
             SpecStep(w, s, r, p)
      PROVE  MarksKnown(w, Alive)'
  BY <1>2, <1>5, SpecMarks DEF SpecStep
<1>6. ASSUME NEW w \in Workers, NEW c \in Creatable(Asked(w)), NameStep(w, c)
      PROVE  MarksKnown(w, Alive)'
  <2>1. cr' = cr /\ cache' = cache /\ pc[w] = "create" /\ pc'[w] = "created"
    BY <1>0, <1>6, IParts DEF NameStep, TakesName, LoopType
  <2> QED
    BY <2>1 DEF AloneInv, MarksKnown, Marked, Deciding, Creating
<1>7. ASSUME NEW w \in Workers, UserEdits, UNCHANGED entity
      PROVE  MarksKnown(w, Alive)'
  BY <1>1, <1>2, <1>7, UserMarks
<1>8. ASSUME NEW w \in Workers, UNCHANGED <<cr, cache, mem, pc>>, Alive' \subseteq Alive
      PROVE  MarksKnown(w, Alive)'
  BY <1>8 DEF AloneInv, MarksKnown, Marked, Deciding, Creating
<1>9. WorldStep => UNCHANGED <<cr, cache, mem, pc>> /\ Alive' \subseteq Alive
  BY <1>0, WorldEffects DEF AliveKept
<1>10. ASSUME NEW w \in Workers, ExternalStep(w) \/ ExternalFault(w)
       PROVE  MarksKnown(w, Alive)'
  BY <1>0, <1>4, <1>5, <1>6, <1>10, HandlerForms DEF HandlerForm
<1>11. UNCHANGED vars => UNCHANGED <<cr, cache, mem, pc>> /\ Alive' = Alive
  BY <1>2 DEF vars
<1>12. \A w \in Workers : MarksKnown(w, Alive)'
  BY <1>3, <1>7, <1>8, <1>9, <1>10, <1>11, MarksNext DEF Next, WorkerStep, LoopStep, WorldStep
<1> QED
  BY <1>1, <1>12 DEF AloneInv

\* With one replica topics, databases and buckets are deleted on request only, too,
\* though their names are given again: a pass that deletes works from a copy of the CR
\* that names what it takes down, and not of one that was gone before that was made.
THEOREM DeletesOnRequestAlone ==
  ASSUME MadeKinds, PlaceKept, OneReplica
  PROVE  Spec => DeletedOnRequest
<1>1. Init => AloneInv
  <2> SUFFICES ASSUME Init PROVE AloneInv
    OBVIOUS
  <2>1. IInv
    BY InitI
  <2>2. Alive = {} /\ \A w \in Workers : pc[w] = "idle"
    BY DEF Init, ReconcilerInit, Alive, Own, Live, Unknown
  <2> QED
    BY <2>1, <2>2 DEF AloneInv, MarksKnown, Deciding, Creating
<1>2. AloneInv /\ [Next]_vars => AloneInv'
  BY AloneStep
<1>3. ASSUME AloneInv, NEW n \in Names, NEW w \in Workers, Delete(w), Own(n),
             entity'[n] # entity[n]
      PROVE  cr.deleting /\ cr.extName = n
  <2>1. LoopInv(Alive) /\ IInv
    BY <1>3, IParts DEF AloneInv
  <2>2. pc[w] \in {"current", "outdated"} /\ mem[w].obj.deleting /\ n \in Alive
    BY <1>3, <2>1, DeleteTarget
  <2>3. Marked(mem[w].obj) /\ mem[w].obj.creation # "pending"
    BY <1>3, <2>1, <2>2 DEF AloneInv, MarksKnown, Deciding, LoopInv, PassKnows, Creating
  <2> QED
    BY <2>1, <2>2, <2>3 DEF Marked, LoopInv, AccountedFor
<1>4. AloneInv /\ [Next]_vars =>
        [\A n \in Names :
           (\E w \in Workers : Delete(w)) /\ Own(n) /\ entity'[n] # entity[n]
             => cr.deleting /\ cr.extName = n]_vars
  BY <1>3
<1> QED
  BY <1>1, <1>2, <1>4, PTL DEF Spec, DeletedOnRequest

-----------------------------------------------------------------------------
(***************************************************************************)
(* What users set stays set, for all seven kinds                           *)
(***************************************************************************)
\* A topic's spec that gives one number of partitions, if any, and properties the
\* code knows: another number is overwritten and another property forgotten.
PlainTopic(s) ==
  s.kind = "Topic" =>
    /\ s.partitions \in {Unset, s.partitionCount}
    /\ \A c \in ConfigNames \ KnownConfigs : s.configs[c] = Unset

PlainTopics == \A s \in UserSpecs : PlainTopic(s)

LEMMA KeyFills ==
  ASSUME NEW spec \in Key!SpecType, NEW is
  PROVE  \A f \in DOMAIN spec : Fills(spec, Key!Observe(spec, is).spec, f)
BY DEF Key!SpecType, Key!Observe, Key!LateInitializeSpec, Fills

LEMMA TopicFills ==
  ASSUME NEW spec \in Top!SpecType, NEW is, PlainTopic(spec)
  PROVE  /\ \A f \in DOMAIN spec : Fills(spec, Top!Observe(spec, is).spec, f)
         /\ PlainTopic(Top!Observe(spec, is).spec)
<1> DEFINE new == Top!LateInitializeSpec(spec, is)
<1>1. /\ DOMAIN spec = {"kind", "source", "name", "partitions", "partitionCount", "configs"}
      /\ spec.kind = "Topic" /\ DOMAIN spec.configs = ConfigNames
  BY DEF Top!SpecType
<1>2. /\ new.kind = spec.kind /\ new.source = spec.source /\ new.name = spec.name
      /\ new.partitions = IF spec.partitionCount # Unset THEN spec.partitionCount
                          ELSE IF spec.partitions = Unset THEN is.partitions ELSE spec.partitions
      /\ new.partitionCount = IF spec.partitionCount = Unset THEN is.partitions
                              ELSE spec.partitionCount
      /\ new.configs = [c \in ConfigNames |->
                          CASE c \notin KnownConfigs -> Unset
                            [] c \in KnownConfigs /\ spec.configs[c] # Unset -> spec.configs[c]
                            [] OTHER -> is.configs[c]]
  BY DEF Top!SpecType, Top!LateInitializeSpec
<1>3. \A c \in ConfigNames : /\ c \notin KnownConfigs => new.configs[c] = Unset
                             /\ c \in KnownConfigs /\ spec.configs[c] # Unset =>
                                  new.configs[c] = spec.configs[c]
  BY <1>2
<1>4. spec.partitions \in {Unset, new.partitions} /\ new.partitions \in {Unset, new.partitionCount}
      /\ spec.partitionCount \in {Unset, new.partitionCount}
  BY <1>1, <1>2 DEF PlainTopic
<1>5. \A c \in ConfigNames : spec.configs[c] \in {Unset, new.configs[c]}
  BY <1>1, <1>3 DEF PlainTopic
<1>6. Top!Observe(spec, is).spec = new
  BY DEF Top!Observe
<1> HIDE DEF new
<1> QED
  BY <1>1, <1>2, <1>3, <1>4, <1>5, <1>6 DEF Fills, PlainTopic

LEMMA DatabaseFills ==
  ASSUME NEW spec \in Db!SpecType, NEW is
  PROVE  \A f \in DOMAIN spec : Fills(spec, Db!Observe(spec, is).spec, f)
BY DEF Db!SpecType, Db!Observe, Db!LateInitializeSpec, Fills

LEMMA ScalingFills ==
  ASSUME NEW spec \in Scal!SpecType, NEW is
  PROVE  \A f \in DOMAIN spec : Fills(spec, Scal!Observe(spec, is).spec, f)
BY DEF Scal!SpecType, Scal!Observe, Scal!LateInitializeSpec, Fills

LEMMA AutoscalingFills ==
  ASSUME NEW spec \in Autos!SpecType, NEW is
  PROVE  \A f \in DOMAIN spec : Fills(spec, Autos!Observe(spec, is).spec, f)
<1> DEFINE new == Autos!LateInitializeSpec(spec, is)
<1>1. /\ DOMAIN spec = {"kind", "source", "scalers"} /\ DOMAIN spec.scalers = Scaled
  BY DEF Autos!SpecType
<1>2. /\ new.kind = spec.kind /\ new.source = spec.source
      /\ new.scalers = [r \in Scaled |-> IF spec.scalers[r] = Unset THEN is.scalers[r]
                                         ELSE spec.scalers[r]]
  BY DEF Autos!SpecType, Autos!LateInitializeSpec, Autos!Filled
<1>3. \A r \in Scaled : spec.scalers[r] \in {Unset, new.scalers[r]}
  BY <1>2
<1>4. Autos!Observe(spec, is).spec = new
  BY DEF Autos!Observe
<1> HIDE DEF new
<1> QED
  BY <1>1, <1>2, <1>3, <1>4 DEF Fills

LEMMA WhitelistFills ==
  ASSUME NEW spec \in White!SpecType, NEW is
  PROVE  \A f \in DOMAIN spec : Fills(spec, White!Observe(spec, is).spec, f)
BY DEF White!SpecType, White!Observe, White!LateInitializeSpec, Fills

\* Late initialisation, of whatever kind.
LEMMA ObserveFills ==
  ASSUME NEW spec \in SpecType, NEW is, PlainTopic(spec)
  PROVE  /\ \A f \in DOMAIN spec : Fills(spec, Observe(spec, is).spec, f)
         /\ spec.kind = "Topic" => PlainTopic(Observe(spec, is).spec)
<1>1. CASE spec.kind = "ResourceKey"
  BY <1>1, SpecTypes, KeyFills DEF Observe
<1>2. CASE spec.kind = "Topic"
  BY <1>2, SpecTypes, TopicFills DEF Observe
<1>3. CASE spec.kind = "CloudantDatabase"
  BY <1>3, SpecTypes, DatabaseFills DEF Observe
<1>4. CASE spec.kind = "Bucket"
  <2>1. Observe(spec, is).spec = spec
    BY <1>4 DEF Observe, Buck!Observe
  <2> QED
    BY <1>4, <2>1 DEF Fills
<1>5. CASE spec.kind = "ScalingGroup"
  BY <1>5, SpecTypes, ScalingFills DEF Observe
<1>6. CASE spec.kind = "AutoscalingGroup"
  BY <1>6, SpecTypes, AutoscalingFills DEF Observe
<1>7. CASE spec.kind = "Whitelist"
  BY <1>7, SpecTypes, WhitelistFills DEF Observe
<1> QED
  BY <1>1, <1>2, <1>3, <1>4, <1>5, <1>6, <1>7, SpecTypes DEF AllKinds

\* How the spec of the CR comes to be another one.
LEMMA SpecChanges ==
  ASSUME BaseInv, [Next]_vars
  PROVE  \/ cr'.spec = cr.spec
         \/ cr' = NoObject
         \/ UserEdits
         \/ \E i \in Content : /\ i.kind = cr.spec.kind
                               /\ cr'.spec = Observe(cr.spec, i).spec
         \/ cr.spec.source = Unset /\ \E x : cr'.spec = Resolved(cr.spec, x)
<1>0. LoopType(SpecType, KindPhases) /\ FreshIsCurrent /\ UserSpecs \subseteq SpecType
  BY BaseParts, TypeParts
<1>1. ASSUME NEW w \in Workers, LoopStep(w)
      PROVE  cr'.spec = cr.spec \/ cr' = NoObject
  BY <1>0, <1>1, LoopSources DEF Same
<1>2. ASSUME NEW w \in Workers, NEW s \in SpecType, NEW r \in BOOLEAN, NEW p \in KindPhases,
             SpecStep(w, s, r, p)
      PROVE  \/ \E i \in Content : /\ i.kind = cr.spec.kind
                                   /\ cr'.spec = Observe(cr.spec, i).spec
             \/ cr.spec.source = Unset /\ \E x : cr'.spec = Resolved(cr.spec, x)
  <2>1. cr.spec = Asked(w) /\ cr'.spec = s
    BY <1>2, SpecBase
  <2>2. pc[w] = "compare" => seen[w] \in Content /\ seen[w].kind = Asked(w).kind
    BY SeenContent
  <2> QED
    BY <1>2, <2>1, <2>2 DEF SpecStep
<1>3. ASSUME NEW w \in Workers, ExternalStep(w) \/ ExternalFault(w)
      PROVE  \/ cr'.spec = cr.spec
             \/ \E i \in Content : /\ i.kind = cr.spec.kind
                                   /\ cr'.spec = Observe(cr.spec, i).spec
             \/ cr.spec.source = Unset /\ \E x : cr'.spec = Resolved(cr.spec, x)
  BY <1>2, <1>3, HandlerForms DEF HandlerForm, TouchStep, Touches, NameStep, TakesName
<1>4. CASE WorldStep
  BY <1>4, WorldEffects
<1>5. CASE UNCHANGED vars
  BY <1>5 DEF vars
<1> QED
  BY <1>1, <1>3, <1>4, <1>5 DEF Next, WorkerStep, LoopStep, WorldStep

LEMMA ResolvedFills ==
  ASSUME NEW spec \in SpecType, spec.source = Unset, NEW x
  PROVE  /\ \A f \in DOMAIN spec : Fills(spec, Resolved(spec, x), f)
         /\ PlainTopic(spec) => PlainTopic(Resolved(spec, x))
<1>1. \A f \in DOMAIN spec : f # "source" => Resolved(spec, x)[f] = spec[f]
  BY DEF Resolved
<1>2. \A f \in DOMAIN spec : spec[f] = Unset \/ spec[f] = Resolved(spec, x)[f]
  BY <1>1
<1>3. spec.kind = "Topic" =>
        {"kind", "partitions", "partitionCount", "configs"} \subseteq DOMAIN spec
  BY SpecTypes DEF Top!SpecType
<1>4. PlainTopic(spec) => PlainTopic(Resolved(spec, x))
  <2>1. Resolved(spec, x).kind = spec.kind
    BY SourceTypes, <1>1 DEF Resolved, SpecType, Key!SpecType, Top!SpecType, Db!SpecType,
       Buck!SpecType, Scal!SpecType, Autos!SpecType, White!SpecType
  <2> QED
    BY <1>1, <1>3, <2>1 DEF PlainTopic
<1> QED
  BY <1>2, <1>4 DEF Fills

LEMMA PlainStep ==
  ASSUME PlainTopics, BaseInv, PlainTopic(cr.spec), [Next]_vars
  PROVE  PlainTopic(cr'.spec)
<1>0. cr.spec \in SpecType /\ UserSpecs \subseteq SpecType
  BY BaseParts, TypeParts DEF LoopType, Objects
<1>1. NoObject.spec \in UserSpecs
  BY ReconcilerAssumption DEF NoObject, NewObject
<1>2. CASE UserEdits
  <2>1. ASSUME NEW s \in UserSpecs, NEW x
        PROVE  PlainTopic([s EXCEPT !.source = x])
    <3>1. s \in SpecType /\ PlainTopic(s)
      BY <1>0 DEF PlainTopics
    <3>2. s.kind = "Topic" => s \in Top!SpecType
      BY <3>1, SpecTypes
    <3>3. s.kind # "Topic" => [s EXCEPT !.source = x].kind # "Topic"
      BY <3>1 DEF SpecType, Key!SpecType, Top!SpecType, Db!SpecType,
         Buck!SpecType, Scal!SpecType, Autos!SpecType, White!SpecType
    <3>4. CASE s.kind = "Topic"
      <4> DEFINE t == [s EXCEPT !.source = x]
      <4>1. s \in Top!SpecType
        BY <3>2, <3>4
      <4>2. /\ t.partitions = s.partitions /\ t.partitionCount = s.partitionCount
            /\ t.configs = s.configs
        BY <4>1 DEF Top!SpecType
      <4> HIDE DEF t
      <4> QED
        BY <3>1, <3>4, <4>2 DEF PlainTopic
    <3> QED
      BY <3>3, <3>4 DEF PlainTopic
  <2>2. cr'.spec = cr.spec \/ cr'.spec \in UserSpecs
        \/ \E s \in UserSpecs : \E x : cr'.spec = [s EXCEPT !.source = x]
    <3>1. cr \in Objects(SpecType)
      BY BaseParts DEF LoopType
    <3>2. CASE UserDeletes
      BY <1>1, <3>1, <3>2 DEF UserDeletes, UserWrites, Objects
    <3>3. ASSUME NEW s, UserApplies(s)
          PROVE  cr'.spec = s
      BY <3>1, <3>3 DEF UserApplies, UserWrites, NewObject, Objects
    <3> QED
      BY <1>2, <3>2, <3>3 DEF UserEdits
  <2>3. cr'.spec \in UserSpecs => PlainTopic(cr'.spec)
    BY DEF PlainTopics
  <2>4. (\E s \in UserSpecs : \E x : cr'.spec = [s EXCEPT !.source = x]) => PlainTopic(cr'.spec)
    BY <2>1
  <2> QED
    BY <2>2, <2>3, <2>4
<1>3. ASSUME NEW i \in Content, i.kind = cr.spec.kind, cr'.spec = Observe(cr.spec, i).spec
      PROVE  PlainTopic(cr'.spec)
  <2>1. cr'.spec.kind = cr.spec.kind
    BY <1>0, <1>3, ObservedTypes
  <2>2. cr.spec.kind = "Topic" => PlainTopic(cr'.spec)
    BY <1>0, <1>3, ObserveFills
  <2>3. cr.spec.kind # "Topic" => PlainTopic(cr'.spec)
    BY <2>1 DEF PlainTopic
  <2> QED
    BY <2>2, <2>3
<1>4. ASSUME cr.spec.source = Unset, NEW x, cr'.spec = Resolved(cr.spec, x)
      PROVE  PlainTopic(cr'.spec)
  BY <1>0, <1>4, ResolvedFills
<1> QED
  BY <1>1, <1>2, <1>3, <1>4, SpecChanges DEF PlainTopics

\* Late initialisation and the resolution of the reference write back the spec of a
\* copy of the CR, and fill what the user left out without changing the rest.
THEOREM KeepsUserFields ==
  ASSUME PlainTopics
  PROVE  Spec => UserFieldsKept
<1>1. Init => PlainTopic(cr.spec)
  BY DEF Init, ReconcilerInit, NewObject, PlainTopics
<1>2. BaseInv /\ PlainTopic(cr.spec) /\ [Next]_vars => PlainTopic(cr.spec)'
  BY PlainStep DEF PlainTopic
<1>3. ASSUME BaseInv, PlainTopic(cr.spec), [Next]_vars, cr.present, cr'.present, edits' = edits,
             NEW f \in DOMAIN cr.spec
      PROVE  Fills(cr.spec, cr'.spec, f)
  <2>1. cr.spec \in SpecType /\ edits \in Nat /\ ~NoObject.present
    BY <1>3, BaseParts, TypeParts, LoopNoObjectType DEF LoopType, Objects
  <2>2. ~UserEdits
    <3>1. \A o : ~UserWrites(o)
      BY <1>3, <2>1 DEF UserWrites
    <3> QED
      BY <3>1 DEF UserEdits, UserDeletes, UserApplies
  <2> QED
    BY <1>3, <2>1, <2>2, SpecChanges, ObserveFills, ResolvedFills DEF Fills
<1>4. BaseInv /\ PlainTopic(cr.spec) /\ [Next]_vars =>
        [cr.present /\ cr'.present /\ edits' = edits =>
           \A f \in DOMAIN cr.spec : Fills(cr.spec, cr'.spec, f)]_vars
  BY <1>3
<1> QED
  BY <1>1, <1>2, <1>4, BaseCorrect, PTL DEF Spec, UserFieldsKept

-----------------------------------------------------------------------------
(***************************************************************************)
(* One update is enough, for the settings of deployments                   *)
(***************************************************************************)
\* A spec that leaves nothing out.
Complete(spec) ==
  /\ spec.kind = "ScalingGroup" => Unset \notin {spec.members, spec.memberMemory}
  /\ spec.kind = "AutoscalingGroup" => \A r \in Scaled : spec.scalers[r] # Unset
  /\ spec.kind = "Whitelist" => spec.addresses # Unset

\* What is sent as a total comes back as what each member has.
LEMMA TotalDivided ==
  ASSUME NEW each \in Nat, NEW m \in Nat \ {0}
  PROVE  (each * m) \div m = each
OBVIOUS

LEMMA ScalingSuffices ==
  ASSUME NEW spec \in Scal!SpecType, Complete(spec), NEW group \in Scal!Content
  PROVE  LET o == Scal!Observe(spec, Scal!Updated(spec, group, group))
         IN  o.current /\ o.spec = spec
<1>1. /\ spec.kind = "ScalingGroup"
      /\ spec.members \in Nat \ {0} /\ spec.members # Unset
      /\ spec.memberMemory \in Nat /\ spec.memberMemory # Unset
      /\ group.members \in Nat \ {0} /\ group.memory \in Nat
  BY ServiceKindsAssumption DEF Scal!SpecType, Scal!Content, Complete
<1> DEFINE new == Scal!Updated(spec, group, group)
<1>2. /\ new.members = spec.members
      /\ new.memory =
           ((spec.memberMemory * group.members) \div group.members) * spec.members
  BY DEF Scal!Updated, Scal!Total, Scal!Content
<1>3. (spec.memberMemory * group.members) \div group.members = spec.memberMemory
  BY <1>1, TotalDivided
<1>4. new.memory = spec.memberMemory * spec.members
  BY <1>2, <1>3
<1>5. Scal!MemberMemory(new) = spec.memberMemory
  BY <1>1, <1>2, <1>4, TotalDivided DEF Scal!MemberMemory
<1> HIDE DEF new
<1>6. Scal!LateInitializeSpec(spec, new) = spec
  BY <1>1 DEF Scal!LateInitializeSpec, Scal!SpecType
<1> QED
  BY <1>2, <1>5, <1>6 DEF new, Scal!Observe, Scal!IsUpToDate

LEMMA AutoscalingSuffices ==
  ASSUME NEW spec \in Autos!SpecType, Complete(spec), NEW group \in Autos!Content
  PROVE  LET o == Autos!Observe(spec, Autos!Updated(spec, group))
         IN  o.current /\ o.spec = spec
<1>1. /\ spec.kind = "AutoscalingGroup"
      /\ spec.scalers = [r \in Scaled |-> spec.scalers[r]]
      /\ \A r \in Scaled : spec.scalers[r] # Unset
  BY DEF Autos!SpecType, Complete
<1>2. ASSUME NEW others PROVE Autos!Filled(spec.scalers, others) = spec.scalers
  BY <1>1 DEF Autos!Filled
<1>3. Autos!Updated(spec, group).scalers = spec.scalers
  BY <1>2 DEF Autos!Updated, Autos!Content
<1>4. \A g : Autos!LateInitializeSpec(spec, g) = spec
  BY <1>2 DEF Autos!LateInitializeSpec, Autos!SpecType
<1> QED
  BY <1>3, <1>4 DEF Autos!Observe, Autos!IsUpToDate

LEMMA WhitelistSuffices ==
  ASSUME NEW spec \in White!SpecType, Complete(spec), NEW list \in White!Content
  PROVE  LET o == White!Observe(spec, White!Updated(spec, list))
         IN  o.current /\ o.spec = spec
BY DEF Complete, White!SpecType, White!Content, White!Observe, White!IsUpToDate,
       White!LateInitializeSpec, White!Updated, White!Replace

LEMMA SettingSuffices ==
  ASSUME NEW spec \in SpecType, NEW is \in Content, is.kind = spec.kind,
         spec.kind \in SettingKinds, Complete(spec)
  PROVE  IsCurrent(spec, Updated(spec, is, is))
<1>1. CASE spec.kind = "ScalingGroup"
  BY <1>1, SpecTypes, ContentTypes, ScalingSuffices DEF IsCurrent, Observe, Updated
<1>2. CASE spec.kind = "AutoscalingGroup"
  BY <1>2, SpecTypes, ContentTypes, AutoscalingSuffices DEF IsCurrent, Observe, Updated
<1>3. CASE spec.kind = "Whitelist"
  BY <1>3, SpecTypes, ContentTypes, WhitelistSuffices DEF IsCurrent, Observe, Updated
<1> QED
  BY <1>1, <1>2, <1>3 DEF SettingKinds, ScalingKinds

\* Late initialisation leaves nothing out.
LEMMA ObserveCompletes ==
  ASSUME NEW spec \in SpecType, NEW is \in Content, is.kind = spec.kind
  PROVE  Complete(Observe(spec, is).spec)
<1> DEFINE new == Observe(spec, is).spec
<1>1. new.kind = spec.kind
  BY ObservedTypes
<1>2. CASE spec.kind = "ScalingGroup"
  <2>1. Unset \notin {new.members, new.memberMemory}
    BY <1>2, ObservedTypes
  <2> QED
    BY <1>1, <1>2, <2>1 DEF Complete
<1>3. CASE spec.kind = "AutoscalingGroup"
  <2>1. /\ spec \in Autos!SpecType /\ is \in Autos!Content
        /\ new = Autos!LateInitializeSpec(spec, is)
    BY <1>3, SpecTypes, ContentTypes DEF Observe, Autos!Observe
  <2>2. new.scalers = Autos!Filled(spec.scalers, is.scalers)
    BY <2>1 DEF Autos!LateInitializeSpec, Autos!SpecType
  <2>3. \A r \in Scaled : is.scalers[r] # Unset
    BY <2>1, ServiceKindsAssumption DEF Autos!Content
  <2>4. \A r \in Scaled : new.scalers[r] # Unset
    BY <2>2, <2>3 DEF Autos!Filled
  <2> QED
    BY <1>1, <1>3, <2>4 DEF Complete
<1>4. CASE spec.kind = "Whitelist"
  <2>1. /\ spec \in White!SpecType /\ is \in White!Content
        /\ new = White!LateInitializeSpec(spec, is)
    BY <1>4, SpecTypes, ContentTypes DEF Observe, White!Observe
  <2>2. new.addresses # Unset
    BY <2>1, ServiceKindsAssumption DEF White!LateInitializeSpec, White!SpecType, White!Content
  <2> QED
    BY <1>1, <1>4, <2>2 DEF Complete
<1> QED
  BY <1>1, <1>2, <1>3, <1>4 DEF Complete

CompleteInv ==
  \A w \in Workers : pc[w] \in {"current", "outdated", "patch"} => Complete(Asked(w))

LEMMA CompleteStep ==
  ASSUME BaseInv, CompleteInv, [Next]_vars
  PROVE  CompleteInv'
<1>0. /\ LoopType(SpecType, KindPhases) /\ FreshIsCurrent /\ LoopInv({})
      /\ UserSpecs \subseteq SpecType /\ ReconcilerPhases \subseteq KindPhases
  BY BaseParts, TypeParts
<1>1. ASSUME \A v \in Workers :
               pc'[v] \in {"current", "outdated", "patch"} =>
                 \/ mem'[v].obj.spec = mem[v].obj.spec /\ pc[v] \in {"current", "outdated", "patch"}
                 \/ Complete(mem'[v].obj.spec)
      PROVE  CompleteInv'
  BY <1>1 DEF CompleteInv, Asked
<1>2. ASSUME NEW w \in Workers, pc[w] = "compare"
      PROVE  Complete(Observe(Asked(w), seen[w]).spec)
  BY <1>2, SeenContent, AskedTypes, ObserveCompletes
<1>3. ASSUME NEW w \in Workers, LoopStep(w)
      PROVE  CompleteInv'
  <2>1. /\ \A v \in Workers \ {w} : pc'[v] = pc[v] /\ mem'[v].obj = mem[v].obj
        /\ pc'[w] \notin {"idle", "observe", "refuse", "finish"} =>
             /\ Same(mem'[w].obj, mem[w].obj)
             /\ pc'[w] # pc[w] => pc'[w] = "create"
    BY <1>0, <1>3, LoopKeepsTypes
  <2> QED
    BY <1>1, <2>1 DEF Same
<1>4. ASSUME NEW w \in Workers, NEW p \in KindPhases, TouchStep(w, p), CloudStep(w, p)
      PROVE  CompleteInv'
  <2>1. /\ pc'[w] = p /\ \A v \in Workers \ {w} : pc'[v] = pc[v] /\ mem'[v] = mem[v]
        /\ mem'[w].obj.spec = mem[w].obj.spec
    BY <1>0, <1>4, LoopTouchTypes DEF TouchStep, Same
  <2>2. CASE pc[w] = "compare" /\ p \in {"current", "outdated"}
    <3>1. Asked(w) = Observe(Asked(w), seen[w]).spec
      BY <1>4, <2>2 DEF CloudStep, Gets, GetsNothing, Leaves, Changes, TakesDown
    <3> QED
      BY <1>1, <1>2, <2>1, <2>2, <3>1 DEF Asked
  <2>3. CASE p \notin {"current", "outdated", "patch"} \/ pc[w] = "outdated"
    BY <1>1, <2>1, <2>3
  <2> QED
    BY <1>4, <2>2, <2>3 DEF TouchStep
<1>5. ASSUME NEW w \in Workers, NEW s \in SpecType, NEW r \in BOOLEAN, NEW p \in KindPhases,
             SpecStep(w, s, r, p)
      PROVE  CompleteInv'
  <2>1. /\ pc'[w] = p /\ cr'.spec = s /\ Same(mem'[w].obj, cr')
        /\ \A v \in Workers \ {w} : pc'[v] = pc[v] /\ mem'[v].obj = mem[v].obj
    BY <1>0, <1>5, LoopSpecWritten DEF SpecStep
  <2>2. p \in {"current", "outdated", "patch"} => Complete(s)
    BY <1>2, <1>5 DEF SpecStep
  <2> QED
    BY <1>1, <2>1, <2>2 DEF Same
<1>6. ASSUME NEW w \in Workers, NEW c \in Creatable(Asked(w)), NameStep(w, c)
      PROVE  CompleteInv'
  <2>1. pc' = [pc EXCEPT ![w] = "created"] /\ \A v \in Workers \ {w} : mem'[v] = mem[v]
    BY <1>0, <1>6 DEF NameStep, TakesName, LoopType
  <2> QED
    BY <1>0, <1>1, <2>1 DEF LoopType
<1>7. ASSUME NEW w \in Workers, ExternalStep(w) \/ ExternalFault(w)
      PROVE  CompleteInv'
  BY <1>4, <1>5, <1>6, <1>7, HandlerForms DEF HandlerForm
<1>8. CASE UserEdits
  <2>1. pc' = pc /\ \A v \in Workers : mem'[v].obj = mem[v].obj
    BY <1>0, <1>8, UserForms, LoopUserForms
  <2> QED
    BY <1>1, <2>1
<1>9. WorldStep => UNCHANGED <<mem, pc>>
  BY WorldEffects
<1>10. CASE UNCHANGED <<mem, pc>>
  BY <1>10 DEF CompleteInv, Asked
<1>11. UNCHANGED vars => UNCHANGED <<mem, pc>>
  BY DEF vars
<1> QED
  BY <1>3, <1>7, <1>8, <1>9, <1>10, <1>11 DEF Next, WorkerStep, LoopStep, WorldStep

\* All the CRs are of settings of a deployment, which are all that an update sends.
Settings == \A s \in UserSpecs : s.kind \in SettingKinds

\* A group's members and its memory, which is sent as a total for the members that were
\* observed, its conditions, or the list of addresses: after one update that nobody
\* interfered with they are what the spec asks for, whatever was edited together.
THEOREM UpdatesSuffice ==
  ASSUME Settings
  PROVE  Spec => UpdateSuffices
<1>1. Init => CompleteInv
  BY DEF Init, ReconcilerInit, CompleteInv
<1>2. BaseInv /\ CompleteInv /\ [Next]_vars => CompleteInv'
  BY CompleteStep
<1>3. ASSUME BaseInv, CompleteInv, NEW w \in Workers, Update(w), Live(ExtName(w)),
             entity[ExtName(w)].is = seen[w]
      PROVE  IsCurrent(Asked(w), entity'[ExtName(w)].is)
  <2>1. pc[w] \in {"outdated", "patch"}
    BY <1>3 DEF Update, Patching, Updating
  <2>2. /\ ExtName(w) \in Names /\ seen[w] \in Content /\ Asked(w) \in SpecType
        /\ seen[w].kind = Asked(w).kind /\ Asked(w).kind = source.kind
    BY <1>3, <2>1, SeenContent, AskedTypes
  <2>3. Asked(w).kind \in SettingKinds
    BY <1>3, <2>2, BaseParts DEF SourceType, Settings
  <2>4. Asked(w).kind # "Topic" /\ Patched(Asked(w), ExtName(w)) = ExtName(w)
    BY <2>3 DEF SettingKinds, ScalingKinds, Patched
  <2>5. Write(ExtName(w),
              [entity[ExtName(w)] EXCEPT !.is = Updated(Asked(w), seen[w], seen[w])])
    BY <1>3, <2>4 DEF Update, Accepts
  <2>6. entity \in [Names -> Entities]
    BY <1>3, BaseParts DEF EntityTypes
  <2>7. entity'[ExtName(w)].is = Updated(Asked(w), seen[w], seen[w])
    BY <1>3, <2>2, <2>5, <2>6 DEF Write, Live, Entities
  <2>8. Complete(Asked(w))
    BY <1>3, <2>1 DEF CompleteInv
  <2> QED
    BY <2>2, <2>3, <2>7, <2>8, SettingSuffices
<1>4. BaseInv /\ CompleteInv /\ [Next]_vars =>
        [\A w \in Workers :
           Update(w) /\ Live(ExtName(w)) /\ entity[ExtName(w)].is = seen[w]
             => IsCurrent(Asked(w), entity'[ExtName(w)].is)]_vars
  BY <1>3
<1> QED
  BY <1>1, <1>2, <1>4, BaseCorrect, PTL DEF Spec, UpdateSuffices
-----------------------------------------------------------------------------
(***************************************************************************)
(* The controllers of keys, topics, databases and buckets implement        *)
(* ExternalResource: one thing at a time, made for a CR that is there, and *)
(* none left when the CR goes.  A key is taken down only for a CR that is  *)
(* being deleted; the others, whose names are given again, are promised no *)
(* more than that one may vanish (CanVanish).                              *)
(***************************************************************************)
\* A step of the abstract specification, or none.
AbstractStep == [Resource!Next]_(Resource!vars)

LEMMA Stutter ==
  ASSUME Claim' = Claim, Alive' = Alive
  PROVE  AbstractStep
BY DEF AbstractStep, Resource!vars

LEMMA SameClaim ==
  ASSUME cr'.present = cr.present, cr'.deleting = cr.deleting
  PROVE  Claim' = Claim
BY DEF Claim

\* One that is alive goes although nobody asked for it, which is allowed for.
LEMMA Vanishes ==
  ASSUME MadeKinds, IInv, Claim' = Claim, Alive' \subseteq Alive,
         FaultKinds \cap {"drift", "replace"} # {} \/ NamesReused
  PROVE  AbstractStep
<1>1. CASE Alive' = Alive
  BY <1>1, Stutter
<1>2. CASE Alive' # Alive
  <2>1. \A m, n \in Alive : m = n
    BY IParts DEF LoopInv, AtMostOne
  <2>2. Alive # {} /\ Alive' = {}
    BY <1>2, <2>1
  <2>3. Resource!Vanish
    BY <2>2 DEF Resource!Vanish
  <2> QED
    BY <2>3 DEF AbstractStep, Resource!Next
<1> QED
  BY <1>1, <1>2

\* The loop changes nothing in the cloud; when it lets the CR go there is nothing.
LEMMA LoopRefines ==
  ASSUME MadeKinds, IInv, IInv', NEW w \in Workers, LoopStep(w), Forget,
         UNCHANGED <<source, entity>>
  PROVE  AbstractStep
<1>1. \/ Same(cr', cr)
      \/ cr' = NoObject
      \/ cr'.present = cr.present /\ cr'.deleting = cr.deleting
  BY IParts, TypeParts, LoopSources
<1>2. Alive' = Alive
  BY IParts, Forgotten
<1>3. CASE cr'.present = cr.present /\ cr'.deleting = cr.deleting
  BY <1>2, <1>3, SameClaim, Stutter
<1>4. CASE cr' = NoObject
  <2>1. ~cr'.present
    BY <1>4, TypeParts, LoopNoObjectType
  <2>2. Alive' = {}
    BY <2>1 DEF IInv, LoopInv, AccountedFor
  <2>3. Claim' = "none"
    BY <2>1 DEF Claim
  <2>4. CASE Claim = "none"
    BY <1>2, <2>3, <2>4, Stutter
  <2>5. CASE Claim # "none"
    <3>1. Resource!Release
      BY <1>2, <2>2, <2>3, <2>5 DEF Resource!Release
    <3> QED
      BY <3>1 DEF AbstractStep, Resource!Next
  <2> QED
    BY <2>4, <2>5
<1> QED
  BY <1>1, <1>3, <1>4 DEF Same

\* A handler that gives no name at most takes down what it found, for a CR that is
\* being deleted or under a name that was given again.
LEMMA TouchRefines ==
  ASSUME MadeKinds, IInv, NEW w \in Workers, NEW p \in KindPhases, TouchStep(w, p),
         CloudStep(w, p)
  PROVE  AbstractStep
<1>0. UNCHANGED cr /\ Claim' = Claim
  BY SameClaim DEF TouchStep, Touches
<1>1. Alive' = Alive \/ \E n \in Names : TakesDown(w, p, n) /\ Alive' = Alive \ {n}
  <2>1. UNCHANGED source /\ BaseInv
    BY IParts DEF TouchStep
  <2> QED
    BY <2>1, CloudEffects
<1>2. CASE Alive' = Alive
  BY <1>0, <1>2, Stutter
<1>3. ASSUME NEW n \in Names, TakesDown(w, p, n), Alive' = Alive \ {n}, Alive' # Alive
      PROVE  AbstractStep
  <2>1. CASE NamesReused
    BY <1>0, <1>3, <2>1, Vanishes
  <2>2. CASE ~NamesReused
    <3>1. /\ n \in Alive /\ n = Observed(Asked(w), ExtName(w))
          /\ pc[w] \in {"current", "outdated"} /\ mem[w].obj.deleting
      BY <1>3 DEF TakesDown
    <3>2. cr.deleting
      BY <2>2, <3>1, CopyOfKey
    <3>3. cr.present /\ Alive = {n}
      BY <3>1, IParts DEF LoopInv, AccountedFor, AtMostOne
    <3>4. Claim = "deleting" /\ Alive' = {}
      BY <1>3, <3>2, <3>3 DEF Claim
    <3>5. Resource!TakeDown
      BY <1>0, <3>3, <3>4 DEF Resource!TakeDown
    <3> QED
      BY <3>5 DEF AbstractStep, Resource!Next
  <2> QED
    BY <2>1, <2>2
<1> QED
  BY <1>1, <1>2, <1>3

\* Create makes one where none is, for a CR that is there.
LEMMA NameRefines ==
  ASSUME MadeKinds, IInv, NEW w \in Workers, NEW c \in Creatable(Asked(w)), NameStep(w, c)
  PROVE  AbstractStep
<1>1. c.name \in Names /\ Alive = {} /\ Alive' = {c.name} /\ cr.present /\ UNCHANGED cr
  BY NameI
<1>2. Claim # "none" /\ Claim' = Claim
  BY <1>1 DEF Claim
<1>3. Resource!Make
  BY <1>1, <1>2 DEF Resource!Make
<1> QED
  BY <1>3 DEF AbstractStep, Resource!Next

\* What Observe and the resolution write to the API server is the spec.
LEMMA SpecRefines ==
  ASSUME MadeKinds, IInv, NEW w \in Workers, NEW s \in SpecType, NEW r \in BOOLEAN,
         NEW p \in KindPhases, SpecStep(w, s, r, p)
  PROVE  AbstractStep
BY SpecI, SameClaim, Stutter

\* Somebody else's deletion is one that the abstract resource allows for.
LEMMA WorldRefines ==
  ASSUME MadeKinds, IInv, WorldStep
  PROVE  AbstractStep
<1>1. /\ UNCHANGED cr /\ AliveKept
      /\ Alive' = Alive \/ FaultKinds \cap {"drift", "replace"} # {}
  BY IParts, WorldEffects
<1>2. Alive' \subseteq Alive /\ Claim' = Claim
  BY <1>1, SameClaim DEF AliveKept
<1> QED
  BY <1>1, <1>2, Stutter, Vanishes

\* A CR is applied, and let go without a deletion, only where nothing is left.
LEMMA UserRefines ==
  ASSUME MadeKinds, IInv, UserEdits, Forget, UNCHANGED <<source, entity>>
  PROVE  AbstractStep
<1>0. /\ BaseInv /\ LoopType(SpecType, KindPhases)
      /\ ~cr.present \/ ~cr.finalizer => Alive = {}
  BY IParts DEF LoopInv, AccountedFor
<1>1. Alive' = Alive
  BY <1>0, Forgotten
<1>2. UserStepOver(SpecType)
  BY <1>0, UserForms
<1>3. \/ cr' = NoObject /\ ~cr.finalizer /\ cr.present /\ ~cr.deleting
      \/ (\E s \in SpecType : cr' = NewObject(s)) /\ ~cr.present
      \/ cr'.present = cr.present /\ cr'.deleting = cr.deleting
      \/ cr'.present /\ cr.present /\ cr'.deleting /\ ~cr.deleting
  <2>1. UserSpecs \subseteq SpecType
    BY TypeParts
  <2> QED
    BY <1>0, <1>2, <2>1, LoopUserForms, ZenonT(30)
<1>4. CASE cr' = NoObject /\ ~cr.finalizer /\ cr.present /\ ~cr.deleting
  <2>1. ~cr'.present
    BY <1>4, TypeParts, LoopNoObjectType
  <2>2. Claim # "none" /\ Claim' = "none"
    BY <1>4, <2>1 DEF Claim
  <2>3. Resource!Release
    BY <1>0, <1>1, <1>4, <2>2 DEF Resource!Release
  <2> QED
    BY <2>3 DEF AbstractStep, Resource!Next
<1>5. CASE (\E s \in SpecType : cr' = NewObject(s)) /\ ~cr.present
  <2>1. Claim = "none" /\ Claim' = "there"
    BY <1>5 DEF Claim, NewObject
  <2>2. Resource!Apply
    BY <1>0, <1>1, <1>5, <2>1 DEF Resource!Apply
  <2> QED
    BY <2>2 DEF AbstractStep, Resource!Next
<1>6. CASE cr'.present /\ cr.present /\ cr'.deleting /\ ~cr.deleting
  <2>1. Claim = "there" /\ Claim' = "deleting"
    BY <1>6 DEF Claim
  <2>2. Resource!AskDeletion
    BY <1>1, <2>1 DEF Resource!AskDeletion
  <2> QED
    BY <2>2 DEF AbstractStep, Resource!Next
<1>7. CASE cr'.present = cr.present /\ cr'.deleting = cr.deleting
  BY <1>1, <1>7, SameClaim, Stutter
<1> QED
  BY <1>3, <1>4, <1>5, <1>6, <1>7

-----------------------------------------------------------------------------
\* Every step maps to a step of the abstract specification or to none.
LEMMA RefinementStep ==
  ASSUME MadeKinds, IInv, IInv', [Next]_vars
  PROVE  AbstractStep
<1>1. ASSUME NEW w \in Workers, LoopStep(w), Forget, UNCHANGED <<source, entity>>
      PROVE  AbstractStep
  BY <1>1, LoopRefines
<1>2. ASSUME NEW w \in Workers, ExternalStep(w) \/ ExternalFault(w)
      PROVE  AbstractStep
  BY <1>2, IParts, HandlerForms, TouchRefines, SpecRefines, NameRefines DEF HandlerForm
<1>3. CASE UserEdits /\ Forget /\ UNCHANGED <<source, entity>>
  BY <1>3, UserRefines
<1>4. CASE WorldStep
  BY <1>4, WorldRefines
<1>5. CASE UNCHANGED vars
  BY <1>5, SameClaim, Stutter DEF vars, Alive, Own, Live
<1> QED
  BY <1>1, <1>2, <1>3, <1>4, <1>5 DEF Next, WorkerStep, LoopStep, WorldStep

LEMMA RefinementInit ==
  ASSUME Init
  PROVE  Resource!Init
<1>1. Alive = {}
  BY InitBase
<1>2. PICK s \in UserSpecs : cr = NewObject(s)
  BY DEF Init, ReconcilerInit
<1> QED
  BY <1>1, <1>2 DEF NewObject, Claim, Resource!Init

\* The controllers of the kinds for which something is made, the loop and the cloud
\* together implement ExternalResource.
THEOREM Refinement ==
  ASSUME MadeKinds, PlaceKept
  PROVE  Spec => KeepsPromise
<1>1. Spec => []IInv
  BY InvCorrect
<1>2. Init => Resource!Init
  BY RefinementInit
<1>3. IInv /\ IInv' /\ [Next]_vars => [Resource!Next]_(Resource!vars)
  BY RefinementStep DEF AbstractStep
<1> QED
  BY <1>1, <1>2, <1>3, PTL DEF Spec, KeepsPromise, Resource!Spec
=============================================================================
