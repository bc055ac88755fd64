---------------------------- MODULE ServiceKinds -----------------------------
(***************************************************************************)
(* The kinds that ServiceResource's controllers manage, and where their    *)
(* handlers differ.  Keys get an ID from the cloud; topics, databases and  *)
(* buckets are known by the name their spec gives; scaling groups,         *)
(* autoscaling groups and whitelists are settings of a deployment, known   *)
(* by its ID, which is their source.                                       *)
(***************************************************************************)
EXTENDS Naturals, Sequences

CONSTANTS Sources,                                       \* what references resolve to
          GivenNames,                                    \* names that specs give
          Unset,
          KeyNames, Roles, DefaultRole,                  \* of resource keys
          PartitionCounts, ConfigNames, KnownConfigs,    \* of topics
          ConfigValues, DefaultValue,
          Shards, DefaultShards,                         \* of databases
          Locations,                                     \* of buckets
          MemberCounts, Totals,                          \* of scaling groups
          Scaled, Scalers,                               \* of autoscaling groups
          Addresses                                      \* of whitelists

ASSUME ServiceKindsAssumption ==
  /\ Unset \notin GivenNames \cup Sources /\ Unset \notin Nat
  /\ Unset \notin Roles \cup ConfigValues \cup Shards \cup Scalers
  /\ Unset \notin BOOLEAN /\ Unset \notin Seq(Addresses)
  /\ DefaultRole \in Roles
  /\ KnownConfigs \subseteq ConfigNames
  /\ DefaultValue \in ConfigValues
  /\ DefaultShards \in Shards
  /\ PartitionCounts \cup MemberCounts \subseteq Nat \ {0}
  /\ Totals \subseteq Nat

Key == INSTANCE ResourceKey

Top == INSTANCE Topic WITH TopicNames <- GivenNames

Db == INSTANCE CloudantDatabase WITH DbNames <- GivenNames

Buck == INSTANCE Bucket WITH BucketNames <- GivenNames

Scal == INSTANCE ScalingGroup

Autos == INSTANCE AutoscalingGroup

White == INSTANCE Whitelist

NamedKinds == {"Topic", "CloudantDatabase", "Bucket"}

ScalingKinds == {"ScalingGroup", "AutoscalingGroup"}

SettingKinds == ScalingKinds \cup {"Whitelist"}

Content ==
  Key!Content \cup Top!Content \cup Db!Content \cup Buck!Content \cup
  Scal!Content \cup Autos!Content \cup White!Content

SpecType ==
  Key!SpecType \cup Top!SpecType \cup Db!SpecType \cup Buck!SpecType \cup
  Scal!SpecType \cup Autos!SpecType \cup White!SpecType

\* The settings a deployment may come with.
Deployed(kind) ==
  CASE kind = "ScalingGroup" -> Scal!Deployed
    [] kind = "AutoscalingGroup" -> Autos!Deployed
    [] kind = "Whitelist" -> White!Deployed
    [] OTHER -> {}

\* What the instance a spec refers to gives it: a GUID, a URL or a deployment's ID.
Resolved(spec, source) == [spec EXCEPT !.source = source]

\* The name Observe's GET asks for: a bucket is looked up by the name of its
\* spec, everything else by the external name.
Observed(spec, extName) == IF spec.kind = "Bucket" THEN spec.name ELSE extName

\* The name Update's call asks for.
Patched(spec, extName) == IF spec.kind = "Topic" THEN spec.name ELSE extName

\* Which of the things with that name the GET finds: keys and deployments are
\* known everywhere, the rest in its instance only.
Reaches(spec, is) ==
  CASE spec.kind = "Whitelist" -> White!Reaches(is)
    [] spec.kind = "Bucket" -> Buck!Reaches(spec, is)
    [] spec.kind \in {"Topic", "CloudantDatabase"} -> is.source = spec.source
    [] OTHER -> TRUE

\* The external names that Create may record, and what it makes for each.
Creations(spec, entity) ==
  CASE spec.kind = "ResourceKey" -> Key!Creations(spec, entity)
    [] spec.kind = "Topic" -> Top!Creations(spec, entity)
    [] spec.kind = "CloudantDatabase" -> Db!Creations(spec, entity)
    [] spec.kind = "Bucket" -> Buck!Creations(spec, entity)
    [] spec.kind = "ScalingGroup" -> Scal!Creations(spec, entity)
    [] spec.kind = "AutoscalingGroup" -> Autos!Creations(spec, entity)
    [] spec.kind = "Whitelist" -> White!Creations(spec, entity)

\* The cloud may refuse an update of a topic.
Accepts(spec, found, is) == spec.kind = "Topic" => Top!Accepts(spec, found, is)

\* What the update makes of it, after a pass that has found it as it says.
Updated(spec, found, is) ==
  CASE spec.kind = "ResourceKey" -> Key!Updated(spec, is)
    [] spec.kind = "Topic" -> Top!Updated(spec, found, is)
    [] spec.kind = "ScalingGroup" -> Scal!Updated(spec, found, is)
    [] spec.kind = "AutoscalingGroup" -> Autos!Updated(spec, is)
    [] spec.kind = "Whitelist" -> White!Updated(spec, is)
    [] spec.kind \in {"CloudantDatabase", "Bucket"} -> is

\* What others may make of it.
Edited(is) ==
  CASE is.kind = "ResourceKey" -> Key!Edited(is)
    [] is.kind = "Topic" -> Top!Edited(is)
    [] is.kind = "ScalingGroup" -> Scal!Edited(is)
    [] is.kind = "AutoscalingGroup" -> Autos!Edited(is)
    [] is.kind = "Whitelist" -> White!Edited(is)
    [] is.kind \in {"CloudantDatabase", "Bucket"} -> {}

\* What a pass that has found it fills in, and whether it takes it for current.
Observe(spec, is) ==
  CASE spec.kind = "ResourceKey" -> Key!Observe(spec, is)
    [] spec.kind = "Topic" -> Top!Observe(spec, is)
    [] spec.kind = "CloudantDatabase" -> Db!Observe(spec, is)
    [] spec.kind = "Bucket" -> Buck!Observe(spec, is)
    [] spec.kind = "ScalingGroup" -> Scal!Observe(spec, is)
    [] spec.kind = "AutoscalingGroup" -> Autos!Observe(spec, is)
    [] spec.kind = "Whitelist" -> White!Observe(spec, is)

\* A pass would neither fill in nor update anything.
IsCurrent(spec, is) == LET o == Observe(spec, is) IN o.current /\ o.spec = spec
=============================================================================
