------------------------------- MODULE Topic ---------------------------------
(***************************************************************************)
(* What the client of Kafka topics (pkg/clients/topic) sends, fills in and *)
(* compares.  The source is the admin URL of the Event Streams instance.   *)
(* Of the config properties the code knows six by name; the others a user  *)
(* may give are sent at the creation and forgotten.                        *)
(***************************************************************************)
EXTENDS Naturals

CONSTANTS Sources, TopicNames, PartitionCounts,
          ConfigNames,    \* all config properties ...
          KnownConfigs,   \* ... and those late initialisation keeps
          ConfigValues,
          DefaultValue,   \* what the cloud takes for a property left out
          Unset

Content ==
  [kind : {"Topic"}, source : Sources, name : TopicNames,
   partitions : PartitionCounts \cup {1}, configs : [KnownConfigs -> ConfigValues]]

SpecType ==
  [kind : {"Topic"}, source : Sources \cup {Unset}, name : TopicNames,
   partitions : PartitionCounts \cup {1, Unset},
   partitionCount : PartitionCounts \cup {1, Unset},
   configs : [ConfigNames -> ConfigValues \cup {Unset}]]

\* partitionCount takes precedence over partitions.
Created(spec) ==
  [kind |-> "Topic", source |-> spec.source, name |-> spec.name,
   partitions |-> CASE spec.partitionCount # Unset -> spec.partitionCount
                    [] spec.partitionCount = Unset /\ spec.partitions # Unset
                         -> spec.partitions
                    [] OTHER -> 1,
   configs |-> [c \in KnownConfigs |-> IF spec.configs[c] = Unset THEN DefaultValue
                                       ELSE spec.configs[c]]]

\* The name of the spec becomes the external name, unless the cloud says that there
\* is one of that name.
Creations(spec, entity) ==
  {[name |-> n, is |-> Created(spec)] : n \in {m \in {spec.name} : entity[m].state # "live"}}

\* A count is sent if it is more than what the second GET found.
SendsCount(spec, found) == spec.partitionCount # Unset /\ spec.partitionCount > found.partitions

\* The cloud refuses an update that does not add partitions.
Accepts(spec, found, topic) ==
  SendsCount(spec, found) => spec.partitionCount > topic.partitions

\* The properties of the spec are all set, the others are left as they are.
Updated(spec, found, topic) ==
  [topic EXCEPT !.partitions = IF SendsCount(spec, found) THEN spec.partitionCount ELSE @,
                !.configs = [c \in KnownConfigs |->
                  IF spec.configs[c] = Unset THEN @[c] ELSE spec.configs[c]]]

Edited(topic) ==
  {[topic EXCEPT !.configs[c] = v] : c \in KnownConfigs, v \in ConfigValues} \ {topic}

\* Mutated: the cloud's properties win over the user's.
LateInitializeConfigs(spec, topic) ==
  [spec EXCEPT !.partitions = IF spec.partitionCount # Unset THEN spec.partitionCount
                              ELSE IF @ = Unset THEN topic.partitions ELSE @,
               !.partitionCount = IF @ = Unset THEN topic.partitions ELSE @,
               !.configs = [c \in ConfigNames |->
                  IF c \in KnownConfigs THEN topic.configs[c] ELSE Unset]]

\* partitionCount overwrites partitions; what is not given is filled in, and the
\* list of properties is rebuilt from those the code knows.
LateInitializeSpec(spec, topic) ==
  [spec EXCEPT !.partitions = IF spec.partitionCount # Unset THEN spec.partitionCount
                              ELSE IF @ = Unset THEN topic.partitions ELSE @,
               !.partitionCount = IF @ = Unset THEN topic.partitions ELSE @,
               !.configs = [c \in ConfigNames |->
                  CASE c \notin KnownConfigs -> Unset
                    [] c \in KnownConfigs /\ @[c] # Unset -> @[c]
                    [] OTHER -> topic.configs[c]]]

\* Both counts are compared with the number of partitions; the URL is ignored.
IsUpToDate(spec, topic) ==
  /\ spec.name = topic.name
  /\ spec.partitions = topic.partitions
  /\ spec.partitionCount = topic.partitions
  /\ \A c \in ConfigNames :
       spec.configs[c] = IF c \in KnownConfigs THEN topic.configs[c] ELSE Unset

\* The rest of Observe: what it fills in, and whether that is what there is.
Observe(spec, topic) ==
  LET filled == LateInitializeSpec(spec, topic)
  IN  [spec |-> filled, current |-> IsUpToDate(filled, topic), ready |-> TRUE]
=============================================================================
