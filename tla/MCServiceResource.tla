------------------------- MODULE MCServiceResource --------------------------
(* Small instances of ServiceResource for TLC. *)
EXTENDS ServiceResource, TLC

CONSTANTS w1, w2, k1, k2, reader, writer, bytes, ms, other, low, high, q1, q2,
          eu, disk, cpu, sx, sy, a, b

AskKey(name, role) ==
  [kind |-> "ResourceKey", source |-> Unset, name |-> name, role |-> role]

AskTopic(count, low_) ==
  [kind |-> "Topic", source |-> Unset, name |-> 1, partitions |-> Unset,
   partitionCount |-> count, configs |-> [c \in ConfigNames |->
      IF c = bytes THEN low_ ELSE Unset]]

AskDatabase(partitioned, q) ==
  [kind |-> "CloudantDatabase", source |-> Unset, name |-> 1,
   partitioned |-> partitioned, q |-> q]

AskBucket == [kind |-> "Bucket", source |-> Unset, name |-> 1, location |-> eu]

AskScaling(members, memory) ==
  [kind |-> "ScalingGroup", source |-> Unset, members |-> members,
   memberMemory |-> memory]

AskAutoscaling(onDisk) ==
  [kind |-> "AutoscalingGroup", source |-> Unset,
   scalers |-> [r \in Scaled |-> IF r = disk THEN onDisk ELSE Unset]]

AskWhitelist(addresses) ==
  [kind |-> "Whitelist", source |-> Unset, addresses |-> addresses]

\* Of each kind, a spec that leaves out what is optional and one that changes
\* what an update can change.
MCAllKinds ==
  {AskKey(k1, Unset), AskKey(k2, Unset),
   AskTopic(Unset, Unset), AskTopic(3, high),
   AskDatabase(Unset, Unset), AskDatabase(FALSE, q1),
   AskBucket,
   AskScaling(Unset, Unset), AskScaling(3, 5),
   AskAutoscaling(Unset), AskAutoscaling(sy),
   AskWhitelist(<<a>>), AskWhitelist(<<b, a>>)}

\* Of the kinds whose names specs give, one that is looked up by its external name
\* and one that is looked up by its spec's.
MCNamedKinds == {AskTopic(3, Unset), AskBucket}

MCSymmetry == Permutations(Workers)
=============================================================================
