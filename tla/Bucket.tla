------------------------------- MODULE Bucket --------------------------------
(***************************************************************************)
(* What the client of COS buckets (pkg/clients/cos) sends.  The source is  *)
(* the GUID of the COS instance.  A bucket is never compared nor changed;  *)
(* its encryption is left out like all that only the creation sends but    *)
(* the location.                                                           *)
(***************************************************************************)
CONSTANTS Sources, BucketNames, Locations, Unset

Content ==
  [kind : {"Bucket"}, source : Sources, name : BucketNames, location : Locations]

SpecType ==
  [kind : {"Bucket"}, source : Sources \cup {Unset}, name : BucketNames,
   location : Locations]

Created(spec) == spec

\* The name of the spec becomes the external name, unless the cloud says that there
\* is one of that name.
Creations(spec, entity) ==
  {[name |-> n, is |-> Created(spec)] : n \in {m \in {spec.name} : entity[m].state # "live"}}

\* retrieveBucket looks in the list of the instance for the name of the spec.
Reaches(spec, bucket) == bucket.source = spec.source /\ bucket.name = spec.name

\* The rest of Observe: a bucket is always as it should be, and never ready.
Observe(spec, bucket) == [spec |-> spec, current |-> TRUE, ready |-> FALSE]
=============================================================================
