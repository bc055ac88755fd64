-------------------------- MODULE CloudantDatabase ---------------------------
(***************************************************************************)
(* What the client of Cloudant databases (pkg/clients/cloudantdatabase)    *)
(* sends, fills in and compares.  The source is the URL of the Cloudant    *)
(* instance.  Nothing about a database can be changed: Update does nothing.*)
(***************************************************************************)
CONSTANTS Sources, DbNames,
          Shards,         \* q, the number of shards
          DefaultShards,
          Unset

Content ==
  [kind : {"CloudantDatabase"}, source : Sources, name : DbNames,
   partitioned : BOOLEAN, q : Shards]

SpecType ==
  [kind : {"CloudantDatabase"}, source : Sources \cup {Unset}, name : DbNames,
   partitioned : BOOLEAN \cup {Unset}, q : Shards \cup {Unset}]

Created(spec) ==
  [spec EXCEPT !.partitioned = IF @ = Unset THEN FALSE ELSE @,
               !.q = IF @ = Unset THEN DefaultShards ELSE @]

\* The name of the spec becomes the external name, unless the cloud says that there
\* is one of that name.
Creations(spec, entity) ==
  {[name |-> n, is |-> Created(spec)] : n \in {m \in {spec.name} : entity[m].state # "live"}}

LateInitializeSpec(spec, database) ==
  [spec EXCEPT !.partitioned = IF @ = Unset THEN database.partitioned ELSE @,
               !.q = IF @ = Unset THEN database.q ELSE @]

IsUpToDate(spec, database) ==
  /\ spec.name = database.name
  /\ spec.partitioned = database.partitioned
  /\ spec.q = database.q

\* The rest of Observe: what it fills in, and whether that is what there is.
Observe(spec, database) ==
  LET filled == LateInitializeSpec(spec, database)
  IN  [spec |-> filled, current |-> IsUpToDate(filled, database), ready |-> TRUE]
=============================================================================
