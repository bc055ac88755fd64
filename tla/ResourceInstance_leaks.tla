----------------------- MODULE ResourceInstance_leaks -----------------------
(***************************************************************************)
(* What the faults that the controller cannot make up for may cost.  A     *)
(* history variable beside the state of ResourceInstance counts them:      *)
(* replies to a creation that are lost, errors that are misread as the     *)
(* absence of an instance that is there, and deleted instances that        *)
(* somebody restores.  Crashes, failed calls, lost annotations and drift   *)
(* are not counted.                                                        *)
(***************************************************************************)
EXTENDS ResourceInstance

VARIABLE costs  \* how many faults so far may have cost an instance

leakVars == <<vars, costs>>

\* The steps that may leave an instance alive that no CR names.
Costs ==
  \/ \E w \in Workers : CreateLost(w) \/ (ObserveMisread(w) /\ Live(Id(w)))
  \/ \E n \in Names : Restored(n)

LeakInit == Init /\ costs = 0

Counts == costs' = IF Costs THEN costs + 1 ELSE costs

LeakNext == Next /\ Counts

LeakSpec == LeakInit /\ [][LeakNext]_leakVars

\* Each lost reply, misread error or restored instance leaves at most one more
\* instance alive than the CR should have; a crash, a failed call, a lost annotation
\* or drift leaves none (resourceinstance.go:123, 170-181).
LeaksBounded == Cardinality({n \in Names : Live(n)}) <= 1 + costs
=============================================================================
