-------------------------- MODULE ExternalResource --------------------------
(***************************************************************************)
(* What a CR and its controller promise about the external resource, for   *)
(* every kind that has one of its own: an abstract specification that      *)
(* ResourceInstance, IamEntity and ServiceResource implement, however many *)
(* replicas run, whatever copies they work from and wherever they crash.   *)
(* It is the contract of crossplane-runtime's ExternalClient, which the    *)
(* controllers' Observe, Create and Delete together have to keep.          *)
(***************************************************************************)
CONSTANTS Names,      \* what external resources are known by
          CanVanish   \* somebody else may take one down

VARIABLES claim,  \* the CR: not there, there, or being deleted
          alive   \* the external resources made for it that are alive

vars == <<claim, alive>>

Init == claim = "there" /\ alive = {}

\* A CR is applied only once all that an earlier one had is gone.
Apply == claim = "none" /\ alive = {} /\ claim' = "there" /\ UNCHANGED alive

AskDeletion == claim = "there" /\ claim' = "deleting" /\ UNCHANGED alive

\* The CR goes, and leaves nothing behind.
Release == claim # "none" /\ alive = {} /\ claim' = "none" /\ UNCHANGED alive

\* One at a time, and for a CR that is there.
Make ==
  /\ claim # "none" /\ alive = {}
  /\ \E n \in Names : alive' = {n}
  /\ UNCHANGED claim

\* Only for a CR that is being deleted.
TakeDown == claim = "deleting" /\ alive # {} /\ alive' = {} /\ UNCHANGED claim

Vanish == CanVanish /\ alive # {} /\ alive' = {} /\ UNCHANGED claim

Next == Apply \/ AskDeletion \/ Release \/ Make \/ TakeDown \/ Vanish

Spec == Init /\ [][Next]_vars
=============================================================================
