-------------------------- MODULE DeliveryQueueMC --------------------------
(* Instances of DeliveryQueue for TLC.  Two overlapping gateways race for   *)
(* the rows; one of them may have no readable start time, so that it is     *)
(* taken for dead while it lives.                                           *)
EXTENDS DeliveryQueue, TLC

CONSTANTS e1, e2, g1, g2

TwoExecutions == {e1, e2}
TwoGateways == {g1, g2}
DistinctPids == g1 :> 1 @@ g2 :> 2
SamePids == g1 :> 1 @@ g2 :> 1
OnlyFirst == {g1}

\* The ids of executions only break ties between equal stamps, and stamps differ.
ExecutionsAlike == Permutations(TwoExecutions)
=============================================================================
