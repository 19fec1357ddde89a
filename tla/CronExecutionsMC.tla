-------------------------- MODULE CronExecutionsMC --------------------------
(* Instances of CronExecutions for TLC: managed gateways and a process that *)
(* runs jobs itself, whose start time may be unknown.  Executions meet only *)
(* in retention, so one is enough.                                          *)
EXTENDS CronExecutions

CONSTANTS e1, g1, g2, g3, w

OneExecution == {e1}
OneGateway == {g1}
ThreeGateways == {g1, g2, g3}
FirstAndThird == {g1, g3}
AllButSecond == {g1, g3, w}
=============================================================================
