---------------------------- MODULE CronOneShotsMC ----------------------------
(* Instances of CronOneShots for TLC: two processes that tick over one job. *)
EXTENDS CronOneShots

CONSTANTS p1, p2

Anything == Kinds
=============================================================================
