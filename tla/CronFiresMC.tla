----------------------------- MODULE CronFiresMC -----------------------------
(* Instances of CronFires for TLC: two processes at most, and up to three   *)
(* fires of the kinds each question is about.                               *)
EXTENDS CronFires, TLC

CONSTANTS p1, p2, t1, t2, f1, m1

Nobody == {}
OneProcess == {p1}
TwoProcesses == {p1, p2}
OneTick == {t1}
TwoTicks == {t1, t2}
OneFired == {f1}
OneManual == {m1}

\* Processes are interchangeable, and so are the ticks.
Symmetry == Permutations({p1, p2}) \cup Permutations({t1, t2})
=============================================================================
