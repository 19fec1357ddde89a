----------------------------- MODULE CronOneShots -----------------------------
(***************************************************************************)
(* A one-shot cron job, which is to run `repeat.times' times and no more   *)
(* (cron/jobs.py, cron/scheduler.py).  Several processes tick over the job *)
(* store: the due scan stamps a run_claim, the job is submitted to a pool, *)
(* its thread takes the fire_claim, spends one dispatch, runs and records  *)
(* the outcome.  Processes shut down and die meanwhile, and people pause,  *)
(* resume, trigger, re-arm and remove the job.                             *)
(*                                                                         *)
(* Every operation on the store is one step under its lock.  Time is known *)
(* by the grace window of the job's next run and by the ages of the claims,*)
(* whose TTLs are longer than that window: a claim stamped in the window   *)
(* expires after it.  The heartbeats of a live run keep its claims from    *)
(* ageing unless its process stalls.                                       *)
(***************************************************************************)
EXTENDS Integers, FiniteSets

CONSTANTS
  Processes,  \* those that tick
  Times,      \* repeat.times
  Upsets,     \* what people and machines may do, each once
  MaxUpsets,  \* how many of these happen
  None

Kinds == {"death", "shutdown", "stall", "failure", "pause", "trigger", "rearm", "remove"}

ASSUME OneShotAssumption ==
  /\ None \notin Processes
  /\ Times \in Nat \ {0} /\ MaxUpsets \in Nat
  /\ Upsets \subseteq Kinds

VARIABLES
  job,      \* the record of the store
  when,     \* now, by the grace window of next_run_at
  life,     \* of each process
  ticking,  \* the process that holds the tick lock with the job in hand
  run,      \* stage of the thread that runs the job in a process
  noted,    \* the owner of run_claim its thread read
  for,      \* history: the occurrence its thread took the fire_claim for
  flagged,  \* whether shutdown has flagged the thread
  toMark,   \* whether shutdown is about to record the thread's run
  starts,   \* history: runs begun of the job's occurrence
  records,  \* history: outcomes recorded of the thread's run
  upsets    \* what has happened

vars == <<job, when, life, ticking, run, noted, for, flagged, toMark, starts, records, upsets>>
clockwork == <<when, upsets>>
threads == <<run, noted, for, flagged, toMark, starts, records>>

Ages == {"fresh", "worn", "stale"}
NoClaim == [by |-> None, age |-> "stale"]
ClaimOf(p) == [by |-> p, age |-> "fresh"]

\* _claim_is_live.
Live(claim) == claim.by # None /\ claim.age # "stale"

Present == job.state # "gone"
Gone == [job EXCEPT !.state = "gone", !.runClaim = NoClaim, !.fireClaim = NoClaim]

\* Mutant of Spent: one dispatch more.
SpentBeyond(k) == k.completed > Times

\* The dispatch limit.
Spent(k) == k.completed >= Times

\* One of the things that may happen happens.
Upset(k) ==
  /\ k \in Upsets \ upsets /\ Cardinality(upsets) < MaxUpsets
  /\ upsets' = upsets \cup {k}

-----------------------------------------------------------------------------
(* Time.                                                                   *)

GoesBy ==
  /\ Present
  /\ \/ when = "before" /\ when' = "due"
     \/ when = "due" /\ when' = "late"
  /\ UNCHANGED <<job, life, ticking, threads, upsets>>

\* The run of p has found its claim in order and begun.
AtWork(p) == run[p] \in {"begun", "live", "marking"}

\* The run monitor renews the run_claim whose owner it noted, and the heartbeat
\* thread the fire_claim of its run.
TendsRun(p) == run[p] = "live" /\ job.runClaim.by = noted[p]
TendsFire(p) == AtWork(p) /\ job.fireClaim.by = p

Stalled == "stall" \in upsets

Aged(claim) == [claim EXCEPT !.age = IF @ = "fresh" THEN "worn" ELSE "stale"]
MayAge(claim) == Live(claim) /\ (claim.age = "fresh" => when = "late")

AgeRunClaim ==
  /\ MayAge(job.runClaim)
  /\ (\E p \in Processes : TendsRun(p)) => Stalled
  /\ job' = [job EXCEPT !.runClaim = Aged(@)]
  /\ UNCHANGED <<clockwork, life, ticking, threads>>

AgeFireClaim ==
  /\ MayAge(job.fireClaim)
  /\ (\E p \in Processes : TendsFire(p)) => Stalled
  /\ job' = [job EXCEPT !.fireClaim = Aged(@)]
  /\ UNCHANGED <<clockwork, life, ticking, threads>>

\* heartbeat_run_claim and heartbeat_fire_claim.
RenewRunClaim(p) ==
  /\ TendsRun(p) /\ noted[p] # None /\ job.runClaim.age # "fresh"
  /\ job' = [job EXCEPT !.runClaim.age = "fresh"]
  /\ UNCHANGED <<clockwork, life, ticking, threads>>

RenewFireClaim(p) ==
  /\ TendsFire(p) /\ job.fireClaim.age # "fresh"
  /\ job' = [job EXCEPT !.fireClaim.age = "fresh"]
  /\ UNCHANGED <<clockwork, life, ticking, threads>>

\* A process sleeps, or its heartbeats do not come through.
Stall == Upset("stall") /\ UNCHANGED <<job, when, life, ticking, threads>>

-----------------------------------------------------------------------------
(* The tick.                                                               *)

\* Mutant of Free: the claim of another process is not looked at.
FreeAnyway == TRUE

\* The cross-process guard of the due scan.
Free == ~Live(job.runClaim)

\* _retire_expired_oneshot: past grace, a record with a claim is kept.
Expired == when = "late" /\ job.runClaim = NoClaim /\ job.fireClaim = NoClaim

\* _oneshot_dispatch_limit_reached: unless this process runs it.
Wedged(p) == when = "due" /\ Spent(job) /\ run[p] = "none"

\* get_due_jobs under the tick lock.
Scan(p) ==
  /\ life[p] = "up" /\ ticking = None
  /\ job.state = "scheduled" /\ Free
  /\ IF Expired \/ Wedged(p)
     THEN job' = Gone /\ UNCHANGED ticking
     ELSE /\ when = "due" /\ ~Spent(job)
          /\ job' = [job EXCEPT !.runClaim = ClaimOf(p)]
          /\ ticking' = p
  /\ UNCHANGED <<clockwork, life, threads>>

\* Mutant of Cleared: the claim is left to its TTL.
ClearedLater == job

\* clear_run_claim, whosever it is.
Cleared == [job EXCEPT !.runClaim = NoClaim]

\* _submit_with_guard: the pool takes the job.
Submit(p) ==
  /\ ticking = p /\ life[p] = "up" /\ run[p] = "none"
  /\ ticking' = None
  /\ run' = [run EXCEPT ![p] = "queued"]
  /\ UNCHANGED <<clockwork, job, life, noted, for, flagged, toMark, starts, records>>

\* The process is shutting down, or neither row nor pool is to be had.
SubmitFails(p) ==
  /\ ticking = p
  /\ \/ life[p] = "closing" /\ UNCHANGED upsets
     \/ life[p] = "up" /\ run[p] = "none" /\ Upset("failure")
  /\ ticking' = None
  /\ job' = Cleared
  /\ UNCHANGED <<when, life, threads>>

\* An earlier run is still in flight.
Skip(p) ==
  /\ ticking = p /\ life[p] = "up" /\ run[p] # "none"
  /\ ticking' = None
  /\ UNCHANGED <<clockwork, job, life, threads>>

-----------------------------------------------------------------------------
(* The thread.                                                             *)

Stage(p, s) == run' = [run EXCEPT ![p] = s]

\* The thread ends: release_running_job.
Ended(p) ==
  /\ Stage(p, "none")
  /\ noted' = [noted EXCEPT ![p] = None]
  /\ flagged' = [flagged EXCEPT ![p] = FALSE]

\* claim_job_for_fire; the time is not looked at.
FireClaim(p) ==
  /\ run[p] = "queued"
  /\ IF job.state = "scheduled" /\ ~Live(job.fireClaim)
     THEN /\ job' = [job EXCEPT !.fireClaim = ClaimOf(p)]
          /\ Stage(p, "claimed")
          /\ noted' = [noted EXCEPT ![p] = job.runClaim.by]
          /\ for' = [for EXCEPT ![p] = job.occurrence]
          /\ records' = [records EXCEPT ![p] = 0]
          /\ UNCHANGED flagged
     ELSE UNCHANGED <<job, for, records>> /\ Ended(p)
  /\ UNCHANGED <<clockwork, life, ticking, toMark, starts>>

\* The run checks its claim before anything else.
Begin(p) ==
  /\ run[p] = "claimed"
  /\ IF job.fireClaim.by = p
     THEN /\ job' = [job EXCEPT !.fireClaim.age = "fresh"]
          /\ Stage(p, "begun")
          /\ UNCHANGED <<noted, flagged>>
     ELSE UNCHANGED job /\ Ended(p)
  /\ UNCHANGED <<clockwork, life, ticking, for, toMark, starts, records>>

\* Mutant of Dispatched: the dispatch is not counted.
DispatchedForFree == job

Dispatched == [job EXCEPT !.completed = @ + 1]

\* claim_dispatch; the run goes on for a record that is missing.
Dispatch(p) ==
  /\ run[p] = "begun"
  /\ \/ /\ Present => ~Spent(job)
        /\ job' = IF Present THEN Dispatched ELSE job
        /\ starts' = starts + 1
        /\ Stage(p, "live")
        /\ UNCHANGED <<noted, flagged>>
     \/ /\ Present /\ Spent(job)
        /\ job' = IF job.ran THEN [job EXCEPT !.state = "completed"] ELSE Gone
        /\ Ended(p)
        /\ UNCHANGED starts
  /\ UNCHANGED <<clockwork, life, ticking, for, toMark, records>>

\* The run returns or raises; flagged, it leaves the record to shutdown.
RunEnds(p) ==
  /\ run[p] = "live"
  /\ IF flagged[p]
     THEN Ended(p)
     ELSE Stage(p, "marking") /\ UNCHANGED <<noted, flagged>>
  /\ UNCHANGED <<clockwork, job, life, ticking, for, toMark, starts, records>>

\* Mutant of MayMark: whoever comes records.
MayMarkAnyway(p) == Present

\* The expected owner of mark_job_run.
MayMark(p) == Present /\ job.fireClaim.by = p

\* _record_run_outcome and _advance_after_run: a one-shot has no further run.
Recorded ==
  [job EXCEPT !.state = "completed", !.ran = TRUE, !.runClaim = NoClaim, !.fireClaim = NoClaim,
              !.completed = IF @ = 0 THEN 1 ELSE @]

\* mark_job_run for the run of p.
Records(p) ==
  IF MayMark(p)
  THEN job' = Recorded /\ records' = [records EXCEPT ![p] = @ + 1]
  ELSE UNCHANGED <<job, records>>

Mark(p) ==
  /\ run[p] = "marking"
  /\ Records(p)
  /\ Ended(p)
  /\ UNCHANGED <<clockwork, life, ticking, for, toMark, starts>>

-----------------------------------------------------------------------------
(* Shutdown and death.                                                     *)

\* mark_running_jobs_interrupted flags the threads at work; one that has taken
\* its claim may be registered already.
ShutDown(p) ==
  /\ life[p] = "up" /\ Upset("shutdown")
  /\ life' = [life EXCEPT ![p] = "closing"]
  /\ flagged' = [flagged EXCEPT ![p] = run[p] # "none"]
  /\ \E registered \in BOOLEAN :
        /\ AtWork(p) => registered
        /\ registered => AtWork(p) \/ run[p] = "claimed"
        /\ toMark' = [toMark EXCEPT ![p] = registered]
  /\ UNCHANGED <<job, when, ticking, run, noted, for, starts, records>>

\* It records those whose fire_claim it saw; the thread may have ended.
MarkInterrupted(p) ==
  /\ life[p] = "closing" /\ toMark[p]
  /\ Records(p)
  /\ toMark' = [toMark EXCEPT ![p] = FALSE]
  /\ UNCHANGED <<clockwork, life, ticking, run, noted, for, flagged, starts>>

Leaves(p) ==
  /\ life' = [life EXCEPT ![p] = "dead"]
  /\ ticking' = IF ticking = p THEN None ELSE ticking
  /\ Ended(p)
  /\ toMark' = [toMark EXCEPT ![p] = FALSE]
  /\ UNCHANGED <<job, when, for, starts, records>>

Exit(p) == life[p] = "closing" /\ ~toMark[p] /\ Leaves(p) /\ UNCHANGED upsets
Die(p) == life[p] # "dead" /\ Upset("death") /\ Leaves(p)

-----------------------------------------------------------------------------
(* People.                                                                 *)

ByHand(k) ==
  /\ job' = k
  /\ UNCHANGED <<life, ticking, run, noted, for, flagged, toMark, records>>

Pause ==
  /\ job.state = "scheduled" /\ Upset("pause")
  /\ ByHand([job EXCEPT !.state = "paused"])
  /\ UNCHANGED <<when, starts>>

\* resume_job; refused past the grace window.
Resume ==
  /\ job.state = "paused" /\ when # "late"
  /\ ByHand([job EXCEPT !.state = "scheduled"])
  /\ UNCHANGED <<clockwork, starts>>

\* trigger_job: the next run is now.
Trigger ==
  /\ job.state \in {"scheduled", "paused"} /\ Upset("trigger")
  /\ ByHand([job EXCEPT !.state = "scheduled"])
  /\ when' = "due"
  /\ UNCHANGED starts

\* Mutant of Rearmed: the claims stay.
RearmedClaimed ==
  [job EXCEPT !.state = "scheduled", !.completed = 0, !.occurrence = @ + 1]

Rearmed ==
  [job EXCEPT !.state = "scheduled", !.completed = 0, !.occurrence = @ + 1,
              !.runClaim = NoClaim, !.fireClaim = NoClaim]

\* rearm_oneshot: a new occurrence, refused over live claims.
Rearm ==
  /\ Present /\ ~Live(job.runClaim) /\ ~Live(job.fireClaim)
  /\ Upset("rearm")
  /\ ByHand(Rearmed)
  /\ when' = "before" /\ starts' = 0

Remove == Present /\ Upset("remove") /\ ByHand(Gone) /\ UNCHANGED <<when, starts>>

-----------------------------------------------------------------------------
Init ==
  /\ job = [state |-> "scheduled", completed |-> 0, ran |-> FALSE, occurrence |-> 1,
            runClaim |-> NoClaim, fireClaim |-> NoClaim]
  /\ when = "before"
  /\ life = [p \in Processes |-> "up"]
  /\ ticking = None
  /\ run = [p \in Processes |-> "none"]
  /\ noted = [p \in Processes |-> None]
  /\ for = [p \in Processes |-> 0]
  /\ flagged = [p \in Processes |-> FALSE]
  /\ toMark = [p \in Processes |-> FALSE]
  /\ starts = 0
  /\ records = [p \in Processes |-> 0]
  /\ upsets = {}

TickStep(p) == Scan(p) \/ Submit(p) \/ SubmitFails(p) \/ Skip(p)

ThreadStep(p) == FireClaim(p) \/ Begin(p) \/ Dispatch(p) \/ RunEnds(p) \/ Mark(p)

ProcessStep(p) ==
  \/ TickStep(p) \/ ThreadStep(p)
  \/ RenewRunClaim(p) \/ RenewFireClaim(p)
  \/ ShutDown(p) \/ MarkInterrupted(p) \/ Exit(p) \/ Die(p)

TimeStep == GoesBy \/ AgeRunClaim \/ AgeFireClaim

Next ==
  \/ \E p \in Processes : ProcessStep(p)
  \/ TimeStep \/ Stall
  \/ Pause \/ Resume \/ Trigger \/ Rearm \/ Remove

Spec == Init /\ [][Next]_vars

(***************************************************************************)
(* Tickers keep ticking, threads run on (every run has a time limit) and   *)
(* time goes by.  Nothing makes a process shut down, die or renew.         *)
(***************************************************************************)
Fairness ==
  /\ \A p \in Processes : WF_vars(TickStep(p)) /\ WF_vars(ThreadStep(p))
  /\ WF_vars(GoesBy) /\ WF_vars(AgeRunClaim) /\ WF_vars(AgeFireClaim)

FairSpec == Spec /\ Fairness

-----------------------------------------------------------------------------
(* Properties.                                                             *)

\* Every variable holds a value of its kind; the dispatches stay in the budget.
Claims == [by : Processes \cup {None}, age : Ages]

TypeOK ==
  /\ job \in [state : {"scheduled", "paused", "completed", "gone"}, completed : 0..Times,
              ran : BOOLEAN, occurrence : 1..2, runClaim : Claims, fireClaim : Claims]
  /\ when \in {"before", "due", "late"}
  /\ life \in [Processes -> {"up", "closing", "dead"}]
  /\ ticking \in Processes \cup {None}
  /\ run \in [Processes -> {"none", "queued", "claimed", "begun", "live", "marking"}]
  /\ noted \in [Processes -> Processes \cup {None}]
  /\ for \in [Processes -> 0..2]
  /\ flagged \in [Processes -> BOOLEAN] /\ toMark \in [Processes -> BOOLEAN]
  /\ starts \in Nat /\ records \in [Processes -> Nat]
  /\ upsets \subseteq Upsets /\ Cardinality(upsets) <= MaxUpsets

(***************************************************************************)
(* An occurrence runs at most `repeat.times' times (claim_dispatch, "fires *)
(* at most repeat.times times instead of infinitely"), whoever dies,       *)
(* triggers or takes over.  A run that finds the record gone when it asks  *)
(* goes on uncounted: the bound holds of a missing record only while       *)
(* nobody has triggered, re-armed or removed the job and no heartbeat      *)
(* stalled.                                                                *)
(***************************************************************************)
Undisturbed == upsets \cap {"stall", "trigger", "rearm", "remove"} = {}

AtMostTimes == Present \/ Undisturbed => starts <= Times

(***************************************************************************)
(* The outcome of a run is recorded once, be it by its thread or by the    *)
(* shutdown that interrupts it (_finish_interrupted_run).                  *)
(***************************************************************************)
RecordedOnce == \A p \in Processes : records[p] <= 1

(***************************************************************************)
(* No run records an outcome for another occurrence than its own: one that *)
(* comes back after the job was re-armed is turned away (rearm_oneshot).   *)
(***************************************************************************)
RecordsItsOccurrence ==
  [][\A p \in Processes : records'[p] > records[p] => for[p] = job.occurrence]_vars

(***************************************************************************)
(* "A live run must never have its job record deleted underneath it"       *)
(* (_oneshot_dispatch_limit_reached), as long as nobody triggers, re-arms  *)
(* or removes the job and no heartbeat stalls: whatever submissions fail   *)
(* and processes die, the due scan of none retires it.                     *)
(***************************************************************************)
LiveRunKeepsRecord == Undisturbed => \A p \in Processes : AtWork(p) => Present

(***************************************************************************)
(* A due one-shot is run, or retired with a diagnostic, in the end: a      *)
(* submission that fails leaves it to the next healthy tick                *)
(* (_clear_run_claim_best_effort), and a trigger does not get in the way.  *)
(* A process that dies, closes or stalls, a pause or re-arming strands it  *)
(* in one way only: past its grace window with a claim on its record.      *)
(***************************************************************************)
Stranded ==
  /\ upsets \cap {"death", "shutdown", "stall", "pause", "rearm"} # {}
  /\ when = "late" /\ ~Expired

DueIsSettled ==
  job.state = "scheduled" /\ when # "before"
    ~> job.state # "scheduled" \/ Stranded \/ \A p \in Processes : life[p] # "up"
=============================================================================
