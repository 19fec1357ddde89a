------------------------------ MODULE CronFires ------------------------------
(***************************************************************************)
(* The fires of one recurring cron job: the durable claim that lets one    *)
(* process at a time run it (cron/jobs.py), the in-flight guard that lets  *)
(* one thread of a process run it, and the run itself, which renews the    *)
(* claim, delivers under the job's fence and records its outcome           *)
(* (cron/scheduler.py, tools/cronjob_tools.py).                            *)
(*                                                                         *)
(* A fire is one attempt to run the job; its claim is named after it, since*)
(* every acquisition mints its own token.  Runs are in-process ones: the   *)
(* hand-off to a worker is CronExecutions.  The job is neither edited nor  *)
(* removed meanwhile, shutdown marks no run, and the store and the ledger  *)
(* can be read and written.  Whoever waits 30 s for the fence gives up:    *)
(* its failing step is enabled for as long as the fence is held.           *)
(***************************************************************************)
EXTENDS Integers, FiniteSets

CONSTANTS
    Processes,  \* processes that share the job store
    Ticked,     \* fires of the built-in ticker
    Fired,      \* fires of a provider: webhook, dashboard, API
    Manual,     \* fires of the cronjob tool
    Crowded,    \* the manual ones that find the background pool full
    Timely,     \* whether a claim outlives its TTL only when nobody renews it
    Finite,     \* whether the job has a repeat budget
    None

Fires == Ticked \cup Fired \cup Manual

ASSUME FiresAssumption ==
    /\ Ticked \cap Fired = {} /\ Ticked \cap Manual = {} /\ Fired \cap Manual = {}
    /\ Crowded \subseteq Manual
    /\ Timely \in BOOLEAN /\ Finite \in BOOLEAN
    /\ None \notin Fires \cup Processes

VARIABLES
    claim,      \* the job's fire_claim: the fire that minted its token, or None
    fresh,      \* whether the claim is younger than its TTL
    fence,      \* the fire that holds the job's fence across a delivery
    latest,     \* the fire whose execution row is the job's latest
    stage,      \* where each fire stands
    at,         \* the process of each fire
    token,      \* fire_claim.by in the job snapshot each fire runs with
    lost,       \* the lost_ownership event of each run
    cancelled,  \* the cancel event of each run's transport
    result,     \* what each run recorded
    guard,      \* _running_job_ids of each process: the fire registered in it
    before,     \* the latest row when it registered
    aged,       \* whether its registration is older than its allowance
    marking     \* the processes whose sweep has a stale release to record

store == <<claim, fresh>>
runs  == <<stage, at, token, lost, cancelled, result>>
local == <<guard, before, aged, marking>>
vars  == <<store, fence, latest, runs, local>>

UnderWay == {"running", "ran", "saved", "delivering", "delivered", "failing"}

\* The agent works for the job, or its answer is being sent.
Live(r) == stage[r] \in {"running", "delivering"}

----------------------------------------------------------------------------
(* The claim and the fence (cron/jobs.py). *)

FenceFree == fence = None

\* Mutant of Available: a claim shields nothing.
AvailableAnyway == fence = None

\* claim_job_for_fire succeeds: the fence is free and no claim is fresh.
Available == FenceFree /\ (claim = None \/ ~fresh)

Acquire(r) == claim' = r /\ fresh' = TRUE

\* Mutant of Owns: any claim will do.
OwnsAny(r) == claim # None

Owns(r) == claim = token[r]

\* heartbeat_fire_claim of fire r: False when the fence cannot be had in 30 s.
Renews(r) == FenceFree /\ Owns(r)

\* mark_job_run: without an expected owner it clears whatever claim there is.
MayMark(r) == FenceFree /\ (token[r] = None \/ Owns(r))
ClearClaim == claim' = None /\ fresh' = FALSE

\* The TTL of 300 s passes.
Beating(r) == stage[r] \in UnderWay /\ token[r] # None /\ ~lost[r]

Expire ==
    /\ claim # None /\ fresh
    /\ Timely => ~Beating(claim)
    /\ fresh' = FALSE
    /\ UNCHANGED <<claim, fence, latest, runs, local>>

----------------------------------------------------------------------------
(* The three ways to fire. *)

\* try_register_running_job; before' is what the row of this claim is told by.
Register(p, r) ==
    /\ guard[p] = None
    /\ guard' = [guard EXCEPT ![p] = r]
    /\ before' = [before EXCEPT ![p] = latest]
    /\ aged' = [aged EXCEPT ![p] = FALSE]
    /\ UNCHANGED marking

\* A tick dispatches the due job: registered, row created, submitted.
Submit(p, r) ==
    /\ r \in Ticked /\ stage[r] = "idle"
    /\ p \notin marking
    /\ Register(p, r)
    /\ latest' = r
    /\ stage' = [stage EXCEPT ![r] = "queued"]
    /\ at' = [at EXCEPT ![r] = p]
    /\ UNCHANGED <<store, fence, token, lost, cancelled, result>>

\* claim_fire creates its row before it tries to claim.
FireRow(p, r) ==
    /\ r \in Fired /\ stage[r] = "idle"
    /\ latest' = r
    /\ stage' = [stage EXCEPT ![r] = "queued"]
    /\ at' = [at EXCEPT ![r] = p]
    /\ UNCHANGED <<store, fence, token, lost, cancelled, result, local>>

\* The worker (or claim_fire) acquires the claim and goes on to run_one_job.
ClaimQueued(r) ==
    /\ stage[r] = "queued"
    /\ Available
    /\ Acquire(r)
    /\ token' = [token EXCEPT ![r] = r]
    /\ stage' = [stage EXCEPT ![r] = "held"]
    /\ UNCHANGED <<fence, latest, at, lost, cancelled, result, local>>

\* "Fire claim lost; execution was not started."
ClaimLost(r) ==
    /\ stage[r] = "queued"
    /\ ~Available
    /\ stage' = [stage EXCEPT ![r] = "closing"]
    /\ result' = [result EXCEPT ![r] = "unstarted"]
    /\ UNCHANGED <<store, fence, latest, at, token, lost, cancelled, local>>

\* A manual run claims first.  With the background pool full, the run goes on
\* with the job as it was read before the claim; that path has looked whether
\* the job is in flight.
ClaimManual(p, r) ==
    /\ r \in Manual /\ stage[r] = "idle"
    /\ r \in Crowded => guard[p] = None
    /\ Available
    /\ Acquire(r)
    /\ token' = [token EXCEPT ![r] = IF r \in Crowded THEN claim ELSE r]
    /\ stage' = [stage EXCEPT ![r] = "claimed"]
    /\ at' = [at EXCEPT ![r] = p]
    /\ UNCHANGED <<fence, latest, lost, cancelled, result, local>>

\* Then it registers, and run_one_job creates its row.
RegisterManual(r) ==
    /\ stage[r] = "claimed"
    /\ Register(at[r], r)
    /\ latest' = r
    /\ stage' = [stage EXCEPT ![r] = "held"]
    /\ UNCHANGED <<store, fence, at, token, lost, cancelled, result>>

\* _ALREADY_RUNNING_ERROR; the claim stays until its TTL.
AlreadyRunning(r) ==
    /\ stage[r] = "claimed"
    /\ guard[at[r]] # None
    /\ stage' = [stage EXCEPT ![r] = "done"]
    /\ result' = [result EXCEPT ![r] = "refused"]
    /\ UNCHANGED <<store, fence, latest, at, token, lost, cancelled, local>>

----------------------------------------------------------------------------
(* The run (cron/scheduler.py, run_one_job). *)

\* The run closes its execution row with outcome c.
CloseRow(r, c) ==
    /\ stage' = [stage EXCEPT ![r] = "closing"]
    /\ result' = [result EXCEPT ![r] = c]

\* Mutant of MayBegin: the claim taken earlier is not validated.
MayBeginUnchecked(r) == TRUE

\* The initial heartbeat validates the claim; a job without one has none to
\* validate.
MayBegin(r) == token[r] = None \/ Renews(r)

Begin(r) ==
    /\ stage[r] = "held"
    /\ IF MayBegin(r)
       THEN /\ stage' = [stage EXCEPT ![r] = "running"]
            /\ fresh' = (fresh \/ token[r] # None)
            /\ UNCHANGED result
       ELSE CloseRow(r, "unstarted") /\ UNCHANGED fresh
    /\ UNCHANGED <<claim, fence, latest, at, token, lost, cancelled, local>>

\* The heartbeat thread renews the claim, or finds it lost: another fire has
\* it, or the fence could not be had.
Heartbeat(r) ==
    /\ Beating(r)
    /\ IF Renews(r) THEN fresh' = TRUE /\ UNCHANGED lost
                    ELSE lost' = [lost EXCEPT ![r] = TRUE] /\ UNCHANGED fresh
    /\ UNCHANGED <<claim, fence, latest, stage, at, token, cancelled, result, local>>

\* The dashboard drains and cancels the run it started.
Cancel(r) ==
    /\ r \in Fired /\ stage[r] \in UnderWay
    /\ cancelled' = [cancelled EXCEPT ![r] = TRUE]
    /\ UNCHANGED <<store, fence, latest, stage, at, token, lost, result, local>>

\* _FireOwnership.lost: either event is set, or the claim is gone.
Lost(r) == lost[r] \/ cancelled[r] \/ (token[r] # None /\ ~Renews(r))

\* _record_fire_ownership_lost
RecordLost(r) ==
    IF token[r] # None /\ Renews(r)
    THEN ClearClaim /\ CloseRow(r, "interrupted")
    ELSE UNCHANGED store /\ CloseRow(r, "discarded")

\* A check of the claim between two parts of a run.
CheckedStep(r, from, to) ==
    /\ stage[r] = from
    /\ IF Lost(r)
       THEN RecordLost(r)
       ELSE /\ stage' = [stage EXCEPT ![r] = to]
            /\ fresh' = (fresh \/ token[r] # None)
            /\ UNCHANGED <<claim, result>>
    /\ UNCHANGED <<fence, latest, at, token, lost, cancelled, local>>

\* run_job returns.
RunEnds(r) == CheckedStep(r, "running", "ran")

\* run_job raises, at the latest when it polls a set event; unless the claim is
\* lost a notice of the failure goes out, outside the fence.
RunRaises(r) ==
    /\ stage[r] = "running"
    /\ stage' = [stage EXCEPT ![r] = "failing"]
    /\ fresh' = (fresh \/ (token[r] # None /\ ~Lost(r)))
    /\ UNCHANGED <<claim, fence, latest, at, token, lost, cancelled, result, local>>

\* The failure is recorded if the claim is still owned.
RecordFailure(r) ==
    /\ stage[r] = "failing"
    /\ IF MayMark(r) THEN ClearClaim ELSE UNCHANGED store
    /\ CloseRow(r, "failed")
    /\ UNCHANGED <<fence, latest, at, token, lost, cancelled, local>>

\* The output is saved inside the fence; an answer that needs no delivery skips
\* the rest.
Save(r) ==
    /\ stage[r] = "ran"
    /\ IF token[r] = None \/ Renews(r)
       THEN /\ \E next \in {"saved", "delivered"} : stage' = [stage EXCEPT ![r] = next]
            /\ UNCHANGED <<store, result>>
       ELSE RecordLost(r)
    /\ UNCHANGED <<fence, latest, at, token, lost, cancelled, local>>

\* The claim is checked under the fence, which is then held while the answer is
\* sent.
Deliver(r) ==
    /\ stage[r] = "saved"
    /\ IF Lost(r)
       THEN RecordLost(r) /\ UNCHANGED fence
       ELSE /\ stage' = [stage EXCEPT ![r] = "delivering"]
            /\ fence' = IF token[r] = None THEN fence ELSE r
            /\ fresh' = (fresh \/ token[r] # None)
            /\ UNCHANGED <<claim, result>>
    /\ UNCHANGED <<latest, at, token, lost, cancelled, local>>

FenceAfter(r) == IF fence = r THEN None ELSE fence

Delivered(r) ==
    /\ stage[r] = "delivering"
    /\ fence' = FenceAfter(r)
    /\ stage' = [stage EXCEPT ![r] = "delivered"]
    /\ UNCHANGED <<store, latest, at, token, lost, cancelled, result, local>>

\* mark_job_run and finish_execution, fenced by the owner.
Record(r) ==
    /\ stage[r] = "delivered"
    /\ IF Lost(r)
       THEN RecordLost(r)
       ELSE IF MayMark(r) THEN ClearClaim /\ CloseRow(r, "ok")
                          ELSE UNCHANGED store /\ CloseRow(r, "discarded")
    /\ UNCHANGED <<fence, latest, at, token, lost, cancelled, local>>

\* Mutant of Released: an unstarted run forgets its registration.
ReleasedIfRun(r) ==
    IF r \in Fired \/ result[r] = "unstarted" THEN guard ELSE [guard EXCEPT ![at[r]] = None]

\* release_running_job drops the job id, whoever registered it.
Released(r) == IF r \in Fired THEN guard ELSE [guard EXCEPT ![at[r]] = None]

Finish(r) ==
    /\ stage[r] = "closing"
    /\ guard' = Released(r)
    /\ stage' = [stage EXCEPT ![r] = "done"]
    /\ UNCHANGED <<store, fence, latest, at, token, lost, cancelled, result,
                   before, aged, marking>>

----------------------------------------------------------------------------
(* The in-flight guard's sweep, crashes, and time. *)

\* The allowance (two intervals, at least 30 min) passes.
Age(p) ==
    /\ guard[p] # None /\ ~aged[p]
    /\ aged' = [aged EXCEPT ![p] = TRUE]
    /\ UNCHANGED <<store, fence, latest, runs, guard, before, marking>>

RowClosed(r) == r # None /\ stage[r] \in {"closing", "done", "dead"}

\* Mutant of NoLiveFuture: futures are not looked at.
NoLiveFutureAtAll(p) == TRUE

\* A manual run has no future, its entry is _FUTURE_PENDING for ever.
NoLiveFuture(p) == guard[p] \in Manual \/ stage[guard[p]] \in {"done", "dead"}

\* The job's latest row is newer than the registration, and terminal.
LedgerTerminal(p) == latest # before[p] /\ RowClosed(latest)

\* A tick force-releases a registration; by age it will record a failed run.
SweepRelease(p) ==
    /\ guard[p] # None /\ p \notin marking
    /\ NoLiveFuture(p)
    /\ LedgerTerminal(p) \/ aged[p]
    /\ guard' = [guard EXCEPT ![p] = None]
    /\ marking' = IF LedgerTerminal(p) \/ Finite THEN marking ELSE marking \cup {p}
    /\ UNCHANGED <<store, fence, latest, runs, before, aged>>

\* _record_stale_release: mark_job_run without an expected owner.
SweepMark(p) ==
    /\ p \in marking
    /\ IF FenceFree THEN ClearClaim ELSE UNCHANGED store
    /\ marking' = marking \ {p}
    /\ UNCHANGED <<fence, latest, runs, guard, before, aged>>

\* A process ends; its runs die, and the system drops its locks.
Crash(p) ==
    /\ \E r \in Fires : at[r] = p /\ stage[r] \notin {"idle", "done", "dead"}
    /\ stage' = [r \in Fires |->
                    IF at[r] = p /\ stage[r] # "done" THEN "dead" ELSE stage[r]]
    /\ fence' = IF fence # None /\ at[fence] = p THEN None ELSE fence
    /\ guard' = [guard EXCEPT ![p] = None]
    /\ marking' = marking \ {p}
    /\ UNCHANGED <<store, latest, at, token, lost, cancelled, result, before, aged>>

----------------------------------------------------------------------------
Init ==
    /\ claim = None /\ fresh = FALSE /\ fence = None /\ latest = None
    /\ stage = [r \in Fires |-> "idle"]
    /\ at = [r \in Fires |-> None]
    /\ token = [r \in Fires |-> None]
    /\ lost = [r \in Fires |-> FALSE]
    /\ cancelled = [r \in Fires |-> FALSE]
    /\ result = [r \in Fires |-> "none"]
    /\ guard = [p \in Processes |-> None]
    /\ before = [p \in Processes |-> None]
    /\ aged = [p \in Processes |-> FALSE]
    /\ marking = {}

Start(p, r) == Submit(p, r) \/ FireRow(p, r) \/ ClaimManual(p, r)

RunStep(r) ==
    \/ ClaimQueued(r) \/ ClaimLost(r) \/ RegisterManual(r) \/ AlreadyRunning(r)
    \/ Begin(r) \/ RunEnds(r) \/ RunRaises(r) \/ RecordFailure(r) \/ Save(r)
    \/ Deliver(r) \/ Delivered(r) \/ Record(r) \/ Finish(r)

SweepStep(p) == SweepRelease(p) \/ SweepMark(p)

Next ==
    \/ \E r \in Fires :
          RunStep(r) \/ Heartbeat(r) \/ Cancel(r) \/ \E p \in Processes : Start(p, r)
    \/ \E p \in Processes : Age(p) \/ SweepStep(p) \/ Crash(p)
    \/ Expire

Spec == Init /\ [][Next]_vars

\* The threads of a run take their next step; no tick is needed.
FairSpec == Spec /\ \A r \in Fires : WF_vars(RunStep(r))

----------------------------------------------------------------------------
(* Properties. *)

Stages == {"idle", "queued", "claimed", "held", "running", "ran", "saved", "delivering",
           "delivered", "failing", "closing", "done", "dead"}

\* The variables keep their types, and the fence is held only by a delivery.
TypeOK ==
    /\ claim \in Fires \cup {None} /\ fresh \in BOOLEAN
    /\ fence \in Fires \cup {None} /\ latest \in Fires \cup {None}
    /\ stage \in [Fires -> Stages]
    /\ at \in [Fires -> Processes \cup {None}]
    /\ token \in [Fires -> Fires \cup {None}]
    /\ lost \in [Fires -> BOOLEAN] /\ cancelled \in [Fires -> BOOLEAN]
    /\ result \in [Fires -> {"none", "refused", "unstarted", "ok", "failed", "interrupted", "discarded"}]
    /\ guard \in [Processes -> Fires \cup {None}]
    /\ before \in [Processes -> Fires \cup {None}]
    /\ aged \in [Processes -> BOOLEAN]
    /\ marking \subseteq Processes
    /\ fence # None => stage[fence] = "delivering"

\* A run sends its answer only while the job's claim is its own, however late
\* it is and whoever else thinks it expired (_save_compose_deliver: both side
\* effects run under the fire-claim fence).
DeliveryIsFenced ==
    \A r \in Fires : stage[r] = "delivering" /\ token[r] # None => claim = token[r]

\* Of all the processes that share the store one at a time runs the job, as long
\* as the claims of live runs are renewed in time.
OneRunAtATime == \A r, s \in Fires : Live(r) /\ Live(s) => r = s

\* A run that has not lost its claim still has it: no other fire, no late
\* bookkeeping of another run and no sweep took it away.
LiveRunKeepsClaim == \A r \in Fires : Beating(r) => claim = r

\* One thread of a process at a time runs the job for the ticker, even when its
\* claim expires under it ("This is the single dedupe owner", scheduler.py:590),
\* but for a manual run there: a sweep may release it while it is live, and it
\* then drops the registration of another.
OneRunPerProcess ==
    \A r, s \in Ticked :
        Live(r) /\ Live(s) /\ at[r] = at[s] =>
            \/ r = s
            \/ \E x \in Manual : at[x] = at[r] /\ stage[x] = "done" /\ result[x] # "refused"

\* A registration is given back by the run itself: no later fire of the job is
\* turned away as "already running" for ever.
GuardIsReleased ==
    \A p \in Processes, r \in Fires : guard[p] = r ~> guard[p] # r
=============================================================================
