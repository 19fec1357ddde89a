----------------------------- MODULE KanbanBoard -----------------------------
(***************************************************************************)
(* The kanban board (mason_cli/kanban_db.py) and its dispatcher            *)
(* (mason_cli/kanban_db_dispatch.py).  Tasks wait for their parents, are   *)
(* claimed, and each claim opens a run with a worker process.  Sweeps of   *)
(* the dispatcher take back what died, stalled or overran; people reclaim, *)
(* unblock, complete, archive and reopen tasks from other processes.       *)
(*                                                                         *)
(* A run is named by its number and so is the process spawned for it.  A   *)
(* claim lock names the claiming process, not the claim: all claims of one *)
(* dispatcher bear the same lock.  Every SQLite transaction is one step.   *)
(***************************************************************************)
EXTENDS Integers, FiniteSets

CONSTANTS
  Tasks,          \* the cards of the board
  Parents,        \* Parents[t]: the tasks t depends on
  Reviewing,      \* tasks handed over for review when the model starts
  Hand,           \* the claimer of `mason kanban claim`
  None,           \* NULL
  MaxRuns,        \* bound on the runs of an instance
  FailureLimit,   \* kanban.failure_limit, what the dispatcher goes by
  DefaultLimit,   \* DEFAULT_FAILURE_LIMIT, what everything else goes by
  SystemicLimit,  \* so many crashes of one sweep with one error trip the breaker (3)
  ViolationLimit, \* _PROTOCOL_VIOLATION_FAILURE_LIMIT
  RecurrenceLimit,\* BLOCK_RECURRENCE_LIMIT
  MaxUpsets       \* bound on upsets: what people do, signals a worker outlives,
                  \* dispatchers that die

Runs == 1..MaxRuns
Dispatchers == 1..(MaxUpsets + 1)

ASSUME BoardAssumption ==
  /\ IsFiniteSet(Tasks)
  /\ Parents \in [Tasks -> SUBSET Tasks]
  /\ Reviewing \subseteq Tasks
  /\ None \notin Int \cup Tasks \cup {Hand} /\ Hand \notin Int
  /\ MaxRuns \in Nat /\ MaxUpsets \in Nat
  /\ FailureLimit \in Nat \ {0} /\ DefaultLimit \in Nat \ {0}
  /\ SystemicLimit \in Nat \ {0} /\ ViolationLimit \in Nat \ {0}
  /\ RecurrenceLimit \in Nat \ {0}

VARIABLES
  task,    \* rows of `tasks`, with what their event log says of them
  run,     \* rows of `task_runs`, with the state of the process
  next,    \* the next run number
  tick,    \* the dispatcher tick under the board's lock
  me,      \* the dispatcher that lives, each one's successor being the next
  hand,    \* an operator's reclaim between its read and its write
  upsets,  \* how many upsets there were
  handed,  \* history: tasks whose work awaits review
  forced,  \* history: tasks a person gave back to a lane since they were given up
  late     \* history: tasks to which a failure was booked after they had moved on

vars == <<task, run, next, tick, me, hand, upsets, handed, forced, late>>

\* What a sweep or a person has read of a task.
ReadRows == [task : Tasks, lock : Dispatchers \cup {Hand, None}, run : Runs \cup {None}]
LaneRows == [task : Tasks, lane : {"ready", "review"}]
Row(t, l, r) == [task |-> t, lock |-> l, run |-> r]
LaneRow(t, lane) == [task |-> t, lane |-> lane]
NoRow == Row(None, None, None)
Snapshot(t) == Row(t, task[t].lock, task[t].pid)
Idle == [by |-> None, at |-> "idle", rows |-> {}, row |-> NoRow, survived |-> FALSE,
         alike |-> {}]

-----------------------------------------------------------------------------
(* The rows.                                                               *)

Status == {"todo", "ready", "review", "running", "blocked", "triage", "done", "archived"}
Lanes == {"ready", "review"}
Exits == {"clean", "limited", "failed"}
Phases == {"idle", "stale", "release", "account", "overdue", "timeout", "charge",
           "lanes", "launch", "record"}
Outcomes == {"open", "completed", "blocked", "review_requested", "changes_requested",
             "reclaimed", "crashed", "violation", "rate_limited", "timed_out",
             "spawn_failed", "gave_up"}

Satisfied(s) == s \in {"done", "archived"}
ParentsDone(t) == \A p \in Parents[t] : Satisfied(task[p].status)
Live(r) == r \in Runs /\ run[r].worker = "live"
Open(r) == r \in Runs /\ run[r].outcome = "open"

\* A row whose claim is given up.
Free(k) == [k EXCEPT !.lock = None, !.expired = FALSE, !.pid = None]

\* Mutant of Ended: a run whose process is not on record is forgotten.
EndedIfRecorded(t, outcome) ==
  IF Open(task[t].cur) /\ task[t].pid # None
  THEN [run EXCEPT ![task[t].cur].outcome = outcome] ELSE run

\* _end_run: closes the run a row points at, unless it is closed.
Ended(t, outcome) ==
  IF Open(task[t].cur) THEN [run EXCEPT ![task[t].cur].outcome = outcome] ELSE run

\* Mutant of RetryStatus: the status of the row, which is "running".
RetryStatusOfRow(t) == task[t].status

\* Mutant of RetryStatus: every retry is an implementation run.
RetryReady(t) == "ready"

\* The lane an interrupted run goes back to.
RetryStatus(t) == IF task[t].cur \in Runs THEN run[task[t].cur].source ELSE "ready"

\* A row that leaves its run for status s; lane is what the event log says of
\* where it goes on.
Left(t, s, lane) == [Free(task[t]) EXCEPT !.status = s, !.cur = None, !.resume = lane]

\* Processes after a signal was sent to the one of run r; some survive it.
Signalled(r, survives) ==
  IF Live(r) /\ ~survives THEN [run EXCEPT ![r].worker = "failed"] ELSE run

\* Mutant of Promoted: a tripped breaker does not hold a task back.
PromotedAnyway(k, limit) ==
  [t \in Tasks |->
     IF /\ \A p \in Parents[t] : Satisfied(k[p].status)
        /\ k[t].status = "todo" \/ (k[t].status = "blocked" /\ ~k[t].sticky)
     THEN [k[t] EXCEPT !.status = k[t].resume]
     ELSE k[t]]

\* recompute_ready over the rows k: a tripped breaker holds a task back, as far
\* as the limit the caller passes goes.
Promoted(k, limit) ==
  [t \in Tasks |->
     IF /\ \A p \in Parents[t] : Satisfied(k[p].status)
        /\ \/ k[t].status = "todo"
           \/ /\ k[t].status = "blocked" /\ ~k[t].sticky
              /\ k[t].failures < limit
     THEN [k[t] EXCEPT !.status = k[t].resume]
     ELSE k[t]]

\* The descendants of a task, through task_links.
Children(S) == {c \in Tasks : Parents[c] \cap S # {}}
Descendants(t) ==
  {c \in Tasks : \A S \in SUBSET Tasks : Children(S \cup {t}) \subseteq S => c \in S}

\* _would_cycle refuses a link that would close a cycle.
ASSUME LinksAssumption == \A t \in Tasks : t \notin Descendants(t)

\* The trailing protocol violations of a task; quota walls do not count.
Streak(t) ==
  LET closed == {r \in Runs : run[r].of = t /\ run[r].outcome \notin {"open", "rate_limited"}}
  IN  Cardinality({r \in closed : \A q \in closed : q >= r => run[q].outcome = "violation"})

-----------------------------------------------------------------------------
(* Claims.                                                                 *)

\* _claim_and_open_run: the compare-and-swap of a lane's row and its new run.
OpensRun(t, lane, by) ==
  /\ task' = [task EXCEPT ![t].status = "running", ![t].lock = by, ![t].expired = FALSE,
                          ![t].cur = next]
  /\ run' = [Ended(t, "reclaimed") EXCEPT
               ![next] = [of |-> t, source |-> lane, outcome |-> "open", by |-> by,
                          worker |-> "none"]]
  /\ next' = next + 1

\* A claim that finds an unfinished parent sends the task back to wait.
Demoted(t, lane) ==
  /\ task' = IF task[t].status = lane /\ (lane = "review" => task[t].lock = None)
             THEN [task EXCEPT ![t].status = "todo",
                               ![t].resume = IF lane = "review" THEN "review" ELSE @]
             ELSE task
  /\ UNCHANGED <<run, next>>

\* A claim that loses the swap; claim_task has closed a leaked run by then.
LostSwap(t, lane) ==
  /\ run' = IF lane = "ready" /\ task[t].status = "ready" THEN Ended(t, "reclaimed") ELSE run
  /\ UNCHANGED <<task, next>>

Claimable(t, lane) == ParentsDone(t) /\ task[t].status = lane /\ task[t].lock = None

\* claim_task and claim_review_task.
Claim(t, lane, by) ==
  /\ next \in Runs
  /\ \/ Claimable(t, lane) /\ OpensRun(t, lane, by)
     \/ ~ParentsDone(t) /\ Demoted(t, lane)
     \/ ParentsDone(t) /\ ~Claimable(t, lane) /\ LostSwap(t, lane)

-----------------------------------------------------------------------------
(* The failure counter and its breaker.                                    *)

\* Mutant of Chargeable: a task is blocked whatever became of it.
ChargeableAnyway(t) == TRUE

\* A breaker trips only what can still run.
Chargeable(t) == task[t].status \in {"running", "ready", "review"}

\* _record_task_failure for a task whose claim was given up before: crashes
\* and timeouts, against the default limit.
Charge(t, force) ==
  LET trips == force \/ task[t].failures + 1 >= DefaultLimit
      hits == trips /\ Chargeable(t)
  IN  /\ task' = [task EXCEPT
           ![t].failures = IF hits \/ ~trips THEN @ + 1 ELSE @,
           ![t].status = IF hits THEN "blocked" ELSE @,
           ![t].resume = IF ~trips THEN @
                         ELSE IF task[t].status = "review" THEN "review" ELSE "ready"]
      /\ forced' = IF hits THEN forced \ {t} ELSE forced
      /\ late' = IF trips /\ task[t].status \notin Lanes THEN late \cup {t} ELSE late
      /\ UNCHANGED run

\* _record_task_failure for a claim whose worker could not be started, against
\* the configured limit.
ChargeLaunch(t) ==
  LET trips == task[t].failures + 1 >= FailureLimit
      lane == RetryStatus(t)
      hits == IF trips THEN Chargeable(t) ELSE task[t].status = "running"
      row == IF hits THEN [Free(task[t]) EXCEPT
                             !.failures = @ + 1,
                             !.status = IF trips THEN "blocked" ELSE lane]
                     ELSE task[t]
  IN  /\ task' = [task EXCEPT ![t] = [row EXCEPT !.cur = None, !.resume = lane]]
      /\ run' = Ended(t, IF trips THEN "gave_up" ELSE "spawn_failed")
      /\ forced' = IF hits /\ trips THEN forced \ {t} ELSE forced
      /\ late' = IF task[t].cur # tick.row.run THEN late \cup {t} ELSE late

-----------------------------------------------------------------------------
(* A dispatcher tick: the reclaim phase.                                   *)

Upset == upsets < MaxUpsets /\ upsets' = upsets + 1

At(phase) == tick.by # None /\ tick.at = phase
Turn(phase, rows, alike) ==
  tick' = [tick EXCEPT !.at = phase, !.rows = rows, !.row = NoRow, !.survived = FALSE,
                       !.alike = alike]
Phase(phase, rows) == Turn(phase, rows, {})
Proceed(phase, row) == Turn(phase, tick.rows \ {row}, tick.alike)

\* Mutant of Stale: only claims with a worker on record.
StaleIfRecorded(t) == task[t].status = "running" /\ task[t].expired /\ task[t].pid # None

Stale(t) == task[t].status = "running" /\ task[t].expired

\* dispatch_once takes the board's lock; release_stale_claims reads.
TickStart ==
  /\ tick.by = None
  /\ tick' = [Idle EXCEPT !.by = me, !.at = "stale",
                !.rows = {Snapshot(t) : t \in {t \in Tasks : Stale(t)}}]
  /\ UNCHANGED <<task, run, next, me, hand, upsets, handed, forced, late>>

\* release_stale_claims, a worker that lives: its claim is extended.
ExtendStale(row) ==
  /\ At("stale") /\ row \in tick.rows /\ Live(row.run)
  /\ task' = IF task[row.task].status = "running" /\ task[row.task].lock = row.lock
             THEN [task EXCEPT ![row.task].expired = FALSE] ELSE task
  /\ Proceed("stale", row)
  /\ UNCHANGED <<run, next, me, hand, upsets, handed, forced, late>>

\* release_stale_claims, a worker that is gone or whose last heartbeat is old:
\* it is signalled, and up to ten seconds pass.
KillStale(row, survives) ==
  /\ At("stale") /\ row \in tick.rows
  /\ IF survives THEN Live(row.run) /\ Upset ELSE UNCHANGED upsets
  /\ run' = Signalled(row.run, survives)
  /\ tick' = [tick EXCEPT !.at = "release", !.row = row, !.survived = survives]
  /\ UNCHANGED <<task, next, me, hand, handed, forced, late>>

StillClaimed(row) == task[row.task].status = "running" /\ task[row.task].lock = row.lock

\* The stale claim is released, unless it is no longer stale.
ReleaseStale(row) ==
  LET t == row.task
  IN  IF StillClaimed(row) /\ Stale(t)
      THEN /\ task' = [task EXCEPT ![t] = Left(t, RetryStatus(t), RetryStatus(t))]
           /\ run' = Ended(t, "reclaimed")
      ELSE UNCHANGED <<task, run>>

\* Mutant of DeferReclaim: the claim is released all the same.
DeferByRelease(row) == ReleaseStale(row)

\* The claim of a worker that outlived the signal is kept for a while.
DeferReclaim(row) ==
  /\ task' = IF StillClaimed(row) THEN [task EXCEPT ![row.task].expired = FALSE] ELSE task
  /\ UNCHANGED run

AfterStaleKill ==
  /\ At("release")
  /\ IF tick.survived THEN DeferReclaim(tick.row) ELSE ReleaseStale(tick.row)
  /\ Proceed("stale", tick.row)
  /\ UNCHANGED <<next, me, hand, upsets, handed, forced, late>>

\* How a dead worker is booked: the exit status is known to its parent only.
Booked(r) ==
  IF run[r].by # tick.by THEN "crashed"
  ELSE CASE run[r].worker = "clean" -> "violation"
         [] run[r].worker = "limited" -> "rate_limited"
         [] OTHER -> "crashed"

\* detect_crashed_workers, one transaction over all dead workers.  Alike are the
\* crashed ones whose error enough others of them share.
SweepCrashed(Alike) ==
  LET Dead == {t \in Tasks : task[t].status = "running" /\ task[t].pid # None
                             /\ ~Live(task[t].pid)}
  IN  /\ At("stale") /\ tick.rows = {}
      /\ Alike \subseteq {t \in Dead : Booked(task[t].pid) = "crashed"}
      /\ Alike = {} \/ Cardinality(Alike) >= SystemicLimit
      /\ task' = [t \in Tasks |->
                    IF t \notin Dead THEN task[t]
                    ELSE Left(t, RetryStatus(t),
                              IF Booked(task[t].pid) = "violation" THEN task[t].resume
                                                                   ELSE RetryStatus(t))]
      /\ run' = [r \in Runs |->
                   IF \E t \in Dead : task[t].cur = r /\ Open(r)
                   THEN [run[r] EXCEPT !.outcome = Booked(task[run[r].of].pid)]
                   ELSE run[r]]
      /\ Turn("account", {Snapshot(t) : t \in {t \in Dead : Booked(task[t].pid) # "rate_limited"}},
              Alike)
      /\ UNCHANGED <<next, me, hand, upsets, handed, forced, late>>

\* _account_crashes, one task: a violation has a budget of its own, and an error
\* many share trips the breaker at once.
AccountCrash(row) ==
  /\ At("account") /\ row \in tick.rows
  /\ IF Booked(row.run) = "violation" /\ Streak(row.task) < ViolationLimit
     THEN UNCHANGED <<task, run, forced, late>>
     ELSE Charge(row.task, Booked(row.run) = "violation" \/ row.task \in tick.alike)
  /\ Proceed("account", row)
  /\ UNCHANGED <<next, me, hand, upsets, handed>>

\* enforce_max_runtime reads the workers that overran.
FindOverdue(Overdue) ==
  /\ At("account") /\ tick.rows = {}
  /\ \A t \in Overdue : task[t].status = "running" /\ task[t].pid # None
  /\ Phase("overdue", {Snapshot(t) : t \in Overdue})
  /\ UNCHANGED <<task, run, next, me, hand, upsets, handed, forced, late>>

KillOverdue(row, survives) ==
  /\ At("overdue") /\ row \in tick.rows
  /\ IF survives THEN Live(row.run) /\ Upset ELSE UNCHANGED upsets
  /\ run' = Signalled(row.run, survives)
  /\ tick' = [tick EXCEPT !.at = "timeout", !.row = row, !.survived = survives]
  /\ UNCHANGED <<task, next, me, hand, handed, forced, late>>

\* The task of an overdue worker is taken from it, dead or not.
ReleaseOverdue ==
  LET t == tick.row.task
  IN  /\ At("timeout")
      /\ IF StillClaimed(tick.row) /\ task[t].pid = tick.row.run
         THEN /\ task' = [task EXCEPT ![t] = Left(t, RetryStatus(t), RetryStatus(t))]
              /\ run' = Ended(t, "timed_out")
              /\ tick' = [tick EXCEPT !.at = "charge"]
         ELSE /\ Proceed("overdue", tick.row)
              /\ UNCHANGED <<task, run>>
      /\ UNCHANGED <<next, me, hand, upsets, handed, forced, late>>

ChargeOverdue ==
  /\ At("charge")
  /\ Charge(tick.row.task, FALSE)
  /\ Proceed("overdue", tick.row)
  /\ UNCHANGED <<next, me, hand, upsets, handed>>

-----------------------------------------------------------------------------
(* A dispatcher tick: promotion and launches.                              *)

\* Mutant of Waiting: the review lane is forgotten.
WaitingReady(k) == k.status = "ready" /\ k.lock = None

\* _lane_rows.
Waiting(k) == k.status \in Lanes /\ k.lock = None

\* recompute_ready under the configured limit, then the rows of both lanes.
Promote ==
  /\ At("overdue") /\ tick.rows = {}
  /\ task' = Promoted(task, FailureLimit)
  /\ Phase("lanes", {LaneRow(t, task'[t].status) : t \in {t \in Tasks : Waiting(task'[t])}})
  /\ UNCHANGED <<run, next, me, hand, upsets, handed, forced, late>>

\* _dispatch_lane_task claims; a claim that fails consumes the row.
ClaimRow(row) ==
  /\ At("lanes") /\ row \in tick.rows
  /\ Claim(row.task, row.lane, tick.by)
  /\ IF next' = next
     THEN Proceed("lanes", row)
     ELSE tick' = [tick EXCEPT !.at = "launch", !.row = Row(row.task, None, next),
                               !.rows = @ \ {row}]
  /\ UNCHANGED <<me, hand, upsets, handed, forced, late>>

\* The worker is started with the number and the lock of its claim.
Launch ==
  /\ At("launch")
  /\ run' = [run EXCEPT ![tick.row.run].worker = "live"]
  /\ tick' = [tick EXCEPT !.at = "record"]
  /\ UNCHANGED <<task, next, me, hand, upsets, handed, forced, late>>

LaunchFails ==
  /\ At("launch")
  /\ ChargeLaunch(tick.row.task)
  /\ Phase("lanes", tick.rows)
  /\ UNCHANGED <<next, me, hand, upsets, handed>>

\* _set_worker_pid: whatever the row has become.
RecordPid ==
  /\ At("record")
  /\ task' = [task EXCEPT ![tick.row.task].pid = tick.row.run]
  /\ Phase("lanes", tick.rows)
  /\ UNCHANGED <<run, next, me, hand, upsets, handed, forced, late>>

TickEnd ==
  /\ At("lanes") /\ (tick.rows = {} \/ next \notin Runs)
  /\ tick' = Idle
  /\ UNCHANGED <<task, run, next, me, hand, upsets, handed, forced, late>>

\* A dispatcher dies in a tick (a death between ticks is one at the start of
\* the next) and is replaced; its workers live on.
Die ==
  /\ Upset /\ tick.by # None
  /\ me' = me + 1
  /\ tick' = Idle
  /\ UNCHANGED <<task, run, next, hand, handed, forced, late>>

-----------------------------------------------------------------------------
(* Time and workers.                                                       *)

Expire(t) ==
  /\ task[t].status = "running" /\ ~task[t].expired
  /\ task' = [task EXCEPT ![t].expired = TRUE]
  /\ UNCHANGED <<run, next, tick, me, hand, upsets, handed, forced, late>>

\* heartbeat_claim goes by the lock alone.
Beat(r) ==
  LET t == run[r].of
  IN  /\ Live(r) /\ task[t].status = "running" /\ task[t].lock = run[r].by /\ task[t].expired
      /\ task' = [task EXCEPT ![t].expired = FALSE]
      /\ UNCHANGED <<run, next, tick, me, hand, upsets, handed, forced, late>>

\* The calls of a worker bear its run: they are refused once it is not current.
Owner(r) == Live(r) /\ task[run[r].of].cur = r

MayComplete(t) == ParentsDone(t) /\ task[t].status \in {"running", "ready", "blocked", "review"}

Completed(t) ==
  Promoted([task EXCEPT ![t] = [Left(t, "done", task[t].resume) EXCEPT
                                  !.blocks = 0, !.failures = 0]],
           DefaultLimit)

WorkerCompletes(r) ==
  LET t == run[r].of
  IN  /\ Owner(r) /\ MayComplete(t)
      /\ task' = Completed(t)
      /\ run' = Ended(t, "completed")
      /\ handed' = handed \ {t}
      /\ UNCHANGED <<next, tick, me, hand, upsets, forced, late>>

\* block_task: a dependency waits in todo, a repeated cause goes to triage.
WorkerBlocks(r, dependency) ==
  LET t == run[r].of
      lane == IF task[t].status = "running" THEN RetryStatus(t) ELSE "ready"
      again == task[t].blocks + 1
  IN  /\ Owner(r) /\ task[t].status \in {"running", "ready"}
      /\ task' = [task EXCEPT ![t] =
           IF dependency THEN [Left(t, "todo", lane) EXCEPT !.blocks = 0]
           ELSE IF again >= RecurrenceLimit THEN [Left(t, "triage", lane) EXCEPT !.blocks = again]
           ELSE [Left(t, "blocked", lane) EXCEPT !.blocks = again, !.sticky = TRUE]]
      /\ run' = Ended(t, "blocked")
      /\ UNCHANGED <<next, tick, me, hand, upsets, handed, forced, late>>

WorkerRequestsReview(r) ==
  LET t == run[r].of
  IN  /\ Owner(r) /\ ParentsDone(t) /\ task[t].status \in {"running", "ready"}
      /\ task' = [task EXCEPT ![t] = Left(t, "review", task[t].resume)]
      /\ run' = Ended(t, "review_requested")
      /\ handed' = handed \cup {t}
      /\ UNCHANGED <<next, tick, me, hand, upsets, forced, late>>

\* request_changes: only from a run claimed for review.
WorkerRequestsChanges(r) ==
  LET t == run[r].of
  IN  /\ Owner(r) /\ task[t].status = "running" /\ run[r].source = "review"
      /\ task' = [task EXCEPT ![t] = Left(t, IF ParentsDone(t) THEN "ready" ELSE "todo", "ready")]
      /\ run' = Ended(t, "changes_requested")
      /\ handed' = handed \ {t}
      /\ UNCHANGED <<next, tick, me, hand, upsets, forced, late>>

\* How a process ends is of interest to a sweep that finds it on record.
OnRecord(r) == tick.row.run = r \/ \E t \in Tasks : task[t].pid = r

Exit(r, how) ==
  /\ Live(r) /\ (OnRecord(r) \/ how = "failed")
  /\ run' = [run EXCEPT ![r].worker = how]
  /\ UNCHANGED <<task, next, tick, me, hand, upsets, handed, forced, late>>

-----------------------------------------------------------------------------
(* People, from other processes.                                           *)

\* reclaim_task reads the row and signals its worker ...
ReclaimRead(t, survives) ==
  /\ Upset /\ hand = NoRow
  /\ task[t].status = "running" \/ task[t].lock # None
  /\ survives => Live(task[t].pid)
  /\ hand' = Snapshot(t)
  /\ run' = Signalled(task[t].pid, survives)
  /\ UNCHANGED <<task, next, tick, me, handed, forced, late>>

\* ... and releases the claim if its lock is the one it read.
ReclaimWrite ==
  LET t == hand.task
      hits == /\ task[t].status \in {"running", "ready", "blocked"}
              /\ task[t].lock = hand.lock
  IN  /\ hand # NoRow
      /\ task' = IF hits THEN [task EXCEPT ![t] = [Left(t, RetryStatus(t), RetryStatus(t))
                                                     EXCEPT !.failures = 0]]
                         ELSE task
      /\ run' = IF hits THEN Ended(t, "reclaimed") ELSE run
      /\ hand' = NoRow
      /\ UNCHANGED <<next, tick, me, upsets, handed, forced, late>>

\* unblock_task keeps the claim columns, if a claim is left behind.
Unblock(t) ==
  LET lane == task[t].resume
      landing == IF ~ParentsDone(t) THEN "todo" ELSE lane
  IN  /\ Upset /\ task[t].status = "blocked"
      /\ task' = [task EXCEPT ![t].status = landing, ![t].cur = None, ![t].failures = 0,
                              ![t].sticky = FALSE, ![t].resume = lane]
      /\ run' = Ended(t, "reclaimed")
      /\ UNCHANGED <<next, tick, me, hand, handed, forced, late>>

\* promote_task: an operator makes it an implementation task again.
PromoteByHand(t) ==
  /\ Upset /\ task[t].status \in {"todo", "blocked"}
  /\ task' = [task EXCEPT ![t].status = "ready"]
  /\ handed' = handed \ {t}
  /\ forced' = forced \cup {t}
  /\ UNCHANGED <<run, next, tick, me, hand, late>>

CompleteByHand(t) ==
  /\ Upset /\ MayComplete(t)
  /\ task' = Completed(t)
  /\ run' = Ended(t, "completed")
  /\ handed' = handed \ {t}
  /\ UNCHANGED <<next, tick, me, hand, forced, late>>

Archive(t) ==
  /\ Upset /\ task[t].status # "archived"
  /\ task' = Promoted([task EXCEPT ![t] = Left(t, "archived", task[t].resume)],
                      DefaultLimit)
  /\ run' = Ended(t, "reclaimed")
  /\ UNCHANGED <<next, tick, me, hand, handed, forced, late>>

\* A finished task is reopened: everything built upon it is retracted, and the
\* workers at it are signalled once that is durable.
\* Mutant of Retracted: those that run are left alone.
RetractedIdle(t) == {c \in Descendants(t) : task[c].status \in {"ready", "review", "done"}}

Retracted(t) == {c \in Descendants(t) : task[c].status \in {"ready", "review", "running", "done"}}

Reopen(t) ==
  /\ Upset /\ Satisfied(task[t].status) /\ ParentsDone(t)
  /\ task' = Promoted([c \in Tasks |->
       CASE c = t -> [Free(task[t]) EXCEPT !.status = "ready", !.resume = "ready"]
         [] c \in Retracted(t) ->
              [Left(c, "todo", CASE task[c].status = "review" -> "review"
                                 [] task[c].status = "running" -> RetryStatus(c)
                                 [] OTHER -> "ready") EXCEPT !.failures = 0]
         [] OTHER -> task[c]],
       DefaultLimit)
  /\ run' = [r \in Runs |->
       LET c == run[r].of
           at == c \in Retracted(t) /\ task[c].status = "running"
       IN  [run[r] EXCEPT
              !.outcome = IF at /\ task[c].cur = r /\ @ = "open" THEN "reclaimed" ELSE @,
              !.worker = IF at /\ task[c].pid = r /\ @ = "live" THEN "failed" ELSE @]]
  /\ handed' = handed \ {c \in Retracted(t) \cup {t} : task[c].status \in {"done", "archived"}}
  /\ forced' = forced \cup {t}
  /\ UNCHANGED <<next, tick, me, hand, late>>

\* Whoever lists the board promotes first (mason kanban list, kanban_list).
List ==
  /\ task' = Promoted(task, DefaultLimit)
  /\ UNCHANGED <<run, next, tick, me, hand, upsets, handed, forced, late>>

\* mason kanban claim.
Pull(t) ==
  /\ Upset /\ Claim(t, "ready", Hand)
  /\ UNCHANGED <<tick, me, hand, handed, forced, late>>

-----------------------------------------------------------------------------
Init ==
  /\ task = [t \in Tasks |->
       [status |-> IF t \in Reviewing THEN "review" ELSE IF Parents[t] = {} THEN "ready" ELSE "todo", lock |-> None, expired |-> FALSE,
        pid |-> None, cur |-> None, failures |-> 0, blocks |-> 0, sticky |-> FALSE,
        resume |-> IF t \in Reviewing THEN "review" ELSE "ready"]]
  /\ run = [r \in Runs |-> [of |-> None, source |-> "ready", outcome |-> "unused", by |-> None,
                            worker |-> "none"]]
  /\ next = 1
  /\ tick = Idle
  /\ me = 1 /\ hand = NoRow /\ upsets = 0
  /\ handed = Reviewing /\ forced = {} /\ late = {}

TickStep ==
  \/ \E row \in tick.rows :
       \/ ExtendStale(row) \/ AccountCrash(row) \/ ClaimRow(row)
       \/ \E survives \in BOOLEAN : KillStale(row, survives) \/ KillOverdue(row, survives)
  \/ AfterStaleKill \/ (\E T \in SUBSET Tasks : SweepCrashed(T) \/ FindOverdue(T))
  \/ ReleaseOverdue \/ ChargeOverdue \/ Promote
  \/ Launch \/ LaunchFails \/ RecordPid \/ TickEnd

WorkerStep(r) ==
  \/ Beat(r) \/ WorkerCompletes(r) \/ WorkerRequestsReview(r) \/ WorkerRequestsChanges(r)
  \/ \E dependency \in BOOLEAN : WorkerBlocks(r, dependency)
  \/ \E how \in Exits : Exit(r, how)

PeopleStep(t) ==
  \/ \E survives \in BOOLEAN : ReclaimRead(t, survives)
  \/ Unblock(t) \/ PromoteByHand(t) \/ CompleteByHand(t) \/ Archive(t) \/ Reopen(t) \/ Pull(t)

Next ==
  \/ TickStart \/ Die
  \/ TickStep
  \/ \E t \in Tasks : Expire(t) \/ PeopleStep(t)
  \/ ReclaimWrite \/ List
  \/ \E r \in Runs : WorkerStep(r)

Spec == Init /\ [][Next]_vars

(***************************************************************************)
(* A living dispatcher ticks and works through its tick; a worker ends,    *)
(* its iterations and its runtime being bounded; the claim of a run        *)
(* without a process expires.  Nobody need intervene.                      *)
(***************************************************************************)
Abandoned(t) == Expire(t) /\ ~Live(task[t].cur)

Fairness ==
  /\ WF_vars(TickStart)
  /\ WF_vars(TickStep)
  /\ \A r \in Runs : WF_vars(\E how \in Exits : Exit(r, how))
  /\ \A t \in Tasks : WF_vars(Abandoned(t))

FairSpec == Spec /\ Fairness
-----------------------------------------------------------------------------
(* Properties.                                                             *)

TaskRows ==
  [status : Status, lock : Dispatchers \cup {Hand, None}, expired : BOOLEAN,
   pid : Runs \cup {None}, cur : Runs \cup {None}, failures : Nat, blocks : Nat,
   sticky : BOOLEAN, resume : Lanes]
RunRows ==
  [of : Tasks \cup {None}, source : Lanes, outcome : Outcomes \cup {"unused"},
   by : Dispatchers \cup {Hand, None}, worker : Exits \cup {"none", "live"}]

\* Every variable holds a value of its kind.
TypeOK ==
  /\ task \in [Tasks -> TaskRows]
  /\ run \in [Runs -> RunRows]
  /\ next \in 1..(MaxRuns + 1)
  /\ tick \in [by : Dispatchers \cup {None}, at : Phases, rows : SUBSET (ReadRows \cup LaneRows),
               row : ReadRows \cup {NoRow}, survived : BOOLEAN, alike : SUBSET Tasks]
  /\ hand \in ReadRows \cup {NoRow}
  /\ me \in Dispatchers /\ upsets \in 0..MaxUpsets
  /\ handed \subseteq Tasks /\ forced \subseteq Tasks /\ late \subseteq Tasks

(***************************************************************************)
(* An open run is the current run of its task, so that a task has at most  *)
(* one, and a running task has a claim and an open run: no card is left    *)
(* running with nobody to end it (reconcile_orphaned_running finds none).  *)
(* A breaker that trips late blocks a card in the middle of a run, which   *)
(* is left open, and forgotten once a parent is reopened.                  *)
(***************************************************************************)
RunsAreBooked ==
  /\ \A r \in Runs : Open(r) => task[run[r].of].cur = r \/ run[r].of \in late
  /\ \A t \in Tasks : task[t].status = "running" => task[t].lock # None /\ Open(task[t].cur)

(***************************************************************************)
(* No task runs or counts as done while a parent of it is unfinished,      *)
(* however parents are reopened between promotion, claim and completion    *)
(* (_parents_satisfied, invalidate_descendants_for_parent_reopen).         *)
(***************************************************************************)
ParentsComeFirst ==
  \A t \in Tasks : task[t].status \in {"running", "done"} => ParentsDone(t)

(***************************************************************************)
(* Work that was handed over for review is not given to an implementer     *)
(* again before the review ends, whatever crashes, stalls, is blocked or   *)
(* reclaimed (_retry_status_for_run, _resume_status_from_events) - unless  *)
(* a failure is booked late: the event of _record_task_failure then names  *)
(* the lane of implementers, and is the newest.                            *)
(***************************************************************************)
ReviewStaysReview ==
  \A r \in Runs : Open(r) /\ run[r].of \in handed \ late => run[r].source = "review"

(***************************************************************************)
(* A task whose failures have reached both limits is not dispatched again  *)
(* until somebody acts, however charges of crashes, timeouts and launches, *)
(* ticks and listings alternate (_record_task_failure, recompute_ready).   *)
(***************************************************************************)
HigherLimit == IF FailureLimit >= DefaultLimit THEN FailureLimit ELSE DefaultLimit

BreakerHolds ==
  \A t \in Tasks : task[t].status \in Lanes /\ task[t].failures >= HigherLimit => t \in forced

(***************************************************************************)
(* A sweep takes a run from a worker on record only when the worker is     *)
(* gone: no second worker is started beside it, but when the runtime limit *)
(* is enforced on one that outlives the signals (_worker_survived_-        *)
(* termination, _reclaim_dead_workers, enforce_max_runtime).               *)
(***************************************************************************)
SweepsLeaveNobody ==
  [][\A t \in Tasks :
       LET r == task[t].cur
       IN  Open(r) /\ run'[r].outcome \in {"reclaimed", "crashed", "violation", "timed_out"}
           /\ upsets' = upsets /\ hand' = hand /\ task[t].pid = r
           => ~Live(r) \/ (tick.at = "timeout" /\ tick.survived)]_vars

(***************************************************************************)
(* What is finished, in triage, or blocked for a person stays so until a   *)
(* person acts, whatever sweep, launch or accounting of an earlier claim   *)
(* is still under way (_record_task_failure, recompute_ready).             *)
(***************************************************************************)
WaitsForPerson(k) ==
  k.status \in {"done", "archived", "triage"} \/ (k.status = "blocked" /\ k.sticky)

OnlyPeopleRevive ==
  [][\A t \in Tasks :
       WaitsForPerson(task[t]) /\ upsets' = upsets /\ hand' = hand => WaitsForPerson(task'[t])]_vars

\* A run a dispatcher opened ends, whoever dies in between and at which step.
EveryRunEnds == \A r \in Runs : (Open(r) /\ run[r].by # Hand) ~> ~Open(r)

\* A task in a lane that nobody claimed is claimed or leaves it, as long as
\* the instance has runs left.
LanesAreServed ==
  \A t \in Tasks : (task[t].status \in Lanes /\ task[t].lock = None)
                   ~> (task[t].status \notin Lanes \/ task[t].lock # None \/ next \notin Runs)
=============================================================================
