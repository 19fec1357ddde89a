--------------------------- MODULE DeliveryQueue ---------------------------
(***************************************************************************)
(* The profile-local durable queue by which a restart-safe cron worker     *)
(* hands its final send to a live gateway: cron/delivery_queue.py and the  *)
(* two callers, the worker (scheduler_delivery._deliver_result) and the    *)
(* gateway's housekeeping tick (scheduler.drain_delivery_queue).           *)
(*                                                                         *)
(* A row of table `deliveries` is status[e]; pruned rows live on as        *)
(* tomb[e].  A gateway constant is one process incarnation: a restarted    *)
(* gateway has a new _PROCESS_ID, hence is another element of Gateways.    *)
(* Wall-clock columns are order stamps; payloads are left out.             *)
(*                                                                         *)
(* A connection reads in autocommit until its first write, which opens the *)
(* transaction.  Every read that a later write relies on is therefore a    *)
(* step of its own: the tombstone before the insert, the pending row       *)
(* before the claim, the owners before the fences.                         *)
(***************************************************************************)
EXTENDS Integers, FiniteSets

CONSTANTS
    Executions,     \* execution ids, the idempotency keys of the queue
    Gateways,       \* gateway process incarnations
    Pid,            \* the operating-system process id of each incarnation
    StartKnown,     \* the incarnations whose process start time is readable
    MaxTerminal,    \* MAX_TERMINAL_DELIVERIES
    DrainLimit,     \* the `limit` argument of drain
    MaxRequests,    \* bound: how often one execution id is enqueued
    None            \* no row selected

ASSUME QueueAssumption ==
    /\ IsFiniteSet(Executions) /\ IsFiniteSet(Gateways)
    /\ Pid \in [Gateways -> Nat]
    /\ StartKnown \subseteq Gateways
    /\ MaxTerminal \in Nat
    /\ DrainLimit \in Nat
    /\ MaxRequests \in Nat
    /\ None \notin Executions \cup Gateways

VARIABLES
    status,      \* deliveries.status, "absent" without a row
    owner,       \* deliveries.owner_process_id / owner_pid / owner_started_at
    createdAt,   \* deliveries.created_at
    finishedAt,  \* deliveries.finished_at
    tomb,        \* delivery_tombstones.terminal_status, "absent" without a row
    stamps,      \* how many rows were created, and how often rows finished: the
                 \* order in which the wall clock stamps them
    active,      \* _ACTIVE_DELIVERIES of each gateway process
    pc,          \* where each gateway's drain loop stands
    pick,        \* the execution the drain loop works on
    left,        \* how many rows this drain call may still claim
    sendError,   \* whether the platform refused the message, then whether the
                 \* send reported an error
    abandoned,   \* the rows recover_abandoned has judged abandoned
    worker,      \* where the worker of each execution stands
    requests,    \* how often each execution id was enqueued (bounded)
    sends,       \* history: calls of the transport for each execution
    arrived,     \* history: whether the platform accepted the message
    raced        \* history: prunes of a row whose worker was between enqueue's
                 \* look at the tombstones and its insert

rowVars   == <<status, owner, createdAt, finishedAt, tomb, stamps>>
drainVars == <<active, pc, pick, left, sendError, abandoned>>
workVars  == <<worker, requests>>
history   == <<sends, arrived, raced>>
vars      == <<rowVars, drainVars, workVars, history>>

Terminal    == {"delivered", "failed", "unknown"}
RowStatus   == {"absent", "pending", "delivering"} \cup Terminal
GatewayPc   == {"new", "idle", "recover", "select", "claim", "send", "sending",
                "finish", "down"}
WorkerState == {"idle", "enqueueing", "waiting", "ok", "error", "dead"}

----------------------------------------------------------------------------
(* Reading the tables. *)

\* get_status: the row, else its tombstone.
Outcome(e) == IF status[e] # "absent" THEN status[e] ELSE tomb[e]

TerminalRows(st) == {e \in Executions : st[e] \in Terminal}

\* The next wall-clock stamps.
CreateStamp == stamps.created + 1
FinishStamp == stamps.finished + 1

\* ORDER BY finished_at, created_at, execution_id over the finish stamps fin.
FinishedBefore(d, e, fin) ==
    \/ fin[d] < fin[e]
    \/ fin[d] = fin[e] /\ createdAt[d] < createdAt[e]

\* _prune_terminal_unlocked: the oldest terminal rows beyond MaxTerminal.
Excess(st, fin) ==
    {e \in TerminalRows(st) :
        Cardinality({d \in TerminalRows(st) : FinishedBefore(d, e, fin)})
            < Cardinality(TerminalRows(st)) - MaxTerminal}

\* A transaction that leaves the rows at st and fin and prunes before commit.
CommitAndPrune(st, fin) ==
    LET gone == Excess(st, fin) IN
    /\ status' = [e \in Executions |-> IF e \in gone THEN "absent" ELSE st[e]]
    /\ tomb' = [e \in Executions |->
                  IF e \in gone /\ tomb[e] = "absent" THEN st[e] ELSE tomb[e]]
    /\ finishedAt' = [e \in Executions |-> IF e \in gone THEN 0 ELSE fin[e]]
    /\ createdAt' = [e \in Executions |-> IF e \in gone THEN 0 ELSE createdAt[e]]
    /\ raced' = [e \in Executions |->
                   IF e \in gone /\ worker[e] = "enqueueing" THEN raced[e] + 1
                                                           ELSE raced[e]]

\* UPDATE ... SET status=s, finished_at=now for the rows in R.
Resolve(R, s) ==
    /\ CommitAndPrune([e \in Executions |-> IF e \in R THEN s ELSE status[e]],
                      [e \in Executions |-> IF e \in R THEN FinishStamp ELSE finishedAt[e]])
    /\ stamps' = IF R = {} THEN stamps ELSE [stamps EXCEPT !.finished = @ + 1]

Up(g) == pc[g] \notin {"new", "down"}

\* _owner_is_live, asked by gateway g about the owner of a row.  A process id
\* may have been taken over by a later process; without a recorded start time
\* only the asker's own process id counts as live.
OwnerIsLive(g, o) ==
    /\ \E h \in Gateways : Pid[h] = Pid[o] /\ Up(h)
    /\ IF o \in StartKnown THEN Up(o) ELSE Pid[o] = Pid[g]

\* Mutant of Abandoned: recovery looks at the rows of other processes only.
AbandonedByOthers(g) ==
    {e \in Executions :
        status[e] = "delivering" /\ owner[e] # g /\ ~OwnerIsLive(g, owner[e])}

\* The rows recover_abandoned, run by g, fences: its own rows that it is no
\* longer working on, and the rows of dead owners.
Abandoned(g) ==
    {e \in Executions :
        /\ status[e] = "delivering"
        /\ IF owner[e] = g THEN e \notin active[g]
                           ELSE ~OwnerIsLive(g, owner[e])}

\* SELECT ... WHERE status='pending' ORDER BY created_at LIMIT 1
OldestPending(e) ==
    /\ status[e] = "pending"
    /\ \A d \in Executions : status[d] = "pending" => createdAt[e] <= createdAt[d]

\* The guard of claim_next's UPDATE.
Claimable(e) == status[e] = "pending"

\* Mutant of FinishGuard: _finish without status='delivering'.
FinishGuardOwnerOnly(g, e) == owner[e] = g

\* The guard of _finish's UPDATE.
FinishGuard(g, e) == status[e] = "delivering" /\ owner[e] = g

SendOutcome(g) == IF sendError[g] THEN "failed" ELSE "delivered"

\* for _ in range(limit): whether the loop runs again after this row.
MoreRows(g) == left[g] > 1

----------------------------------------------------------------------------
(* The gateway: one drain call per housekeeping tick. *)

Boot(g) ==
    /\ pc[g] = "new"
    /\ \A h \in Gateways : Up(h) => Pid[h] # Pid[g]
    /\ pc' = [pc EXCEPT ![g] = "idle"]
    /\ UNCHANGED <<rowVars, active, pick, left, sendError, abandoned, workVars, history>>

\* drain, back from recover_abandoned: claim up to DrainLimit rows.
EnterLoop(g) ==
    /\ pc' = [pc EXCEPT ![g] = IF DrainLimit = 0 THEN "idle" ELSE "select"]
    /\ left' = [left EXCEPT ![g] = DrainLimit]

\* recover_abandoned reads the delivering rows and asks about their owners.
\* Without a row to fence it changes nothing: whoever last made a row terminal
\* pruned in the same transaction.
StartDrain(g) ==
    /\ pc[g] = "idle"
    /\ IF Abandoned(g) = {}
       THEN EnterLoop(g) /\ UNCHANGED abandoned
       ELSE /\ abandoned' = [abandoned EXCEPT ![g] = Abandoned(g)]
            /\ pc' = [pc EXCEPT ![g] = "recover"]
            /\ UNCHANGED left
    /\ UNCHANGED <<rowVars, active, pick, sendError, workVars, history>>

\* recover_abandoned fences the judged rows that are still delivering.
FenceAbandoned(g) ==
    /\ pc[g] = "recover"
    /\ Resolve({e \in abandoned[g] : status[e] = "delivering"}, "unknown")
    /\ EnterLoop(g)
    /\ abandoned' = [abandoned EXCEPT ![g] = {}]
    /\ UNCHANGED <<owner, active, pick, sendError, workVars, sends, arrived>>

\* drain returns; its local variables are gone.
LeaveDrain(g) ==
    /\ pick' = [pick EXCEPT ![g] = None]
    /\ left' = [left EXCEPT ![g] = 0]
    /\ pc' = [pc EXCEPT ![g] = "idle"]

\* claim_next, the SELECT: it opens no write transaction.
SelectPending(g) ==
    /\ pc[g] = "select"
    /\ \/ \E e \in Executions :
            /\ OldestPending(e)
            /\ pick' = [pick EXCEPT ![g] = e]
            /\ pc' = [pc EXCEPT ![g] = "claim"]
            /\ UNCHANGED left
       \/ /\ \A e \in Executions : status[e] # "pending"
          /\ LeaveDrain(g)
    /\ UNCHANGED <<rowVars, active, sendError, abandoned, workVars, history>>

\* claim_next, the UPDATE guarded by status='pending'.
ClaimPicked(g) ==
    /\ pc[g] = "claim"
    /\ Claimable(pick[g])
    /\ status' = [status EXCEPT ![pick[g]] = "delivering"]
    /\ owner' = [owner EXCEPT ![pick[g]] = g]
    /\ active' = [active EXCEPT ![g] = @ \cup {pick[g]}]
    /\ pc' = [pc EXCEPT ![g] = "send"]
    /\ UNCHANGED <<createdAt, finishedAt, tomb, stamps, pick, left, sendError,
                   abandoned, workVars, history>>

\* claim_next, rowcount # 1: another gateway was faster, drain breaks off.
LoseClaim(g) ==
    /\ pc[g] = "claim"
    /\ ~Claimable(pick[g])
    /\ LeaveDrain(g)
    /\ UNCHANGED <<rowVars, active, sendError, abandoned, workVars, history>>

\* drain calls send: the platform accepts or refuses the message.
BeginSend(g) ==
    /\ pc[g] = "send"
    /\ sends' = [sends EXCEPT ![pick[g]] = @ + 1]
    /\ \E refused \in BOOLEAN :
          /\ arrived' = [arrived EXCEPT ![pick[g]] = @ \/ ~refused]
          /\ sendError' = [sendError EXCEPT ![g] = refused]
    /\ pc' = [pc EXCEPT ![g] = "sending"]
    /\ UNCHANGED <<rowVars, active, pick, left, abandoned, workVars, raced>>

\* send returns None, or an error, or raises; an accepted message may still
\* be reported as an error, a refused one never as sent.
EndSend(g) ==
    /\ pc[g] = "sending"
    /\ \E err \in BOOLEAN :
          /\ sendError[g] => err
          /\ sendError' = [sendError EXCEPT ![g] = err]
    /\ pc' = [pc EXCEPT ![g] = "finish"]
    /\ UNCHANGED <<rowVars, active, pick, left, abandoned, workVars, history>>

\* What follows _finish: the row leaves _ACTIVE_DELIVERIES, the loop goes on.
EndRow(g, next) ==
    /\ active' = [active EXCEPT ![g] = @ \ {pick[g]}]
    /\ pick' = [pick EXCEPT ![g] = None]
    /\ left' = [left EXCEPT ![g] = IF next = "idle" THEN 0 ELSE @ - 1]
    /\ sendError' = [sendError EXCEPT ![g] = FALSE]
    /\ pc' = [pc EXCEPT ![g] = next]

\* _finish: only a row still delivering and owned by this process is resolved.
Finish(g) ==
    LET e == pick[g] IN
    /\ pc[g] = "finish"
    /\ Resolve(IF FinishGuard(g, e) THEN {e} ELSE {}, SendOutcome(g))
    /\ EndRow(g, IF MoreRows(g) THEN "select" ELSE "idle")
    /\ UNCHANGED <<owner, abandoned, workVars, sends, arrived>>

\* _finish raises (database busy or unwritable): drain propagates it.
FinishRaises(g) ==
    /\ pc[g] = "finish"
    /\ EndRow(g, "idle")
    /\ UNCHANGED <<rowVars, abandoned, workVars, history>>

\* The gateway process dies; what it held in memory is gone.
Crash(g) ==
    /\ Up(g)
    /\ pc' = [pc EXCEPT ![g] = "down"]
    /\ active' = [active EXCEPT ![g] = {}]
    /\ pick' = [pick EXCEPT ![g] = None]
    /\ left' = [left EXCEPT ![g] = 0]
    /\ sendError' = [sendError EXCEPT ![g] = FALSE]
    /\ abandoned' = [abandoned EXCEPT ![g] = {}]
    /\ UNCHANGED <<rowVars, workVars, history>>

----------------------------------------------------------------------------
(* The worker: enqueue_and_wait.  Only the execution's own worker enqueues *)
(* it, so while that worker waits a row once gone stays gone, and each     *)
(* poll and the timeout act as of one moment.                              *)

\* Mutant of Remembered: enqueue does not look at the tombstones.
RememberedNever(e) == FALSE

\* enqueue, the SELECT: whether the execution has a tombstone.
Remembered(e) == tomb[e] # "absent"

\* Mutant of LeftQueued: a send in progress counts as deferred as well.
LeftQueuedOrInFlight(e) == status[e] \in {"pending", "delivering"}

\* Provably never attempted: the row stays queued for the next gateway.
LeftQueued(e) == status[e] = "pending"

\* Mutant of MayTimeOut: the deadline counts only while a gateway is alive.
MayTimeOutIfServed(e) == worker[e] = "waiting" /\ \E g \in Gateways : Up(g)

\* time.monotonic() >= deadline, at any moment of the wait.
MayTimeOut(e) == worker[e] = "waiting"

Answer(s) == IF s = "delivered" THEN "ok" ELSE "error"

\* enqueue looks for a tombstone, which answers at once.
EnqueueLook(e) ==
    /\ worker[e] \notin {"enqueueing", "waiting", "dead"}
    /\ requests[e] < MaxRequests
    /\ requests' = [requests EXCEPT ![e] = @ + 1]
    /\ worker' = [worker EXCEPT ![e] = IF Remembered(e) THEN Answer(tomb[e])
                                                       ELSE "enqueueing"]
    /\ UNCHANGED <<rowVars, drainVars, history>>

\* enqueue, INSERT OR IGNORE and the row read back: an old row is kept, and
\* answers at once when it is terminal.
EnqueueInsert(e) ==
    /\ worker[e] = "enqueueing"
    /\ IF status[e] = "absent"
       THEN /\ status' = [status EXCEPT ![e] = "pending"]
            /\ createdAt' = [createdAt EXCEPT ![e] = CreateStamp]
            /\ stamps' = [stamps EXCEPT !.created = @ + 1]
       ELSE UNCHANGED <<status, createdAt, stamps>>
    /\ worker' = [worker EXCEPT ![e] =
                    IF status[e] \in Terminal THEN Answer(status[e]) ELSE "waiting"]
    /\ UNCHANGED <<owner, finishedAt, tomb, drainVars, requests, history>>

\* get_status finds a terminal row or tombstone.
PollTerminal(e) ==
    /\ worker[e] = "waiting"
    /\ Outcome(e) \in Terminal
    /\ worker' = [worker EXCEPT ![e] = Answer(Outcome(e))]
    /\ UNCHANGED <<rowVars, drainVars, requests, history>>

\* _terminalize_wait_timeout: a pending row stays queued and counts as success;
\* a delivering one is fenced; a row that is gone counts as a failure.
WaitTimeout(e) ==
    /\ MayTimeOut(e)
    /\ IF LeftQueued(e)
       THEN UNCHANGED <<rowVars, raced>>
       ELSE Resolve(IF status[e] = "delivering" THEN {e} ELSE {}, "unknown")
    /\ worker' = [worker EXCEPT ![e] =
                    IF LeftQueued(e) \/ status[e] = "delivered" THEN "ok"
                    ELSE "error"]
    /\ UNCHANGED <<owner, drainVars, requests, sends, arrived>>

WorkerDies(e) ==
    /\ worker[e] \in {"enqueueing", "waiting"}
    /\ worker' = [worker EXCEPT ![e] = "dead"]
    /\ UNCHANGED <<rowVars, drainVars, requests, history>>

----------------------------------------------------------------------------
Init ==
    /\ status     = [e \in Executions |-> "absent"]
    /\ owner      = [e \in Executions |-> None]
    /\ createdAt  = [e \in Executions |-> 0]
    /\ finishedAt = [e \in Executions |-> 0]
    /\ tomb       = [e \in Executions |-> "absent"]
    /\ stamps     = [created |-> 0, finished |-> 0]
    /\ active     = [g \in Gateways |-> {}]
    /\ pc         = [g \in Gateways |-> "new"]
    /\ pick       = [g \in Gateways |-> None]
    /\ left       = [g \in Gateways |-> 0]
    /\ sendError  = [g \in Gateways |-> FALSE]
    /\ abandoned  = [g \in Gateways |-> {}]
    /\ worker     = [e \in Executions |-> "idle"]
    /\ requests   = [e \in Executions |-> 0]
    /\ sends      = [e \in Executions |-> 0]
    /\ arrived    = [e \in Executions |-> FALSE]
    /\ raced      = [e \in Executions |-> 0]

DrainStep(g) ==
    \/ StartDrain(g) \/ FenceAbandoned(g)
    \/ SelectPending(g) \/ ClaimPicked(g) \/ LoseClaim(g)
    \/ BeginSend(g) \/ EndSend(g) \/ Finish(g) \/ FinishRaises(g)

GatewayStep(g) == Boot(g) \/ DrainStep(g) \/ Crash(g)

WorkerStep(e) ==
    \/ EnqueueLook(e) \/ EnqueueInsert(e)
    \/ PollTerminal(e) \/ WaitTimeout(e) \/ WorkerDies(e)

Next == \/ \E g \in Gateways : GatewayStep(g)
        \/ \E e \in Executions : WorkerStep(e)

Spec == Init /\ [][Next]_vars

\* A live gateway's housekeeping loop keeps draining and every send ends (the
\* adapters have their own timeouts); a waiting worker's deadline passes.
Fairness ==
    /\ \A g \in Gateways : WF_vars(DrainStep(g))
    /\ \A e \in Executions :
          WF_vars(EnqueueInsert(e) \/ PollTerminal(e) \/ WaitTimeout(e))

FairSpec == Spec /\ Fairness

----------------------------------------------------------------------------
(* Properties. *)

\* Every variable stays within the values the code can give it.
TypeOK ==
    /\ status     \in [Executions -> RowStatus]
    /\ owner      \in [Executions -> Gateways \cup {None}]
    /\ createdAt  \in [Executions -> Nat]
    /\ finishedAt \in [Executions -> Nat]
    /\ tomb       \in [Executions -> Terminal \cup {"absent"}]
    /\ stamps     \in [created : Nat, finished : Nat]
    /\ active     \in [Gateways -> SUBSET Executions]
    /\ pc         \in [Gateways -> GatewayPc]
    /\ pick       \in [Gateways -> Executions \cup {None}]
    /\ left       \in [Gateways -> 0..DrainLimit]
    /\ sendError  \in [Gateways -> BOOLEAN]
    /\ abandoned  \in [Gateways -> SUBSET Executions]
    /\ worker     \in [Executions -> WorkerState]
    /\ requests   \in [Executions -> 0..MaxRequests]
    /\ sends      \in [Executions -> Nat]
    /\ arrived    \in [Executions -> BOOLEAN]
    /\ raced      \in [Executions -> Nat]

\* The transport is called at most once for an execution id ("a gateway's
\* terminal at-most-once outcome", delivery_queue.py:362).  The code breaks it:
\* a row finished and pruned between enqueue's look at the tombstones and its
\* insert is inserted a second time.
AtMostOneSend == \A e \in Executions : sends[e] <= 1

\* That window is the only way: over gateway crashes, racing gateways, repeated
\* enqueues, failed writes and pruning, an execution is handed over once, and
\* once more for every prune that fell into the window.
SendsAreRationed == \A e \in Executions : sends[e] <= 1 + raced[e]

\* A row reported delivered reached the platform; without a row and tombstone
\* nothing was handed over; and a pending row is one that no gateway took up
\* (_terminalize_wait_timeout relies on it).
OutcomeIsTrue ==
    \A e \in Executions :
        /\ Outcome(e) = "delivered" => arrived[e]
        /\ Outcome(e) = "absent" => sends[e] = 0
        /\ Outcome(e) = "pending" => sends[e] <= raced[e]

\* Once terminal, the outcome of an execution never changes and is never
\* forgotten, whatever late finishes, fences, repeated enqueues and prunes
\* outside that window do.
OutcomeIsFinal ==
    [][\A e \in Executions :
          raced[e] = 0 /\ Outcome(e) \in Terminal => Outcome(e)' = Outcome(e)]_vars

\* A worker is told success only for a message that arrived or whose row is
\* still queued and was taken up by nobody.
SuccessIsHonest ==
    [][\A e \in Executions :
          worker[e] # "ok" /\ worker'[e] = "ok" =>
              \/ arrived'[e]
              \/ Outcome(e)' = "pending" /\ sends'[e] <= raced'[e]]_vars

\* A gateway between claim and finish works on a row nobody else works on,
\* unless the row was pruned in that window and came back.
OneSenderPerRow ==
    \A g, h \in Gateways :
        /\ pc[g] \in {"send", "sending", "finish"}
        /\ pc[h] \in {"send", "sending", "finish"}
        /\ pick[g] = pick[h]
        => g = h \/ raced[pick[g]] > 0

\* While some gateway stays up, no queued message waits for ever and no claimed
\* row stays unresolved, though the gateway that claimed it may have died.
StaysUp(g) == <>[]Up(g)
QueueIsServed ==
    (\E g \in Gateways : StaysUp(g)) =>
        \A e \in Executions :
            /\ (Outcome(e) = "pending") ~> (Outcome(e) # "pending")
            /\ (Outcome(e) = "delivering") ~> (Outcome(e) \in Terminal)

\* A worker that does not die always gets an answer, gateway or not.
WorkerIsAnswered ==
    \A e \in Executions : (worker[e] = "waiting") ~> (worker[e] # "waiting")

\* As long as no prune falls into enqueue's window, the queue refines
\* at-most-once delivery: the phase of a message is the outcome of its
\* execution, wherever that is stored.
Phase(e) ==
    CASE Outcome(e) = "absent"     -> "none"
      [] Outcome(e) = "pending"    -> "queued"
      [] Outcome(e) = "delivering" -> "taken"
      [] OTHER                     -> Outcome(e)

Abstract == INSTANCE AtMostOnce WITH
    Messages <- Executions,
    phase    <- [e \in Executions |-> Phase(e)],
    reached  <- arrived

\* Every step of the queue is a step, or no step, of at-most-once delivery;
\* of instances in which an execution id is enqueued once, or in which nothing
\* is ever pruned.
ImplementsAtMostOnce == Abstract!ASpec

============================================================================
