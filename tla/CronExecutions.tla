--------------------------- MODULE CronExecutions ---------------------------
(***************************************************************************)
(* The ledger of cron execution attempts (cron/executions.py) and the      *)
(* hand-off of an attempt from the gateway that dispatches it to a worker  *)
(* process that survives the gateway (cron/scheduler.py).                  *)
(*                                                                         *)
(* A gateway is one process incarnation; every process that dispatches or  *)
(* recovers counts as one.  Each attempt has at most one worker process.   *)
(* An action is one transaction of the ledger or what one process does     *)
(* between two of them.                                                    *)
(***************************************************************************)
EXTENDS Integers, FiniteSets

CONSTANTS
    Executions,   \* execution ids
    Gateways,     \* incarnations of dispatching processes
    Managed,      \* the gateways that hand their runs to a worker
    Worker,       \* names the worker process of an execution
    StartKnown,   \* the processes whose start time could be recorded
    Survivor,     \* the gateway that stays up, or None
    MaxTerminal,  \* MAX_TERMINAL_EXECUTIONS
    None

ASSUME ExecutionsAssumption ==
    /\ IsFiniteSet(Executions)
    /\ Managed \subseteq Gateways
    /\ StartKnown \subseteq Gateways \cup {Worker}
    /\ Survivor \in Gateways \cup {None}
    /\ MaxTerminal \in Nat \ {0}
    /\ Worker \notin Gateways
    /\ None \notin Gateways \cup Executions \cup {Worker}

Processes == Gateways \cup {Worker}

VARIABLES
    status,   \* column status; "none" and "pruned" stand for no row
    owner,    \* columns process_id and pid
    handoff,  \* column handoff_pending
    aged,     \* whether HANDOFF_ADOPTION_GRACE_SECONDS passed since the hand-off
    error,    \* column error: what the terminal row claims
    up,       \* the gateways that run
    gateway,  \* the gateway that dispatches each execution
    stage,    \* where its dispatching thread stands
    worker,   \* where its worker process stands
    ack,      \* whether the acknowledgement file exists
    seen,     \* the rows each gateway's recovery has read and not yet judged
    begun     \* history: the processes that began side effects

row     == <<status, owner, handoff, error>>
threads == <<stage, worker, ack>>
vars    == <<row, aged, up, gateway, threads, seen, begun>>

Open     == {"claimed", "running"}
Terminal == {"completed", "failed", "unknown"}
Errors   == {"", "unstarted", "run", "interrupted"}

InGateway == {"created", "running", "marked", "polling", "checked", "waiting"}

WorkerAlive(e) == worker[e] \notin {"none", "exited"}

Alive(e, p) == IF p = Worker THEN WorkerAlive(e) ELSE p \in up

\* _owner_is_live as process g sees it: without a start time only its own pid
\* counts.
SeemsLive(g, e, p) == p = g \/ (Alive(e, p) /\ p \in StartKnown)

\* Recovery has read nothing it has not judged.
Nothing == [e \in Executions |-> None]

TerminalRows == {e \in Executions : status[e] \in Terminal}

----------------------------------------------------------------------------
(* Transactions of the ledger. *)

\* _prune_unlocked after one more row became terminal: the rows beyond the cap
\* go; which ones (the oldest) does not matter here.
Prunable(P) ==
    LET overflow == Cardinality(TerminalRows) + 1 - MaxTerminal IN
    Cardinality(P) = IF overflow <= 0 THEN 0 ELSE overflow

\* Row e becomes terminal with status s and error c; older rows are pruned.
Close(e, s, c) ==
    /\ \E P \in SUBSET TerminalRows :
          /\ Prunable(P)
          /\ status' = [x \in Executions |->
                           IF x = e THEN s ELSE IF x \in P THEN "pruned" ELSE status[x]]
    /\ handoff' = [handoff EXCEPT ![e] = FALSE]
    /\ error' = [error EXCEPT ![e] = c]
    /\ UNCHANGED owner

\* Mutant of MayFinish: whoever comes closes an open row.
MayFinishAny(e, p) == status[e] \in Open

\* Mutant of MayFinish: the owner may write its terminal row again.
MayFinishAgain(e, p) == status[e] \notin {"none", "pruned"} /\ owner[e] = p

\* The WHERE clause of finish_execution.
MayFinish(e, p) == status[e] \in Open /\ owner[e] = p

\* finish_execution by process p.
Finish(e, p, s, c) == IF MayFinish(e, p) THEN Close(e, s, c) ELSE UNCHANGED row

\* The WHERE clause of mark_execution_handoff_pending.
MayMark(e, p) == status[e] = "claimed" /\ owner[e] = p

\* The WHERE clause of adopt_claimed_execution.
MayAdopt(e) == status[e] = "claimed" /\ handoff[e]

\* Column handoff_pending of row e set or cleared.
Fence(e, pending) == [handoff EXCEPT ![e] = pending]

\* The WHERE clause of mark_execution_running.
MayStart(e, p) == status[e] = "claimed" /\ ~handoff[e] /\ owner[e] = p

\* Mutant of Unchanged: the row is only known by its id.
UnchangedId(e, r) == status[e] \in Open

\* The WHERE clause of the UPDATE in recover_interrupted_executions.
Unchanged(e, r) ==
    status[e] = r.status /\ owner[e] = r.owner /\ handoff[e] = r.handoff

\* Mutant of Abandoned: a pending hand-off shields the row for ever.
AbandonedNoHandoff(g, e, r) ==
    r.owner # g /\ ~SeemsLive(g, e, r.owner) /\ ~r.handoff

\* What recovery checks between its SELECT and its UPDATE.
Abandoned(g, e, r) ==
    /\ r.owner # g
    /\ ~SeemsLive(g, e, r.owner)
    /\ ~(r.handoff /\ ~aged[e])

----------------------------------------------------------------------------
(* The dispatching gateway. *)

\* create_execution, before the run is submitted or claimed.
Create(g, e) ==
    /\ g \in up
    /\ status[e] = "none"
    /\ status' = [status EXCEPT ![e] = "claimed"]
    /\ owner' = [owner EXCEPT ![e] = g]
    /\ gateway' = [gateway EXCEPT ![e] = g]
    /\ stage' = [stage EXCEPT ![e] = "created"]
    /\ UNCHANGED <<handoff, error, aged, up, worker, ack, seen, begun>>

\* The fire claim was not acquired or is lost, the pool refuses the run, or a
\* one-shot has used up its dispatches: the attempt is closed unstarted.
CloseUnstarted(e) ==
    /\ stage[e] = "created"
    /\ Finish(e, gateway[e], "failed", "unstarted")
    /\ stage' = [stage EXCEPT ![e] = "done"]
    /\ UNCHANGED <<aged, up, gateway, worker, ack, seen, begun>>

\* An unmanaged process runs the job itself if it wins mark_execution_running.
RunInProcess(e) ==
    /\ stage[e] = "created"
    /\ gateway[e] \notin Managed
    /\ IF MayStart(e, gateway[e])
       THEN /\ status' = [status EXCEPT ![e] = "running"]
            /\ stage' = [stage EXCEPT ![e] = "running"]
            /\ begun' = [begun EXCEPT ![e] = @ \cup {gateway[e]}]
       ELSE /\ stage' = [stage EXCEPT ![e] = "done"]
            /\ UNCHANGED <<status, begun>>
    /\ UNCHANGED <<owner, handoff, error, aged, up, gateway, worker, ack, seen>>

FinishInProcess(e, s) ==
    /\ stage[e] = "running"
    /\ Finish(e, gateway[e], s, "run")
    /\ stage' = [stage EXCEPT ![e] = "done"]
    /\ UNCHANGED <<aged, up, gateway, worker, ack, seen, begun>>

\* mark_execution_handoff_pending, the fence around the launch.
MarkHandoff(e) ==
    /\ stage[e] = "created"
    /\ gateway[e] \in Managed
    /\ MayMark(e, gateway[e])
    /\ handoff' = [handoff EXCEPT ![e] = TRUE]
    /\ stage' = [stage EXCEPT ![e] = "marked"]
    /\ UNCHANGED <<status, owner, error, aged, up, gateway, worker, ack, seen, begun>>

\* The payload is written and the worker is started.
Spawn(e) ==
    /\ stage[e] = "marked"
    /\ stage' = [stage EXCEPT ![e] = "polling"]
    /\ worker' = [worker EXCEPT ![e] = "loading"]
    /\ UNCHANGED <<row, aged, up, gateway, ack, seen, begun>>

\* _launch_external_cron_worker raised: run_one_job reports a failed dispatch
\* and closes the row if it still owns it.
FailDispatch(e) ==
    /\ Finish(e, gateway[e], "failed", "unstarted")
    /\ stage' = [stage EXCEPT ![e] = "failed"]
    /\ UNCHANGED <<aged, up, gateway, worker, ack, seen, begun>>

\* No scope, the row changed hands, or payload or process cannot be created.
LaunchFails(e) ==
    /\ stage[e] \in {"created", "marked"}
    /\ gateway[e] \in Managed
    /\ FailDispatch(e)

\* The acknowledgement is there (readable or not), or its five seconds are over:
\* the gateway waits for the worker.
StopPolling(e) ==
    /\ stage[e] = "polling"
    /\ stage' = [stage EXCEPT ![e] = "waiting"]
    /\ ack' = [ack EXCEPT ![e] = FALSE]
    /\ UNCHANGED <<row, aged, up, gateway, worker, seen, begun>>

\* ack_path.exists() is false; process.poll() comes next.
NoAckYet(e) ==
    /\ stage[e] = "polling"
    /\ ~ack[e]
    /\ stage' = [stage EXCEPT ![e] = "checked"]
    /\ UNCHANGED <<row, aged, up, gateway, worker, ack, seen, begun>>

StillRunning(e) ==
    /\ stage[e] = "checked"
    /\ worker[e] # "exited"
    /\ stage' = [stage EXCEPT ![e] = "polling"]
    /\ UNCHANGED <<row, aged, up, gateway, worker, ack, seen, begun>>

\* "cron external worker exited before ownership acknowledgement"
ExitBeforeAck(e) ==
    /\ stage[e] = "checked"
    /\ worker[e] = "exited"
    /\ FailDispatch(e)

\* The waiter finds the row terminal, while the worker runs or after its exit.
WaiterSeesEnd(e) ==
    /\ stage[e] = "waiting"
    /\ status[e] \in Terminal
    /\ stage' = [stage EXCEPT ![e] = "done"]
    /\ UNCHANGED <<row, aged, up, gateway, worker, ack, seen, begun>>

\* The worker adopted the row and exited: the waiter recovers it (other rows
\* the same pass recovers are steps of their own).
WaiterRecovers(e) ==
    /\ stage[e] = "waiting"
    /\ worker[e] = "exited"
    /\ status[e] = "running"
    /\ Close(e, "unknown", "interrupted")
    /\ stage' = [stage EXCEPT ![e] = "done"]
    /\ UNCHANGED <<aged, up, gateway, worker, ack, seen, begun>>

\* Mutant of WaiterFails: a worker that died before it adopted is waited for.
WaiterFailsIfPruned(e) ==
    /\ stage[e] = "waiting"
    /\ worker[e] = "exited"
    /\ status[e] = "pruned"
    /\ FailDispatch(e)

\* The worker exited and its row is neither terminal nor recoverable: it was
\* never adopted, or it was pruned unseen.
WaiterFails(e) ==
    /\ stage[e] = "waiting"
    /\ worker[e] = "exited"
    /\ status[e] \in {"claimed", "pruned"}
    /\ FailDispatch(e)

\* The process ends, with its threads and what its recovery had read.
GatewayDies(g) ==
    /\ g \in up \ {Survivor}
    /\ up' = up \ {g}
    /\ stage' = [e \in Executions |->
                    IF gateway[e] = g /\ stage[e] \in InGateway THEN "gone" ELSE stage[e]]
    /\ seen' = [seen EXCEPT ![g] = Nothing]
    /\ UNCHANGED <<row, aged, gateway, worker, ack, begun>>

----------------------------------------------------------------------------
(* The worker process. *)

\* adopt_claimed_execution, the only way to run; without it the worker exits.
Adopt(e) ==
    /\ worker[e] = "loading"
    /\ IF MayAdopt(e)
       THEN /\ status' = [status EXCEPT ![e] = "running"]
            /\ owner' = [owner EXCEPT ![e] = Worker]
            /\ handoff' = Fence(e, FALSE)
            /\ worker' = [worker EXCEPT ![e] = "adopted"]
       ELSE /\ worker' = [worker EXCEPT ![e] = "exited"]
            /\ UNCHANGED <<status, owner, handoff>>
    /\ UNCHANGED <<error, aged, up, gateway, stage, ack, seen, begun>>

PublishAck(e) ==
    /\ worker[e] = "adopted"
    /\ ack' = [ack EXCEPT ![e] = TRUE]
    /\ worker' = [worker EXCEPT ![e] = "acked"]
    /\ UNCHANGED <<row, aged, up, gateway, stage, seen, begun>>

\* The worker holds no fire claim or no dispatch any more.
WorkerCloses(e) ==
    /\ worker[e] = "acked"
    /\ Finish(e, Worker, "failed", "unstarted")
    /\ worker' = [worker EXCEPT ![e] = "finished"]
    /\ UNCHANGED <<aged, up, gateway, stage, ack, seen, begun>>

\* run_job: an adopted attempt needs no second transition.
WorkerBegins(e) ==
    /\ worker[e] = "acked"
    /\ begun' = [begun EXCEPT ![e] = @ \cup {Worker}]
    /\ worker' = [worker EXCEPT ![e] = "running"]
    /\ UNCHANGED <<row, aged, up, gateway, stage, ack, seen>>

WorkerEnds(e, s) ==
    /\ worker[e] = "running"
    /\ Finish(e, Worker, s, "run")
    /\ worker' = [worker EXCEPT ![e] = "finished"]
    /\ UNCHANGED <<aged, up, gateway, stage, ack, seen, begun>>

WorkerExits(e) ==
    /\ worker[e] = "finished"
    /\ worker' = [worker EXCEPT ![e] = "exited"]
    /\ UNCHANGED <<row, aged, up, gateway, stage, ack, seen, begun>>

\* It crashes, cannot read its payload or cannot publish its acknowledgement.
WorkerDies(e) ==
    /\ WorkerAlive(e)
    /\ worker' = [worker EXCEPT ![e] = "exited"]
    /\ UNCHANGED <<row, aged, up, gateway, stage, ack, seen, begun>>

----------------------------------------------------------------------------
(* Recovery: at the start of a scheduler, on its ticks, before a manual run. *)

\* The SELECT of recover_interrupted_executions, outside a write transaction.
RecoverRead(g) ==
    /\ g \in up
    /\ seen[g] = Nothing
    /\ seen' = [seen EXCEPT ![g] = [e \in Executions |->
                    IF status[e] \in Open
                    THEN [status |-> status[e], owner |-> owner[e], handoff |-> handoff[e]]
                    ELSE None]]
    /\ UNCHANGED <<row, aged, up, gateway, threads, begun>>

\* The judgement of one row that was read, and its guarded UPDATE.
RecoverWrite(g, e) ==
    /\ g \in up
    /\ seen[g][e] # None
    /\ IF Abandoned(g, e, seen[g][e]) /\ Unchanged(e, seen[g][e])
       THEN Close(e, "unknown", "interrupted")
       ELSE UNCHANGED row
    /\ seen' = [seen EXCEPT ![g][e] = None]
    /\ UNCHANGED <<aged, up, gateway, threads, begun>>

\* HANDOFF_ADOPTION_GRACE_SECONDS pass.
HandoffAges(e) ==
    /\ handoff[e]
    /\ ~aged[e]
    /\ aged' = [aged EXCEPT ![e] = TRUE]
    /\ UNCHANGED <<row, up, gateway, threads, seen, begun>>

----------------------------------------------------------------------------
Init ==
    /\ status  = [e \in Executions |-> "none"]
    /\ owner   = [e \in Executions |-> None]
    /\ handoff = [e \in Executions |-> FALSE]
    /\ error   = [e \in Executions |-> ""]
    /\ aged    = [e \in Executions |-> FALSE]
    /\ up      = Gateways
    /\ gateway = [e \in Executions |-> None]
    /\ stage   = [e \in Executions |-> "idle"]
    /\ worker  = [e \in Executions |-> "none"]
    /\ ack     = [e \in Executions |-> FALSE]
    /\ seen    = [g \in Gateways |-> Nothing]
    /\ begun   = [e \in Executions |-> {}]

LocalStep(e) ==
    \/ CloseUnstarted(e) \/ RunInProcess(e)
    \/ \E s \in {"completed", "failed"} : FinishInProcess(e, s)

LaunchStep(e) ==
    MarkHandoff(e) \/ LaunchFails(e) \/ Spawn(e) \/ StopPolling(e) \/ NoAckYet(e)
    \/ StillRunning(e) \/ ExitBeforeAck(e)

WaitStep(e) == WaiterSeesEnd(e) \/ WaiterRecovers(e) \/ WaiterFails(e)

WorkerStep(e) ==
    \/ Adopt(e) \/ PublishAck(e) \/ WorkerCloses(e) \/ WorkerBegins(e) \/ WorkerExits(e)
    \/ \E s \in {"completed", "failed"} : WorkerEnds(e, s)

RecoverStep(g) == RecoverRead(g) \/ \E e \in Executions : RecoverWrite(g, e)

Next ==
    \/ \E e \in Executions :
          \/ \E g \in Gateways : Create(g, e)
          \/ LocalStep(e) \/ LaunchStep(e) \/ WaitStep(e)
          \/ WorkerStep(e) \/ WorkerDies(e) \/ HandoffAges(e)
    \/ \E g \in Gateways : RecoverStep(g) \/ GatewayDies(g)

Spec == Init /\ [][Next]_vars

\* Threads and workers take their next step, the five seconds of polling end,
\* runs end, time passes, and one gateway stays up and recovers on its ticks.
Fairness ==
    /\ \A e \in Executions :
          /\ WF_vars(LocalStep(e) \/ LaunchStep(e)) /\ SF_vars(StopPolling(e))
          /\ WF_vars(WaitStep(e)) /\ WF_vars(WorkerStep(e)) /\ WF_vars(HandoffAges(e))
          /\ WF_vars(RecoverWrite(Survivor, e))
    /\ WF_vars(RecoverRead(Survivor))

FairSpec == Spec /\ Fairness

----------------------------------------------------------------------------
(* Properties. *)

Snapshots ==
    [status : Open, owner : Processes, handoff : BOOLEAN]

\* The variables keep their types, and the fence of a hand-off stands only
\* around a claim.
TypeOK ==
    /\ status  \in [Executions -> Open \cup Terminal \cup {"none", "pruned"}]
    /\ owner   \in [Executions -> Processes \cup {None}]
    /\ handoff \in [Executions -> BOOLEAN]
    /\ error   \in [Executions -> Errors]
    /\ aged    \in [Executions -> BOOLEAN]
    /\ up      \subseteq Gateways
    /\ gateway \in [Executions -> Gateways \cup {None}]
    /\ stage   \in [Executions -> InGateway \cup {"idle", "done", "failed", "gone"}]
    /\ worker  \in [Executions -> {"none", "loading", "adopted", "acked", "running",
                                   "finished", "exited"}]
    /\ ack     \in [Executions -> BOOLEAN]
    /\ seen    \in [Gateways -> [Executions -> Snapshots \cup {None}]]
    /\ begun   \in [Executions -> SUBSET Processes]
    /\ \A e \in Executions :
          /\ handoff[e] => status[e] = "claimed"
          /\ status[e] = "none" <=> owner[e] = None

\* Process p runs the side effects of execution e.
Runs(e, p) ==
    \/ p = Worker /\ worker[e] = "running"
    \/ p = gateway[e] /\ stage[e] = "running"

\* Whoever runs side effects owns the attempt in the ledger: recovery, launch
\* failures and late transitions of other processes never close it under a
\* runner whose start time is known ("become ``unknown`` only after their exact
\* owner process is proved gone", cron/executions.py:4).
RunnersOwnTheirRow ==
    \A e \in Executions : \A p \in StartKnown :
        Runs(e, p) => status[e] = "running" /\ owner[e] = p

\* The ledger says what happened: an attempt closed as never started had no
\* side effects, and a completed one had.
LedgerIsHonest ==
    \A e \in Executions :
        /\ error[e] = "unstarted" => begun[e] = {}
        /\ status[e] = "completed" => begun[e] # {}

\* An attempt recovered as unknown is over when the start times of its gateway
\* and worker are known: nobody runs it, and a worker that is still loading can
\* only refuse.
UnknownIsOver ==
    \A e \in Executions : status[e] = "unknown" /\ {gateway[e], Worker} \subseteq StartKnown =>
        /\ \A p \in Processes : ~Runs(e, p)
        /\ worker[e] \in {"none", "loading", "exited"}
        /\ stage[e] # "created" /\ stage[e] # "marked"

\* Terminal rows are immutable until they are pruned, whoever is late, and only
\* terminal rows are pruned.
TerminalIsFinal ==
    [][\A e \in Executions :
        /\ status[e] \in Terminal =>
              /\ status'[e] \in {status[e], "pruned"}
              /\ error'[e] = error[e]
        /\ status'[e] = "pruned" => status[e] \in Terminal \cup {"pruned"}
        /\ status[e] = "pruned" => status'[e] = "pruned"]_vars

\* A gateway reports a failed dispatch only for attempts without side effects
\* ("... the pre-handoff dispatch-failure path, which would falsely assert that
\* no side effect could have happened", cron/scheduler.py:3076).
DispatchFailureIsHonest ==
    \A e \in Executions : stage[e] = "failed" => begun[e] = {}

\* Every attempt reaches a terminal status while one gateway stays up, whoever
\* dies between two of its steps.
EveryAttemptEnds ==
    \A e \in Executions : (status[e] \in Open) ~> (status[e] \notin Open)

\* Whoever dispatched an attempt gets its answer or dies.
DispatcherIsAnswered ==
    \A e \in Executions :
        (stage[e] \in InGateway) ~> (stage[e] \in {"done", "failed", "gone"})
=============================================================================
