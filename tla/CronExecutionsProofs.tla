----------------------- MODULE CronExecutionsProofs -----------------------
(***************************************************************************)
(* Theorems about CronExecutions for every set of executions and gateways, *)
(* every mix of managed and unmanaged ones, every retention, and whichever *)
(* start times are known.  Executions meet only in pruning, so the         *)
(* invariant is one of each execution.                                     *)
(***************************************************************************)
EXTENDS CronExecutions, TLAPS

----------------------------------------------------------------------------
(* The inductive invariant. *)

\* Where the dispatching thread stands against the ledger and the worker.
ThreadInv(e) ==
    /\ stage[e] = "idle" <=> status[e] = "none"
    /\ stage[e] # "idle" => gateway[e] \in Gateways
    /\ stage[e] \in InGateway => gateway[e] \in up
    /\ stage[e] \in {"idle", "created", "marked", "running"} => worker[e] = "none"

\* Who has begun, and what the row may say then.
BegunInv(e) ==
    /\ stage[e] \in {"idle", "created", "marked"} => begun[e] = {}
    /\ worker[e] \in {"loading", "adopted", "acked"} => begun[e] = {}
    /\ worker[e] = "running" \/ stage[e] = "running" => begun[e] # {}
    /\ begun[e] # {} => owner[e] = Worker \/ stage[e] \in {"running", "done", "gone"}
    /\ status[e] \in Open \cup {"none"} => error[e] = ""
    /\ error[e] = "unstarted" => begun[e] = {}
    /\ status[e] = "completed" => begun[e] # {}

\* Nobody but recovery closes the row of a worker that adopted it.
AdoptedInv(e) ==
    worker[e] \in {"adopted", "acked", "running"} =>
        /\ owner[e] = Worker
        /\ status[e] \in {"running", "unknown", "pruned"}
        /\ error[e] \in {"", "interrupted"}

\* Nor does recovery, when the start time of the owner is known.
KnownInv(e) ==
    /\ Worker \in StartKnown =>
          /\ worker[e] \in {"adopted", "acked", "running"} => status[e] = "running"
          /\ worker[e] = "finished" => status[e] \in {"completed", "failed", "pruned"}
    /\ gateway[e] \in StartKnown =>
          /\ stage[e] \in {"created", "marked"} => status[e] = "claimed" /\ owner[e] = gateway[e]
          /\ stage[e] = "running" => status[e] = "running" /\ owner[e] = gateway[e]

Life(e) == ThreadInv(e) /\ BegunInv(e) /\ AdoptedInv(e) /\ KnownInv(e)

IInv == TypeOK /\ \A e \in Executions : Life(e)

LEMMA InitIInv == Init => IInv
<1> SUFFICES ASSUME Init PROVE IInv
  OBVIOUS
<1>1. TypeOK
  <2>1. Nothing \in [Executions -> Snapshots \cup {None}]
    BY DEF Nothing
  <2>2. seen \in [Gateways -> [Executions -> Snapshots \cup {None}]]
    BY <2>1 DEF Init
  <2>3. \A e \in Executions : ~handoff[e] /\ status[e] = "none" /\ owner[e] = None
    BY DEF Init
  <2> QED BY <2>2, <2>3 DEF Init, TypeOK, Errors
<1>2. ASSUME NEW e \in Executions
      PROVE  Life(e)
  <2>1. /\ status[e] = "none" /\ stage[e] = "idle" /\ worker[e] = "none"
        /\ begun[e] = {} /\ error[e] = "" /\ gateway[e] = None
    BY DEF Init
  <2>2. gateway[e] \notin StartKnown
    BY <2>1, ExecutionsAssumption
  <2> QED BY <2>1, <2>2 DEF Life, ThreadInv, BegunInv, AdoptedInv, KnownInv, InGateway
<1> QED BY <1>1, <1>2 DEF IInv

----------------------------------------------------------------------------
(* What the transactions of the ledger do. *)

Statuses == Open \cup Terminal \cup {"none", "pruned"}

\* Execution x stays as it is, but a terminal row may be pruned.
Kept(x) ==
    /\ status'[x] = status[x] \/ (status[x] \in Terminal /\ status'[x] = "pruned")
    /\ owner'[x] = owner[x] /\ error'[x] = error[x] /\ handoff'[x] = handoff[x]
    /\ gateway'[x] = gateway[x] /\ stage'[x] = stage[x] /\ worker'[x] = worker[x]
    /\ begun'[x] = begun[x]

LEMMA KeptLife ==
    ASSUME IInv, NEW x \in Executions, Kept(x), up' = up
    PROVE  Life(x)' /\ (handoff'[x] => status'[x] = "claimed")
           /\ (status'[x] = "none" <=> owner'[x] = None)
<1>1. Life(x) /\ (handoff[x] => status[x] = "claimed")
      /\ (status[x] = "none" <=> owner[x] = None)
  BY DEF IInv, TypeOK
<1>2. ThreadInv(x)'
  BY <1>1 DEF Kept, Life, ThreadInv, Terminal
<1>3. BegunInv(x)'
  BY <1>1 DEF Kept, Life, BegunInv, Terminal, Open
<1>4. AdoptedInv(x)'
  BY <1>1 DEF Kept, Life, AdoptedInv, Terminal
<1>5. KnownInv(x)'
  BY <1>1 DEF Kept, Life, KnownInv, Terminal
<1> QED BY <1>1, <1>2, <1>3, <1>4, <1>5 DEF Kept, Life, Terminal

\* Closing a row prunes terminal rows and nothing else.
LEMMA CloseFacts ==
    ASSUME IInv, NEW e \in Executions, status[e] \in Open,
           NEW s \in Terminal, NEW c \in Errors, Close(e, s, c)
    PROVE  /\ status' \in [Executions -> Statuses]
           /\ handoff' \in [Executions -> BOOLEAN]
           /\ error' \in [Executions -> Errors]
           /\ owner' = owner
           /\ status'[e] = s /\ error'[e] = c /\ ~handoff'[e]
           /\ \A x \in Executions \ {e} :
                 /\ status'[x] = status[x] \/ (status[x] \in Terminal /\ status'[x] = "pruned")
                 /\ handoff'[x] = handoff[x] /\ error'[x] = error[x]
<1> USE DEF IInv, TypeOK
<1>1. PICK P \in SUBSET TerminalRows :
        status' = [x \in Executions |->
                      IF x = e THEN s ELSE IF x \in P THEN "pruned" ELSE status[x]]
  BY DEF Close
<1>2. status' \in [Executions -> Statuses]
  BY <1>1 DEF Statuses
<1>3. status'[e] = s
  BY <1>1
<1>4. \A x \in Executions \ {e} :
         status'[x] = status[x] \/ (status[x] \in Terminal /\ status'[x] = "pruned")
  BY <1>1 DEF TerminalRows
<1>5. /\ handoff' = [handoff EXCEPT ![e] = FALSE]
      /\ error' = [error EXCEPT ![e] = c]
      /\ owner' = owner
  BY DEF Close
<1>6. handoff' \in [Executions -> BOOLEAN] /\ error' \in [Executions -> Errors]
  BY <1>5
<1>7. error'[e] = c /\ ~handoff'[e]
      /\ \A x \in Executions \ {e} : handoff'[x] = handoff[x] /\ error'[x] = error[x]
  BY <1>5
<1> QED BY <1>2, <1>3, <1>4, <1>5, <1>6, <1>7

\* A step that touches one execution preserves the invariant if it preserves
\* that execution's share of it.
LEMMA OneExecutionStep ==
    ASSUME IInv, NEW e \in Executions,
           \A x \in Executions \ {e} : Kept(x),
           Life(e)',
           handoff'[e] => status'[e] = "claimed",
           status'[e] = "none" <=> owner'[e] = None,
           status' \in [Executions -> Statuses],
           owner' \in [Executions -> Processes \cup {None}],
           handoff' \in [Executions -> BOOLEAN],
           error' \in [Executions -> Errors],
           aged' \in [Executions -> BOOLEAN],
           gateway' \in [Executions -> Gateways \cup {None}],
           stage' \in [Executions -> InGateway \cup {"idle", "done", "failed", "gone"}],
           worker' \in [Executions -> {"none", "loading", "adopted", "acked", "running",
                                       "finished", "exited"}],
           ack' \in [Executions -> BOOLEAN],
           seen' \in [Gateways -> [Executions -> Snapshots \cup {None}]],
           begun' \in [Executions -> SUBSET Processes],
           up' = up
    PROVE  IInv'
<1>1. \A x \in Executions : Life(x)' /\ (handoff'[x] => status'[x] = "claimed")
                            /\ (status'[x] = "none" <=> owner'[x] = None)
  BY KeptLife
<1>2. TypeOK'
  BY <1>1 DEF IInv, TypeOK, Statuses
<1> QED BY <1>1, <1>2 DEF IInv

----------------------------------------------------------------------------
(* The steps of the dispatching gateway. *)

\* finish_execution by the gateway that owns the row, or by one that lost it.
LEMMA GatewayFinishes ==
    ASSUME IInv, NEW e \in Executions, NEW s \in {"completed", "failed"},
           NEW c \in {"unstarted", "run"}, NEW x \in {"done", "failed"},
           stage[e] \in InGateway,
           c = "unstarted" => s = "failed" /\ stage[e] # "running",
           c = "run" => stage[e] = "running" /\ x = "done",
           Finish(e, gateway[e], s, c),
           stage' = [stage EXCEPT ![e] = x],
           UNCHANGED <<aged, up, gateway, worker, ack, seen, begun>>
    PROVE  IInv'
<1>1. Life(e) /\ TypeOK /\ s \in Terminal /\ c \in Errors /\ owner[e] \in Processes \cup {None}
  BY DEF IInv, TypeOK, Terminal, Errors
<1>2. stage'[e] = x /\ \A y \in Executions \ {e} : stage'[y] = stage[y]
  BY <1>1 DEF TypeOK
<1>3. stage' \in [Executions -> InGateway \cup {"idle", "done", "failed", "gone"}]
  BY <1>1 DEF TypeOK
<1>4. gateway[e] \in Gateways /\ gateway[e] # Worker /\ status[e] # "none"
  BY <1>1, ExecutionsAssumption DEF Life, ThreadInv, InGateway
<1>5. CASE MayFinish(e, gateway[e])
  <2>1. Close(e, s, c) /\ status[e] \in Open /\ owner[e] = gateway[e]
    BY <1>5 DEF Finish, MayFinish
  <2>2. /\ status' \in [Executions -> Statuses]
        /\ handoff' \in [Executions -> BOOLEAN]
        /\ error' \in [Executions -> Errors]
        /\ owner' = owner
        /\ status'[e] = s /\ error'[e] = c /\ ~handoff'[e]
        /\ \A y \in Executions \ {e} :
              /\ status'[y] = status[y] \/ (status[y] \in Terminal /\ status'[y] = "pruned")
              /\ handoff'[y] = handoff[y] /\ error'[y] = error[y]
    BY <1>1, <2>1, CloseFacts
  <2>3. \A y \in Executions \ {e} : Kept(y)
    BY <1>2, <2>2 DEF Kept
  <2>4. ThreadInv(e)'
    BY <1>1, <1>2, <2>2 DEF Life, ThreadInv, InGateway
  <2>5. BegunInv(e)'
    BY <1>1, <1>2, <1>4, <2>1, <2>2 DEF Life, ThreadInv, BegunInv, InGateway, Open
  <2>6. AdoptedInv(e)'
    BY <1>1, <1>4, <2>1, <2>2 DEF Life, AdoptedInv
  <2>7. KnownInv(e)'
    BY <1>1, <1>2, <1>4, <2>1, <2>2 DEF Life, AdoptedInv, KnownInv
  <2>8. Life(e)'
    BY <2>4, <2>5, <2>6, <2>7 DEF Life
  <2>9. owner[e] # None
    BY <2>1, <1>4, ExecutionsAssumption
  <2> QED BY <1>1, <1>3, <2>2, <2>3, <2>8, <2>9, OneExecutionStep DEF TypeOK
<1>6. CASE ~MayFinish(e, gateway[e])
  <2>1. UNCHANGED row
    BY <1>6 DEF Finish
  <2>2. \A y \in Executions \ {e} : Kept(y)
    BY <1>2, <2>1 DEF Kept, row
  <2>3. ThreadInv(e)'
    BY <1>1, <1>2, <2>1 DEF Life, ThreadInv, InGateway, row
  <2>4. BegunInv(e)'
    BY <1>1, <1>2, <2>1 DEF Life, BegunInv, InGateway, row
  <2>5. AdoptedInv(e)' /\ KnownInv(e)'
    BY <1>1, <1>2, <2>1 DEF Life, AdoptedInv, KnownInv, row
  <2> QED BY <1>1, <1>3, <2>1, <2>2, <2>3, <2>4, <2>5, OneExecutionStep DEF TypeOK, Life, row, Statuses
<1> QED BY <1>5, <1>6

\* A step that leaves the ledger alone moves the threads of one execution.
LEMMA ThreadStep ==
    ASSUME IInv, NEW e \in Executions, UNCHANGED <<row, aged, up, gateway, seen>>,
           stage' \in [Executions -> InGateway \cup {"idle", "done", "failed", "gone"}],
           worker' \in [Executions -> {"none", "loading", "adopted", "acked", "running",
                                       "finished", "exited"}],
           ack' \in [Executions -> BOOLEAN],
           begun' \in [Executions -> SUBSET Processes],
           \A x \in Executions \ {e} :
               stage'[x] = stage[x] /\ worker'[x] = worker[x] /\ begun'[x] = begun[x],
           Life(e)'
    PROVE  IInv'
<1>1. \A x \in Executions \ {e} : Kept(x)
  BY DEF Kept, row
<1> QED BY <1>1, OneExecutionStep DEF IInv, TypeOK, row, Statuses

LEMMA CreateStep ==
    ASSUME IInv, NEW g \in Gateways, NEW e \in Executions, Create(g, e)
    PROVE  IInv'
<1> USE DEF Create
<1>1. TypeOK /\ Life(e)
  BY DEF IInv
<1>2. /\ status'[e] = "claimed" /\ owner'[e] = g /\ gateway'[e] = g /\ stage'[e] = "created"
      /\ \A x \in Executions \ {e} :
            /\ status'[x] = status[x] /\ owner'[x] = owner[x]
            /\ gateway'[x] = gateway[x] /\ stage'[x] = stage[x]
  BY <1>1 DEF TypeOK
<1>3. /\ status' \in [Executions -> Statuses]
      /\ owner' \in [Executions -> Processes \cup {None}]
      /\ gateway' \in [Executions -> Gateways \cup {None}]
      /\ stage' \in [Executions -> InGateway \cup {"idle", "done", "failed", "gone"}]
  BY <1>1 DEF TypeOK, Statuses, Open, InGateway, Processes
<1>4. \A x \in Executions \ {e} : Kept(x)
  BY <1>2 DEF Kept
<1>5. /\ status[e] = "none" /\ stage[e] = "idle" /\ worker[e] = "none"
      /\ begun[e] = {} /\ error[e] = ""
  BY <1>1 DEF Life, ThreadInv, BegunInv
<1>6. ThreadInv(e)'
  <2>1. worker' = worker /\ up' = up /\ g \in up
    OBVIOUS
  <2> QED BY <1>2, <1>5, <2>1 DEF ThreadInv
<1>7. BegunInv(e)'
  BY <1>2, <1>5 DEF BegunInv, Open
<1>8. AdoptedInv(e)' /\ KnownInv(e)'
  BY <1>2, <1>5 DEF AdoptedInv, KnownInv
<1>9. owner'[e] # None
  BY <1>2, ExecutionsAssumption
<1> QED BY <1>1, <1>2, <1>3, <1>4, <1>6, <1>7, <1>8, <1>9, OneExecutionStep DEF TypeOK, Life

LEMMA RunInProcessStep ==
    ASSUME IInv, NEW e \in Executions, RunInProcess(e)
    PROVE  IInv'
<1> USE DEF RunInProcess
<1>1. TypeOK /\ Life(e) /\ gateway[e] \in Gateways /\ gateway[e] \in Processes
  BY DEF IInv, Life, ThreadInv, Processes
<1>2. CASE MayStart(e, gateway[e])
  <2>1. /\ status'[e] = "running" /\ stage'[e] = "running"
        /\ begun'[e] = begun[e] \cup {gateway[e]}
        /\ \A x \in Executions \ {e} :
              status'[x] = status[x] /\ stage'[x] = stage[x] /\ begun'[x] = begun[x]
    BY <1>1, <1>2 DEF TypeOK
  <2>2. /\ status' \in [Executions -> Statuses]
        /\ stage' \in [Executions -> InGateway \cup {"idle", "done", "failed", "gone"}]
        /\ begun' \in [Executions -> SUBSET Processes]
    BY <1>1, <1>2 DEF TypeOK, Statuses, Open, InGateway
  <2>3. \A x \in Executions \ {e} : Kept(x)
    BY <2>1 DEF Kept
  <2>4. status[e] = "claimed" /\ ~handoff[e] /\ owner[e] = gateway[e] /\ stage[e] = "created"
        /\ worker[e] = "none" /\ error[e] = "" /\ gateway[e] \in up
    BY <1>1, <1>2 DEF MayStart, Life, ThreadInv, BegunInv, Open, InGateway
  <2>5. ThreadInv(e)'
    BY <1>1, <2>1, <2>4 DEF ThreadInv, InGateway
  <2>6. BegunInv(e)'
    BY <2>1, <2>4 DEF BegunInv, Open
  <2>7. AdoptedInv(e)' /\ KnownInv(e)'
    BY <2>1, <2>4 DEF AdoptedInv, KnownInv
  <2>8. owner[e] # None
    BY <1>1, <2>4, ExecutionsAssumption
  <2> QED BY <1>1, <2>1, <2>2, <2>3, <2>4, <2>5, <2>6, <2>7, <2>8, OneExecutionStep DEF TypeOK, Life
<1>3. CASE ~MayStart(e, gateway[e])
  <2>1. stage'[e] = "done" /\ \A x \in Executions \ {e} : stage'[x] = stage[x]
    BY <1>1, <1>3 DEF TypeOK
  <2>2. stage' \in [Executions -> InGateway \cup {"idle", "done", "failed", "gone"}]
    BY <1>1, <1>3 DEF TypeOK
  <2>3. ThreadInv(e)' /\ BegunInv(e)'
    BY <1>1, <1>3, <2>1 DEF Life, ThreadInv, BegunInv, InGateway
  <2>4. AdoptedInv(e)' /\ KnownInv(e)'
    BY <1>1, <1>3, <2>1 DEF Life, AdoptedInv, KnownInv
  <2> QED BY <1>1, <1>3, <2>1, <2>2, <2>3, <2>4, ThreadStep DEF TypeOK, Life, row
<1> QED BY <1>2, <1>3

LEMMA MarkHandoffStep ==
    ASSUME IInv, NEW e \in Executions, MarkHandoff(e)
    PROVE  IInv'
<1> USE DEF MarkHandoff
<1>1. TypeOK /\ Life(e) /\ status[e] = "claimed"
  BY DEF IInv, MayMark
<1>2. /\ handoff'[e] /\ stage'[e] = "marked"
      /\ \A x \in Executions \ {e} : handoff'[x] = handoff[x] /\ stage'[x] = stage[x]
  BY <1>1 DEF TypeOK
<1>3. /\ handoff' \in [Executions -> BOOLEAN]
      /\ stage' \in [Executions -> InGateway \cup {"idle", "done", "failed", "gone"}]
  BY <1>1 DEF TypeOK, InGateway
<1>4. \A x \in Executions \ {e} : Kept(x)
  BY <1>2 DEF Kept
<1>5. ThreadInv(e)' /\ BegunInv(e)'
  BY <1>1, <1>2 DEF Life, ThreadInv, BegunInv, InGateway, Open
<1>6. AdoptedInv(e)' /\ KnownInv(e)'
  BY <1>1, <1>2 DEF Life, AdoptedInv, KnownInv
<1>7. status'[e] = "none" <=> owner'[e] = None
  BY <1>1 DEF TypeOK
<1>8. status' \in [Executions -> Statuses]
  BY <1>1 DEF TypeOK, Statuses
<1> QED BY <1>1, <1>2, <1>3, <1>4, <1>5, <1>6, <1>7, <1>8, OneExecutionStep DEF TypeOK, Life

\* The launching and waiting thread moves on.
LEMMA LauncherMoves ==
    ASSUME IInv, NEW e \in Executions,
           Spawn(e) \/ StopPolling(e) \/ NoAckYet(e) \/ StillRunning(e) \/ WaiterSeesEnd(e)
    PROVE  IInv'
<1> USE DEF Spawn, StopPolling, NoAckYet, StillRunning, WaiterSeesEnd
<1>1. TypeOK /\ Life(e)
  BY DEF IInv
<1>2. /\ stage' \in [Executions -> InGateway \cup {"idle", "done", "failed", "gone"}]
      /\ worker' \in [Executions -> {"none", "loading", "adopted", "acked", "running",
                                      "finished", "exited"}]
      /\ ack' \in [Executions -> BOOLEAN]
  BY <1>1 DEF TypeOK, InGateway
<1>3. \A x \in Executions \ {e} : stage'[x] = stage[x] /\ worker'[x] = worker[x]
  BY <1>1 DEF TypeOK
<1>4. /\ stage[e] \in {"marked", "polling", "checked", "waiting"}
      /\ stage'[e] \in {"polling", "checked", "waiting", "done"}
      /\ worker'[e] = worker[e] \/ (stage[e] = "marked" /\ worker'[e] = "loading")
  BY <1>1 DEF TypeOK
<1>5. UNCHANGED <<row, aged, up, gateway, seen, begun>>
  OBVIOUS
<1>6. ThreadInv(e)' /\ BegunInv(e)'
  BY <1>1, <1>4, <1>5 DEF Life, ThreadInv, BegunInv, InGateway, row
<1>7. AdoptedInv(e)' /\ KnownInv(e)'
  BY <1>1, <1>4, <1>5 DEF Life, ThreadInv, AdoptedInv, KnownInv, row
<1> QED BY <1>1, <1>2, <1>3, <1>5, <1>6, <1>7, ThreadStep DEF TypeOK, Life

LEMMA WaiterRecoversStep ==
    ASSUME IInv, NEW e \in Executions, WaiterRecovers(e)
    PROVE  IInv'
<1> USE DEF WaiterRecovers
<1>1. TypeOK /\ Life(e)
  BY DEF IInv
<1>2. stage'[e] = "done" /\ \A x \in Executions \ {e} : stage'[x] = stage[x]
  BY <1>1 DEF TypeOK
<1>3. stage' \in [Executions -> InGateway \cup {"idle", "done", "failed", "gone"}]
  BY <1>1 DEF TypeOK
<1>4. /\ status' \in [Executions -> Statuses]
      /\ handoff' \in [Executions -> BOOLEAN]
      /\ error' \in [Executions -> Errors]
      /\ owner' = owner
      /\ status'[e] = "unknown" /\ error'[e] = "interrupted" /\ ~handoff'[e]
      /\ \A y \in Executions \ {e} :
            /\ status'[y] = status[y] \/ (status[y] \in Terminal /\ status'[y] = "pruned")
            /\ handoff'[y] = handoff[y] /\ error'[y] = error[y]
  BY CloseFacts DEF Open, Terminal, Errors
<1>5. \A x \in Executions \ {e} : Kept(x)
  BY <1>2, <1>4 DEF Kept
<1>6. ThreadInv(e)'
  BY <1>1, <1>2, <1>4 DEF Life, ThreadInv, InGateway
<1>7. BegunInv(e)'
  BY <1>1, <1>2, <1>4 DEF Life, BegunInv, InGateway, Open
<1>8. AdoptedInv(e)' /\ KnownInv(e)'
  BY <1>1, <1>2, <1>4 DEF Life, AdoptedInv, KnownInv
<1>9. owner[e] # None
  BY <1>1 DEF TypeOK
<1> QED BY <1>1, <1>3, <1>4, <1>5, <1>6, <1>7, <1>8, <1>9, OneExecutionStep DEF TypeOK, Life

\* The steps of a gateway that end in finish_execution.
LEMMA GatewayCloses ==
    ASSUME IInv, NEW e \in Executions,
           \/ CloseUnstarted(e) \/ LaunchFails(e) \/ ExitBeforeAck(e) \/ WaiterFails(e)
           \/ \E s \in {"completed", "failed"} : FinishInProcess(e, s)
    PROVE  IInv'
<1>1. CASE CloseUnstarted(e)
  BY <1>1, GatewayFinishes DEF CloseUnstarted, InGateway
<1>2. CASE LaunchFails(e) \/ ExitBeforeAck(e) \/ WaiterFails(e)
  <2>1. stage[e] \in InGateway /\ stage[e] # "running" /\ FailDispatch(e)
    BY <1>2 DEF LaunchFails, ExitBeforeAck, WaiterFails, InGateway
  <2> QED BY <2>1, GatewayFinishes DEF FailDispatch
<1>3. ASSUME NEW s \in {"completed", "failed"}, FinishInProcess(e, s)
      PROVE  IInv'
  BY <1>3, GatewayFinishes DEF FinishInProcess, InGateway
<1> QED BY <1>1, <1>2, <1>3

----------------------------------------------------------------------------
(* The worker, recovery, and the end of a gateway. *)

LEMMA AdoptStep ==
    ASSUME IInv, NEW e \in Executions, Adopt(e)
    PROVE  IInv'
<1> USE DEF Adopt
<1>1. TypeOK /\ Life(e) /\ worker[e] = "loading"
  BY DEF IInv
<1>2. worker' \in [Executions -> {"none", "loading", "adopted", "acked", "running",
                                  "finished", "exited"}]
  <2>1. \/ worker' = [worker EXCEPT ![e] = "adopted"]
        \/ worker' = [worker EXCEPT ![e] = "exited"]
    OBVIOUS
  <2> QED BY <1>1, <2>1 DEF TypeOK
<1>3. CASE MayAdopt(e)
  <2>1. /\ status'[e] = "running" /\ owner'[e] = Worker /\ ~handoff'[e] /\ worker'[e] = "adopted"
        /\ \A x \in Executions \ {e} :
              /\ status'[x] = status[x] /\ owner'[x] = owner[x]
              /\ handoff'[x] = handoff[x] /\ worker'[x] = worker[x]
    BY <1>1, <1>3 DEF TypeOK, Fence
  <2>2. /\ status' \in [Executions -> Statuses]
        /\ owner' \in [Executions -> Processes \cup {None}]
        /\ handoff' \in [Executions -> BOOLEAN]
    BY <1>1, <1>3 DEF TypeOK, Statuses, Open, Processes, Fence
  <2>3. \A x \in Executions \ {e} : Kept(x)
    BY <2>1 DEF Kept
  <2>4. /\ status[e] = "claimed" /\ begun[e] = {} /\ error[e] = ""
        /\ stage[e] \notin {"idle", "created", "marked", "running"}
    BY <1>1, <1>3 DEF MayAdopt, Life, ThreadInv, BegunInv, Open
  <2>5. ThreadInv(e)'
    BY <1>1, <2>1, <2>4 DEF Life, ThreadInv
  <2>6. BegunInv(e)'
    BY <1>1, <2>1, <2>4 DEF Life, BegunInv, Open
  <2>7. AdoptedInv(e)' /\ KnownInv(e)'
    BY <2>1, <2>4 DEF AdoptedInv, KnownInv
  <2>8. owner'[e] # None
    BY <2>1, ExecutionsAssumption
  <2> QED BY <1>1, <1>2, <2>1, <2>2, <2>3, <2>5, <2>6, <2>7, <2>8, OneExecutionStep DEF TypeOK, Life
<1>4. CASE ~MayAdopt(e)
  <2>1. worker'[e] = "exited" /\ \A x \in Executions \ {e} : worker'[x] = worker[x]
    BY <1>1, <1>4 DEF TypeOK
  <2>2. ThreadInv(e)' /\ BegunInv(e)'
    BY <1>1, <1>4, <2>1 DEF Life, ThreadInv, BegunInv
  <2>3. AdoptedInv(e)' /\ KnownInv(e)'
    BY <1>1, <1>4, <2>1 DEF Life, AdoptedInv, KnownInv
  <2> QED BY <1>1, <1>2, <1>4, <2>1, <2>2, <2>3, ThreadStep DEF TypeOK, Life, row
<1> QED BY <1>3, <1>4

\* The worker acknowledges, begins, exits or dies.
LEMMA WorkerMoves ==
    ASSUME IInv, NEW e \in Executions,
           PublishAck(e) \/ WorkerBegins(e) \/ WorkerExits(e) \/ WorkerDies(e)
    PROVE  IInv'
<1> USE DEF PublishAck, WorkerBegins, WorkerExits, WorkerDies
<1>1. TypeOK /\ Life(e)
  BY DEF IInv
<1>2. /\ worker' \in [Executions -> {"none", "loading", "adopted", "acked", "running",
                                      "finished", "exited"}]
      /\ ack' \in [Executions -> BOOLEAN]
      /\ begun' \in [Executions -> SUBSET Processes]
  <2>1. PICK k \in {"acked", "running", "exited"} : worker' = [worker EXCEPT ![e] = k]
    OBVIOUS
  <2>2. ack' = ack \/ ack' = [ack EXCEPT ![e] = TRUE]
    OBVIOUS
  <2>3. begun' = begun \/ begun' = [begun EXCEPT ![e] = @ \cup {Worker}]
    OBVIOUS
  <2>4. begun' \in [Executions -> SUBSET Processes]
    BY <1>1, <2>3 DEF TypeOK, Processes
  <2> QED BY <1>1, <2>1, <2>2, <2>4 DEF TypeOK
<1>3. \A x \in Executions \ {e} : worker'[x] = worker[x] /\ begun'[x] = begun[x]
  BY <1>1 DEF TypeOK
<1>4. /\ worker[e] # "none"
      /\ \/ worker'[e] = "exited" /\ begun'[e] = begun[e]
         \/ worker[e] = "adopted" /\ worker'[e] = "acked" /\ begun'[e] = begun[e]
         \/ worker[e] = "acked" /\ worker'[e] = "running" /\ begun'[e] = begun[e] \cup {Worker}
  BY <1>1 DEF TypeOK, WorkerAlive
<1>5. UNCHANGED <<row, aged, up, gateway, seen, stage>>
  OBVIOUS
<1>6. stage[e] \notin {"idle", "created", "marked", "running"}
  BY <1>1, <1>4 DEF Life, ThreadInv
<1>7. ThreadInv(e)'
  BY <1>1, <1>5, <1>6 DEF Life, ThreadInv, row
<1>8. BegunInv(e)'
  BY <1>1, <1>4, <1>5, <1>6 DEF Life, BegunInv, AdoptedInv, Open, row
<1>9. AdoptedInv(e)' /\ KnownInv(e)'
  BY <1>1, <1>4, <1>5, <1>6 DEF Life, AdoptedInv, KnownInv, row
<1> QED BY <1>1, <1>2, <1>3, <1>5, <1>7, <1>8, <1>9, ThreadStep DEF TypeOK, Life

\* finish_execution by the worker.
LEMMA WorkerFinishes ==
    ASSUME IInv, NEW e \in Executions,
           WorkerCloses(e) \/ \E s \in {"completed", "failed"} : WorkerEnds(e, s)
    PROVE  IInv'
<1>1. TypeOK /\ Life(e)
  BY DEF IInv
<1>2. PICK s \in {"completed", "failed"}, c \in {"unstarted", "run"} :
        /\ Finish(e, Worker, s, c)
        /\ c = "unstarted" => worker[e] = "acked" /\ s = "failed"
        /\ c = "run" => worker[e] = "running"
  BY DEF WorkerCloses, WorkerEnds
<1>3. /\ worker' = [worker EXCEPT ![e] = "finished"]
      /\ UNCHANGED <<aged, up, gateway, stage, ack, seen, begun>>
  BY DEF WorkerCloses, WorkerEnds
<1>4. worker'[e] = "finished" /\ \A x \in Executions \ {e} : worker'[x] = worker[x]
  BY <1>1, <1>3 DEF TypeOK
<1>5. worker' \in [Executions -> {"none", "loading", "adopted", "acked", "running",
                                  "finished", "exited"}]
  BY <1>1, <1>3 DEF TypeOK
<1>6. /\ worker[e] \in {"acked", "running"} /\ owner[e] = Worker
      /\ stage[e] \notin {"idle", "created", "marked", "running"}
  BY <1>1, <1>2 DEF Life, ThreadInv, AdoptedInv
<1>7. CASE MayFinish(e, Worker)
  <2>1. Close(e, s, c) /\ status[e] \in Open /\ s \in Terminal /\ c \in Errors
    BY <1>2, <1>7 DEF Finish, MayFinish, Terminal, Errors
  <2>2. /\ status' \in [Executions -> Statuses]
        /\ handoff' \in [Executions -> BOOLEAN]
        /\ error' \in [Executions -> Errors]
        /\ owner' = owner
        /\ status'[e] = s /\ error'[e] = c /\ ~handoff'[e]
        /\ \A y \in Executions \ {e} :
              /\ status'[y] = status[y] \/ (status[y] \in Terminal /\ status'[y] = "pruned")
              /\ handoff'[y] = handoff[y] /\ error'[y] = error[y]
    BY <2>1, CloseFacts
  <2>3. \A x \in Executions \ {e} : Kept(x)
    BY <1>3, <1>4, <2>2 DEF Kept
  <2>4. ThreadInv(e)'
    BY <1>1, <1>3, <1>6, <2>2 DEF Life, ThreadInv
  <2>5. BegunInv(e)'
    BY <1>1, <1>2, <1>3, <1>4, <1>6, <2>2 DEF Life, BegunInv, Open
  <2>6. AdoptedInv(e)' /\ KnownInv(e)'
    BY <1>1, <1>3, <1>4, <1>6, <2>2 DEF Life, AdoptedInv, KnownInv
  <2>7. owner[e] # None
    BY <1>6, ExecutionsAssumption
  <2> QED BY <1>1, <1>3, <1>5, <2>2, <2>3, <2>4, <2>5, <2>6, <2>7, OneExecutionStep DEF TypeOK, Life
<1>8. CASE ~MayFinish(e, Worker)
  <2>1. UNCHANGED row
    BY <1>2, <1>8 DEF Finish
  <2>2. status[e] \in {"unknown", "pruned"} /\ Worker \notin StartKnown
    BY <1>1, <1>6, <1>8 DEF MayFinish, Life, AdoptedInv, KnownInv, Open
  <2>3. ThreadInv(e)' /\ BegunInv(e)'
    BY <1>1, <1>3, <1>4, <1>6, <2>1 DEF Life, ThreadInv, BegunInv, row
  <2>4. AdoptedInv(e)' /\ KnownInv(e)'
    BY <1>1, <1>3, <1>4, <1>6, <2>1, <2>2 DEF Life, AdoptedInv, KnownInv, row
  <2> QED BY <1>1, <1>3, <1>4, <1>5, <2>1, <2>3, <2>4, ThreadStep DEF TypeOK, Life
<1> QED BY <1>7, <1>8

\* The read half of recovery, and the passing of the grace period.
LEMMA ReadingSteps ==
    ASSUME IInv,
           \/ \E g \in Gateways : RecoverRead(g)
           \/ \E e \in Executions : HandoffAges(e)
    PROVE  IInv'
<1>1. TypeOK /\ \A e \in Executions : Life(e)
  BY DEF IInv
<1>2. UNCHANGED <<row, up, gateway, threads, begun>>
  BY DEF RecoverRead, HandoffAges
<1>3. aged' \in [Executions -> BOOLEAN]
  BY <1>1 DEF RecoverRead, HandoffAges, TypeOK
<1>4. seen' \in [Gateways -> [Executions -> Snapshots \cup {None}]]
  <2>1. ASSUME NEW g \in Gateways, RecoverRead(g)
        PROVE  seen' \in [Gateways -> [Executions -> Snapshots \cup {None}]]
    <3> DEFINE read == [e \in Executions |->
                          IF status[e] \in Open
                          THEN [status |-> status[e], owner |-> owner[e], handoff |-> handoff[e]]
                          ELSE None]
    <3>1. \A e \in Executions : status[e] \in Open => owner[e] \in Processes /\ handoff[e] \in BOOLEAN
      BY <1>1 DEF TypeOK, Open
    <3>2. read \in [Executions -> Snapshots \cup {None}]
      BY <3>1 DEF Snapshots
    <3>3. seen' = [seen EXCEPT ![g] = read]
      BY <2>1 DEF RecoverRead
    <3> HIDE DEF read
    <3> QED BY <1>1, <3>2, <3>3 DEF TypeOK
  <2>2. ASSUME NEW e \in Executions, HandoffAges(e)
        PROVE  seen' = seen
    BY <2>2 DEF HandoffAges
  <2> QED BY <1>1, <2>1, <2>2 DEF TypeOK
<1>5. \A e \in Executions : Life(e)'
  BY <1>1, <1>2, ZenonT(30) DEF Life, ThreadInv, BegunInv, AdoptedInv, KnownInv, row, threads
<1> QED BY <1>1, <1>2, <1>3, <1>4, <1>5 DEF IInv, TypeOK, row, threads

\* Recovery closes only rows whose owner seems gone.
LEMMA RecoverWriteStep ==
    ASSUME IInv, NEW g \in Gateways, NEW e \in Executions, RecoverWrite(g, e)
    PROVE  IInv'
<1> USE DEF RecoverWrite
<1>1. TypeOK /\ Life(e) /\ seen[g][e] \in Snapshots
  BY DEF IInv, TypeOK
<1>2. UNCHANGED <<aged, up, gateway, threads, begun>>
  OBVIOUS
<1>3. seen' \in [Gateways -> [Executions -> Snapshots \cup {None}]]
  BY <1>1 DEF TypeOK
<1>4. CASE Abandoned(g, e, seen[g][e]) /\ Unchanged(e, seen[g][e])
  <2>1. Close(e, "unknown", "interrupted") /\ status[e] \in Open
    BY <1>1, <1>4 DEF Snapshots, Unchanged
  <2>2. owner[e] # g /\ owner[e] \in Processes /\ ~(Alive(e, owner[e]) /\ owner[e] \in StartKnown)
    BY <1>1, <1>4 DEF Abandoned, Unchanged, SeemsLive, Snapshots
  <2>3. /\ status' \in [Executions -> Statuses]
        /\ handoff' \in [Executions -> BOOLEAN]
        /\ error' \in [Executions -> Errors]
        /\ owner' = owner
        /\ status'[e] = "unknown" /\ error'[e] = "interrupted" /\ ~handoff'[e]
        /\ \A y \in Executions \ {e} :
              /\ status'[y] = status[y] \/ (status[y] \in Terminal /\ status'[y] = "pruned")
              /\ handoff'[y] = handoff[y] /\ error'[y] = error[y]
    BY <2>1, CloseFacts DEF Terminal, Errors
  <2>4. \A x \in Executions \ {e} : Kept(x)
    BY <1>2, <2>3 DEF Kept, threads
  <2>5. ThreadInv(e)' /\ AdoptedInv(e)'
    BY <1>1, <1>2, <2>1, <2>3 DEF Life, ThreadInv, AdoptedInv, threads, Open
  <2>6. BegunInv(e)'
    BY <1>1, <1>2, <2>3 DEF Life, BegunInv, threads, Open
  <2>7. KnownInv(e)'
    <3>1. Worker \in StartKnown => worker[e] \notin {"adopted", "acked", "running", "finished"}
      BY <1>1, <2>1, <2>2 DEF Life, AdoptedInv, KnownInv, Alive, WorkerAlive, Open
    <3>2. gateway[e] \in StartKnown => stage[e] \notin {"created", "marked", "running"}
      <4>1. stage[e] \in {"created", "marked", "running"} =>
              gateway[e] \in Gateways /\ gateway[e] \in up /\ gateway[e] # Worker
        BY <1>1, ExecutionsAssumption DEF Life, ThreadInv, InGateway
      <4> QED BY <1>1, <2>2, <4>1 DEF Life, KnownInv, Alive
    <3> QED BY <1>2, <3>1, <3>2 DEF KnownInv, threads
  <2>8. owner[e] # None
    BY <1>1, <2>1 DEF TypeOK, Open
  <2> QED BY <1>1, <1>2, <1>3, <2>3, <2>4, <2>5, <2>6, <2>7, <2>8, OneExecutionStep
          DEF TypeOK, Life, threads
<1>5. CASE ~(Abandoned(g, e, seen[g][e]) /\ Unchanged(e, seen[g][e]))
  <2>1. UNCHANGED <<row, aged, up, gateway, threads, begun>>
    BY <1>2, <1>5
  <2>2. \A x \in Executions : Life(x)'
    BY <2>1, ZenonT(30) DEF IInv, Life, ThreadInv, BegunInv, AdoptedInv, KnownInv, row, threads
  <2> QED BY <1>1, <1>3, <2>1, <2>2 DEF IInv, TypeOK, row, threads
<1> QED BY <1>4, <1>5

\* A gateway takes its threads with it.
LEMMA GatewayDiesStep ==
    ASSUME IInv, NEW g \in Gateways, GatewayDies(g)
    PROVE  IInv'
<1> USE DEF GatewayDies
<1>1. TypeOK /\ \A e \in Executions : Life(e)
  BY DEF IInv
<1>2. \A e \in Executions :
        \/ stage[e] \in InGateway /\ stage'[e] = "gone"
        \/ stage'[e] = stage[e] /\ ~(gateway[e] = g /\ stage[e] \in InGateway)
  OBVIOUS
<1>3. UNCHANGED <<row, aged, gateway, worker, ack, begun>>
  OBVIOUS
<1>4. \A e \in Executions : ThreadInv(e)'
  BY <1>1, <1>2, <1>3 DEF Life, ThreadInv, InGateway, row
<1>5. \A e \in Executions : BegunInv(e)'
  BY <1>1, <1>2, <1>3 DEF Life, BegunInv, InGateway, row
<1>6. \A e \in Executions : AdoptedInv(e)' /\ KnownInv(e)'
  BY <1>1, <1>2, <1>3 DEF Life, AdoptedInv, KnownInv, InGateway, row
<1>7. TypeOK'
  <2>1. stage' \in [Executions -> InGateway \cup {"idle", "done", "failed", "gone"}]
    BY <1>1 DEF TypeOK
  <2>2. seen' \in [Gateways -> [Executions -> Snapshots \cup {None}]]
    <3>1. Nothing \in [Executions -> Snapshots \cup {None}]
      BY DEF Nothing
    <3> QED BY <1>1, <3>1 DEF TypeOK
  <2> QED BY <1>1, <1>3, <2>1, <2>2 DEF TypeOK, row
<1> QED BY <1>4, <1>5, <1>6, <1>7 DEF IInv, Life

----------------------------------------------------------------------------
(* The theorems. *)

LEMMA NextIInv == IInv /\ [Next]_vars => IInv'
<1> SUFFICES ASSUME IInv, [Next]_vars PROVE IInv'
  OBVIOUS
<1>1. ASSUME NEW e \in Executions, NEW g \in Gateways, Create(g, e)
      PROVE  IInv'
  BY <1>1, CreateStep
<1>2. ASSUME NEW e \in Executions, LocalStep(e)
      PROVE  IInv'
  BY <1>2, RunInProcessStep, GatewayCloses DEF LocalStep
<1>3. ASSUME NEW e \in Executions, LaunchStep(e)
      PROVE  IInv'
  BY <1>3, MarkHandoffStep, GatewayCloses, LauncherMoves DEF LaunchStep
<1>4. ASSUME NEW e \in Executions, WaitStep(e)
      PROVE  IInv'
  BY <1>4, GatewayCloses, LauncherMoves, WaiterRecoversStep DEF WaitStep
<1>5. ASSUME NEW e \in Executions, WorkerStep(e) \/ WorkerDies(e)
      PROVE  IInv'
  BY <1>5, AdoptStep, WorkerMoves, WorkerFinishes DEF WorkerStep
<1>6. ASSUME NEW e \in Executions, HandoffAges(e)
      PROVE  IInv'
  BY <1>6, ReadingSteps
<1>7. ASSUME NEW g \in Gateways, RecoverStep(g)
      PROVE  IInv'
  BY <1>7, ReadingSteps, RecoverWriteStep DEF RecoverStep
<1>8. ASSUME NEW g \in Gateways, GatewayDies(g)
      PROVE  IInv'
  BY <1>8, GatewayDiesStep
<1>9. CASE UNCHANGED vars
  BY <1>9, ZenonT(30) DEF vars, row, threads, IInv, TypeOK, Life, ThreadInv, BegunInv, AdoptedInv, KnownInv
<1> QED BY <1>1, <1>2, <1>3, <1>4, <1>5, <1>6, <1>7, <1>8, <1>9 DEF Next

THEOREM Invariance == Spec => []IInv
BY InitIInv, NextIInv, PTL DEF Spec

\* The variables keep their types, and the fence of a hand-off stands only
\* around a claim.
THEOREM TypeCorrect == Spec => []TypeOK
<1>1. IInv => TypeOK
  BY DEF IInv
<1> QED BY <1>1, Invariance, PTL

\* Whoever runs side effects owns the attempt in the ledger, whatever recovery
\* and late transitions of other processes do.
THEOREM RunnersOwn == Spec => []RunnersOwnTheirRow
<1>1. IInv => RunnersOwnTheirRow
  BY DEF IInv, RunnersOwnTheirRow, Runs, Life, AdoptedInv, KnownInv
<1> QED BY <1>1, Invariance, PTL

\* An attempt closed as never started had no side effects, a completed one had.
THEOREM HonestLedger == Spec => []LedgerIsHonest
<1>1. IInv => LedgerIsHonest
  BY DEF IInv, LedgerIsHonest, Life, BegunInv
<1> QED BY <1>1, Invariance, PTL

\* An attempt recovered as unknown is over when its start times are known.
THEOREM UnknownOver == Spec => []UnknownIsOver
<1>1. IInv => UnknownIsOver
  <2> SUFFICES ASSUME IInv, NEW e \in Executions, status[e] = "unknown",
                      gateway[e] \in StartKnown, Worker \in StartKnown
               PROVE  /\ \A p \in Processes : ~Runs(e, p)
                      /\ worker[e] \in {"none", "loading", "exited"}
                      /\ stage[e] # "created" /\ stage[e] # "marked"
    BY DEF UnknownIsOver
  <2>1. Life(e) /\ TypeOK
    BY DEF IInv
  <2>2. worker[e] \in {"none", "loading", "exited"}
    BY <2>1 DEF Life, KnownInv, TypeOK
  <2>3. stage[e] \notin {"created", "marked", "running"}
    BY <2>1 DEF Life, KnownInv
  <2> QED BY <2>2, <2>3 DEF Runs
<1> QED BY <1>1, Invariance, PTL

\* What a step does to the row of one execution: nothing, or it opens, moves on
\* or closes an open row, or it prunes a terminal one.
RowMoves(e) ==
    \/ status'[e] = status[e] /\ error'[e] = error[e]
    \/ status[e] \in Terminal /\ status'[e] = "pruned" /\ error'[e] = error[e]
    \/ status[e] \in Open \cup {"none"} /\ status'[e] \in Open \cup Terminal

LEMMA CloseMoves ==
    ASSUME IInv, NEW e \in Executions, status[e] \in Open,
           NEW s \in Terminal, NEW c \in Errors, Close(e, s, c)
    PROVE  \A x \in Executions : RowMoves(x)
BY CloseFacts DEF RowMoves

LEMMA FinishMoves ==
    ASSUME IInv, NEW e \in Executions, NEW p, NEW s \in {"completed", "failed"},
           NEW c \in {"unstarted", "run"}, Finish(e, p, s, c)
    PROVE  \A x \in Executions : RowMoves(x)
<1>1. s \in Terminal /\ c \in Errors
  BY DEF Terminal, Errors
<1>2. CASE MayFinish(e, p)
  BY <1>1, <1>2, CloseMoves DEF Finish, MayFinish
<1>3. CASE ~MayFinish(e, p)
  BY <1>3 DEF Finish, RowMoves, row
<1> QED BY <1>2, <1>3

LEMMA NextMoves ==
    ASSUME IInv, [Next]_vars
    PROVE  \A x \in Executions : RowMoves(x)
<1>1. TypeOK
  BY DEF IInv
<1>2. ASSUME NEW e \in Executions, NEW g \in Gateways, Create(g, e)
      PROVE  \A x \in Executions : RowMoves(x)
  BY <1>1, <1>2 DEF Create, RowMoves, TypeOK, Open
<1>3. ASSUME NEW e \in Executions, LocalStep(e)
      PROVE  \A x \in Executions : RowMoves(x)
  <2>1. CASE CloseUnstarted(e)
    BY <2>1, FinishMoves DEF CloseUnstarted
  <2>2. CASE RunInProcess(e)
    <3>1. error' = error
      BY <2>2 DEF RunInProcess
    <3>2. CASE MayStart(e, gateway[e])
      <4>1. status' = [status EXCEPT ![e] = "running"] /\ status[e] = "claimed"
        BY <2>2, <3>2 DEF RunInProcess, MayStart
      <4> QED BY <1>1, <3>1, <4>1 DEF TypeOK, RowMoves, Open
    <3>3. CASE ~MayStart(e, gateway[e])
      BY <2>2, <3>1, <3>3 DEF RunInProcess, RowMoves
    <3> QED BY <3>2, <3>3
  <2>3. ASSUME NEW s \in {"completed", "failed"}, FinishInProcess(e, s)
        PROVE  \A x \in Executions : RowMoves(x)
    BY <2>3, FinishMoves DEF FinishInProcess
  <2> QED BY <1>3, <2>1, <2>2, <2>3 DEF LocalStep
<1>4. ASSUME NEW e \in Executions, LaunchStep(e) \/ WaitStep(e)
      PROVE  \A x \in Executions : RowMoves(x)
  <2>1. CASE LaunchFails(e) \/ ExitBeforeAck(e) \/ WaiterFails(e)
    <3>1. Finish(e, gateway[e], "failed", "unstarted")
      BY <2>1 DEF LaunchFails, ExitBeforeAck, WaiterFails, FailDispatch
    <3> QED BY <3>1, FinishMoves
  <2>2. CASE WaiterRecovers(e)
    BY <2>2, CloseMoves DEF WaiterRecovers, Open, Terminal, Errors
  <2>3. CASE \/ MarkHandoff(e) \/ Spawn(e) \/ StopPolling(e) \/ NoAckYet(e)
             \/ StillRunning(e) \/ WaiterSeesEnd(e)
    BY <2>3 DEF MarkHandoff, Spawn, StopPolling, NoAckYet, StillRunning, WaiterSeesEnd,
                row, RowMoves
  <2> QED BY <1>4, <2>1, <2>2, <2>3 DEF LaunchStep, WaitStep
<1>5. ASSUME NEW e \in Executions, WorkerStep(e) \/ WorkerDies(e)
      PROVE  \A x \in Executions : RowMoves(x)
  <2>1. CASE Adopt(e)
    <3>1. error' = error
      BY <2>1 DEF Adopt
    <3>2. CASE MayAdopt(e)
      <4>1. status' = [status EXCEPT ![e] = "running"] /\ status[e] = "claimed"
        BY <2>1, <3>2 DEF Adopt, MayAdopt
      <4> QED BY <1>1, <3>1, <4>1 DEF TypeOK, RowMoves, Open
    <3>3. CASE ~MayAdopt(e)
      BY <2>1, <3>1, <3>3 DEF Adopt, RowMoves
    <3> QED BY <3>2, <3>3
  <2>2. CASE WorkerCloses(e)
    BY <2>2, FinishMoves DEF WorkerCloses
  <2>3. ASSUME NEW s \in {"completed", "failed"}, WorkerEnds(e, s)
        PROVE  \A x \in Executions : RowMoves(x)
    BY <2>3, FinishMoves DEF WorkerEnds
  <2>4. CASE PublishAck(e) \/ WorkerBegins(e) \/ WorkerExits(e) \/ WorkerDies(e)
    BY <2>4 DEF PublishAck, WorkerBegins, WorkerExits, WorkerDies, row, RowMoves
  <2> QED BY <1>5, <2>1, <2>2, <2>3, <2>4 DEF WorkerStep
<1>6. ASSUME NEW g \in Gateways, RecoverStep(g)
      PROVE  \A x \in Executions : RowMoves(x)
  <2>1. CASE RecoverRead(g)
    BY <2>1 DEF RecoverRead, row, RowMoves
  <2>2. ASSUME NEW e \in Executions, RecoverWrite(g, e)
        PROVE  \A x \in Executions : RowMoves(x)
    <3>1. CASE UNCHANGED row
      BY <3>1 DEF row, RowMoves
    <3>2. CASE Unchanged(e, seen[g][e]) /\ Close(e, "unknown", "interrupted")
      <4>1. seen[g][e] \in Snapshots
        BY <1>1, <2>2 DEF RecoverWrite, TypeOK
      <4>2. status[e] \in Open
        BY <3>2, <4>1 DEF Unchanged, Snapshots
      <4> QED BY <3>2, <4>2, CloseMoves DEF Terminal, Errors
    <3> QED BY <2>2, <3>1, <3>2 DEF RecoverWrite
  <2> QED BY <1>6, <2>1, <2>2 DEF RecoverStep
<1>7. CASE \/ UNCHANGED vars \/ \E e \in Executions : HandoffAges(e)
           \/ \E g \in Gateways : GatewayDies(g)
  BY <1>7 DEF vars, row, HandoffAges, GatewayDies, RowMoves
<1> QED BY <1>2, <1>3, <1>4, <1>5, <1>6, <1>7 DEF Next

\* Terminal rows are immutable until they are pruned, and only terminal rows are
\* pruned.
THEOREM FinalRows == Spec => TerminalIsFinal
<1> DEFINE A == \A e \in Executions :
                  /\ status[e] \in Terminal =>
                        /\ status'[e] \in {status[e], "pruned"}
                        /\ error'[e] = error[e]
                  /\ status'[e] = "pruned" => status[e] \in Terminal \cup {"pruned"}
                  /\ status[e] = "pruned" => status'[e] = "pruned"
<1>1. ASSUME IInv, [Next]_vars
      PROVE  [A]_vars
  <2>1. \A e \in Executions : RowMoves(e)
    BY <1>1, NextMoves
  <2> QED BY <2>1 DEF RowMoves, Open, Terminal
<1> HIDE DEF A
<1>2. Spec => [][A]_vars
  BY <1>1, Invariance, PTL DEF Spec
<1> QED BY <1>2 DEF TerminalIsFinal, A

============================================================================
