------------------------ MODULE DeliveryQueueProofs ------------------------
(***************************************************************************)
(* Theorems about DeliveryQueue for every set of executions and gateways,  *)
(* every retention limit and every assignment of process ids.              *)
(***************************************************************************)
EXTENDS DeliveryQueue, FiniteSetTheorems, TLAPS

----------------------------------------------------------------------------
(* The inductive invariant. *)

\* Without a prune in enqueue's window a tombstone replaces its row, and the
\* worker has not overlooked it.
TombOrRow ==
    \A e \in Executions :
        raced[e] = 0 /\ tomb[e] # "absent" =>
            status[e] = "absent" /\ worker[e] # "enqueueing"

\* Nothing happened yet to an execution without row and tombstone.
NothingYet ==
    \A e \in Executions : Outcome(e) = "absent" => sends[e] = 0 /\ raced[e] = 0

Sending(g) == pc[g] \in {"send", "sending", "finish"}

\* A gateway between claim and finish owns its row, which nobody can have
\* resolved but as unknown.
SenderOwnsRow ==
    \A g \in Gateways :
        Sending(g) =>
            /\ pick[g] \in Executions
            /\ raced[pick[g]] = 0 =>
                 owner[pick[g]] = g /\ Outcome(pick[g]) \in {"delivering", "unknown"}

PickedIsExecution ==
    \A g \in Gateways : pc[g] = "claim" => pick[g] \in Executions

\* Only an accepted message is recorded without an error.
NoErrorMeansArrived ==
    \A g \in Gateways :
        pc[g] \in {"sending", "finish"} /\ ~sendError[g] => arrived[pick[g]]

DeliveredArrived ==
    \A e \in Executions : "delivered" \in {status[e], tomb[e]} => arrived[e]

ArrivedWasSent == \A e \in Executions : arrived[e] => sends[e] >= 1

\* The gateways about to hand e over.
Senders(e) == {g \in Gateways : pc[g] = "send" /\ pick[g] = e}

\* A row of e waits for its claim, or is still to be inserted.
Unclaimed(e) ==
    \/ status[e] = "pending"
    \/ status[e] = "absent" /\ (tomb[e] = "absent" \/ worker[e] = "enqueueing")

Claims(e) == IF Unclaimed(e) THEN 1 ELSE 0

\* What was sent, is about to be sent and may still be claimed is within the
\* ration: one sending, and one for each prune in enqueue's window.
Rationed ==
    \A e \in Executions : sends[e] + Cardinality(Senders(e)) + Claims(e) <= 1 + raced[e]

IInv ==
    /\ TypeOK
    /\ TombOrRow
    /\ NothingYet
    /\ SenderOwnsRow
    /\ PickedIsExecution
    /\ NoErrorMeansArrived
    /\ DeliveredArrived
    /\ ArrivedWasSent
    /\ Rationed

----------------------------------------------------------------------------
(* Facts about one transaction and about counting senders. *)

LEMMA SendersCount ==
    ASSUME NEW e
    PROVE  IsFiniteSet(Senders(e)) /\ Cardinality(Senders(e)) \in Nat
<1>1. Senders(e) \subseteq Gateways BY DEF Senders
<1> QED BY <1>1, FS_Subset, FS_CardinalityType, QueueAssumption

\* The ration of e survives a step that sends nothing of e, adds nobody who is
\* about to, and makes e claimable only together with a prune in the window.
LEMMA RationKept ==
    ASSUME TypeOK, NEW e \in Executions,
           sends[e] + Cardinality(Senders(e)) + Claims(e) <= 1 + raced[e],
           sends'[e] = sends[e], raced'[e] \in Nat, raced'[e] >= raced[e],
           Senders(e)' \subseteq Senders(e),
           Unclaimed(e)' => Unclaimed(e) \/ raced'[e] >= raced[e] + 1
    PROVE  (sends[e] + Cardinality(Senders(e)) + Claims(e) <= 1 + raced[e])'
<1>1. /\ Cardinality(Senders(e)') \in Nat
      /\ Cardinality(Senders(e)) \in Nat
      /\ Cardinality(Senders(e)') <= Cardinality(Senders(e))
  <2>1. IsFiniteSet(Senders(e)) /\ Cardinality(Senders(e)) \in Nat
    BY SendersCount
  <2>2. IsFiniteSet(Senders(e)') /\ Cardinality(Senders(e)') <= Cardinality(Senders(e))
    BY <2>1, FS_Subset
  <2> QED BY <2>1, <2>2, FS_CardinalityType
<1>2. sends[e] \in Nat /\ raced[e] \in Nat BY DEF TypeOK
<1>3. Claims(e)' \in {0, 1} /\ Claims(e) \in {0, 1}
  BY DEF Claims
<1>4. Claims(e)' <= Claims(e) \/ raced'[e] >= raced[e] + 1
  BY DEF Claims
<1> DEFINE c == Cardinality(Senders(e))
           d == Cardinality(Senders(e)')
<1> HIDE DEF c, d
<1>5. c \in Nat /\ d \in Nat /\ d <= c BY <1>1 DEF c, d
<1>6. sends[e] + c + Claims(e) <= 1 + raced[e] BY DEF c
<1>7. sends'[e] + d + Claims(e)' <= 1 + raced'[e]
  BY <1>2, <1>3, <1>4, <1>5, <1>6
<1> QED BY <1>7 DEF d

\* A transaction that resolves the rows R as s and prunes keeps each row, or
\* moves it to the tombstones, where an older tombstone stays.
RowKept(e, now) == status'[e] = now /\ tomb'[e] = tomb[e] /\ raced'[e] = raced[e]
RowPruned(e, now) ==
    /\ now \in Terminal
    /\ status'[e] = "absent"
    /\ tomb'[e] = IF tomb[e] = "absent" THEN now ELSE tomb[e]
    /\ raced'[e] = IF worker[e] = "enqueueing" THEN raced[e] + 1 ELSE raced[e]

LEMMA ResolveEffect ==
    ASSUME TypeOK,
           NEW R \in SUBSET Executions, NEW s \in Terminal,
           Resolve(R, s)
    PROVE  /\ status' \in [Executions -> RowStatus]
           /\ tomb' \in [Executions -> Terminal \cup {"absent"}]
           /\ createdAt' \in [Executions -> Nat]
           /\ finishedAt' \in [Executions -> Nat]
           /\ stamps' \in [created : Nat, finished : Nat]
           /\ raced' \in [Executions -> Nat]
           /\ \A e \in R : RowKept(e, s) \/ RowPruned(e, s)
           /\ \A e \in Executions \ R : RowKept(e, status[e]) \/ RowPruned(e, status[e])
<1> DEFINE st == [e \in Executions |-> IF e \in R THEN s ELSE status[e]]
           fin == [e \in Executions |->
                      IF e \in R THEN FinishStamp ELSE finishedAt[e]]
           gone == Excess(st, fin)
<1>1. /\ status' = [e \in Executions |-> IF e \in gone THEN "absent" ELSE st[e]]
      /\ tomb' = [e \in Executions |->
                    IF e \in gone /\ tomb[e] = "absent" THEN st[e] ELSE tomb[e]]
      /\ finishedAt' = [e \in Executions |-> IF e \in gone THEN 0 ELSE fin[e]]
      /\ createdAt' = [e \in Executions |-> IF e \in gone THEN 0 ELSE createdAt[e]]
      /\ raced' = [e \in Executions |->
                     IF e \in gone /\ worker[e] = "enqueueing" THEN raced[e] + 1
                                                             ELSE raced[e]]
      /\ stamps' = IF R = {} THEN stamps ELSE [stamps EXCEPT !.finished = @ + 1]
  BY DEF Resolve, CommitAndPrune
<1>2. st \in [Executions -> RowStatus] /\ fin \in [Executions -> Nat]
  BY DEF TypeOK, RowStatus, FinishStamp
<1>3. gone \subseteq {e \in Executions : st[e] \in Terminal}
  BY DEF Excess, TerminalRows
<1> HIDE DEF gone
<1>4. /\ status' \in [Executions -> RowStatus]
      /\ tomb' \in [Executions -> Terminal \cup {"absent"}]
      /\ createdAt' \in [Executions -> Nat]
      /\ finishedAt' \in [Executions -> Nat]
      /\ raced' \in [Executions -> Nat]
  <2> HIDE DEF st, fin
  <2>1. status' \in [Executions -> RowStatus]
    BY <1>1, <1>2 DEF RowStatus
  <2>2. tomb' \in [Executions -> Terminal \cup {"absent"}]
    BY <1>1, <1>3 DEF TypeOK
  <2>3. createdAt' \in [Executions -> Nat] /\ finishedAt' \in [Executions -> Nat]
    BY <1>1, <1>2 DEF TypeOK
  <2>4. raced' \in [Executions -> Nat]
    BY <1>1 DEF TypeOK
  <2> QED BY <2>1, <2>2, <2>3, <2>4
<1>5. stamps' \in [created : Nat, finished : Nat]
  BY <1>1 DEF TypeOK
<1>6. \A e \in Executions : RowKept(e, st[e]) \/ RowPruned(e, st[e])
  BY <1>1, <1>2, <1>3 DEF RowKept, RowPruned, TypeOK
<1> QED BY <1>4, <1>5, <1>6

\* Resolving delivering rows changes the outcomes of these rows only, as far
\* as no prune of theirs fell into enqueue's window.
LEMMA ResolveOutcomes ==
    ASSUME TypeOK, TombOrRow,
           NEW R \in SUBSET Executions, NEW s \in Terminal,
           \A e \in R : status[e] = "delivering",
           Resolve(R, s)
    PROVE  \A e \in Executions :
              raced[e] = 0 => Outcome(e)' = IF e \in R THEN s ELSE Outcome(e)
<1> SUFFICES ASSUME NEW e \in Executions, raced[e] = 0
             PROVE  Outcome(e)' = IF e \in R THEN s ELSE Outcome(e)
  OBVIOUS
<1> DEFINE now == IF e \in R THEN s ELSE status[e]
<1>1. RowKept(e, now) \/ RowPruned(e, now)
  BY ResolveEffect
<1>2. e \in R => tomb[e] = "absent"
  BY DEF TombOrRow
<1>3. now # "absent" => tomb[e] = "absent"
  BY <1>2 DEF TombOrRow
<1>4. CASE RowKept(e, now)
  BY <1>3, <1>4 DEF RowKept, Outcome, Terminal
<1>5. CASE RowPruned(e, now)
  BY <1>3, <1>5 DEF RowPruned, Outcome, Terminal
<1> QED BY <1>1, <1>4, <1>5

----------------------------------------------------------------------------
LEMMA InitIInv == Init => IInv
<1> SUFFICES ASSUME Init PROVE IInv
  OBVIOUS
<1>1. TypeOK
  BY QueueAssumption DEF Init, TypeOK, RowStatus, Terminal, GatewayPc, WorkerState
<1>2. /\ TombOrRow /\ NothingYet /\ SenderOwnsRow /\ PickedIsExecution
      /\ NoErrorMeansArrived /\ DeliveredArrived /\ ArrivedWasSent
  BY DEF Init, TombOrRow, NothingYet, SenderOwnsRow, PickedIsExecution, Sending,
     NoErrorMeansArrived, DeliveredArrived, ArrivedWasSent, Outcome
<1>3. ASSUME NEW e \in Executions
      PROVE  sends[e] + Cardinality(Senders(e)) + Claims(e) <= 1 + raced[e]
  <2>1. Senders(e) = {} BY DEF Init, Senders
  <2>2. Cardinality(Senders(e)) = 0 BY <2>1, FS_EmptySet
  <2> QED BY <2>2 DEF Init, Claims
<1> QED BY <1>1, <1>2, <1>3 DEF IInv, Rationed

\* The fences of a recovery pass hit only rows whose send was claimed, so that
\* nobody's pending or unsent row is touched: the invariant survives Resolve.
LEMMA ResolveIInv ==
    ASSUME IInv,
           NEW R \in SUBSET Executions, NEW s \in Terminal,
           \A e \in R : status[e] = "delivering",
           \A e \in R : s = "delivered" => arrived[e],
           Resolve(R, s),
           owner' = owner, sends' = sends, arrived' = arrived,
           active' \in [Gateways -> SUBSET Executions],
           abandoned' \in [Gateways -> SUBSET Executions],
           pc' \in [Gateways -> GatewayPc],
           pick' \in [Gateways -> Executions \cup {None}],
           left' \in [Gateways -> 0..DrainLimit],
           sendError' \in [Gateways -> BOOLEAN],
           worker' \in [Executions -> WorkerState],
           requests' = requests,
           \A e \in Executions : worker'[e] = "enqueueing" => worker[e] = "enqueueing",
           \A g \in Gateways : pc'[g] \in {"send", "sending", "finish", "claim"} =>
              pc'[g] = pc[g] /\ pick'[g] = pick[g] /\ sendError'[g] = sendError[g],
           \A g \in Gateways : pc'[g] \in {"send", "sending", "finish"} =>
              s = "unknown" \/ pick[g] \notin R \/ raced[pick[g]] # 0
    PROVE  IInv'
<1>1. /\ status' \in [Executions -> RowStatus]
      /\ tomb' \in [Executions -> Terminal \cup {"absent"}]
      /\ createdAt' \in [Executions -> Nat]
      /\ finishedAt' \in [Executions -> Nat]
      /\ stamps' \in [created : Nat, finished : Nat]
      /\ raced' \in [Executions -> Nat]
  BY ResolveEffect DEF IInv
<1> DEFINE now(e) == IF e \in R THEN s ELSE status[e]
<1>2. \A e \in Executions : RowKept(e, now(e)) \/ RowPruned(e, now(e))
  BY ResolveEffect DEF IInv
<1>3. TypeOK'
  BY <1>1 DEF IInv, TypeOK
<1>4. \A e \in Executions : raced[e] \in Nat /\ (raced'[e] = 0 => raced[e] = 0)
  BY <1>2 DEF RowKept, RowPruned, IInv, TypeOK
<1>5. TombOrRow'
  <2> SUFFICES ASSUME NEW e \in Executions, raced'[e] = 0, tomb'[e] # "absent"
               PROVE  status'[e] = "absent" /\ worker'[e] # "enqueueing"
    BY DEF TombOrRow
  <2>1. raced[e] = 0 BY <1>4
  <2>2. CASE RowKept(e, now(e))
    BY <2>1, <2>2 DEF RowKept, IInv, TombOrRow
  <2>3. CASE RowPruned(e, now(e))
    BY <2>1, <2>3 DEF RowPruned
  <2> QED BY <1>2, <2>2, <2>3
<1>6. NothingYet'
  <2> SUFFICES ASSUME NEW e \in Executions, Outcome(e)' = "absent"
               PROVE  sends'[e] = 0 /\ raced'[e] = 0
    BY DEF NothingYet
  <2>1. ~RowPruned(e, now(e))
    BY DEF RowPruned, Outcome, Terminal
  <2>2. RowKept(e, now(e)) BY <1>2, <2>1
  <2>3. Outcome(e) = "absent"
    BY <2>2 DEF RowKept, Outcome, Terminal
  <2> QED BY <2>2, <2>3 DEF IInv, NothingYet, RowKept
<1>7. SenderOwnsRow'
  <2> SUFFICES ASSUME NEW g \in Gateways, Sending(g)'
               PROVE  /\ pick'[g] \in Executions
                      /\ raced'[pick'[g]] = 0 =>
                           /\ owner'[pick'[g]] = g
                           /\ Outcome(pick[g])' \in {"delivering", "unknown"}
    BY DEF SenderOwnsRow
  <2>1. /\ Sending(g) /\ pick'[g] = pick[g] /\ pick[g] \in Executions
        /\ s = "unknown" \/ pick[g] \notin R \/ raced[pick[g]] # 0
    BY DEF Sending, IInv, SenderOwnsRow
  <2>2. ASSUME raced'[pick[g]] = 0
        PROVE  owner[pick[g]] = g /\ Outcome(pick[g])' \in {"delivering", "unknown"}
    <3>1. raced[pick[g]] = 0 BY <1>4, <2>1, <2>2
    <3>2. owner[pick[g]] = g /\ Outcome(pick[g]) \in {"delivering", "unknown"}
      BY <2>1, <3>1 DEF IInv, SenderOwnsRow
    <3>3. \A e \in Executions :
             raced[e] = 0 => Outcome(e)' = IF e \in R THEN s ELSE Outcome(e)
      BY ResolveOutcomes DEF IInv
    <3>4. Outcome(pick[g])' = IF pick[g] \in R THEN s ELSE Outcome(pick[g])
      BY <2>1, <3>1, <3>3 DEF Outcome
    <3> QED BY <2>1, <3>1, <3>2, <3>4
  <2> QED BY <2>1, <2>2
<1>8. PickedIsExecution' /\ NoErrorMeansArrived' /\ ArrivedWasSent'
  BY DEF IInv, PickedIsExecution, NoErrorMeansArrived, ArrivedWasSent
<1>9. DeliveredArrived'
  BY <1>2 DEF RowKept, RowPruned, IInv, DeliveredArrived
<1>10. Rationed'
  <2> SUFFICES ASSUME NEW e \in Executions
               PROVE  (sends[e] + Cardinality(Senders(e)) + Claims(e) <= 1 + raced[e])'
    BY DEF Rationed
  <2>1. raced'[e] \in Nat /\ raced'[e] >= raced[e]
    <3>1. raced[e] \in Nat BY <1>4
    <3>2. raced'[e] = raced[e] \/ raced'[e] = raced[e] + 1
      BY <1>2 DEF RowKept, RowPruned
    <3> QED BY <3>1, <3>2
  <2>2. Senders(e)' \subseteq Senders(e)
    BY DEF Senders
  <2>3. Unclaimed(e)' => Unclaimed(e) \/ raced'[e] >= raced[e] + 1
    <3>1. CASE RowKept(e, now(e))
      BY <3>1 DEF RowKept, Unclaimed, Terminal
    <3>2. CASE RowPruned(e, now(e))
      BY <3>2 DEF RowPruned, Unclaimed, Terminal, IInv, TypeOK
    <3> QED BY <1>2, <3>1, <3>2
  <2>4. sends[e] + Cardinality(Senders(e)) + Claims(e) <= 1 + raced[e]
    BY DEF IInv, Rationed
  <2> QED BY <2>1, <2>2, <2>3, <2>4, RationKept DEF IInv
<1> QED BY <1>3, <1>5, <1>6, <1>7, <1>8, <1>9, <1>10 DEF IInv

\* A step that leaves the rows, the workers and the platform alone keeps the
\* ration, when it adds nobody about to send.
LEMMA RationedByPc ==
    ASSUME IInv,
           status' = status, tomb' = tomb, worker' = worker,
           sends' = sends, raced' = raced,
           \A g \in Gateways : pc'[g] = "send" => pc[g] = "send" /\ pick'[g] = pick[g]
    PROVE  Rationed'
<1> SUFFICES ASSUME NEW e \in Executions
             PROVE  (sends[e] + Cardinality(Senders(e)) + Claims(e) <= 1 + raced[e])'
  BY DEF Rationed
<1>1. /\ Senders(e)' \subseteq Senders(e)
      /\ Unclaimed(e)' => Unclaimed(e)
  BY DEF Senders, Unclaimed
<1>2. sends[e] + Cardinality(Senders(e)) + Claims(e) <= 1 + raced[e]
  BY DEF IInv, Rationed
<1> QED BY <1>1, <1>2, RationKept DEF IInv, TypeOK

\* A step of a worker alone.
UnchangedRows ==
    /\ requests' = requests /\ UNCHANGED <<rowVars, drainVars, history>>
    /\ \A d \in Executions : worker'[d] = "enqueueing" => worker[d] = "enqueueing"
    /\ worker' \in [Executions -> WorkerState]

LEMMA WorkerOnlyIInv ==
    ASSUME IInv, UnchangedRows
    PROVE  IInv'
<1> USE DEF IInv
<1>1. TypeOK'
  BY DEF UnchangedRows, TypeOK, rowVars, drainVars, history
<1>2. /\ TombOrRow' /\ NothingYet' /\ SenderOwnsRow' /\ PickedIsExecution'
      /\ NoErrorMeansArrived' /\ DeliveredArrived' /\ ArrivedWasSent'
  BY DEF UnchangedRows, TombOrRow, NothingYet, SenderOwnsRow, Sending, PickedIsExecution,
     NoErrorMeansArrived, DeliveredArrived, ArrivedWasSent, Outcome, rowVars, drainVars,
     history
<1>3. Rationed'
  <2> SUFFICES ASSUME NEW d \in Executions
               PROVE  (sends[d] + Cardinality(Senders(d)) + Claims(d) <= 1 + raced[d])'
    BY DEF Rationed
  <2>1. Senders(d)' \subseteq Senders(d)
    BY DEF UnchangedRows, Senders, drainVars
  <2>2. Unclaimed(d)' => Unclaimed(d)
    BY DEF UnchangedRows, Unclaimed, rowVars
  <2>3. sends[d] + Cardinality(Senders(d)) + Claims(d) <= 1 + raced[d]
    BY DEF Rationed
  <2> QED BY <2>1, <2>2, <2>3, RationKept DEF UnchangedRows, TypeOK, history
<1> QED BY <1>1, <1>2, <1>3

LEMMA GatewayIInv ==
    ASSUME IInv, NEW g \in Gateways, GatewayStep(g)
    PROVE  IInv'
<1> USE DEF IInv
<1>1. CASE Boot(g)
  <2>1. /\ TypeOK' /\ TombOrRow' /\ NothingYet' /\ SenderOwnsRow' /\ PickedIsExecution'
        /\ NoErrorMeansArrived' /\ DeliveredArrived' /\ ArrivedWasSent'
    BY <1>1 DEF Boot, TypeOK, TombOrRow, NothingYet, SenderOwnsRow, Sending,
       PickedIsExecution, NoErrorMeansArrived, DeliveredArrived, ArrivedWasSent, Outcome,
       GatewayPc, rowVars, workVars, history
  <2>2. Rationed'
    BY <1>1, RationedByPc DEF Boot, TypeOK, rowVars, workVars, history
  <2> QED BY <2>1, <2>2
<1>2. CASE StartDrain(g)
  <2>1. /\ pc' \in [Gateways -> GatewayPc] /\ left' \in [Gateways -> 0..DrainLimit]
        /\ abandoned' \in [Gateways -> SUBSET Executions]
    <3>1. Abandoned(g) \in SUBSET Executions
      BY DEF Abandoned
    <3>2. /\ pc \in [Gateways -> GatewayPc] /\ left \in [Gateways -> 0..DrainLimit]
          /\ abandoned \in [Gateways -> SUBSET Executions]
      BY DEF TypeOK
    <3>3. DrainLimit \in 0..DrainLimit
      BY QueueAssumption
    <3>4. CASE Abandoned(g) = {}
      <4>1. /\ pc' = [pc EXCEPT ![g] = IF DrainLimit = 0 THEN "idle" ELSE "select"]
            /\ left' = [left EXCEPT ![g] = DrainLimit] /\ abandoned' = abandoned
        BY <1>2, <3>4 DEF StartDrain, EnterLoop
      <4> QED BY <3>2, <3>3, <4>1 DEF GatewayPc
    <3>5. CASE Abandoned(g) # {}
      <4>1. /\ pc' = [pc EXCEPT ![g] = "recover"] /\ left' = left
            /\ abandoned' = [abandoned EXCEPT ![g] = Abandoned(g)]
        BY <1>2, <3>5 DEF StartDrain
      <4> QED BY <3>1, <3>2, <4>1 DEF GatewayPc
    <3> QED BY <3>4, <3>5
  <2>2. \A h \in Gateways : pc'[h] = pc[h] \/ pc'[h] \in {"idle", "select", "recover"}
    BY <1>2 DEF StartDrain, EnterLoop, TypeOK
  <2>3. /\ TypeOK' /\ TombOrRow' /\ NothingYet' /\ SenderOwnsRow' /\ PickedIsExecution'
        /\ NoErrorMeansArrived' /\ DeliveredArrived' /\ ArrivedWasSent'
    <3>1. UNCHANGED <<rowVars, active, pick, sendError, workVars, history>>
      BY <1>2 DEF StartDrain
    <3>2. TypeOK'
      BY <2>1, <3>1 DEF TypeOK, rowVars, workVars, history
    <3>3. TombOrRow' /\ NothingYet' /\ DeliveredArrived' /\ ArrivedWasSent'
      BY <3>1 DEF TombOrRow, NothingYet, DeliveredArrived, ArrivedWasSent, Outcome,
         rowVars, workVars, history
    <3>4. SenderOwnsRow'
      <4> SUFFICES ASSUME NEW h \in Gateways, Sending(h)'
                   PROVE  /\ pick'[h] \in Executions
                          /\ raced'[pick'[h]] = 0 =>
                               /\ owner'[pick'[h]] = h
                               /\ Outcome(pick[h])' \in {"delivering", "unknown"}
        BY DEF SenderOwnsRow
      <4>1. Sending(h) /\ pick'[h] = pick[h] /\ raced' = raced /\ owner' = owner
        BY <2>2, <3>1 DEF Sending, rowVars, history
      <4>2. Outcome(pick[h])' = Outcome(pick[h])
        BY <3>1 DEF Outcome, rowVars
      <4> QED BY <4>1, <4>2 DEF SenderOwnsRow
    <3>5. PickedIsExecution' /\ NoErrorMeansArrived'
      BY <2>2, <3>1 DEF PickedIsExecution, NoErrorMeansArrived, history
    <3> QED BY <3>2, <3>3, <3>4, <3>5
  <2>4. Rationed'
    BY <1>2, <2>2, RationedByPc DEF StartDrain, rowVars, workVars, history
  <2> QED BY <2>3, <2>4
<1>3. CASE FenceAbandoned(g)
  <2> DEFINE R == {e \in abandoned[g] : status[e] = "delivering"}
  <2>1. Resolve(R, "unknown") BY <1>3 DEF FenceAbandoned
  <2>2. R \in SUBSET Executions /\ \A e \in R : status[e] = "delivering"
    BY DEF TypeOK
  <2>3. /\ left' \in [Gateways -> 0..DrainLimit]
        /\ pc' \in [Gateways -> GatewayPc]
        /\ abandoned' \in [Gateways -> SUBSET Executions]
    BY <1>3, QueueAssumption DEF FenceAbandoned, EnterLoop, TypeOK, GatewayPc
  <2>4. \A h \in Gateways : pc'[h] = pc[h] \/ pc'[h] \in {"idle", "select"}
    BY <1>3 DEF FenceAbandoned, EnterLoop, TypeOK
  <2>5. UNCHANGED <<owner, active, pick, sendError, workVars, sends, arrived>>
    BY <1>3 DEF FenceAbandoned
  <2>6. /\ active' \in [Gateways -> SUBSET Executions]
        /\ pick' \in [Gateways -> Executions \cup {None}] /\ pick' = pick
        /\ sendError' \in [Gateways -> BOOLEAN] /\ sendError' = sendError
        /\ worker' \in [Executions -> WorkerState] /\ worker' = worker
        /\ requests' = requests
    BY <2>5 DEF TypeOK, workVars
  <2>7. "unknown" \in Terminal /\ \A e \in R : "unknown" = "delivered" => arrived[e]
    BY DEF Terminal
  <2>8. \A e \in Executions : worker'[e] = "enqueueing" => worker[e] = "enqueueing"
    BY <2>6
  <2>9. \A h \in Gateways : pc'[h] \in {"send", "sending", "finish", "claim"} =>
           pc'[h] = pc[h] /\ pick'[h] = pick[h] /\ sendError'[h] = sendError[h]
    BY <2>4, <2>6
  <2> HIDE DEF R, IInv
  <2> QED
    BY <2>1, <2>2, <2>3, <2>5, <2>6, <2>7, <2>8, <2>9, ResolveIInv
<1>4. CASE SelectPending(g)
  <2>1. /\ pc[g] = "select" /\ pc' \in [Gateways -> GatewayPc]
        /\ pick' \in [Gateways -> Executions \cup {None}]
        /\ left' \in [Gateways -> 0..DrainLimit]
    <3>1. /\ pc \in [Gateways -> GatewayPc] /\ pick \in [Gateways -> Executions \cup {None}]
          /\ left \in [Gateways -> 0..DrainLimit]
      BY DEF TypeOK
    <3>2. 0 \in 0..DrainLimit
      BY QueueAssumption
    <3>3. CASE LeaveDrain(g)
      BY <1>4, <3>1, <3>2, <3>3 DEF SelectPending, LeaveDrain, GatewayPc
    <3>4. ASSUME NEW e \in Executions, pick' = [pick EXCEPT ![g] = e],
                 pc' = [pc EXCEPT ![g] = "claim"], left' = left
          PROVE  /\ pc' \in [Gateways -> GatewayPc] /\ left' \in [Gateways -> 0..DrainLimit]
                 /\ pick' \in [Gateways -> Executions \cup {None}]
      BY <3>1, <3>4 DEF GatewayPc
    <3> QED BY <1>4, <3>3, <3>4 DEF SelectPending
  <2>2. /\ \A h \in Gateways \ {g} : pc'[h] = pc[h] /\ pick'[h] = pick[h]
        /\ \/ pc'[g] = "claim" /\ pick'[g] \in Executions
           \/ pc'[g] = "idle"
    BY <1>4 DEF SelectPending, LeaveDrain, TypeOK
  <2>3. TypeOK'
    BY <1>4, <2>1 DEF SelectPending, TypeOK, rowVars, workVars, history
  <2>4. PickedIsExecution'
    BY <2>1, <2>2 DEF PickedIsExecution
  <2>5. SenderOwnsRow'
    BY <1>4, <2>2 DEF SelectPending, SenderOwnsRow, Sending, Outcome, rowVars, history
  <2>6. NoErrorMeansArrived'
    BY <1>4, <2>2 DEF SelectPending, NoErrorMeansArrived, history
  <2>7. TombOrRow' /\ NothingYet' /\ DeliveredArrived' /\ ArrivedWasSent'
    BY <1>4 DEF SelectPending, TombOrRow, NothingYet, DeliveredArrived, ArrivedWasSent,
       Outcome, rowVars, workVars, history
  <2>8. Rationed'
    BY <1>4, <2>1, <2>2, RationedByPc DEF SelectPending, rowVars, workVars, history
  <2> QED BY <2>3, <2>4, <2>5, <2>6, <2>7, <2>8
<1>5. CASE ClaimPicked(g)
  <2> DEFINE e == pick[g]
  <2>1. e \in Executions /\ status[e] = "pending" /\ Outcome(e) = "pending"
    BY <1>5 DEF ClaimPicked, Claimable, PickedIsExecution, Outcome
  <2>2. /\ pc[g] = "claim"
        /\ status' = [status EXCEPT ![e] = "delivering"]
        /\ owner' = [owner EXCEPT ![e] = g]
        /\ pc' = [pc EXCEPT ![g] = "send"]
        /\ pick' = pick /\ tomb' = tomb /\ raced' = raced /\ sends' = sends
        /\ worker' = worker /\ arrived' = arrived /\ sendError' = sendError
    BY <1>5 DEF ClaimPicked, workVars, history
  <2>3. TypeOK'
    BY <1>5, <2>1, <2>2 DEF ClaimPicked, TypeOK, RowStatus, GatewayPc, workVars, history
  <2>4. \A d \in Executions \ {e} : Outcome(d)' = Outcome(d)
    BY <2>2 DEF Outcome, TypeOK
  <2>5. Outcome(e)' = "delivering"
    BY <2>1, <2>2 DEF Outcome, TypeOK
  <2>6. \A h \in Gateways \ {g} : Sending(h) /\ pick[h] = e => raced[e] > 0
    BY <2>1 DEF SenderOwnsRow, TypeOK
  <2>7. SenderOwnsRow'
    <3> SUFFICES ASSUME NEW h \in Gateways, Sending(h)'
                 PROVE  /\ pick[h] \in Executions
                        /\ raced[pick[h]] = 0 =>
                             /\ owner'[pick[h]] = h
                             /\ Outcome(pick[h])' \in {"delivering", "unknown"}
      BY <2>2 DEF SenderOwnsRow
    <3>1. CASE h = g
      BY <2>1, <2>2, <2>5, <3>1 DEF TypeOK
    <3>2. CASE h # g
      <4>1. Sending(h) BY <2>2, <3>2 DEF Sending, TypeOK
      <4>2. CASE pick[h] = e
        BY <2>1, <2>6, <3>2, <4>1, <4>2
      <4>3. CASE pick[h] # e
        BY <2>2, <2>4, <4>1, <4>3 DEF SenderOwnsRow, TypeOK
      <4> QED BY <4>2, <4>3
    <3> QED BY <3>1, <3>2
  <2>8. TombOrRow' /\ NothingYet'
    BY <2>1, <2>2, <2>4, <2>5 DEF TombOrRow, NothingYet, TypeOK
  <2>9. PickedIsExecution' /\ NoErrorMeansArrived' /\ DeliveredArrived' /\ ArrivedWasSent'
    BY <2>1, <2>2 DEF PickedIsExecution, NoErrorMeansArrived, DeliveredArrived,
       ArrivedWasSent, TypeOK
  <2>10. Rationed'
    <3> SUFFICES ASSUME NEW d \in Executions
                 PROVE  (sends[d] + Cardinality(Senders(d)) + Claims(d) <= 1 + raced[d])'
      BY DEF Rationed
    <3>1. sends[d] + Cardinality(Senders(d)) + Claims(d) <= 1 + raced[d]
      BY DEF Rationed
    <3>2. CASE d # e
      <4>1. Senders(d)' \subseteq Senders(d)
        BY <2>2, <3>2 DEF Senders, TypeOK
      <4>2. Unclaimed(d)' => Unclaimed(d)
        BY <2>2, <3>2 DEF Unclaimed, TypeOK
      <4> QED BY <2>2, <3>1, <4>1, <4>2, RationKept DEF TypeOK
    <3>3. CASE d = e
      <4>1. Senders(e)' = Senders(e) \cup {g} /\ g \notin Senders(e)
        BY <2>2 DEF Senders, TypeOK
      <4>2. Cardinality(Senders(e)') = Cardinality(Senders(e)) + 1
        BY <4>1, SendersCount, FS_AddElement
      <4>3. Claims(e) = 1
        BY <2>1 DEF Claims, Unclaimed
      <4>4. Claims(d)' = 0
        BY <2>1, <2>2, <3>3 DEF Claims, Unclaimed, TypeOK
      <4>5. Senders(d)' = Senders(e)'
        BY <2>2, <3>3 DEF Senders
      <4> DEFINE c == Cardinality(Senders(e))
      <4>6. c \in Nat BY SendersCount
      <4> HIDE DEF c
      <4>7. sends[e] + c + 1 <= 1 + raced[e]
        BY <3>1, <3>3, <4>3 DEF c
      <4>8. sends'[d] + (c + 1) + 0 <= 1 + raced'[d]
        BY <2>1, <2>2, <3>3, <4>6, <4>7 DEF TypeOK
      <4> QED BY <4>2, <4>4, <4>5, <4>8 DEF c
    <3> QED BY <3>2, <3>3
  <2> QED BY <2>3, <2>7, <2>8, <2>9, <2>10
<1>6. CASE LoseClaim(g)
  <2>1. /\ TypeOK' /\ TombOrRow' /\ NothingYet' /\ SenderOwnsRow' /\ PickedIsExecution'
        /\ NoErrorMeansArrived' /\ DeliveredArrived' /\ ArrivedWasSent'
    BY <1>6, QueueAssumption DEF LoseClaim, LeaveDrain, TypeOK, TombOrRow, NothingYet,
       SenderOwnsRow, Sending, PickedIsExecution, NoErrorMeansArrived, DeliveredArrived,
       ArrivedWasSent, Outcome, GatewayPc, rowVars, workVars, history
  <2>2. Rationed'
    BY <1>6, RationedByPc DEF LoseClaim, LeaveDrain, TypeOK, rowVars, workVars, history
  <2> QED BY <2>1, <2>2
<1>7. CASE BeginSend(g)
  <2> DEFINE e == pick[g]
  <2>1. /\ e \in Executions /\ pc[g] = "send" /\ g \in Senders(e)
        /\ raced[e] = 0 => Outcome(e) \in {"delivering", "unknown"}
    BY <1>7 DEF BeginSend, SenderOwnsRow, Sending, Senders
  <2>2. PICK refused \in BOOLEAN :
          /\ arrived' = [arrived EXCEPT ![e] = arrived[e] \/ ~refused]
          /\ sendError' = [sendError EXCEPT ![g] = refused]
    BY <1>7 DEF BeginSend
  <2>3. /\ sends' = [sends EXCEPT ![e] = sends[e] + 1]
        /\ pc' = [pc EXCEPT ![g] = "sending"]
        /\ status' = status /\ tomb' = tomb /\ owner' = owner /\ pick' = pick
        /\ worker' = worker /\ raced' = raced
    BY <1>7 DEF BeginSend, rowVars, workVars
  <2>4. /\ arrived' \in [Executions -> BOOLEAN]
        /\ \A d \in Executions : arrived[d] => arrived'[d]
        /\ \A d \in Executions \ {e} : arrived'[d] = arrived[d]
        /\ ~refused => arrived'[e]
    BY <2>1, <2>2 DEF TypeOK
  <2>5. TypeOK'
    <3>1. sends' \in [Executions -> Nat] BY <2>1, <2>3 DEF TypeOK
    <3>2. pc' \in [Gateways -> GatewayPc] BY <2>3 DEF TypeOK, GatewayPc
    <3>3. sendError' \in [Gateways -> BOOLEAN] BY <2>2 DEF TypeOK
    <3> QED BY <1>7, <2>4, <3>1, <3>2, <3>3 DEF BeginSend, TypeOK, rowVars, workVars
  <2>6. TombOrRow' /\ SenderOwnsRow' /\ PickedIsExecution' /\ DeliveredArrived'
    BY <2>1, <2>3, <2>4 DEF TombOrRow, SenderOwnsRow, Sending, PickedIsExecution,
       DeliveredArrived, Outcome, TypeOK
  <2>7. NothingYet'
    <3>1. Outcome(e) # "absent"
      BY <2>1 DEF NothingYet
    <3> QED BY <2>1, <2>3, <3>1 DEF NothingYet, Outcome, TypeOK
  <2>8. NoErrorMeansArrived'
    <3> SUFFICES ASSUME NEW h \in Gateways, pc'[h] \in {"sending", "finish"}, ~sendError'[h]
                 PROVE  arrived'[pick[h]]
      BY <2>3 DEF NoErrorMeansArrived
    <3>1. CASE h = g
      BY <2>2, <2>4, <3>1 DEF TypeOK
    <3>2. CASE h # g
      BY <2>2, <2>3, <2>4, <3>2 DEF NoErrorMeansArrived, SenderOwnsRow, Sending, TypeOK
    <3> QED BY <3>1, <3>2
  <2>9. ArrivedWasSent'
    BY <2>1, <2>3, <2>4 DEF ArrivedWasSent, TypeOK
  <2>10. Rationed'
    <3> SUFFICES ASSUME NEW d \in Executions
                 PROVE  (sends[d] + Cardinality(Senders(d)) + Claims(d) <= 1 + raced[d])'
      BY DEF Rationed
    <3>1. sends[d] + Cardinality(Senders(d)) + Claims(d) <= 1 + raced[d]
      BY DEF Rationed
    <3>2. Unclaimed(d)' = Unclaimed(d) /\ Claims(d)' = Claims(d)
      BY <2>3 DEF Unclaimed, Claims
    <3>3. CASE d # e
      <4>1. Senders(d)' \subseteq Senders(d)
        BY <2>3 DEF Senders, TypeOK
      <4> QED BY <2>3, <3>1, <3>2, <3>3, <4>1, RationKept DEF TypeOK
    <3>4. CASE d = e
      <4>1. Senders(d)' = Senders(d) \ {g} /\ g \in Senders(d)
        BY <2>1, <2>3, <3>4 DEF Senders, TypeOK
      <4>2. Cardinality(Senders(d)') = Cardinality(Senders(d)) - 1
        BY <4>1, SendersCount, FS_RemoveElement
      <4> DEFINE c == Cardinality(Senders(d))
      <4>3. c \in Nat BY SendersCount
      <4>4. Claims(d) \in {0, 1} BY DEF Claims
      <4> HIDE DEF c
      <4>5. sends[d] + c + Claims(d) <= 1 + raced[d]
        BY <3>1 DEF c
      <4>6. sends'[d] + (c - 1) + Claims(d) <= 1 + raced'[d]
        BY <2>1, <2>3, <3>4, <4>3, <4>4, <4>5 DEF TypeOK
      <4> QED BY <3>2, <4>2, <4>6 DEF c
    <3> QED BY <3>3, <3>4
  <2> QED BY <2>5, <2>6, <2>7, <2>8, <2>9, <2>10
<1>8. CASE EndSend(g)
  <2>1. /\ TypeOK' /\ TombOrRow' /\ NothingYet' /\ SenderOwnsRow' /\ PickedIsExecution'
        /\ NoErrorMeansArrived' /\ DeliveredArrived' /\ ArrivedWasSent'
    BY <1>8 DEF EndSend, TypeOK, TombOrRow, NothingYet, SenderOwnsRow, Sending,
       PickedIsExecution, NoErrorMeansArrived, DeliveredArrived, ArrivedWasSent, Outcome,
       GatewayPc, rowVars, workVars, history
  <2>2. Rationed'
    BY <1>8, RationedByPc DEF EndSend, TypeOK, rowVars, workVars, history
  <2> QED BY <2>1, <2>2
<1>9. CASE Finish(g)
  <2> DEFINE R == IF FinishGuard(g, pick[g]) THEN {pick[g]} ELSE {}
  <2>1. Resolve(R, SendOutcome(g)) BY <1>9 DEF Finish
  <2>2. pick[g] \in Executions BY <1>9 DEF Finish, SenderOwnsRow, Sending
  <2>3. /\ R \in SUBSET Executions
        /\ \A e \in R : status[e] = "delivering" /\ owner[e] = g
    BY <2>2 DEF FinishGuard
  <2>4. /\ SendOutcome(g) \in Terminal
        /\ \A e \in R : SendOutcome(g) = "delivered" => arrived[e]
    BY <1>9 DEF Finish, SendOutcome, NoErrorMeansArrived, Terminal
  <2>5. /\ left' \in [Gateways -> 0..DrainLimit]
        /\ active' \in [Gateways -> SUBSET Executions]
        /\ pc' \in [Gateways -> GatewayPc]
        /\ pick' \in [Gateways -> Executions \cup {None}]
        /\ sendError' \in [Gateways -> BOOLEAN]
    BY <1>9, QueueAssumption DEF Finish, EndRow, MoreRows, TypeOK, GatewayPc
  <2>6. \A h \in Gateways : pc'[h] \in {"send", "sending", "finish", "claim"} =>
              h # g /\ pc'[h] = pc[h] /\ pick'[h] = pick[h] /\ sendError'[h] = sendError[h]
    BY <1>9 DEF Finish, EndRow, TypeOK
  <2>7. /\ owner' = owner /\ sends' = sends /\ arrived' = arrived
        /\ worker' = worker /\ requests' = requests /\ abandoned' = abandoned
    BY <1>9 DEF Finish, workVars
  <2>8. \A h \in Gateways : pc'[h] \in {"send", "sending", "finish"} =>
              pick[h] \notin R \/ raced[pick[h]] # 0
    BY <2>3, <2>6 DEF SenderOwnsRow, Sending
  <2>9. worker' \in [Executions -> WorkerState] /\ abandoned' \in [Gateways -> SUBSET Executions]
    BY <2>7 DEF TypeOK
  <2> HIDE DEF R
  <2> QED BY <2>1, <2>3, <2>4, <2>5, <2>6, <2>7, <2>8, <2>9, ResolveIInv
<1>10. CASE FinishRaises(g)
  <2>1. /\ TypeOK' /\ TombOrRow' /\ NothingYet' /\ SenderOwnsRow' /\ PickedIsExecution'
        /\ NoErrorMeansArrived' /\ DeliveredArrived' /\ ArrivedWasSent'
    BY <1>10, QueueAssumption DEF FinishRaises, EndRow, TypeOK, TombOrRow, NothingYet,
       SenderOwnsRow, Sending, PickedIsExecution, NoErrorMeansArrived, DeliveredArrived,
       ArrivedWasSent, Outcome, GatewayPc, rowVars, workVars, history
  <2>2. Rationed'
    BY <1>10, RationedByPc DEF FinishRaises, EndRow, TypeOK, rowVars, workVars, history
  <2> QED BY <2>1, <2>2
<1>11. CASE Crash(g)
  <2>1. /\ TypeOK' /\ TombOrRow' /\ NothingYet' /\ SenderOwnsRow' /\ PickedIsExecution'
        /\ NoErrorMeansArrived' /\ DeliveredArrived' /\ ArrivedWasSent'
    BY <1>11, QueueAssumption DEF Crash, TypeOK, TombOrRow, NothingYet, SenderOwnsRow,
       Sending, PickedIsExecution, NoErrorMeansArrived, DeliveredArrived, ArrivedWasSent,
       Outcome, GatewayPc, rowVars, workVars, history
  <2>2. Rationed'
    BY <1>11, RationedByPc DEF Crash, TypeOK, rowVars, workVars, history
  <2> QED BY <2>1, <2>2
<1> QED BY <1>1, <1>2, <1>3, <1>4, <1>5, <1>6, <1>7, <1>8, <1>9, <1>10, <1>11
        DEF GatewayStep, DrainStep

LEMMA WorkerIInv ==
    ASSUME IInv, NEW e \in Executions, WorkerStep(e)
    PROVE  IInv'
<1> USE DEF IInv
<1>1. CASE EnqueueLook(e)
  <2>1. /\ requests' = [requests EXCEPT ![e] = requests[e] + 1]
        /\ worker' = [worker EXCEPT ![e] = IF tomb[e] # "absent" THEN Answer(tomb[e])
                                                                ELSE "enqueueing"]
        /\ requests[e] < MaxRequests
        /\ UNCHANGED <<rowVars, drainVars, history>>
    BY <1>1 DEF EnqueueLook, Remembered
  <2>2. TypeOK'
    BY <2>1, QueueAssumption DEF TypeOK, WorkerState, Answer, rowVars, drainVars, history
  <2>3. TombOrRow'
    BY <2>1 DEF TombOrRow, Answer, TypeOK, rowVars, history
  <2>4. /\ NothingYet' /\ SenderOwnsRow' /\ PickedIsExecution'
        /\ NoErrorMeansArrived' /\ DeliveredArrived' /\ ArrivedWasSent'
    BY <2>1 DEF NothingYet, SenderOwnsRow, Sending, PickedIsExecution,
       NoErrorMeansArrived, DeliveredArrived, ArrivedWasSent, Outcome, rowVars, drainVars,
       history
  <2>5. Rationed'
    <3> SUFFICES ASSUME NEW d \in Executions
                 PROVE  (sends[d] + Cardinality(Senders(d)) + Claims(d) <= 1 + raced[d])'
      BY DEF Rationed
    <3>1. Senders(d)' \subseteq Senders(d)
      BY <2>1 DEF Senders, drainVars
    <3>2. Unclaimed(d)' => Unclaimed(d)
      BY <2>1 DEF Unclaimed, Answer, TypeOK, rowVars
    <3>3. sends[d] + Cardinality(Senders(d)) + Claims(d) <= 1 + raced[d]
      BY DEF Rationed
    <3>4. sends'[d] = sends[d] /\ raced'[d] = raced[d] /\ raced[d] \in Nat
      BY <2>1 DEF history, TypeOK
    <3>5. raced'[d] \in Nat /\ raced'[d] >= raced[d]
      BY <3>4
    <3> QED BY <3>1, <3>2, <3>3, <3>4, <3>5, RationKept
  <2> QED BY <2>2, <2>3, <2>4, <2>5
<1>2. CASE EnqueueInsert(e)
  <2>1. /\ worker[e] = "enqueueing"
        /\ worker' = [worker EXCEPT ![e] =
                        IF status[e] \in Terminal THEN Answer(status[e]) ELSE "waiting"]
        /\ tomb' = tomb /\ owner' = owner /\ requests' = requests
        /\ UNCHANGED <<drainVars, history>>
    BY <1>2 DEF EnqueueInsert
  <2>2. CASE status[e] # "absent"
    <3>1. UNCHANGED <<status, createdAt, stamps, finishedAt>>
      BY <1>2, <2>2 DEF EnqueueInsert
    <3>2. TypeOK'
      BY <2>1, <3>1 DEF TypeOK, WorkerState, Answer, drainVars, history
    <3>3. /\ TombOrRow' /\ NothingYet' /\ SenderOwnsRow' /\ PickedIsExecution'
          /\ NoErrorMeansArrived' /\ DeliveredArrived' /\ ArrivedWasSent'
      BY <2>1, <2>2, <3>1 DEF TombOrRow, NothingYet, SenderOwnsRow, Sending,
         PickedIsExecution, NoErrorMeansArrived, DeliveredArrived, ArrivedWasSent, Outcome,
         TypeOK, drainVars, history
    <3>4. Rationed'
      <4> SUFFICES ASSUME NEW d \in Executions
                   PROVE  (sends[d] + Cardinality(Senders(d)) + Claims(d) <= 1 + raced[d])'
        BY DEF Rationed
      <4>1. Senders(d)' \subseteq Senders(d)
        BY <2>1 DEF Senders, drainVars
      <4>2. Unclaimed(d)' => Unclaimed(d)
        BY <2>1, <2>2, <3>1 DEF Unclaimed, TypeOK
      <4>3. sends[d] + Cardinality(Senders(d)) + Claims(d) <= 1 + raced[d]
        BY DEF Rationed
      <4> QED BY <2>1, <4>1, <4>2, <4>3, RationKept DEF TypeOK, history
    <3> QED BY <3>2, <3>3, <3>4
  <2>3. CASE status[e] = "absent"
    <3>1. /\ status' = [status EXCEPT ![e] = "pending"]
          /\ createdAt' = [createdAt EXCEPT ![e] = CreateStamp]
          /\ stamps' = [stamps EXCEPT !.created = @ + 1]
          /\ finishedAt' = finishedAt
          /\ worker' = [worker EXCEPT ![e] = "waiting"]
      BY <1>2, <2>1, <2>3 DEF EnqueueInsert, Terminal
    <3>2. TypeOK'
      BY <2>1, <3>1 DEF TypeOK, WorkerState, RowStatus, CreateStamp, drainVars, history
    <3>3. raced[e] = 0 => tomb[e] = "absent"
      BY <2>1 DEF TombOrRow
    <3>4. /\ Outcome(e)' = "pending"
          /\ \A d \in Executions \ {e} : Outcome(d)' = Outcome(d)
      BY <2>1, <3>1 DEF Outcome, TypeOK
    <3>5. TombOrRow' /\ NothingYet'
      BY <2>1, <3>1, <3>3, <3>4 DEF TombOrRow, NothingYet, TypeOK, history
    <3>6. SenderOwnsRow'
      <4>1. \A g \in Gateways : Sending(g) /\ pick[g] = e => raced[e] # 0
        BY <2>3, <3>3 DEF SenderOwnsRow, Outcome
      <4> QED BY <2>1, <3>4, <4>1 DEF SenderOwnsRow, Sending, Outcome, drainVars, history
    <3>7. PickedIsExecution' /\ NoErrorMeansArrived' /\ DeliveredArrived' /\ ArrivedWasSent'
      BY <2>1, <3>1 DEF PickedIsExecution, NoErrorMeansArrived, DeliveredArrived,
         ArrivedWasSent, TypeOK, drainVars, history
    <3>8. Rationed'
      <4> SUFFICES ASSUME NEW d \in Executions
                   PROVE  (sends[d] + Cardinality(Senders(d)) + Claims(d) <= 1 + raced[d])'
        BY DEF Rationed
      <4>1. Senders(d)' \subseteq Senders(d)
        BY <2>1 DEF Senders, drainVars
      <4>2. Unclaimed(d)' => Unclaimed(d)
        BY <2>1, <2>3, <3>1 DEF Unclaimed, TypeOK
      <4>3. sends[d] + Cardinality(Senders(d)) + Claims(d) <= 1 + raced[d]
        BY DEF Rationed
      <4> QED BY <2>1, <4>1, <4>2, <4>3, RationKept DEF TypeOK, history
    <3> QED BY <3>2, <3>5, <3>6, <3>7, <3>8
  <2> QED BY <2>2, <2>3
<1>3. CASE PollTerminal(e) \/ WorkerDies(e)
  <2>1. /\ requests' = requests /\ UNCHANGED <<rowVars, drainVars, history>>
        /\ \A d \in Executions : worker'[d] = "enqueueing" => worker[d] = "enqueueing"
        /\ worker' \in [Executions -> WorkerState]
    BY <1>3 DEF PollTerminal, WorkerDies, Answer, WorkerState, TypeOK
  <2>2. UnchangedRows
    BY <2>1 DEF UnchangedRows
  <2> QED BY <2>2, WorkerOnlyIInv
<1>4. CASE WaitTimeout(e)
  <2>1. CASE LeftQueued(e)
    <3>1. /\ requests' = requests /\ UNCHANGED <<rowVars, drainVars, history>>
          /\ \A d \in Executions : worker'[d] = "enqueueing" => worker[d] = "enqueueing"
          /\ worker' \in [Executions -> WorkerState]
      BY <1>4, <2>1 DEF WaitTimeout, WorkerState, TypeOK, history, rowVars
    <3>2. UnchangedRows
      BY <3>1 DEF UnchangedRows
    <3> QED BY <3>2, WorkerOnlyIInv
  <2>2. CASE ~LeftQueued(e)
    <3> DEFINE R == IF status[e] = "delivering" THEN {e} ELSE {}
    <3>1. Resolve(R, "unknown") BY <1>4, <2>2 DEF WaitTimeout
    <3>2. R \in SUBSET Executions /\ \A d \in R : status[d] = "delivering"
      OBVIOUS
    <3>3. /\ worker' \in [Executions -> WorkerState]
          /\ \A d \in Executions : worker'[d] = "enqueueing" => worker[d] = "enqueueing"
      BY <1>4 DEF WaitTimeout, TypeOK, WorkerState
    <3> HIDE DEF R
    <3> QED BY <1>4, <3>1, <3>2, <3>3, ResolveIInv
            DEF WaitTimeout, TypeOK, Terminal, drainVars
  <2> QED BY <2>1, <2>2
<1> QED BY <1>1, <1>2, <1>3, <1>4 DEF WorkerStep

LEMMA StutterIInv == IInv /\ UNCHANGED vars => IInv'
<1> SUFFICES ASSUME IInv, UNCHANGED vars PROVE IInv'
  OBVIOUS
<1>1. UnchangedRows
  BY DEF UnchangedRows, vars, workVars, IInv, TypeOK
<1> QED BY <1>1, WorkerOnlyIInv

\* The inductive invariant holds in every reachable state of the queue.
THEOREM Invariance == Spec => []IInv
<1>1. IInv /\ [Next]_vars => IInv'
  BY GatewayIInv, WorkerIInv, StutterIInv DEF Next
<1> QED BY InitIInv, <1>1, PTL DEF Spec

\* Every variable keeps its type.
THEOREM TypeCorrect == Spec => []TypeOK
<1>1. IInv => TypeOK BY DEF IInv
<1> QED BY Invariance, <1>1, PTL

\* An execution is handed to the transport once, and once more for every prune
\* of its row in enqueue's window (delivery_queue.enqueue, drain).
THEOREM SendsWithinRation == Spec => []SendsAreRationed
<1>1. IInv => SendsAreRationed
  <2> SUFFICES ASSUME IInv, NEW e \in Executions PROVE sends[e] <= 1 + raced[e]
    BY DEF SendsAreRationed
  <2> DEFINE c == Cardinality(Senders(e))
  <2>1. c \in Nat BY SendersCount
  <2>2. Claims(e) \in {0, 1} BY DEF Claims
  <2>3. sends[e] + c + Claims(e) <= 1 + raced[e] BY DEF IInv, Rationed
  <2>4. sends[e] \in Nat /\ raced[e] \in Nat BY DEF IInv, TypeOK
  <2> HIDE DEF c
  <2> QED BY <2>1, <2>2, <2>3, <2>4
<1> QED BY Invariance, <1>1, PTL

\* A recorded delivery arrived; nobody took up a pending row.
LEMMA IInvOutcomes == IInv => OutcomeIsTrue
<1> SUFFICES ASSUME IInv, NEW e \in Executions
             PROVE  /\ Outcome(e) = "delivered" => arrived[e]
                    /\ Outcome(e) = "absent" => sends[e] = 0
                    /\ Outcome(e) = "pending" => sends[e] <= raced[e]
  BY DEF OutcomeIsTrue
<1>1. Outcome(e) = "delivered" => arrived[e]
  BY DEF IInv, DeliveredArrived, Outcome
<1>2. Outcome(e) = "absent" => sends[e] = 0
  BY DEF IInv, NothingYet
<1>3. ASSUME Outcome(e) = "pending" PROVE sends[e] <= raced[e]
  <2>1. status[e] = "pending" BY <1>3 DEF IInv, TypeOK, Outcome, Terminal
  <2>2. Claims(e) = 1 BY <2>1 DEF Claims, Unclaimed
  <2> DEFINE c == Cardinality(Senders(e))
  <2>3. c \in Nat BY SendersCount
  <2>4. sends[e] + c + 1 <= 1 + raced[e] BY <2>2 DEF IInv, Rationed
  <2>5. sends[e] \in Nat /\ raced[e] \in Nat BY DEF IInv, TypeOK
  <2> HIDE DEF c
  <2> QED BY <2>3, <2>4, <2>5
<1> QED BY <1>1, <1>2, <1>3

THEOREM OutcomesAreTrue == Spec => []OutcomeIsTrue
<1> QED BY Invariance, IInvOutcomes, PTL

\* Two gateways never work on the same row between claim and finish, unless it
\* was pruned in enqueue's window and inserted again.
THEOREM SendersAreExclusive == Spec => []OneSenderPerRow
<1>1. IInv => OneSenderPerRow
  BY DEF IInv, TypeOK, SenderOwnsRow, Sending, OneSenderPerRow
<1> QED BY Invariance, <1>1, PTL

----------------------------------------------------------------------------
(* Outcomes are final, and success is honest. *)

\* A terminal outcome survives pruning, late finishes, fences and re-enqueues,
\* as long as no prune of its row fell into enqueue's window.
THEOREM OutcomesAreFinal == Spec => OutcomeIsFinal
<1> DEFINE Final(e) == raced[e] = 0 /\ Outcome(e) \in Terminal => Outcome(e)' = Outcome(e)
<1>1. ASSUME IInv, NEW R \in SUBSET Executions, NEW s \in Terminal,
             \A e \in R : status[e] = "delivering", Resolve(R, s)
      PROVE  \A e \in Executions : Final(e)
  <2>1. \A e \in R : Outcome(e) \notin Terminal
    BY <1>1 DEF Outcome, Terminal
  <2>2. \A e \in Executions :
           raced[e] = 0 => Outcome(e)' = IF e \in R THEN s ELSE Outcome(e)
    BY <1>1, ResolveOutcomes DEF IInv
  <2> QED BY <2>1, <2>2
<1>2. ASSUME UNCHANGED <<status, tomb>>
      PROVE  \A e \in Executions : Final(e)
  BY <1>2 DEF Outcome
<1>3. ASSUME IInv, NEW g \in Gateways, GatewayStep(g)
      PROVE  \A e \in Executions : Final(e)
  <2>1. CASE FenceAbandoned(g)
    <3> DEFINE R == {e \in abandoned[g] : status[e] = "delivering"}
    <3>1. Resolve(R, "unknown") BY <2>1 DEF FenceAbandoned
    <3>2. R \in SUBSET Executions /\ \A e \in R : status[e] = "delivering"
      BY <1>3 DEF IInv, TypeOK
    <3> HIDE DEF R
    <3> QED BY <1>1, <1>3, <3>1, <3>2 DEF Terminal
  <2>2. CASE Finish(g)
    <3> DEFINE R == IF FinishGuard(g, pick[g]) THEN {pick[g]} ELSE {}
    <3>1. Resolve(R, SendOutcome(g)) BY <2>2 DEF Finish
    <3>2. R \in SUBSET Executions /\ \A e \in R : status[e] = "delivering"
      BY <1>3, <2>2 DEF Finish, FinishGuard, IInv, SenderOwnsRow, Sending
    <3>3. SendOutcome(g) \in Terminal BY DEF SendOutcome, Terminal
    <3> HIDE DEF R
    <3> QED BY <1>1, <1>3, <3>1, <3>2, <3>3
  <2>3. CASE ClaimPicked(g)
    <3>1. Outcome(pick[g]) \notin Terminal
      BY <2>3 DEF ClaimPicked, Claimable, Outcome, Terminal
    <3>2. \A e \in Executions \ {pick[g]} : Outcome(e)' = Outcome(e)
      BY <1>3, <2>3 DEF ClaimPicked, Outcome, IInv, TypeOK
    <3> QED BY <3>1, <3>2
  <2>4. CASE ~(FenceAbandoned(g) \/ Finish(g) \/ ClaimPicked(g))
    <3>1. UNCHANGED <<status, tomb>>
      BY <1>3, <2>4 DEF GatewayStep, DrainStep, Boot, StartDrain, SelectPending, LoseClaim,
         BeginSend, EndSend, FinishRaises, Crash, rowVars
    <3> QED BY <3>1, <1>2
  <2> QED BY <2>1, <2>2, <2>3, <2>4
<1>4. ASSUME IInv, NEW d \in Executions, WorkerStep(d)
      PROVE  \A e \in Executions : Final(e)
  <2>1. CASE EnqueueInsert(d) /\ status[d] = "absent"
    <3>1. raced[d] = 0 => Outcome(d) = "absent"
      BY <1>4, <2>1 DEF EnqueueInsert, IInv, TombOrRow, Outcome
    <3>2. \A e \in Executions \ {d} : Outcome(e)' = Outcome(e)
      BY <1>4, <2>1 DEF EnqueueInsert, Outcome, IInv, TypeOK
    <3> QED BY <3>1, <3>2 DEF Terminal
  <2>2. CASE WaitTimeout(d) /\ ~LeftQueued(d)
    <3> DEFINE R == IF status[d] = "delivering" THEN {d} ELSE {}
    <3>1. Resolve(R, "unknown") BY <2>2 DEF WaitTimeout
    <3>2. R \in SUBSET Executions /\ \A e \in R : status[e] = "delivering"
      BY <1>4
    <3> HIDE DEF R
    <3> QED BY <1>1, <1>4, <3>1, <3>2 DEF Terminal
  <2>3. CASE ~(EnqueueInsert(d) /\ status[d] = "absent") /\ ~(WaitTimeout(d) /\ ~LeftQueued(d))
    <3>1. UNCHANGED <<status, tomb>>
      BY <1>4, <2>3 DEF WorkerStep, EnqueueLook, EnqueueInsert, PollTerminal, WaitTimeout,
         WorkerDies, rowVars
    <3> QED BY <3>1, <1>2
  <2> QED BY <2>1, <2>2, <2>3
<1>5. IInv /\ [Next]_vars => [\A e \in Executions : Final(e)]_vars
  BY <1>3, <1>4 DEF Next
<1> QED BY <1>5, Invariance, PTL DEF Spec, OutcomeIsFinal

\* Whatever a worker is told as success, at once, while it waits or at its
\* deadline, arrived, or its row is queued and was taken up by nobody: no
\* gateway, prune or fence comes between what it reads and what it is told.
THEOREM SuccessIsTrue == Spec => SuccessIsHonest
<1> DEFINE Honest(e) == \/ arrived'[e]
                        \/ Outcome(e)' = "pending" /\ sends'[e] <= raced'[e]
<1>1. ASSUME IInv, NEW d \in Executions, WorkerStep(d),
             NEW e \in Executions, worker[e] # "ok", worker'[e] = "ok"
      PROVE  Honest(e)
  <2>1. /\ worker' = [worker EXCEPT ![d] = worker'[d]]
        /\ sends' = sends /\ arrived' = arrived
    BY <1>1 DEF WorkerStep, EnqueueLook, EnqueueInsert, PollTerminal, WaitTimeout,
       WorkerDies, IInv, TypeOK, history
  <2>2. e = d
    BY <1>1, <2>1 DEF IInv, TypeOK
  <2>3. CASE "delivered" \in {status[e], tomb[e]}
    BY <1>1, <2>1, <2>3 DEF IInv, DeliveredArrived
  <2>4. CASE "delivered" \notin {status[e], tomb[e]}
    <3>1. WaitTimeout(e) /\ LeftQueued(e)
      <4>1. ~WorkerDies(e)
        BY <1>1 DEF WorkerDies, IInv, TypeOK
      <4>2. ~PollTerminal(e)
        BY <1>1, <2>4 DEF PollTerminal, Answer, Outcome, IInv, TypeOK
      <4>3. ~EnqueueLook(e)
        BY <1>1, <2>4 DEF EnqueueLook, Answer, IInv, TypeOK
      <4>4. ~EnqueueInsert(e)
        BY <1>1, <2>4 DEF EnqueueInsert, Answer, IInv, TypeOK
      <4>5. WaitTimeout(e) => LeftQueued(e)
        BY <1>1, <2>4 DEF WaitTimeout, IInv, TypeOK
      <4> QED BY <1>1, <2>2, <4>1, <4>2, <4>3, <4>4, <4>5 DEF WorkerStep
    <3>2. Outcome(e)' = "pending" /\ Outcome(e) = "pending" /\ raced' = raced
      BY <3>1 DEF WaitTimeout, LeftQueued, Outcome, rowVars
    <3>3. sends[e] <= raced[e]
      BY <1>1, <3>2, IInvOutcomes DEF OutcomeIsTrue
    <3> QED BY <2>1, <3>2, <3>3
  <2> QED BY <2>3, <2>4
<1>2. ASSUME NEW g \in Gateways, GatewayStep(g)
      PROVE  worker' = worker
  BY <1>2 DEF GatewayStep, DrainStep, Boot, StartDrain, FenceAbandoned, SelectPending,
     ClaimPicked, LoseClaim, BeginSend, EndSend, Finish, FinishRaises, Crash, workVars
<1>3. IInv /\ [Next]_vars =>
        [\A e \in Executions : worker[e] # "ok" /\ worker'[e] = "ok" =>
            Honest(e)]_vars
  BY <1>1, <1>2 DEF Next
<1> QED BY <1>3, Invariance, PTL DEF Spec, SuccessIsHonest

----------------------------------------------------------------------------
(* The queue implements at-most-once delivery where enqueue's window cannot *)
(* be hit: an execution id is enqueued once, or no row is ever pruned.      *)

Tame == MaxRequests <= 1 \/ Cardinality(Executions) <= MaxTerminal

NoRace == \A e \in Executions : raced[e] = 0

\* A worker that enqueues for the first time finds no row.
FirstLook ==
    \A e \in Executions :
        /\ requests[e] = 0 => status[e] = "absent" /\ worker[e] = "idle"
        /\ worker[e] = "enqueueing" /\ requests[e] = 1 => status[e] = "absent"

\* With room for every execution nothing is pruned.
LEMMA NothingToPrune ==
    ASSUME Cardinality(Executions) <= MaxTerminal, NEW st, NEW fin
    PROVE  Excess(st, fin) = {}
<1>0. Excess(st, fin) \subseteq Executions
  BY DEF Excess, TerminalRows
<1> SUFFICES ASSUME NEW e \in Executions PROVE e \notin Excess(st, fin)
  BY <1>0
<1> DEFINE A == {d \in TerminalRows(st) : FinishedBefore(d, e, fin)}
<1>1. /\ TerminalRows(st) \subseteq Executions /\ A \subseteq Executions
  BY DEF TerminalRows
<1> HIDE DEF A
<1>2. /\ Cardinality(TerminalRows(st)) \in Nat
      /\ Cardinality(TerminalRows(st)) <= Cardinality(Executions)
      /\ Cardinality(A) \in Nat /\ Cardinality(Executions) \in Nat
  BY <1>1, FS_Subset, FS_CardinalityType, QueueAssumption
<1>3. ~(Cardinality(A) < Cardinality(TerminalRows(st)) - MaxTerminal)
  BY <1>2, QueueAssumption
<1> QED BY <1>3 DEF Excess, A

LEMMA TameResolve ==
    ASSUME Tame, IInv, FirstLook, NoRace,
           NEW R \in SUBSET Executions, NEW s \in Terminal,
           \A e \in R : status[e] = "delivering",
           Resolve(R, s), requests' = requests,
           \A e \in Executions :
              worker'[e] = worker[e] \/ (worker[e] = "waiting" /\ worker'[e] # "enqueueing")
    PROVE  FirstLook' /\ NoRace'
<1> DEFINE now(e) == IF e \in R THEN s ELSE status[e]
<1>1. \A e \in Executions : RowKept(e, now(e)) \/ RowPruned(e, now(e))
  BY ResolveEffect DEF IInv
<1>2. FirstLook'
  BY <1>1 DEF RowKept, RowPruned, FirstLook
<1>3. NoRace'
  <2>1. CASE MaxRequests <= 1
    <3>1. \A e \in Executions : worker[e] = "enqueueing" => status[e] = "absent"
      <4>1. \A e \in Executions : requests[e] \in {0, 1}
        <5>1. \A e \in Executions : requests[e] \in 0..MaxRequests
          BY DEF IInv, TypeOK
        <5>2. MaxRequests \in Nat BY QueueAssumption
        <5> QED BY <2>1, <5>1, <5>2
      <4> QED BY <4>1 DEF FirstLook
    <3> QED BY <1>1, <3>1 DEF RowKept, RowPruned, NoRace, Terminal
  <2>2. CASE Cardinality(Executions) <= MaxTerminal
    <3>1. raced' = [e \in Executions |-> raced[e]]
      BY <2>2, NothingToPrune DEF Resolve, CommitAndPrune
    <3> QED BY <3>1 DEF NoRace
  <2> QED BY <2>1, <2>2 DEF Tame
<1> QED BY <1>2, <1>3

LEMMA TameStep ==
    ASSUME Tame, IInv, FirstLook, NoRace, [Next]_vars
    PROVE  FirstLook' /\ NoRace'
<1>1. ASSUME UNCHANGED <<status, workVars, raced>>
      PROVE  FirstLook' /\ NoRace'
  BY <1>1 DEF FirstLook, NoRace, workVars
<1>2. ASSUME NEW g \in Gateways, GatewayStep(g)
      PROVE  FirstLook' /\ NoRace'
  <2>1. CASE FenceAbandoned(g)
    <3> DEFINE R == {e \in abandoned[g] : status[e] = "delivering"}
    <3>1. Resolve(R, "unknown") /\ UNCHANGED workVars BY <2>1 DEF FenceAbandoned
    <3>2. R \in SUBSET Executions /\ \A e \in R : status[e] = "delivering"
      BY DEF IInv, TypeOK
    <3> HIDE DEF R
    <3> QED BY <3>1, <3>2, TameResolve DEF Terminal, workVars
  <2>2. CASE Finish(g)
    <3> DEFINE R == IF FinishGuard(g, pick[g]) THEN {pick[g]} ELSE {}
    <3>1. Resolve(R, SendOutcome(g)) /\ UNCHANGED workVars BY <2>2 DEF Finish
    <3>2. R \in SUBSET Executions /\ \A e \in R : status[e] = "delivering"
      BY <2>2 DEF Finish, FinishGuard, IInv, SenderOwnsRow, Sending
    <3>3. SendOutcome(g) \in Terminal BY DEF SendOutcome, Terminal
    <3> HIDE DEF R
    <3> QED BY <3>1, <3>2, <3>3, TameResolve DEF workVars
  <2>3. CASE ClaimPicked(g)
    <3>1. \A e \in Executions : status'[e] = "absent" <=> status[e] = "absent"
      BY <2>3 DEF ClaimPicked, Claimable, IInv, TypeOK
    <3> QED BY <2>3, <3>1 DEF ClaimPicked, FirstLook, NoRace, workVars, history
  <2>4. CASE ~(FenceAbandoned(g) \/ Finish(g) \/ ClaimPicked(g))
    <3>1. UNCHANGED <<status, workVars, raced>>
      BY <1>2, <2>4 DEF GatewayStep, DrainStep, Boot, StartDrain, SelectPending, LoseClaim,
         BeginSend, EndSend, FinishRaises, Crash, rowVars, history
    <3> QED BY <3>1, <1>1
  <2> QED BY <2>1, <2>2, <2>3, <2>4
<1>3. ASSUME NEW e \in Executions, WorkerStep(e)
      PROVE  FirstLook' /\ NoRace'
  <2>1. CASE EnqueueLook(e)
    BY <2>1 DEF EnqueueLook, Answer, FirstLook, NoRace, IInv, TypeOK, rowVars, history
  <2>2. CASE EnqueueInsert(e)
    BY <2>2 DEF EnqueueInsert, Answer, FirstLook, NoRace, IInv, TypeOK, history
  <2>3. CASE PollTerminal(e) \/ WorkerDies(e)
    BY <2>3 DEF PollTerminal, WorkerDies, Answer, FirstLook, NoRace, IInv, TypeOK, rowVars,
       history
  <2>4. CASE WaitTimeout(e)
    <3>1. CASE LeftQueued(e)
      BY <2>4, <3>1 DEF WaitTimeout, MayTimeOut, FirstLook, NoRace, IInv, TypeOK, rowVars
    <3>2. CASE ~LeftQueued(e)
      <4> DEFINE R == IF status[e] = "delivering" THEN {e} ELSE {}
      <4>1. Resolve(R, "unknown") BY <2>4, <3>2 DEF WaitTimeout
      <4>2. R \in SUBSET Executions /\ \A d \in R : status[d] = "delivering"
        OBVIOUS
      <4>3. /\ requests' = requests
            /\ \A d \in Executions :
                 \/ worker'[d] = worker[d]
                 \/ worker[d] = "waiting" /\ worker'[d] # "enqueueing"
        BY <2>4 DEF WaitTimeout, MayTimeOut, IInv, TypeOK
      <4> HIDE DEF R
      <4> QED BY <4>1, <4>2, <4>3, TameResolve DEF Terminal
    <3> QED BY <3>1, <3>2
  <2> QED BY <1>3, <2>1, <2>2, <2>3, <2>4 DEF WorkerStep
<1>4. ASSUME UNCHANGED vars PROVE FirstLook' /\ NoRace'
  BY <1>1, <1>4 DEF vars, rowVars, history
<1> QED BY <1>2, <1>3, <1>4 DEF Next

\* Then no prune ever falls into enqueue's window,
THEOREM NothingRaces ==
    ASSUME Tame
    PROVE  Spec => []NoRace
<1>1. Init => FirstLook /\ NoRace
  BY DEF Init, FirstLook, NoRace
<1>2. IInv /\ FirstLook /\ NoRace /\ [Next]_vars => FirstLook' /\ NoRace'
  BY TameStep
<1> QED BY <1>1, <1>2, Invariance, PTL DEF Spec

\* and no execution is handed to the transport twice.
THEOREM SendsAtMostOnce ==
    ASSUME Tame
    PROVE  Spec => []AtMostOneSend
<1>1. SendsAreRationed /\ NoRace => AtMostOneSend
  BY DEF SendsAreRationed, NoRace, AtMostOneSend
<1> QED BY <1>1, SendsWithinRation, NothingRaces, PTL

\* What one step may do to the outcomes and to the platform.
OutcomeStep ==
    \/ /\ \A e \in Executions : Outcome(e)' = Outcome(e)
       /\ arrived' = arrived
    \/ \E e \in Executions :
          /\ \A d \in Executions \ {e} : Outcome(d)' = Outcome(d)
          /\ \/ Outcome(e) = "absent" /\ Outcome(e)' = "pending"
             \/ Outcome(e) = "pending" /\ Outcome(e)' = "delivering"
             \/ Outcome(e) = "delivering" /\ Outcome(e)' = "failed"
             \/ Outcome(e) = "delivering" /\ Outcome(e)' = "delivered" /\ arrived[e]
          /\ arrived' = arrived
    \/ \E e \in Executions :
          /\ \A d \in Executions : Outcome(d)' = Outcome(d)
          /\ Outcome(e) \in {"delivering", "unknown"}
          /\ ~arrived[e]
          /\ arrived' = [arrived EXCEPT ![e] = TRUE]
    \/ \E R \in SUBSET Executions :
          /\ \A e \in R : Outcome(e) = "delivering" /\ Outcome(e)' = "unknown"
          /\ \A e \in Executions \ R : Outcome(e)' = Outcome(e)
          /\ arrived' = arrived

\* A claimed row was not sent before.
LEMMA FreshClaim ==
    ASSUME IInv, NoRace, NEW g \in Gateways, pc[g] = "send"
    PROVE  ~arrived[pick[g]]
<1> DEFINE e == pick[g]
           c == Cardinality(Senders(e))
<1>1. e \in Executions /\ g \in Senders(e)
  BY DEF IInv, SenderOwnsRow, Sending, Senders
<1>2. c \in Nat /\ c # 0
  BY <1>1, SendersCount, FS_EmptySet
<1>3. Claims(e) \in {0, 1} BY DEF Claims
<1>4. sends[e] + c + Claims(e) <= 1 + raced[e]
  BY <1>1 DEF IInv, Rationed
<1>5. sends[e] \in Nat /\ raced[e] = 0 BY <1>1 DEF IInv, TypeOK, NoRace
<1> HIDE DEF c
<1>6. sends[e] = 0 BY <1>2, <1>3, <1>4, <1>5
<1> QED BY <1>1, <1>6 DEF IInv, ArrivedWasSent

LEMMA GatewayOutcomeStep ==
    ASSUME IInv, NoRace, NEW g \in Gateways, GatewayStep(g)
    PROVE  OutcomeStep
<1> USE DEF IInv
<1>1. CASE Boot(g) \/ StartDrain(g)
  BY <1>1 DEF Boot, StartDrain, OutcomeStep, Outcome, rowVars, history
<1>2. CASE FenceAbandoned(g)
  <2> DEFINE R == {e \in abandoned[g] : status[e] = "delivering"}
  <2>1. Resolve(R, "unknown") /\ arrived' = arrived
    BY <1>2 DEF FenceAbandoned
  <2>2. /\ R \in SUBSET Executions
        /\ \A e \in R : status[e] = "delivering" /\ Outcome(e) = "delivering"
    BY DEF Outcome, TypeOK
  <2> HIDE DEF R
  <2>3. /\ \A e \in R : Outcome(e)' = "unknown"
        /\ \A e \in Executions \ R : Outcome(e)' = Outcome(e)
    BY <2>1, <2>2, ResolveOutcomes DEF Terminal, NoRace
  <2> QED BY <2>1, <2>2, <2>3 DEF OutcomeStep
<1>3. CASE SelectPending(g) \/ LoseClaim(g) \/ EndSend(g) \/ FinishRaises(g) \/ Crash(g)
  BY <1>3 DEF SelectPending, LoseClaim, EndSend, FinishRaises, Crash, OutcomeStep,
     Outcome, rowVars, history
<1>4. CASE ClaimPicked(g)
  BY <1>4 DEF ClaimPicked, Claimable, PickedIsExecution, TypeOK, OutcomeStep,
     Outcome, history
<1>5. CASE BeginSend(g)
  <2>1. /\ pick[g] \in Executions /\ Outcome(pick[g]) \in {"delivering", "unknown"}
        /\ ~arrived[pick[g]]
    BY <1>5, FreshClaim DEF BeginSend, SenderOwnsRow, Sending, NoRace
  <2>2. \A e \in Executions : Outcome(e)' = Outcome(e)
    BY <1>5 DEF BeginSend, Outcome, rowVars
  <2>3. arrived' = arrived \/ arrived' = [arrived EXCEPT ![pick[g]] = TRUE]
    <3>1. PICK refused \in BOOLEAN :
            arrived' = [arrived EXCEPT ![pick[g]] = arrived[pick[g]] \/ ~refused]
      BY <1>5 DEF BeginSend
    <3>2. CASE refused
      BY <2>1, <3>1, <3>2 DEF TypeOK
    <3>3. CASE ~refused
      BY <2>1, <3>1, <3>3 DEF TypeOK
    <3> QED BY <3>2, <3>3
  <2> QED BY <2>1, <2>2, <2>3 DEF OutcomeStep
<1>6. CASE Finish(g)
  <2> DEFINE e == pick[g]
             R == IF FinishGuard(g, e) THEN {e} ELSE {}
  <2>1. Resolve(R, SendOutcome(g)) /\ arrived' = arrived
    BY <1>6 DEF Finish
  <2>2. e \in Executions
    BY <1>6 DEF Finish, SenderOwnsRow, Sending
  <2>3. /\ SendOutcome(g) \in {"failed", "delivered"}
        /\ SendOutcome(g) = "delivered" => arrived[e]
    BY <1>6 DEF Finish, SendOutcome, NoErrorMeansArrived
  <2>4. \A d \in R : status[d] = "delivering"
    BY DEF FinishGuard
  <2>5. /\ \A d \in R : Outcome(d)' = SendOutcome(g)
        /\ \A d \in Executions \ R : Outcome(d)' = Outcome(d)
    <3> HIDE DEF R
    <3>1. R \in SUBSET Executions BY <2>2 DEF R
    <3>2. SendOutcome(g) \in Terminal BY <2>3 DEF Terminal
    <3> QED BY <2>1, <2>4, <3>1, <3>2, ResolveOutcomes DEF NoRace
  <2>6. CASE FinishGuard(g, e)
    <3>1. Outcome(e) = "delivering" BY <2>6 DEF FinishGuard, Outcome
    <3> QED BY <2>1, <2>2, <2>3, <2>5, <2>6, <3>1 DEF OutcomeStep
  <2>7. CASE ~FinishGuard(g, e)
    BY <2>1, <2>5, <2>7 DEF OutcomeStep
  <2> QED BY <2>6, <2>7
<1> QED BY <1>1, <1>2, <1>3, <1>4, <1>5, <1>6 DEF GatewayStep, DrainStep

LEMMA WorkerOutcomeStep ==
    ASSUME IInv, NoRace, NEW e \in Executions, WorkerStep(e)
    PROVE  OutcomeStep
<1> USE DEF IInv
<1>1. CASE EnqueueInsert(e)
  <2>1. CASE status[e] = "absent"
    <3>1. Outcome(e) = "absent"
      BY <1>1, <2>1 DEF EnqueueInsert, TombOrRow, NoRace, Outcome
    <3> QED BY <1>1, <2>1, <3>1 DEF EnqueueInsert, TypeOK, OutcomeStep, Outcome, history
  <2>2. CASE status[e] # "absent"
    BY <1>1, <2>2 DEF EnqueueInsert, OutcomeStep, Outcome, history
  <2> QED BY <2>1, <2>2
<1>2. CASE EnqueueLook(e) \/ PollTerminal(e) \/ WorkerDies(e)
  BY <1>2 DEF EnqueueLook, PollTerminal, WorkerDies, OutcomeStep, Outcome, rowVars, history
<1>3. CASE WaitTimeout(e)
  <2>1. CASE LeftQueued(e)
    BY <1>3, <2>1 DEF WaitTimeout, OutcomeStep, Outcome, rowVars
  <2>2. CASE ~LeftQueued(e)
    <3> DEFINE R == IF status[e] = "delivering" THEN {e} ELSE {}
    <3>1. Resolve(R, "unknown") /\ arrived' = arrived
      BY <1>3, <2>2 DEF WaitTimeout
    <3>2. /\ R \in SUBSET Executions
          /\ \A d \in R : status[d] = "delivering" /\ Outcome(d) = "delivering"
      BY DEF Outcome
    <3> HIDE DEF R
    <3>3. /\ \A d \in R : Outcome(d)' = "unknown"
          /\ \A d \in Executions \ R : Outcome(d)' = Outcome(d)
      BY <3>1, <3>2, ResolveOutcomes DEF Terminal, NoRace
    <3> QED BY <3>1, <3>2, <3>3 DEF OutcomeStep
  <2> QED BY <2>1, <2>2
<1> QED BY <1>1, <1>2, <1>3 DEF WorkerStep

LEMMA EveryOutcomeStep == IInv /\ NoRace /\ [Next]_vars => OutcomeStep
<1>1. UNCHANGED vars => OutcomeStep
  BY DEF vars, rowVars, history, OutcomeStep, Outcome
<1> QED BY <1>1, GatewayOutcomeStep, WorkerOutcomeStep DEF Next

\* The queue implements at-most-once delivery under the refinement mapping
\* Phase, whatever gateways and workers do, in every instance that enqueues an
\* execution id once or prunes no row.
THEOREM Refinement ==
    ASSUME Tame
    PROVE  Spec => ImplementsAtMostOnce
<1>1. Init => Abstract!AInit
  BY DEF Init, Abstract!AInit, Phase, Outcome
<1>2. IInv /\ OutcomeStep => [Abstract!ANext]_(Abstract!avars)
  <2> SUFFICES ASSUME IInv, OutcomeStep
               PROVE  Abstract!ANext \/ UNCHANGED Abstract!avars
    OBVIOUS
  <2> DEFINE ph == [e \in Executions |-> Phase(e)]
  <2>1. \A e \in Executions : Outcome(e)' = Outcome(e) => Phase(e)' = Phase(e)
    BY DEF Phase
  <2>2. CASE /\ \A e \in Executions : Outcome(e)' = Outcome(e)
             /\ arrived' = arrived
    BY <2>1, <2>2 DEF Abstract!avars
  <2>3. ASSUME NEW e \in Executions,
               \A d \in Executions \ {e} : Outcome(d)' = Outcome(d),
               \/ Outcome(e) = "absent" /\ Outcome(e)' = "pending"
               \/ Outcome(e) = "pending" /\ Outcome(e)' = "delivering"
               \/ Outcome(e) = "delivering" /\ Outcome(e)' = "failed"
               \/ Outcome(e) = "delivering" /\ Outcome(e)' = "delivered" /\ arrived[e],
               arrived' = arrived
        PROVE  Abstract!ANext
    <3>1. ph' = [ph EXCEPT ![e] = Phase(e)']
      BY <2>1, <2>3
    <3>2. \/ Phase(e) = "none" /\ Phase(e)' = "queued"
          \/ Phase(e) = "queued" /\ Phase(e)' = "taken"
          \/ Phase(e) = "taken" /\ Phase(e)' = "failed"
          \/ Phase(e) = "taken" /\ Phase(e)' = "delivered" /\ arrived[e]
      BY <2>3 DEF Phase
    <3>3. \/ Abstract!Request(e) \/ Abstract!TakeUp(e)
          \/ Abstract!Settle(e, "failed") \/ Abstract!Settle(e, "delivered")
      BY <2>3, <3>1, <3>2
      DEF Abstract!Request, Abstract!TakeUp, Abstract!Settle
    <3> QED BY <3>3 DEF Abstract!ANext
  <2>4. ASSUME NEW e \in Executions,
               \A d \in Executions : Outcome(d)' = Outcome(d),
               Outcome(e) \in {"delivering", "unknown"}, ~arrived[e],
               arrived' = [arrived EXCEPT ![e] = TRUE]
        PROVE  Abstract!ANext
    <3>1. ph' = ph BY <2>1, <2>4
    <3>2. Phase(e) \in {"taken", "unknown"} BY <2>4 DEF Phase
    <3>3. Abstract!Arrive(e) BY <2>4, <3>1, <3>2 DEF Abstract!Arrive
    <3> QED BY <3>3 DEF Abstract!ANext
  <2>5. ASSUME NEW R \in SUBSET Executions,
               \A e \in R : Outcome(e) = "delivering" /\ Outcome(e)' = "unknown",
               \A e \in Executions \ R : Outcome(e)' = Outcome(e),
               arrived' = arrived
        PROVE  Abstract!ANext
    <3>1. \A e \in R : Phase(e) = "taken" /\ Phase(e)' = "unknown"
      BY <2>5 DEF Phase
    <3>2. ph' = [e \in Executions |-> IF e \in R THEN "unknown" ELSE ph[e]]
      BY <2>1, <2>5, <3>1
    <3>3. Abstract!GiveUp(R) BY <2>5, <3>1, <3>2 DEF Abstract!GiveUp
    <3> QED BY <3>3 DEF Abstract!ANext
  <2> QED BY <2>2, <2>3, <2>4, <2>5 DEF OutcomeStep
<1>3. IInv /\ NoRace /\ [Next]_vars => [Abstract!ANext]_(Abstract!avars)
  BY <1>2, EveryOutcomeStep
<1> QED BY <1>1, <1>3, NothingRaces, Invariance, PTL DEF Spec, ImplementsAtMostOnce, Abstract!ASpec
============================================================================
