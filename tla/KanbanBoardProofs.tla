-------------------------- MODULE KanbanBoardProofs --------------------------
(***************************************************************************)
(* What holds of KanbanBoard for every board, every limit and every number *)
(* of interventions.  Two invariants carry the proofs: IInv, with parts    *)
(* for types, numbers, runs, the breaker and the review phase, and SInv,   *)
(* which follows the rows a tick has read through its phases.              *)
(***************************************************************************)
EXTENDS KanbanBoard, TLAPS

(***************************************************************************)
(* Runs are numbered as they are opened, and a row points at runs of its   *)
(* own.                                                                    *)
(***************************************************************************)
Pointers ==
  /\ \A r \in Runs : IF r < next THEN run[r].of \in Tasks
                     ELSE run[r].outcome = "unused" /\ run[r].worker = "none"
  /\ \A t \in Tasks : \A r \in Runs :
       r = task[t].cur \/ r = task[t].pid => r < next /\ run[r].of = t

\* The rows of a tick are of the kind its phase reads.
TickRows ==
  /\ me <= upsets + 1
  /\ tick.at \in {"stale", "release", "account", "overdue", "timeout", "charge"} =>
       tick.rows \subseteq ReadRows
  /\ tick.at \in {"release", "timeout", "charge"} => tick.row \in ReadRows
  /\ tick.at \in {"lanes", "launch", "record"} => tick.rows \subseteq LaneRows
  /\ tick.at \in {"launch", "record"} =>
       /\ tick.row \in ReadRows /\ tick.row.run \in Runs /\ tick.row.run < next
       /\ run[tick.row.run].of = tick.row.task

\* Who reclaims has read a claim.
HandRow == hand # NoRow => hand \in ReadRows /\ hand.lock # None

(***************************************************************************)
(* Unless a failure was booked late, a row has a claim or a current run    *)
(* only while it is running.                                               *)
(***************************************************************************)
InRun ==
  \A t \in Tasks : t \notin late /\ (task[t].lock # None \/ task[t].cur # None)
                   => task[t].status = "running"

\* A task that can still be dispatched is below one of the limits or was forced.
Breaker ==
  \A t \in Tasks : task[t].status \in {"todo", "ready", "review", "running"}
                   /\ task[t].failures >= HigherLimit => t \in forced

\* A task whose work awaits review is on its way to a reviewer.
Reviewed ==
  \A t \in handed \ late :
    /\ task[t].status # "ready"
    /\ task[t].status \in {"todo", "blocked"} => task[t].resume = "review"
    /\ task[t].status = "running" => run[task[t].cur].source = "review"

Books == Pointers /\ RunsAreBooked /\ InRun /\ Breaker /\ Reviewed

IInv == TypeOK /\ TickRows /\ HandRow /\ Books /\ ParentsComeFirst

(***************************************************************************)
(* What a tick knows of the tasks it works on: no worker is put on record  *)
(* while it looks for stale claims, one it has signalled is gone unless it *)
(* survived, and no run with its worker on record is open in a task that   *)
(* does not run.                                                           *)
(***************************************************************************)
SInv ==
  /\ tick.at \in {"stale", "release"} =>
       \A row \in tick.rows : task[row.task].pid \in {row.run, None}
  /\ tick.at = "release" => task[tick.row.task].pid \in {tick.row.run, None}
  /\ tick.at \in {"release", "timeout"} /\ ~tick.survived => ~Live(tick.row.run)
  /\ tick.at = "account" =>
       \A row \in tick.rows :
         task[row.task].status = "running" => task[row.task].pid # task[row.task].cur
  /\ tick.at = "charge" =>
       (task[tick.row.task].status = "running" => task[tick.row.task].pid # task[tick.row.task].cur)
  /\ tick.at \in {"launch", "record"} /\ task[tick.row.task].cur = tick.row.run
       /\ Open(tick.row.run) => task[tick.row.task].status = "running"
  /\ \A t \in Tasks : Open(task[t].cur) /\ task[t].pid = task[t].cur => task[t].status = "running"

-----------------------------------------------------------------------------
(* The rows.                                                               *)

LEMMA Values ==
  /\ None \notin Runs /\ None \notin Tasks /\ None \notin Dispatchers
  /\ Hand \notin Dispatchers /\ Hand # None
  /\ Runs \subseteq Nat /\ HigherLimit \in Nat \ {0} /\ RecurrenceLimit \in Nat \ {0}
  /\ \A limit \in {FailureLimit, DefaultLimit} : limit \in Nat /\ limit <= HigherLimit
  /\ MaxRuns \in Nat /\ MaxUpsets \in Nat /\ NoRow \notin ReadRows
<1>1. MaxRuns \in Nat /\ MaxUpsets \in Nat
  BY BoardAssumption
<1>2. Runs \subseteq Nat /\ Dispatchers \subseteq Nat
  BY <1>1 DEF Runs, Dispatchers
<1>3. None \notin Tasks
  BY BoardAssumption
<1>4. NoRow \notin ReadRows
  BY <1>3 DEF NoRow, Row, ReadRows
<1>5. Runs \subseteq Int /\ Dispatchers \subseteq Int
  BY <1>2
<1>6. None \notin Int /\ None # Hand /\ Hand \notin Int
  BY BoardAssumption
<1>7. HigherLimit \in Nat \ {0} /\ RecurrenceLimit \in Nat \ {0}
      /\ \A limit \in {FailureLimit, DefaultLimit} : limit \in Nat /\ limit <= HigherLimit
  BY BoardAssumption DEF HigherLimit
<1> QED
  BY <1>1, <1>2, <1>3, <1>4, <1>5, <1>6, <1>7

\* A row that leaves its run.
LEMMA LeftFields ==
  ASSUME TypeOK, NEW t \in Tasks, NEW s \in Status, NEW lane \in Lanes
  PROVE  /\ Left(t, s, lane) \in TaskRows
         /\ Left(t, s, lane).status = s /\ Left(t, s, lane).lock = None
         /\ Left(t, s, lane).pid = None /\ Left(t, s, lane).cur = None
         /\ Left(t, s, lane).resume = lane
         /\ Left(t, s, lane).failures = task[t].failures
         /\ Left(t, s, lane).blocks = task[t].blocks
         /\ Left(t, s, lane).sticky = task[t].sticky
<1>1. task[t] \in TaskRows
  BY DEF TypeOK
<1> DEFINE k == task[t]
<1>2. Left(t, s, lane) = [[k EXCEPT !.lock = None, !.expired = FALSE, !.pid = None]
                            EXCEPT !.status = s, !.cur = None, !.resume = lane]
  BY DEF Left, Free
<1> HIDE DEF k
<1>3. LET l == Left(t, s, lane)
      IN  /\ l \in TaskRows
          /\ l.status = s /\ l.lock = None /\ l.pid = None /\ l.cur = None
          /\ l.resume = lane /\ l.failures = k.failures /\ l.blocks = k.blocks
          /\ l.sticky = k.sticky
  <2>1. k \in TaskRows
    BY <1>1 DEF k
  <2>2. LET l == [[k EXCEPT !.lock = None, !.expired = FALSE, !.pid = None]
                    EXCEPT !.status = s, !.cur = None, !.resume = lane]
        IN  /\ l \in TaskRows
            /\ l.status = s /\ l.lock = None /\ l.pid = None /\ l.cur = None
            /\ l.resume = lane /\ l.failures = k.failures /\ l.blocks = k.blocks
            /\ l.sticky = k.sticky
    BY <2>1 DEF TaskRows
  <2> QED
    BY <1>2, <2>2, Zenon
<1> QED
  BY <1>3 DEF k

\* The end of a run touches nothing but its outcome.
LEMMA EndedRuns ==
  ASSUME TypeOK, NEW t \in Tasks, NEW outcome \in Outcomes
  PROVE  /\ Ended(t, outcome) \in [Runs -> RunRows]
         /\ \A r \in Runs :
              /\ Ended(t, outcome)[r].of = run[r].of
              /\ Ended(t, outcome)[r].source = run[r].source
              /\ Ended(t, outcome)[r].by = run[r].by
              /\ Ended(t, outcome)[r].worker = run[r].worker
              /\ Ended(t, outcome)[r].outcome =
                   IF r = task[t].cur /\ run[r].outcome = "open" THEN outcome ELSE run[r].outcome
<1>1. run \in [Runs -> RunRows]
  BY DEF TypeOK
<1>2. \A r \in Runs : run[r] \in RunRows
  BY <1>1
<1>3. \A r \in Runs : [run[r] EXCEPT !.outcome = outcome] \in RunRows
  BY <1>2 DEF RunRows
<1>4. CASE Open(task[t].cur)
  <2> DEFINE c == task[t].cur
  <2>1. c \in Runs /\ run[c].outcome = "open"
    BY <1>4 DEF Open
  <2>2. Ended(t, outcome) = [run EXCEPT ![c] = [run[c] EXCEPT !.outcome = outcome]]
    BY <1>4, <1>1, <2>1 DEF Ended
  <2>3. /\ [run[c] EXCEPT !.outcome = outcome].of = run[c].of
        /\ [run[c] EXCEPT !.outcome = outcome].source = run[c].source
        /\ [run[c] EXCEPT !.outcome = outcome].by = run[c].by
        /\ [run[c] EXCEPT !.outcome = outcome].worker = run[c].worker
        /\ [run[c] EXCEPT !.outcome = outcome].outcome = outcome
    BY <1>2, <2>1 DEF RunRows
  <2> HIDE DEF c
  <2>4. \A r \in Runs : Ended(t, outcome)[r] =
          IF r = c THEN [run[c] EXCEPT !.outcome = outcome] ELSE run[r]
    BY <1>1, <2>1, <2>2
  <2>5. Ended(t, outcome) \in [Runs -> RunRows]
    BY <1>1, <1>3, <2>1, <2>2
  <2> QED
    BY <2>1, <2>3, <2>4, <2>5 DEF c
<1>5. CASE ~Open(task[t].cur)
  BY <1>1, <1>5 DEF Ended, Open
<1> QED
  BY <1>4, <1>5

\* recompute_ready moves waiting rows into their lane and leaves the others.
LEMMA PromotedRows ==
  ASSUME NEW k \in [Tasks -> TaskRows], NEW limit \in {FailureLimit, DefaultLimit}
  PROVE  /\ Promoted(k, limit) \in [Tasks -> TaskRows]
         /\ \A t \in Tasks :
              /\ Promoted(k, limit)[t].lock = k[t].lock /\ Promoted(k, limit)[t].pid = k[t].pid
              /\ Promoted(k, limit)[t].cur = k[t].cur /\ Promoted(k, limit)[t].failures = k[t].failures
              /\ Promoted(k, limit)[t].sticky = k[t].sticky /\ Promoted(k, limit)[t].resume = k[t].resume
              /\ \/ Promoted(k, limit)[t].status = k[t].status
                 \/ /\ Promoted(k, limit)[t].status = k[t].resume
                    /\ \/ k[t].status = "todo"
                       \/ k[t].status = "blocked" /\ ~k[t].sticky /\ k[t].failures < HigherLimit
<1>1. ASSUME NEW l \in TaskRows
      PROVE  LET m == [l EXCEPT !.status = l.resume]
             IN  /\ m \in TaskRows /\ m.status = l.resume
                 /\ m.lock = l.lock /\ m.pid = l.pid /\ m.cur = l.cur
                 /\ m.failures = l.failures /\ m.sticky = l.sticky /\ m.resume = l.resume
  BY DEF TaskRows, Lanes, Status
<1>2. \A t \in Tasks : k[t] \in TaskRows
  OBVIOUS
<1> DEFINE Moves(t) ==
             /\ \A p \in Parents[t] : Satisfied(k[p].status)
             /\ \/ k[t].status = "todo"
                \/ /\ k[t].status = "blocked" /\ ~k[t].sticky
                   /\ k[t].failures < limit
           m(t) == [k[t] EXCEPT !.status = k[t].resume]
<1>3. Promoted(k, limit) = [t \in Tasks |-> IF Moves(t) THEN m(t) ELSE k[t]]
  BY DEF Promoted
<1>4. \A t \in Tasks : m(t) \in TaskRows
  BY <1>1, <1>2
<1>5. \A t \in Tasks : /\ m(t).status = k[t].resume
         /\ m(t).lock = k[t].lock /\ m(t).pid = k[t].pid /\ m(t).cur = k[t].cur
         /\ m(t).failures = k[t].failures /\ m(t).sticky = k[t].sticky
         /\ m(t).resume = k[t].resume
  BY <1>1, <1>2
<1>6. \A t \in Tasks : Moves(t) =>
        \/ k[t].status = "todo"
        \/ k[t].status = "blocked" /\ ~k[t].sticky /\ k[t].failures < HigherLimit
  BY <1>2, Values DEF TaskRows
<1> HIDE DEF Moves, m
<1> QED
  BY <1>2, <1>3, <1>4, <1>5, <1>6

\* A new row in the place of one.
LEMMA NewRow ==
  ASSUME NEW k \in [Tasks -> TaskRows], NEW t \in Tasks, NEW row \in TaskRows
  PROVE  /\ [k EXCEPT ![t] = row] \in [Tasks -> TaskRows]
         /\ [k EXCEPT ![t] = row][t] = row
         /\ \A u \in Tasks : u # t => [k EXCEPT ![t] = row][u] = k[u]
OBVIOUS

\* The claim of a row is extended, or expires.
LEMMA ExpiredRows ==
  ASSUME TypeOK, NEW t \in Tasks, NEW b \in BOOLEAN
  PROVE  LET k == [task EXCEPT ![t].expired = b]
         IN  /\ k \in [Tasks -> TaskRows]
             /\ \A u \in Tasks :
                  /\ k[u].status = task[u].status /\ k[u].lock = task[u].lock
                  /\ k[u].pid = task[u].pid /\ k[u].cur = task[u].cur
                  /\ k[u].failures = task[u].failures /\ k[u].sticky = task[u].sticky
                  /\ k[u].resume = task[u].resume
<1>1. task \in [Tasks -> TaskRows]
  BY DEF TypeOK
<1>2. ASSUME NEW l \in TaskRows
      PROVE  LET m == [l EXCEPT !.expired = b]
             IN  /\ m \in TaskRows /\ m.status = l.status
                 /\ m.lock = l.lock /\ m.pid = l.pid /\ m.cur = l.cur
                 /\ m.failures = l.failures /\ m.sticky = l.sticky /\ m.resume = l.resume
  BY DEF TaskRows
<1> DEFINE m == [task[t] EXCEPT !.expired = b]
<1>3. [task EXCEPT ![t].expired = b] = [task EXCEPT ![t] = m]
  BY <1>1
<1>4. /\ m \in TaskRows /\ m.status = task[t].status
      /\ m.lock = task[t].lock /\ m.pid = task[t].pid /\ m.cur = task[t].cur
      /\ m.failures = task[t].failures /\ m.sticky = task[t].sticky /\ m.resume = task[t].resume
  BY <1>1, <1>2
<1> HIDE DEF m
<1> QED
  BY <1>1, <1>3, <1>4, NewRow

\* The process of a run is put on record.
LEMMA RecordedRows ==
  ASSUME TypeOK, NEW t \in Tasks, NEW r \in Runs
  PROVE  LET k == [task EXCEPT ![t].pid = r]
         IN  /\ k \in [Tasks -> TaskRows]
             /\ \A u \in Tasks :
                  /\ k[u].status = task[u].status /\ k[u].lock = task[u].lock
                  /\ k[u].pid = (IF u = t THEN r ELSE task[u].pid) /\ k[u].cur = task[u].cur
                  /\ k[u].failures = task[u].failures /\ k[u].sticky = task[u].sticky
                  /\ k[u].resume = task[u].resume
<1>1. task \in [Tasks -> TaskRows]
  BY DEF TypeOK
<1>2. ASSUME NEW l \in TaskRows
      PROVE  LET m == [l EXCEPT !.pid = r]
             IN  /\ m \in TaskRows /\ m.status = l.status
                 /\ m.lock = l.lock /\ m.pid = r /\ m.cur = l.cur
                 /\ m.failures = l.failures /\ m.sticky = l.sticky /\ m.resume = l.resume
  BY DEF TaskRows
<1> DEFINE m == [task[t] EXCEPT !.pid = r]
<1>3. [task EXCEPT ![t].pid = r] = [task EXCEPT ![t] = m]
  BY <1>1
<1>4. /\ m \in TaskRows /\ m.status = task[t].status
      /\ m.lock = task[t].lock /\ m.pid = r /\ m.cur = task[t].cur
      /\ m.failures = task[t].failures /\ m.sticky = task[t].sticky /\ m.resume = task[t].resume
  BY <1>1, <1>2
<1> HIDE DEF m
<1> QED
  BY <1>1, <1>3, <1>4, NewRow

\* A process starts or ends.
LEMMA WorkerRuns ==
  ASSUME TypeOK, NEW r \in Runs, NEW w \in Exits \cup {"live"}
  PROVE  LET rn == [run EXCEPT ![r].worker = w]
         IN  /\ rn \in [Runs -> RunRows]
             /\ \A q \in Runs :
                  /\ rn[q].of = run[q].of /\ rn[q].source = run[q].source
                  /\ rn[q].outcome = run[q].outcome /\ rn[q].by = run[q].by
                  /\ rn[q].worker = IF q = r THEN w ELSE run[q].worker
<1>1. run \in [Runs -> RunRows]
  BY DEF TypeOK
<1>2. ASSUME NEW l \in RunRows
      PROVE  LET m == [l EXCEPT !.worker = w]
             IN  /\ m \in RunRows /\ m.of = l.of /\ m.source = l.source
                 /\ m.outcome = l.outcome /\ m.by = l.by /\ m.worker = w
  BY DEF RunRows
<1> DEFINE m == [run[r] EXCEPT !.worker = w]
<1>3. [run EXCEPT ![r].worker = w] = [run EXCEPT ![r] = m]
  BY <1>1
<1>4. /\ m \in RunRows /\ m.of = run[r].of /\ m.source = run[r].source
      /\ m.outcome = run[r].outcome /\ m.by = run[r].by /\ m.worker = w
  BY <1>1, <1>2
<1> HIDE DEF m
<1>5. \A q \in Runs : [run EXCEPT ![r] = m][q] = IF q = r THEN m ELSE run[q]
  BY <1>1
<1> QED
  BY <1>1, <1>3, <1>4, <1>5

\* A signal ends at most the process it is sent to, and that one unless it survives.
LEMMA SignalledRuns ==
  ASSUME TypeOK, NEW r, NEW survives \in BOOLEAN
  PROVE  LET rn == Signalled(r, survives)
         IN  /\ rn \in [Runs -> RunRows]
             /\ \A q \in Runs :
                  /\ rn[q].of = run[q].of /\ rn[q].source = run[q].source
                  /\ rn[q].outcome = run[q].outcome /\ rn[q].by = run[q].by
                  /\ rn[q].worker = IF q = r /\ run[q].worker = "live" /\ ~survives
                                    THEN "failed" ELSE run[q].worker
<1>1. CASE Live(r) /\ ~survives
  <2>1. r \in Runs /\ run[r].worker = "live"
    BY <1>1 DEF Live
  <2>2. Signalled(r, survives) = [run EXCEPT ![r].worker = "failed"]
    BY <1>1 DEF Signalled
  <2>3. "failed" \in Exits \cup {"live"}
    BY DEF Exits
  <2> QED
    BY <1>1, <2>1, <2>2, <2>3, WorkerRuns
<1>2. CASE ~(Live(r) /\ ~survives)
  <2>1. Signalled(r, survives) = run
    BY <1>2 DEF Signalled
  <2>2. run \in [Runs -> RunRows]
    BY DEF TypeOK
  <2> QED
    BY <1>2, <2>1, <2>2 DEF Live
<1> QED
  BY <1>1, <1>2

\* A claim that loses demotes the row, or closes the run it had leaked.
LEMMA DemotedRows ==
  ASSUME TypeOK, NEW t \in Tasks, NEW lane \in Lanes, Demoted(t, lane)
  PROVE  /\ task' \in [Tasks -> TaskRows]
         /\ \A u \in Tasks \ {t} : task'[u] = task[u]
         /\ task'[t].lock = task[t].lock /\ task'[t].pid = task[t].pid
         /\ task'[t].cur = task[t].cur /\ task'[t].failures = task[t].failures
         /\ task'[t].sticky = task[t].sticky
         /\ \/ task'[t].status = task[t].status /\ task'[t].resume = task[t].resume
            \/ /\ task[t].status = lane /\ task'[t].status = "todo"
               /\ task'[t].resume = IF lane = "review" THEN "review" ELSE task[t].resume
<1>1. task \in [Tasks -> TaskRows]
  BY DEF TypeOK
<1> DEFINE x == IF lane = "review" THEN "review" ELSE task[t].resume
           m == [task[t] EXCEPT !.status = "todo", !.resume = x]
<1>2. /\ m \in TaskRows /\ m.status = "todo" /\ m.resume = x
      /\ m.lock = task[t].lock /\ m.pid = task[t].pid /\ m.cur = task[t].cur
      /\ m.failures = task[t].failures /\ m.sticky = task[t].sticky
  BY <1>1 DEF TaskRows, Lanes, Status
<1>3. CASE task[t].status = lane /\ (lane = "review" => task[t].lock = None)
  <2>1. task' = [task EXCEPT ![t] = m]
    BY <1>1, <1>3 DEF Demoted
  <2> HIDE DEF m
  <2> QED
    BY <1>1, <1>2, <1>3, <2>1, NewRow
<1>4. CASE ~(task[t].status = lane /\ (lane = "review" => task[t].lock = None))
  <2>1. task' = task
    BY <1>4 DEF Demoted
  <2> QED
    BY <1>1, <2>1
<1> QED
  BY <1>3, <1>4

\* A claim that wins.
LEMMA ClaimedRows ==
  ASSUME TypeOK, NEW t \in Tasks, NEW lane \in Lanes, NEW by \in Dispatchers \cup {Hand},
         next \in Runs, OpensRun(t, lane, by)
  PROVE  /\ task' \in [Tasks -> TaskRows]
         /\ \A u \in Tasks \ {t} : task'[u] = task[u]
         /\ task'[t].status = "running" /\ task'[t].lock = by /\ task'[t].cur = next
         /\ task'[t].pid = task[t].pid /\ task'[t].failures = task[t].failures
         /\ run' \in [Runs -> RunRows]
         /\ \A r \in Runs \ {next} :
              /\ run'[r].of = run[r].of /\ run'[r].source = run[r].source
              /\ run'[r].worker = run[r].worker
              /\ run'[r].outcome = IF r = task[t].cur /\ run[r].outcome = "open"
                                   THEN "reclaimed" ELSE run[r].outcome
         /\ run'[next].of = t /\ run'[next].source = lane /\ run'[next].outcome = "open"
         /\ run'[next].worker = "none"
         /\ next' = next + 1
<1>1. task \in [Tasks -> TaskRows] /\ run \in [Runs -> RunRows]
  BY DEF TypeOK
<1> DEFINE m == [task[t] EXCEPT !.status = "running", !.lock = by, !.expired = FALSE, !.cur = next]
           n == [of |-> t, source |-> lane, outcome |-> "open", by |-> by, worker |-> "none"]
           ended == Ended(t, "reclaimed")
<1>2. /\ m \in TaskRows /\ m.status = "running" /\ m.lock = by /\ m.cur = next
      /\ m.pid = task[t].pid /\ m.failures = task[t].failures
  BY <1>1 DEF TaskRows, Status
<1>3. /\ n \in RunRows /\ n.of = t /\ n.source = lane /\ n.outcome = "open" /\ n.worker = "none"
  BY DEF RunRows, Outcomes
<1>4. task' = [task EXCEPT ![t] = m]
  BY <1>1 DEF OpensRun
<1>5. run' = [ended EXCEPT ![next] = n] /\ next' = next + 1
  BY DEF OpensRun
<1>6. "reclaimed" \in Outcomes
  BY DEF Outcomes
<1>7. /\ ended \in [Runs -> RunRows]
      /\ \A r \in Runs :
           /\ ended[r].of = run[r].of /\ ended[r].source = run[r].source
           /\ ended[r].worker = run[r].worker
           /\ ended[r].outcome = IF r = task[t].cur /\ run[r].outcome = "open"
                                 THEN "reclaimed" ELSE run[r].outcome
  BY <1>6, EndedRuns
<1> HIDE DEF m, n, ended
<1>8. run' \in [Runs -> RunRows] /\ run'[next] = n /\ \A r \in Runs \ {next} : run'[r] = ended[r]
  BY <1>3, <1>5, <1>7
<1>9. /\ task' \in [Tasks -> TaskRows] /\ task'[t] = m
      /\ \A u \in Tasks \ {t} : task'[u] = task[u]
  BY <1>1, <1>2, <1>4, NewRow
<1> QED
  BY <1>2, <1>3, <1>5, <1>7, <1>8, <1>9

\* A failure booked after the claim was given up.
LEMMA ChargedRows ==
  ASSUME TypeOK, NEW t \in Tasks, NEW force \in BOOLEAN, Charge(t, force)
  PROVE  /\ task' \in [Tasks -> TaskRows]
         /\ \A u \in Tasks \ {t} : task'[u] = task[u]
         /\ task'[t].lock = task[t].lock /\ task'[t].pid = task[t].pid
         /\ task'[t].cur = task[t].cur /\ task'[t].sticky = task[t].sticky
         /\ \/ /\ task'[t].status = task[t].status /\ task'[t].resume = task[t].resume
               /\ task'[t].failures < HigherLimit
               /\ forced' = forced /\ late' = late
            \/ /\ task[t].status \in {"running", "ready", "review"}
               /\ task'[t].status = "blocked"
               /\ task'[t].resume = IF task[t].status = "review" THEN "review" ELSE "ready"
               /\ forced' = forced \ {t}
               /\ late' = IF task[t].status = "running" THEN late \cup {t} ELSE late
            \/ /\ task[t].status \notin {"running", "ready", "review"}
               /\ task'[t].status = task[t].status /\ task'[t].failures = task[t].failures
               /\ forced' = forced /\ late' = late \cup {t}
         /\ run' = run
<1>1. task \in [Tasks -> TaskRows]
  BY DEF TypeOK
<1> DEFINE trips == force \/ task[t].failures + 1 >= DefaultLimit
           hits == trips /\ task[t].status \in {"running", "ready", "review"}
           f == IF hits \/ ~trips THEN task[t].failures + 1 ELSE task[t].failures
           s == IF hits THEN "blocked" ELSE task[t].status
           x == IF ~trips THEN task[t].resume
                ELSE IF task[t].status = "review" THEN "review" ELSE "ready"
           m == [task[t] EXCEPT !.failures = f, !.status = s, !.resume = x]
<1>2. task' = [task EXCEPT ![t] = m]
  BY <1>1 DEF Charge, Chargeable
<1>3. forced' = (IF hits THEN forced \ {t} ELSE forced)
      /\ late' = (IF trips /\ task[t].status \notin Lanes THEN late \cup {t} ELSE late)
      /\ run' = run
  BY DEF Charge, Chargeable
<1>4. task[t] \in TaskRows
  BY <1>1
<1>5. f \in Nat /\ s \in Status /\ x \in Lanes
  BY <1>4 DEF TaskRows, Lanes, Status
<1>6. ~trips => f < HigherLimit
  BY <1>4, Values DEF TaskRows
<1>7. /\ hits => s = "blocked" /\ x = IF task[t].status = "review" THEN "review" ELSE "ready"
      /\ ~hits => s = task[t].status
      /\ ~trips => ~hits /\ x = task[t].resume
      /\ trips /\ ~hits => f = task[t].failures /\ task[t].status \notin {"running", "ready", "review"}
      /\ hits => task[t].status \in {"running", "ready", "review"} /\ trips
  OBVIOUS
<1> HIDE DEF trips, hits, f, s, x
<1>8. /\ m \in TaskRows /\ m.status = s /\ m.failures = f /\ m.resume = x
      /\ m.lock = task[t].lock /\ m.pid = task[t].pid /\ m.cur = task[t].cur
      /\ m.sticky = task[t].sticky
  BY <1>4, <1>5 DEF TaskRows
<1> HIDE DEF m
<1>9. /\ task' \in [Tasks -> TaskRows] /\ task'[t] = m
      /\ \A u \in Tasks \ {t} : task'[u] = task[u]
  BY <1>1, <1>2, <1>8, NewRow
<1> QED
  BY <1>3, <1>6, <1>7, <1>8, <1>9 DEF Lanes

\* The lane a row's run came from.
LEMMA RetryLane ==
  ASSUME TypeOK, NEW t \in Tasks
  PROVE  /\ RetryStatus(t) \in Lanes
         /\ task[t].cur \in Runs => RetryStatus(t) = run[task[t].cur].source
BY DEF TypeOK, RetryStatus, Lanes, RunRows

\* A failure booked with a claim whose worker could not be started.
LEMMA LaunchChargedRows ==
  ASSUME TypeOK, NEW t \in Tasks, ChargeLaunch(t)
  PROVE  /\ task' \in [Tasks -> TaskRows]
         /\ \A u \in Tasks \ {t} : task'[u] = task[u]
         /\ task'[t].cur = None /\ task'[t].sticky = task[t].sticky
         /\ task'[t].resume = RetryStatus(t)
         /\ task'[t].pid \in {task[t].pid, None}
         /\ \/ /\ task[t].status = "running" /\ task'[t].status = RetryStatus(t)
               /\ task'[t].lock = None /\ task'[t].failures < HigherLimit
               /\ forced' = forced
            \/ /\ task[t].status \in {"running", "ready", "review"}
               /\ task'[t].status = "blocked" /\ task'[t].lock = None
               /\ forced' = forced \ {t}
            \/ /\ task[t].status # "running"
               /\ task'[t].status = task[t].status /\ task'[t].lock = task[t].lock
               /\ task'[t].failures = task[t].failures
               /\ forced' = forced
         /\ late' = IF task[t].cur # tick.row.run THEN late \cup {t} ELSE late
         /\ \E o \in {"gave_up", "spawn_failed"} : run' = Ended(t, o)
<1>1. task \in [Tasks -> TaskRows]
  BY DEF TypeOK
<1> DEFINE trips == task[t].failures + 1 >= FailureLimit
           lane == RetryStatus(t)
           hits == IF trips THEN task[t].status \in {"running", "ready", "review"}
                   ELSE task[t].status = "running"
           f == task[t].failures + 1
           s == IF trips THEN "blocked" ELSE lane
           freed == [[task[t] EXCEPT !.lock = None, !.expired = FALSE, !.pid = None]
                       EXCEPT !.failures = f, !.status = s]
           row == IF hits THEN freed ELSE task[t]
           m == [row EXCEPT !.cur = None, !.resume = lane]
<1>2. task' = [task EXCEPT ![t] = m]
  BY <1>1 DEF ChargeLaunch, Chargeable, Free
<1>3. /\ forced' = IF hits /\ trips THEN forced \ {t} ELSE forced
      /\ late' = IF task[t].cur # tick.row.run THEN late \cup {t} ELSE late
      /\ run' = Ended(t, IF trips THEN "gave_up" ELSE "spawn_failed")
  BY DEF ChargeLaunch, Chargeable
<1>4. task[t] \in TaskRows
  BY <1>1
<1>5. f \in Nat /\ s \in Status /\ lane \in Lanes /\ (~trips => f < HigherLimit)
  <2>1. lane \in Lanes
    BY RetryLane
  <2>2. f \in Nat /\ (~trips => f < HigherLimit)
    BY <1>4, Values DEF TaskRows
  <2> QED
    BY <2>1, <2>2 DEF Lanes, Status
<1>6. /\ trips /\ hits => s = "blocked" /\ task[t].status \in {"running", "ready", "review"}
      /\ ~trips /\ hits => s = lane /\ task[t].status = "running"
      /\ ~hits => task[t].status # "running"
  OBVIOUS
<1>6a. (hits => row = freed) /\ (~hits => row = task[t])
  OBVIOUS
<1> HIDE DEF trips, hits, f, s, lane
<1>7. /\ freed \in TaskRows /\ freed.status = s /\ freed.failures = f /\ freed.lock = None
      /\ freed.pid = None /\ freed.sticky = task[t].sticky
  BY <1>4, <1>5 DEF TaskRows
<1> HIDE DEF freed
<1>8. row \in TaskRows
  BY <1>4, <1>6a, <1>7
<1> HIDE DEF row
<1>9. /\ m \in TaskRows /\ m.cur = None /\ m.resume = lane /\ m.status = row.status
      /\ m.failures = row.failures /\ m.lock = row.lock /\ m.pid = row.pid
      /\ m.sticky = row.sticky
  BY <1>5, <1>8 DEF TaskRows
<1> HIDE DEF m
<1>10. /\ task' \in [Tasks -> TaskRows] /\ task'[t] = m
       /\ \A u \in Tasks \ {t} : task'[u] = task[u]
  BY <1>1, <1>2, <1>9, NewRow
<1>11. CASE hits /\ trips
  BY <1>3, <1>5, <1>6, <1>6a, <1>7, <1>9, <1>10, <1>11 DEF lane
<1>12. CASE hits /\ ~trips
  BY <1>3, <1>5, <1>6, <1>6a, <1>7, <1>9, <1>10, <1>12 DEF lane, s, f
<1>13. CASE ~hits
  BY <1>3, <1>6, <1>6a, <1>9, <1>10, <1>13 DEF lane
<1> QED
  BY <1>11, <1>12, <1>13

LEMMA UnblockedRows ==
  ASSUME TypeOK, NEW t \in Tasks, Unblock(t)
  PROVE  /\ task' \in [Tasks -> TaskRows]
         /\ \A u \in Tasks \ {t} : task'[u] = task[u]
         /\ task'[t].status \in {"todo", task[t].resume}
         /\ task'[t].lock = task[t].lock /\ task'[t].pid = task[t].pid
         /\ task'[t].cur = None /\ task'[t].failures = 0
         /\ task'[t].resume = task[t].resume
<1>1. task \in [Tasks -> TaskRows]
  BY DEF TypeOK
<1> DEFINE lane == task[t].resume
           landing == IF ~ParentsDone(t) THEN "todo" ELSE lane
           m == [task[t] EXCEPT !.status = landing, !.cur = None, !.failures = 0,
                                !.sticky = FALSE, !.resume = lane]
<1>2. task' = [task EXCEPT ![t] = m]
  BY <1>1 DEF Unblock
<1>3. landing \in {"todo", lane}
  OBVIOUS
<1> HIDE DEF landing
<1>4. /\ m \in TaskRows /\ m.status = landing /\ m.cur = None /\ m.failures = 0
      /\ m.resume = lane /\ m.lock = task[t].lock /\ m.pid = task[t].pid
  BY <1>1, <1>3, ZenonT(30) DEF TaskRows, Lanes, Status
<1> HIDE DEF m
<1> QED
  BY <1>1, <1>2, <1>3, <1>4, NewRow

LEMMA PromotedByHandRows ==
  ASSUME TypeOK, NEW t \in Tasks, PromoteByHand(t)
  PROVE  /\ task' \in [Tasks -> TaskRows]
         /\ \A u \in Tasks \ {t} : task'[u] = task[u]
         /\ task'[t].status = "ready" /\ task'[t].lock = task[t].lock
         /\ task'[t].pid = task[t].pid /\ task'[t].cur = task[t].cur
         /\ task'[t].failures = task[t].failures
<1>1. task \in [Tasks -> TaskRows]
  BY DEF TypeOK
<1> DEFINE m == [task[t] EXCEPT !.status = "ready"]
<1>2. task' = [task EXCEPT ![t] = m]
  BY <1>1 DEF PromoteByHand
<1>3. /\ m \in TaskRows /\ m.status = "ready" /\ m.cur = task[t].cur
      /\ m.failures = task[t].failures /\ m.lock = task[t].lock /\ m.pid = task[t].pid
  BY <1>1 DEF TaskRows, Status
<1> HIDE DEF m
<1> QED
  BY <1>1, <1>2, <1>3, NewRow

\* The sweep for dead workers, over all rows and runs at once.
LEMMA SweptRows ==
  ASSUME TypeOK, Pointers, NEW T \in SUBSET Tasks, SweepCrashed(T)
  PROVE  /\ task' \in [Tasks -> TaskRows]
         /\ run' \in [Runs -> RunRows]
         /\ \A r \in Runs :
              /\ run'[r].of = run[r].of /\ run'[r].source = run[r].source
              /\ run'[r].worker = run[r].worker
         /\ \A t \in Tasks :
              \/ /\ task'[t] = task[t]
                 /\ task[t].cur \in Runs => run'[task[t].cur].outcome = run[task[t].cur].outcome
              \/ /\ task[t].status = "running" /\ task[t].pid # None /\ ~Live(task[t].pid)
                 /\ task'[t].status = RetryStatus(t)
                 /\ task'[t].lock = None /\ task'[t].pid = None /\ task'[t].cur = None
                 /\ task'[t].failures = task[t].failures
                 /\ task[t].cur \in Runs => run'[task[t].cur].outcome # "open"
         /\ \A r \in Runs :
              \/ run'[r].outcome = run[r].outcome
              \/ run'[r].outcome # "open" /\ \E t \in Tasks : task[t].cur = r
<1>1. task \in [Tasks -> TaskRows] /\ run \in [Runs -> RunRows]
  BY DEF TypeOK
<1> DEFINE Dead == {t \in Tasks : task[t].status = "running" /\ task[t].pid # None
                                  /\ ~Live(task[t].pid)}
           lane(t) == IF Booked(task[t].pid) = "violation" THEN task[t].resume ELSE RetryStatus(t)
           b(r) == Booked(task[run[r].of].pid)
           n(r) == [run[r] EXCEPT !.outcome = b(r)]
           Ends(r) == \E t \in Dead : task[t].cur = r /\ Open(r)
<1>2. task' = [t \in Tasks |-> IF t \notin Dead THEN task[t] ELSE Left(t, RetryStatus(t), lane(t))]
  BY DEF SweepCrashed
<1>3. run' = [r \in Runs |-> IF Ends(r) THEN n(r) ELSE run[r]]
  BY DEF SweepCrashed
<1>4. \A t \in Tasks : RetryStatus(t) \in Lanes /\ RetryStatus(t) \in Status /\ lane(t) \in Lanes
  BY <1>1, RetryLane DEF TaskRows, Lanes, Status
<1>5. \A r \in Runs : b(r) \in {"crashed", "violation", "rate_limited"}
  BY DEF Booked
<1>6. \A t \in Dead : task[t].status = "running" /\ task[t].pid # None /\ ~Live(task[t].pid)
  OBVIOUS
<1>7. Dead \subseteq Tasks
  OBVIOUS
<1>8. \A t \in Tasks : LET l == Left(t, RetryStatus(t), lane(t)) IN
        /\ l \in TaskRows /\ l.status = RetryStatus(t) /\ l.lock = None /\ l.pid = None
        /\ l.cur = None /\ l.failures = task[t].failures
  BY <1>4, LeftFields
<1> HIDE DEF lane, b
<1>9. ASSUME NEW r \in Runs
      PROVE  /\ n(r) \in RunRows /\ n(r).of = run[r].of /\ n(r).source = run[r].source
             /\ n(r).worker = run[r].worker /\ n(r).outcome # "open"
  <2>1. run[r] \in RunRows
    BY <1>1
  <2>2. b(r) \in Outcomes /\ b(r) # "open"
    BY <1>5 DEF Outcomes
  <2> QED
    BY <2>1, <2>2 DEF RunRows
<1>10. \A t \in Dead : \A r \in Runs : task[t].cur = r /\ Open(r) => Ends(r)
  OBVIOUS
<1>11. \A r \in Runs : Ends(r) => \E t \in Dead : task[t].cur = r
  OBVIOUS
<1>12. \A t \in Tasks, u \in Tasks : task[t].cur \in Runs /\ task[t].cur = task[u].cur => t = u
  BY DEF Pointers
<1> HIDE DEF Dead, n, Ends
<1>13. \A r \in Runs : run'[r] = IF Ends(r) THEN n(r) ELSE run[r]
  BY <1>3
<1>14. \A t \in Tasks : task'[t] = IF t \notin Dead THEN task[t] ELSE Left(t, RetryStatus(t), lane(t))
  BY <1>2
<1>15. task' \in [Tasks -> TaskRows]
  BY <1>1, <1>2, <1>8
<1>16. run' \in [Runs -> RunRows]
  BY <1>1, <1>3, <1>9
<1>17. \A r \in Runs :
         /\ run'[r].of = run[r].of /\ run'[r].source = run[r].source
         /\ run'[r].worker = run[r].worker
  BY <1>9, <1>13
<1>18. \A r \in Runs :
         \/ run'[r].outcome = run[r].outcome
         \/ run'[r].outcome # "open" /\ \E t \in Tasks : task[t].cur = r
  BY <1>7, <1>9, <1>11, <1>13
<1>19. ASSUME NEW t \in Tasks, t \notin Dead
       PROVE  /\ task'[t] = task[t]
              /\ task[t].cur \in Runs => run'[task[t].cur].outcome = run[task[t].cur].outcome
  BY <1>7, <1>11, <1>12, <1>13, <1>14, <1>19
<1>20. ASSUME NEW t \in Tasks, t \in Dead
       PROVE  /\ task[t].status = "running" /\ task[t].pid # None /\ ~Live(task[t].pid)
              /\ task'[t].status = RetryStatus(t)
              /\ task'[t].lock = None /\ task'[t].pid = None /\ task'[t].cur = None
              /\ task'[t].failures = task[t].failures
              /\ task[t].cur \in Runs => run'[task[t].cur].outcome # "open"
  <2>1. task[t].status = "running" /\ task[t].pid # None /\ ~Live(task[t].pid)
    BY <1>6, <1>20
  <2>2. task'[t] = Left(t, RetryStatus(t), lane(t))
    BY <1>14, <1>20
  <2>3. task[t].cur \in Runs => run'[task[t].cur].outcome # "open"
    BY <1>9, <1>10, <1>13, <1>20 DEF Open
  <2> QED
    BY <1>8, <2>1, <2>2, <2>3
<1> QED
  BY <1>15, <1>16, <1>17, <1>18, <1>19, <1>20

\* A finished task is reopened, and what was built upon it retracted.
LEMMA ReopenedRows ==
  ASSUME TypeOK, NEW t \in Tasks, Reopen(t)
  PROVE  /\ task' \in [Tasks -> TaskRows]
         /\ run' \in [Runs -> RunRows]
         /\ \A r \in Runs :
              /\ run'[r].of = run[r].of /\ run'[r].source = run[r].source
              /\ run'[r].worker \in {run[r].worker, "failed"}
              /\ run'[r].worker = "live" => run[r].worker = "live"
              /\ run[r].worker = "none" => run'[r].worker = "none"
              /\ \/ run'[r].outcome = run[r].outcome
                 \/ /\ run[r].outcome = "open" /\ run'[r].outcome = "reclaimed"
                    /\ run[r].of \in Retracted(t) /\ task[run[r].of].status = "running"
                    /\ task[run[r].of].cur = r
              /\ run[r].of \in Retracted(t) /\ task[run[r].of].status = "running"
                   /\ task[run[r].of].cur = r => run'[r].outcome # "open"
         /\ /\ task'[t].status = "ready" /\ task'[t].lock = None /\ task'[t].pid = None
            /\ task'[t].cur = task[t].cur
         /\ \A c \in Tasks \ {t} :
              IF c \in Retracted(t)
              THEN /\ task'[c].status \in {"todo", task'[c].resume}
                   /\ task'[c].lock = None /\ task'[c].pid = None /\ task'[c].cur = None
                   /\ task'[c].failures = 0
                   /\ task[c].status = "review" => task'[c].resume = "review"
                   /\ task[c].status = "running" => task'[c].resume = RetryStatus(c)
              ELSE /\ task'[c].lock = task[c].lock /\ task'[c].pid = task[c].pid
                   /\ task'[c].cur = task[c].cur /\ task'[c].failures = task[c].failures
                   /\ task'[c].resume = task[c].resume
                   /\ \/ task'[c].status = task[c].status
                      \/ /\ task'[c].status = task[c].resume
                         /\ \/ task[c].status = "todo"
                            \/ task[c].status = "blocked" /\ task[c].failures < HigherLimit
<1>1. task \in [Tasks -> TaskRows] /\ run \in [Runs -> RunRows]
  BY DEF TypeOK
<1> DEFINE m == [[task[t] EXCEPT !.lock = None, !.expired = FALSE, !.pid = None]
                   EXCEPT !.status = "ready", !.resume = "ready"]
           lane(c) == CASE task[c].status = "review" -> "review"
                        [] task[c].status = "running" -> RetryStatus(c)
                        [] OTHER -> "ready"
           lc(c) == Left(c, "todo", lane(c))
           l(c) == [lc(c) EXCEPT !.failures = 0]
           gone == Retracted(t)
           k == [c \in Tasks |-> CASE c = t -> m [] c \in gone -> l(c) [] OTHER -> task[c]]
           Stopped(r) == run[r].of \in gone /\ task[run[r].of].status = "running"
           o(r) == IF Stopped(r) /\ task[run[r].of].cur = r /\ run[r].outcome = "open"
                   THEN "reclaimed" ELSE run[r].outcome
           w(r) == IF Stopped(r) /\ task[run[r].of].pid = r /\ run[r].worker = "live"
                   THEN "failed" ELSE run[r].worker
           n(r) == [run[r] EXCEPT !.outcome = o(r), !.worker = w(r)]
<1>2. task' = Promoted(k, DefaultLimit)
  BY DEF Reopen, Free
<1>3. run' = [r \in Runs |-> n(r)]
  BY DEF Reopen
<1>4. /\ m \in TaskRows /\ m.status = "ready" /\ m.lock = None /\ m.pid = None
      /\ m.cur = task[t].cur
  BY <1>1 DEF TaskRows, Status, Lanes
<1>5. \A c \in Tasks : lane(c) \in Lanes
  BY RetryLane DEF Lanes
<1>6. \A c \in Tasks : (task[c].status = "review" => lane(c) = "review")
                       /\ (task[c].status = "running" => lane(c) = RetryStatus(c))
  OBVIOUS
<1> HIDE DEF lane
<1>7. \A c \in Tasks : /\ lc(c) \in TaskRows /\ lc(c).status = "todo" /\ lc(c).lock = None
                       /\ lc(c).pid = None /\ lc(c).cur = None /\ lc(c).resume = lane(c)
  BY <1>5, LeftFields DEF Status
<1> HIDE DEF lc
<1>8. \A c \in Tasks : /\ l(c) \in TaskRows /\ l(c).status = "todo" /\ l(c).lock = None
                       /\ l(c).pid = None /\ l(c).cur = None /\ l(c).resume = lane(c)
                       /\ l(c).failures = 0
  BY <1>7 DEF TaskRows
<1>9. gone \subseteq Tasks /\ t \notin gone
  BY LinksAssumption DEF Retracted, Descendants
<1> HIDE DEF m, l, gone
<1>10. k \in [Tasks -> TaskRows]
  BY <1>1, <1>4, <1>8
<1>11. k[t] = m /\ \A c \in Tasks \ {t} : k[c] = IF c \in gone THEN l(c) ELSE task[c]
  BY <1>9
<1> HIDE DEF k
<1>12. /\ task' \in [Tasks -> TaskRows]
       /\ \A c \in Tasks :
            /\ task'[c].lock = k[c].lock /\ task'[c].pid = k[c].pid
            /\ task'[c].cur = k[c].cur /\ task'[c].failures = k[c].failures
            /\ task'[c].resume = k[c].resume
            /\ \/ task'[c].status = k[c].status
               \/ /\ task'[c].status = k[c].resume
                  /\ \/ k[c].status = "todo"
                     \/ k[c].status = "blocked" /\ k[c].failures < HigherLimit
  BY <1>2, <1>10, PromotedRows
<1>13. /\ task'[t].status = "ready" /\ task'[t].lock = None /\ task'[t].pid = None
       /\ task'[t].cur = task[t].cur
  BY <1>4, <1>11, <1>12
<1>14. ASSUME NEW c \in Tasks \ {t}
       PROVE  IF c \in gone
              THEN /\ task'[c].status \in {"todo", task'[c].resume}
                   /\ task'[c].lock = None /\ task'[c].pid = None /\ task'[c].cur = None
                   /\ task'[c].failures = 0
                   /\ task[c].status = "review" => task'[c].resume = "review"
                   /\ task[c].status = "running" => task'[c].resume = RetryStatus(c)
              ELSE /\ task'[c].lock = task[c].lock /\ task'[c].pid = task[c].pid
                   /\ task'[c].cur = task[c].cur /\ task'[c].failures = task[c].failures
                   /\ task'[c].resume = task[c].resume
                   /\ \/ task'[c].status = task[c].status
                      \/ /\ task'[c].status = task[c].resume
                         /\ \/ task[c].status = "todo"
                            \/ task[c].status = "blocked" /\ task[c].failures < HigherLimit
  BY <1>6, <1>8, <1>11, <1>12
<1>15. ASSUME NEW r \in Runs
       PROVE  /\ n(r) \in RunRows /\ n(r).of = run[r].of /\ n(r).source = run[r].source
              /\ n(r).outcome = o(r) /\ n(r).worker = w(r)
  <2>1. run[r] \in RunRows
    BY <1>1
  <2>2. o(r) \in Outcomes \cup {"unused"} /\ w(r) \in Exits \cup {"none", "live"}
    BY <2>1 DEF RunRows, Outcomes, Exits
  <2> HIDE DEF o, w
  <2> QED
    BY <2>1, <2>2 DEF RunRows
<1> HIDE DEF n
<1>16. run' \in [Runs -> RunRows] /\ \A r \in Runs : run'[r] = n(r)
  BY <1>3, <1>15
<1>17. ASSUME NEW r \in Runs
       PROVE  /\ run'[r].of = run[r].of /\ run'[r].source = run[r].source
              /\ run'[r].worker \in {run[r].worker, "failed"}
              /\ run'[r].worker = "live" => run[r].worker = "live"
              /\ run[r].worker = "none" => run'[r].worker = "none"
              /\ \/ run'[r].outcome = run[r].outcome
                 \/ /\ run[r].outcome = "open" /\ run'[r].outcome = "reclaimed"
                    /\ run[r].of \in gone /\ task[run[r].of].status = "running"
                    /\ task[run[r].of].cur = r
              /\ run[r].of \in gone /\ task[run[r].of].status = "running"
                   /\ task[run[r].of].cur = r => run'[r].outcome # "open"
  BY <1>15, <1>16
<1> QED
  BY <1>12, <1>13, <1>14, <1>16, <1>17 DEF gone

-----------------------------------------------------------------------------
(* Runs, the breaker and the review phase: what a step may do to a row.    *)

RunsKept ==
  /\ next' = next /\ late \subseteq late'
  /\ \A r \in Runs :
       /\ run'[r].of = run[r].of /\ run'[r].source = run[r].source
       /\ run'[r].outcome = run[r].outcome \/ (run'[r].outcome # "open" /\ r < next)
       /\ r >= next => run'[r].worker = run[r].worker

Change(t) ==
  /\ \/ task'[t].pid \in {task[t].pid, None}
     \/ task'[t].pid \in Runs /\ task'[t].pid < next /\ run[task'[t].pid].of = t
  /\ \/ task'[t].cur = task[t].cur
     \/ /\ task'[t].cur = None
        /\ t \notin late' /\ task[t].cur \in Runs => run'[task[t].cur].outcome # "open"
  /\ task'[t].status = "running" =>
       /\ task[t].status = "running" /\ task'[t].lock = task[t].lock
       /\ task'[t].cur = task[t].cur
       /\ run'[task[t].cur].outcome = run[task[t].cur].outcome
  /\ task'[t].status # "running" /\ t \notin late' => task'[t].lock = None /\ task'[t].cur = None
  /\ task'[t].status \in {"todo", "ready", "review", "running"}
       /\ task'[t].failures >= HigherLimit => t \in forced'
  /\ t \in handed' \ late' =>
       /\ task'[t].status # "ready"
       /\ task'[t].status \in {"todo", "blocked"} => task'[t].resume = "review"
       /\ task'[t].status = "running" => t \in handed

LEMMA KeptByChange ==
  ASSUME TypeOK, handed' \subseteq Tasks, Books, RunsKept, \A t \in Tasks : Change(t)
  PROVE  Books'
<1>1. Pointers'
  <2>1. \A r \in Runs : IF r < next' THEN run'[r].of \in Tasks
                        ELSE run'[r].outcome = "unused" /\ run'[r].worker = "none"
    <3>1. next \in Nat /\ \A r \in Runs : r \in Nat
      BY Values DEF TypeOK
    <3> QED
      BY <3>1 DEF Books, Pointers, RunsKept
  <2>2. ASSUME NEW t \in Tasks, NEW r \in Runs, r = task'[t].cur \/ r = task'[t].pid
        PROVE  r < next' /\ run'[r].of = t
    <3>1. None \notin Runs
      BY Values
    <3> QED
      BY <2>2, <3>1 DEF Books, Pointers, RunsKept, Change
  <2> QED
    BY <2>1, <2>2 DEF Pointers
<1>2. RunsAreBooked'
  <2>1. ASSUME NEW r \in Runs, run'[r].outcome = "open"
        PROVE  task'[run'[r].of].cur = r \/ run'[r].of \in late'
    <3>1. run[r].outcome = "open" /\ run'[r].of = run[r].of
      BY <2>1 DEF RunsKept
    <3>2. run[r].of \in Tasks
      BY <3>1 DEF Books, Pointers
    <3>3. task[run[r].of].cur = r \/ run[r].of \in late
      BY <3>1 DEF Books, RunsAreBooked, Open
    <3> QED
      BY <2>1, <3>1, <3>2, <3>3 DEF Change, RunsKept
  <2>2. ASSUME NEW t \in Tasks, task'[t].status = "running"
        PROVE  task'[t].lock # None /\ task'[t].cur \in Runs /\ run'[task'[t].cur].outcome = "open"
    <3>1. /\ task[t].status = "running" /\ task'[t].lock = task[t].lock
          /\ task'[t].cur = task[t].cur
          /\ run'[task[t].cur].outcome = run[task[t].cur].outcome
      BY <2>2 DEF Change
    <3>2. task[t].lock # None /\ task[t].cur \in Runs /\ run[task[t].cur].outcome = "open"
      BY <3>1 DEF Books, RunsAreBooked, Open
    <3> QED
      BY <3>1, <3>2
  <2> QED
    BY <2>1, <2>2 DEF RunsAreBooked, Open
<1>3. InRun'
  BY DEF InRun, Change
<1>4. Breaker'
  BY DEF Breaker, Change
<1>5. Reviewed'
  <2>1. ASSUME NEW t \in handed' \ late', t \in Tasks
        PROVE  /\ task'[t].status # "ready"
               /\ task'[t].status \in {"todo", "blocked"} => task'[t].resume = "review"
               /\ task'[t].status = "running" => run'[task'[t].cur].source = "review"
    <3>1. CASE task'[t].status = "running"
      <4>1. task[t].status = "running" /\ task'[t].cur = task[t].cur /\ t \in handed \ late
        BY <2>1, <3>1 DEF Change, RunsKept
      <4>2. run[task[t].cur].source = "review" /\ task[t].cur \in Runs
        BY <4>1, <2>1 DEF Books, Reviewed, RunsAreBooked, Open
      <4> QED
        BY <3>1, <4>1, <4>2 DEF RunsKept
    <3>2. CASE task'[t].status # "running"
      BY <2>1, <3>2 DEF Change
    <3> QED
      BY <3>1, <3>2
  <2> QED
    BY <2>1 DEF Reviewed
<1> QED
  BY <1>1, <1>2, <1>3, <1>4, <1>5 DEF Books

\* A row that a step leaves alone, but for its process or its claim's time.
SameRow(t) ==
  /\ task'[t].status = task[t].status /\ task'[t].lock = task[t].lock
  /\ task'[t].cur = task[t].cur /\ task'[t].failures = task[t].failures
  /\ task'[t].resume = task[t].resume
  /\ \/ task'[t].pid \in {task[t].pid, None}
     \/ task'[t].pid \in Runs /\ task'[t].pid < next /\ run[task'[t].pid].of = t

LEMMA SameRowChanges ==
  ASSUME Books, RunsKept, NEW t \in Tasks, SameRow(t),
         task[t].cur \in Runs => run'[task[t].cur].outcome = run[task[t].cur].outcome,
         t \in forced => t \in forced', t \in handed' => t \in handed
  PROVE  Change(t)
<1>1. task[t].status = "running" => task[t].cur \in Runs
  BY DEF Books, RunsAreBooked, Open
<1>2. task'[t].status # "running" /\ t \notin late' => task'[t].lock = None /\ task'[t].cur = None
  BY DEF Books, InRun, SameRow, RunsKept
<1>3. task'[t].status \in {"todo", "ready", "review", "running"}
        /\ task'[t].failures >= HigherLimit => t \in forced'
  BY DEF Books, Breaker, SameRow
<1>4. t \in handed' \ late' =>
       /\ task'[t].status # "ready"
       /\ task'[t].status \in {"todo", "blocked"} => task'[t].resume = "review"
       /\ task'[t].status = "running" => t \in handed
  BY DEF Books, Reviewed, SameRow, RunsKept
<1> QED
  BY <1>1, <1>2, <1>3, <1>4 DEF Change, SameRow

\* Steps that touch no more than processes and the times of claims.
LEMMA KeptByFrame ==
  ASSUME TypeOK, Books, next' = next, late' = late, handed' = handed, forced' = forced,
         \A t \in Tasks : SameRow(t),
         \A r \in Runs : /\ run'[r].of = run[r].of /\ run'[r].source = run[r].source
                         /\ run'[r].outcome = run[r].outcome
                         /\ r >= next => run'[r].worker = run[r].worker
  PROVE  Books'
<1>1. RunsKept
  BY DEF RunsKept
<1>2. \A t \in Tasks : Change(t)
  BY <1>1, SameRowChanges
<1>3. handed' \subseteq Tasks
  BY DEF TypeOK
<1> QED
  BY <1>1, <1>2, <1>3, KeptByChange

\* Steps that touch one row, and the run it points at.
LEMMA KeptByOne ==
  ASSUME TypeOK, Books, NEW t \in Tasks, Change(t),
         \A u \in Tasks \ {t} : task'[u] = task[u],
         run' = run \/ \E o \in Outcomes \ {"open"} : run' = Ended(t, o),
         next' = next, late \subseteq late', forced \ {t} \subseteq forced',
         handed' \subseteq handed \cup {t}
  PROVE  Books'
<1>1. \A r \in Runs :
        /\ run'[r].of = run[r].of /\ run'[r].source = run[r].source
        /\ run'[r].worker = run[r].worker
        /\ \/ run'[r].outcome = run[r].outcome
           \/ run'[r].outcome # "open" /\ r = task[t].cur
  <2>1. CASE run' = run
    BY <2>1
  <2>2. ASSUME NEW o \in Outcomes \ {"open"}, run' = Ended(t, o)
        PROVE  \A r \in Runs :
                 /\ run'[r].of = run[r].of /\ run'[r].source = run[r].source
                 /\ run'[r].worker = run[r].worker
                 /\ \/ run'[r].outcome = run[r].outcome
                    \/ run'[r].outcome # "open" /\ r = task[t].cur
    BY <2>2, EndedRuns
  <2> QED
    BY <2>1, <2>2
<1>2. \A r \in Runs : r = task[t].cur => r < next /\ run[r].of = t
  BY DEF Books, Pointers
<1>3. RunsKept
  BY <1>1, <1>2 DEF RunsKept
<1>4. ASSUME NEW u \in Tasks, u # t
      PROVE  Change(u)
  <2>1. SameRow(u)
    BY <1>4 DEF SameRow
  <2>2. task[u].cur \in Runs => run'[task[u].cur].outcome = run[task[u].cur].outcome
    BY <1>1, <1>2, <1>4 DEF Books, Pointers
  <2> QED
    BY <1>3, <1>4, <2>1, <2>2, SameRowChanges
<1>5. handed' \subseteq Tasks
  BY DEF TypeOK
<1> QED
  BY <1>3, <1>4, <1>5, KeptByChange

\* A claim that wins opens a run in a row that had none, or closes that first.
LEMMA KeptByClaim ==
  ASSUME TypeOK, Books, NEW t \in Tasks, NEW lane \in Lanes,
         NEW by \in Dispatchers \cup {Hand}, next \in Runs, Claimable(t, lane),
         OpensRun(t, lane, by), UNCHANGED <<handed, forced, late>>
  PROVE  Books'
<1> DEFINE c == task[t].cur
<1>1. /\ task' \in [Tasks -> TaskRows]
      /\ \A u \in Tasks \ {t} : task'[u] = task[u]
      /\ task'[t].status = "running" /\ task'[t].lock = by /\ task'[t].cur = next
      /\ task'[t].pid = task[t].pid /\ task'[t].failures = task[t].failures
      /\ run' \in [Runs -> RunRows]
      /\ \A r \in Runs \ {next} :
           /\ run'[r].of = run[r].of /\ run'[r].source = run[r].source
           /\ run'[r].worker = run[r].worker
           /\ run'[r].outcome = IF r = c /\ run[r].outcome = "open"
                                THEN "reclaimed" ELSE run[r].outcome
      /\ run'[next].of = t /\ run'[next].source = lane /\ run'[next].outcome = "open"
      /\ run'[next].worker = "none"
      /\ next' = next + 1
  BY ClaimedRows
<1>2. task[t].status = lane /\ lane \in {"ready", "review"}
  BY DEF Claimable, Lanes
<1>3. next \in Nat /\ \A r \in Runs : r \in Nat
  BY Values DEF TypeOK
<1>4. \A r \in Runs : (r < next' <=> r < next \/ r = next) /\ (r < next => r # next)
  BY <1>1, <1>3
<1>5. None \notin Runs /\ None \notin Dispatchers /\ None # Hand
  BY Values
<1>6. handed' = handed /\ forced' = forced /\ late' = late /\ handed \subseteq Tasks
  BY DEF TypeOK
<1>7. Pointers
  BY DEF Books
<1>8. Pointers'
  <2>1. \A r \in Runs : IF r < next' THEN run'[r].of \in Tasks
                        ELSE run'[r].outcome = "unused" /\ run'[r].worker = "none"
    <3>1. ASSUME NEW r \in Runs, ~(r < next')
          PROVE  run'[r].outcome = "unused" /\ run'[r].worker = "none"
      <4>1. r # next /\ ~(r < next)
        BY <1>4, <3>1
      <4>2. run[r].outcome = "unused" /\ run[r].worker = "none"
        BY <1>7, <4>1 DEF Pointers
      <4> QED
        BY <1>1, <4>1, <4>2
    <3>2. ASSUME NEW r \in Runs, r < next'
          PROVE  run'[r].of \in Tasks
      BY <1>1, <1>4, <1>7, <3>2 DEF Pointers
    <3> QED
      BY <3>1, <3>2
  <2>2. ASSUME NEW u \in Tasks, NEW r \in Runs, r = task'[u].cur \/ r = task'[u].pid
        PROVE  r < next' /\ run'[r].of = u
    <3>1. CASE r = next
      <4>1. ~(r < next)
        BY <1>3, <3>1
      <4>2. u = t
        BY <1>1, <1>7, <2>2, <4>1 DEF Pointers
      <4> QED
        BY <1>1, <1>4, <3>1, <4>2
    <3>2. CASE r # next
      <4>1. r = task[u].cur \/ r = task[u].pid
        BY <1>1, <2>2, <3>2
      <4> QED
        BY <1>1, <1>4, <1>7, <3>2, <4>1 DEF Pointers
    <3> QED
      BY <3>1, <3>2
  <2> QED
    BY <2>1, <2>2 DEF Pointers
<1>9. RunsAreBooked'
  <2>1. ASSUME NEW r \in Runs, run'[r].outcome = "open"
        PROVE  task'[run'[r].of].cur = r \/ run'[r].of \in late'
    <3>1. CASE r = next
      BY <1>1, <3>1
    <3>2. CASE r # next
      <4>1. run[r].outcome = "open" /\ r # c /\ run'[r].of = run[r].of
        BY <1>1, <2>1, <3>2
      <4>2. run[r].of \in Tasks
        BY <1>7, <4>1 DEF Pointers
      <4>3. task[run[r].of].cur = r \/ run[r].of \in late
        BY <4>1 DEF Books, RunsAreBooked, Open
      <4> QED
        BY <1>1, <1>6, <4>1, <4>2, <4>3
    <3> QED
      BY <3>1, <3>2
  <2>2. ASSUME NEW u \in Tasks, task'[u].status = "running"
        PROVE  task'[u].lock # None /\ task'[u].cur \in Runs /\ run'[task'[u].cur].outcome = "open"
    <3>1. CASE u = t
      BY <1>1, <1>5, <3>1
    <3>2. CASE u # t
      <4>1. /\ task'[u] = task[u] /\ task[u].lock # None /\ task[u].cur \in Runs
            /\ run[task[u].cur].outcome = "open"
        BY <1>1, <2>2, <3>2 DEF Books, RunsAreBooked, Open
      <4>2. task[u].cur # c /\ task[u].cur # next
        BY <1>3, <1>7, <3>2, <4>1 DEF Pointers
      <4> QED
        BY <1>1, <4>1, <4>2
    <3> QED
      BY <3>1, <3>2
  <2> QED
    BY <2>1, <2>2 DEF RunsAreBooked, Open
<1>10. InRun'
  BY <1>1, <1>6 DEF Books, InRun
<1>11. Breaker'
  BY <1>1, <1>2, <1>6 DEF Books, Breaker
<1>12. Reviewed'
  <2>1. ASSUME NEW u \in handed \ late, u # t
        PROVE  /\ task'[u].status # "ready"
               /\ task'[u].status \in {"todo", "blocked"} => task'[u].resume = "review"
               /\ task'[u].status = "running" => run'[task'[u].cur].source = "review"
    <3>1. u \in Tasks /\ task'[u] = task[u]
      BY <1>1, <1>6, <2>1
    <3>2. task[u].status = "running" => task[u].cur \in Runs
      BY <3>1 DEF Books, RunsAreBooked, Open
    <3>3. task[u].cur \in Runs => task[u].cur # next
      BY <1>3, <1>7, <3>1 DEF Pointers
    <3> QED
      BY <1>1, <2>1, <3>1, <3>2, <3>3 DEF Books, Reviewed
  <2>2. ASSUME t \in handed \ late
        PROVE  lane = "review"
    BY <1>2, <2>2 DEF Books, Reviewed
  <2> QED
    BY <1>1, <1>6, <2>1, <2>2 DEF Reviewed
<1> QED
  BY <1>8, <1>9, <1>10, <1>11, <1>12 DEF Books

-----------------------------------------------------------------------------
(* Runs, the breaker and the review phase: the steps.                      *)

\* A step that touches processes only.
LEMMA BooksByProcess ==
  ASSUME IInv, UNCHANGED <<task, next, handed, forced, late>>,
         run' = run \/ (\E r \in Runs : \E w \in Exits \cup {"live"} :
                          r < next /\ run' = [run EXCEPT ![r].worker = w])
           \/ (\E r : \E survives \in BOOLEAN : run' = Signalled(r, survives))
  PROVE  Books'
<1>1. \A r \in Runs : /\ run'[r].of = run[r].of /\ run'[r].source = run[r].source
                      /\ run'[r].outcome = run[r].outcome
                      /\ r >= next => run'[r].worker = run[r].worker
  <2>1. next \in Nat /\ \A r \in Runs : r \in Nat
    BY Values DEF IInv, TypeOK
  <2>2. CASE run' = run
    BY <2>2
  <2>3. ASSUME NEW r \in Runs, NEW w \in Exits \cup {"live"}, r < next,
               run' = [run EXCEPT ![r].worker = w]
        PROVE  \A q \in Runs : /\ run'[q].of = run[q].of /\ run'[q].source = run[q].source
                               /\ run'[q].outcome = run[q].outcome
                               /\ q >= next => run'[q].worker = run[q].worker
    BY <2>1, <2>3, WorkerRuns DEF IInv
  <2>4. ASSUME NEW r, NEW survives \in BOOLEAN, run' = Signalled(r, survives)
        PROVE  \A q \in Runs : /\ run'[q].of = run[q].of /\ run'[q].source = run[q].source
                               /\ run'[q].outcome = run[q].outcome
                               /\ q >= next => run'[q].worker = run[q].worker
    <3>1. \A q \in Runs : q >= next => run[q].worker = "none"
      BY <2>1 DEF IInv, Books, Pointers
    <3> QED
      BY <2>4, <3>1, SignalledRuns DEF IInv
  <2> QED
    BY <2>2, <2>3, <2>4
<1>2. \A t \in Tasks : SameRow(t)
  BY DEF SameRow
<1> QED
  BY <1>1, <1>2, KeptByFrame DEF IInv

\* A step that extends or ends the time of a claim.
LEMMA BooksByTime ==
  ASSUME IInv, UNCHANGED <<run, next, handed, forced, late>>,
         task' = task \/ \E t \in Tasks : \E b \in BOOLEAN : task' = [task EXCEPT ![t].expired = b]
  PROVE  Books'
<1>1. \A u \in Tasks : SameRow(u)
  <2>1. CASE task' = task
    BY <2>1 DEF SameRow
  <2>2. ASSUME NEW t \in Tasks, NEW b \in BOOLEAN, task' = [task EXCEPT ![t].expired = b]
        PROVE  \A u \in Tasks : SameRow(u)
    BY <2>2, ExpiredRows DEF SameRow, IInv
  <2> QED
    BY <2>1, <2>2
<1> QED
  BY <1>1, KeptByFrame DEF IInv

LEMMA BooksByRecord ==
  ASSUME IInv, RecordPid
  PROVE  Books'
<1>1. /\ tick.row \in ReadRows /\ tick.row.run \in Runs /\ tick.row.run < next
      /\ run[tick.row.run].of = tick.row.task
  BY DEF RecordPid, At, IInv, TickRows
<1>2. tick.row.task \in Tasks
  BY <1>1 DEF ReadRows
<1>3. task' = [task EXCEPT ![tick.row.task].pid = tick.row.run]
  BY DEF RecordPid
<1>4. \A u \in Tasks : SameRow(u)
  BY <1>1, <1>2, <1>3, RecordedRows DEF IInv, SameRow
<1>5. UNCHANGED <<run, next, handed, forced, late>>
  BY DEF RecordPid
<1> QED
  BY <1>4, <1>5, KeptByFrame DEF IInv

\* A run that is given up for the lane it came from.
LEMMA BooksByRelease ==
  ASSUME IInv, NEW t \in Tasks, task[t].status = "running",
         task' = [task EXCEPT ![t] = Left(t, RetryStatus(t), RetryStatus(t))],
         NEW o \in Outcomes \ {"open"}, run' = Ended(t, o),
         UNCHANGED <<next, handed, forced, late>>
  PROVE  Books'
<1> DEFINE row == Left(t, RetryStatus(t), RetryStatus(t))
<1>1. RetryStatus(t) \in Lanes /\ RetryStatus(t) \in Status
  BY RetryLane DEF IInv, Lanes, Status
<1>2. /\ row \in TaskRows /\ row.status = RetryStatus(t) /\ row.lock = None /\ row.pid = None
      /\ row.cur = None /\ row.resume = RetryStatus(t) /\ row.failures = task[t].failures
  BY <1>1, LeftFields DEF IInv
<1> HIDE DEF row
<1>3. task'[t] = row /\ \A u \in Tasks \ {t} : task'[u] = task[u]
  BY <1>2, NewRow DEF IInv, TypeOK, row
<1>4. task[t].cur \in Runs => run'[task[t].cur].outcome # "open"
  BY EndedRuns DEF IInv
<1>5. t \in handed \ late => RetryStatus(t) = "review"
  <2>1. task[t].cur \in Runs
    BY DEF IInv, Books, RunsAreBooked, Open
  <2> QED
    BY <2>1, RetryLane DEF IInv, Books, Reviewed
<1>6. Change(t)
  BY <1>1, <1>2, <1>3, <1>4, <1>5 DEF Change, Lanes, IInv, Books, Breaker
<1> QED
  BY <1>3, <1>6, KeptByOne DEF IInv

\* A failure booked after the claim was given up.
LEMMA BooksByCharge ==
  ASSUME IInv, NEW t \in Tasks, NEW force \in BOOLEAN, Charge(t, force),
         UNCHANGED <<next, handed>>
  PROVE  Books'
<1>1. /\ task' \in [Tasks -> TaskRows]
      /\ \A u \in Tasks \ {t} : task'[u] = task[u]
      /\ task'[t].lock = task[t].lock /\ task'[t].pid = task[t].pid
      /\ task'[t].cur = task[t].cur
      /\ \/ /\ task'[t].status = task[t].status /\ task'[t].resume = task[t].resume
            /\ task'[t].failures < HigherLimit
            /\ forced' = forced /\ late' = late
         \/ /\ task[t].status \in {"running", "ready", "review"}
            /\ task'[t].status = "blocked"
            /\ task'[t].resume = IF task[t].status = "review" THEN "review" ELSE "ready"
            /\ forced' = forced \ {t}
            /\ late' = IF task[t].status = "running" THEN late \cup {t} ELSE late
         \/ /\ task[t].status \notin {"running", "ready", "review"}
            /\ task'[t].status = task[t].status /\ task'[t].failures = task[t].failures
            /\ forced' = forced /\ late' = late \cup {t}
      /\ run' = run
  BY ChargedRows DEF IInv
<1>2. task'[t].failures \in Nat /\ HigherLimit \in Nat
  BY <1>1, Values DEF TaskRows
<1>3. task[t].status = "running" => task[t].cur \in Runs
  BY DEF IInv, Books, RunsAreBooked, Open
<1>4. task'[t].status # "running" /\ t \notin late' => task'[t].lock = None /\ task'[t].cur = None
  BY <1>1 DEF IInv, Books, InRun
<1>5. task'[t].status \in {"todo", "ready", "review", "running"}
        /\ task'[t].failures >= HigherLimit => t \in forced'
  BY <1>1, <1>2 DEF IInv, Books, Breaker
<1>6. t \in handed' \ late' =>
       /\ task'[t].status # "ready"
       /\ task'[t].status \in {"todo", "blocked"} => task'[t].resume = "review"
       /\ task'[t].status = "running" => t \in handed
  BY <1>1 DEF IInv, Books, Reviewed
<1>7. Change(t)
  BY <1>1, <1>3, <1>4, <1>5, <1>6 DEF Change
<1> QED
  BY <1>1, <1>7, KeptByOne DEF IInv

LEMMA BooksByLaunch ==
  ASSUME IInv, LaunchFails
  PROVE  Books'
<1> DEFINE t == tick.row.task
<1>1. /\ tick.row \in ReadRows /\ tick.row.run \in Runs
  BY DEF LaunchFails, At, IInv, TickRows
<1>2. t \in Tasks
  BY <1>1 DEF ReadRows
<1>3. ChargeLaunch(t) /\ UNCHANGED <<next, handed>>
  BY DEF LaunchFails
<1> HIDE DEF t
<1>4. /\ task' \in [Tasks -> TaskRows]
      /\ \A u \in Tasks \ {t} : task'[u] = task[u]
      /\ task'[t].cur = None
      /\ task'[t].resume = RetryStatus(t)
      /\ task'[t].pid \in {task[t].pid, None}
      /\ \/ /\ task[t].status = "running" /\ task'[t].status = RetryStatus(t)
            /\ task'[t].lock = None /\ task'[t].failures < HigherLimit
            /\ forced' = forced
         \/ /\ task[t].status \in {"running", "ready", "review"}
            /\ task'[t].status = "blocked" /\ task'[t].lock = None
            /\ forced' = forced \ {t}
         \/ /\ task[t].status # "running"
            /\ task'[t].status = task[t].status /\ task'[t].lock = task[t].lock
            /\ task'[t].failures = task[t].failures
            /\ forced' = forced
      /\ late' = IF task[t].cur # tick.row.run THEN late \cup {t} ELSE late
      /\ \E o \in {"gave_up", "spawn_failed"} : run' = Ended(t, o)
  BY <1>2, <1>3, LaunchChargedRows DEF IInv
<1>5. \E o \in Outcomes \ {"open"} : run' = Ended(t, o)
  BY <1>4 DEF Outcomes
<1>6. task[t].cur \in Runs => run'[task[t].cur].outcome # "open"
  BY <1>2, <1>5, EndedRuns DEF IInv
<1>7. RetryStatus(t) \in {"ready", "review"}
      /\ (task[t].cur \in Runs => RetryStatus(t) = run[task[t].cur].source)
  BY <1>2, RetryLane DEF IInv, Lanes
<1>8. task'[t].failures \in Nat /\ HigherLimit \in Nat
  BY <1>2, <1>4, Values DEF TaskRows
<1>9. task'[t].status # "running"
  BY <1>4, <1>7
<1>10. t \notin late' => task'[t].lock = None
  BY <1>2, <1>4 DEF IInv, Books, InRun
<1>11. task'[t].status \in {"todo", "ready", "review", "running"}
        /\ task'[t].failures >= HigherLimit => t \in forced'
  BY <1>2, <1>4, <1>8, <1>9 DEF IInv, Books, Breaker
<1>12. ASSUME t \in handed' \ late'
       PROVE  RetryStatus(t) = "review" /\ task'[t].status # "ready"
  <2>1. task[t].cur = tick.row.run /\ t \in handed \ late /\ task[t].cur \in Runs
    BY <1>1, <1>3, <1>4, <1>12
  <2>2. task[t].status = "running"
    BY <1>1, <1>2, <2>1, Values DEF IInv, Books, InRun
  <2>3. RetryStatus(t) = "review"
    BY <1>2, <1>7, <2>1, <2>2 DEF IInv, Books, Reviewed
  <2> QED
    BY <1>4, <2>2, <2>3
<1>13. Change(t)
  BY <1>4, <1>6, <1>9, <1>10, <1>11, <1>12 DEF Change
<1> QED
  BY <1>2, <1>3, <1>4, <1>5, <1>13, KeptByOne DEF IInv

LEMMA BooksBySweep ==
  ASSUME IInv, NEW T \in SUBSET Tasks, SweepCrashed(T)
  PROVE  Books'
<1>1. /\ \A r \in Runs :
           /\ run'[r].of = run[r].of /\ run'[r].source = run[r].source
           /\ run'[r].worker = run[r].worker
      /\ \A t \in Tasks :
           \/ /\ task'[t] = task[t]
              /\ task[t].cur \in Runs => run'[task[t].cur].outcome = run[task[t].cur].outcome
           \/ /\ task[t].status = "running" /\ task[t].pid # None /\ ~Live(task[t].pid)
              /\ task'[t].status = RetryStatus(t)
              /\ task'[t].lock = None /\ task'[t].pid = None /\ task'[t].cur = None
              /\ task'[t].failures = task[t].failures
              /\ task[t].cur \in Runs => run'[task[t].cur].outcome # "open"
      /\ \A r \in Runs :
           \/ run'[r].outcome = run[r].outcome
           \/ run'[r].outcome # "open" /\ \E t \in Tasks : task[t].cur = r
  BY SweptRows DEF IInv, Books
<1>2. UNCHANGED <<next, handed, forced, late>>
  BY DEF SweepCrashed
<1>3. \A t \in Tasks : \A r \in Runs : task[t].cur = r => r < next
  BY DEF IInv, Books, Pointers
<1>4. RunsKept
  BY <1>1, <1>2, <1>3 DEF RunsKept
<1>5. ASSUME NEW t \in Tasks, task'[t] = task[t],
             task[t].cur \in Runs => run'[task[t].cur].outcome = run[task[t].cur].outcome
      PROVE  Change(t)
  BY <1>2, <1>4, <1>5, SameRowChanges DEF IInv, SameRow
<1>6. ASSUME NEW t \in Tasks, task[t].status = "running",
             task'[t].status = RetryStatus(t),
             task'[t].lock = None, task'[t].pid = None, task'[t].cur = None,
             task'[t].failures = task[t].failures,
             task[t].cur \in Runs => run'[task[t].cur].outcome # "open"
      PROVE  Change(t)
  <2>1. task[t].cur \in Runs
    BY <1>6 DEF IInv, Books, RunsAreBooked, Open
  <2>2. RetryStatus(t) \in {"ready", "review"} /\ RetryStatus(t) = run[task[t].cur].source
    BY <2>1, RetryLane DEF IInv, Lanes
  <2>3. t \in handed \ late => RetryStatus(t) = "review"
    BY <1>6, <2>2 DEF IInv, Books, Reviewed
  <2>4. task'[t].failures >= HigherLimit => t \in forced'
    BY <1>2, <1>6 DEF IInv, Books, Breaker
  <2> QED
    BY <1>2, <1>6, <2>2, <2>3, <2>4 DEF Change
<1>7. \A t \in Tasks : Change(t)
  BY <1>1, <1>5, <1>6
<1>8. handed' \subseteq Tasks
  BY <1>2 DEF IInv, TypeOK
<1> QED
  BY <1>4, <1>7, <1>8, KeptByChange DEF IInv

\* A waiting row that is promoted.
LEMMA PromotedChanges ==
  ASSUME IInv, RunsKept, NEW t \in Tasks,
         task'[t].lock = task[t].lock, task'[t].pid = task[t].pid,
         task'[t].cur = task[t].cur, task'[t].failures = task[t].failures,
         task'[t].resume = task[t].resume,
         task'[t].status = task[t].resume,
         task[t].status = "todo" \/ (task[t].status = "blocked" /\ task[t].failures < HigherLimit),
         t \in forced => t \in forced', t \in handed' => t \in handed
  PROVE  Change(t)
<1>1. task[t].resume \in {"ready", "review"} /\ task[t].failures \in Nat /\ HigherLimit \in Nat
  BY Values DEF IInv, TypeOK, TaskRows, Lanes
<1>2. t \notin late' => task'[t].lock = None /\ task'[t].cur = None
  BY DEF IInv, Books, InRun, RunsKept
<1>3. task'[t].failures >= HigherLimit => t \in forced'
  BY <1>1 DEF IInv, Books, Breaker
<1>4. t \in handed' \ late' => task[t].resume = "review"
  BY DEF IInv, Books, Reviewed, RunsKept
<1> QED
  BY <1>1, <1>2, <1>3, <1>4 DEF Change

\* A row that stays, or waits and is promoted.
Moved(u) ==
  /\ task'[u].lock = task[u].lock /\ task'[u].pid = task[u].pid
  /\ task'[u].cur = task[u].cur /\ task'[u].failures = task[u].failures
  /\ task'[u].resume = task[u].resume
  /\ \/ task'[u].status = task[u].status
     \/ /\ task'[u].status = task[u].resume
        /\ \/ task[u].status = "todo"
           \/ task[u].status = "blocked" /\ task[u].failures < HigherLimit
  /\ task[u].cur \in Runs => run'[task[u].cur].outcome = run[task[u].cur].outcome

LEMMA MovedChanges ==
  ASSUME IInv, RunsKept, NEW u \in Tasks, Moved(u),
         u \in forced => u \in forced', u \in handed' => u \in handed
  PROVE  Change(u)
<1>1. CASE task'[u].status = task[u].status
  <2>1. SameRow(u)
    BY <1>1 DEF SameRow, Moved
  <2>2. task[u].cur \in Runs => run'[task[u].cur].outcome = run[task[u].cur].outcome
    BY DEF Moved
  <2> QED
    BY <2>1, <2>2, SameRowChanges DEF IInv
<1>2. CASE task'[u].status # task[u].status
  BY <1>2, PromotedChanges DEF Moved
<1> QED
  BY <1>1, <1>2

\* One row changes, and then the waiting ones are promoted.
LEMMA BooksByPromotion ==
  ASSUME IInv, NEW t \in Tasks, NEW row \in TaskRows,
         task' = Promoted([task EXCEPT ![t] = row], DefaultLimit),
         row.status \in {"done", "archived"}, row.lock = None, row.cur = None, row.pid = None,
         NEW o \in Outcomes \ {"open"}, run' = Ended(t, o),
         next' = next, forced' = forced, late' = late,
         handed' \subseteq handed
  PROVE  Books'
<1> DEFINE k == [task EXCEPT ![t] = row]
<1>1. k \in [Tasks -> TaskRows] /\ k[t] = row /\ \A u \in Tasks \ {t} : k[u] = task[u]
  BY NewRow DEF IInv, TypeOK
<1>2. task' = Promoted(k, DefaultLimit)
  OBVIOUS
<1> HIDE DEF k
<1>3. \A u \in Tasks :
        /\ task'[u].lock = k[u].lock /\ task'[u].pid = k[u].pid
        /\ task'[u].cur = k[u].cur /\ task'[u].failures = k[u].failures
        /\ task'[u].resume = k[u].resume
        /\ \/ task'[u].status = k[u].status
           \/ /\ task'[u].status = k[u].resume
              /\ \/ k[u].status = "todo"
                 \/ k[u].status = "blocked" /\ k[u].failures < HigherLimit
  BY <1>1, <1>2, PromotedRows
<1>4. \A r \in Runs :
        /\ run'[r].of = run[r].of /\ run'[r].source = run[r].source
        /\ run'[r].worker = run[r].worker
        /\ \/ run'[r].outcome = run[r].outcome
           \/ run'[r].outcome # "open" /\ r = task[t].cur
        /\ r = task[t].cur => run'[r].outcome # "open"
  BY EndedRuns DEF IInv
<1>5. \A r \in Runs : r = task[t].cur => r < next /\ run[r].of = t
  BY DEF IInv, Books, Pointers
<1>6. RunsKept
  BY <1>4, <1>5 DEF RunsKept
<1>7. Change(t)
  BY <1>1, <1>3, <1>4 DEF Change
<1>8. ASSUME NEW u \in Tasks, u # t
      PROVE  Change(u)
  <2>1. task[u].cur \in Runs => run'[task[u].cur].outcome = run[task[u].cur].outcome
    BY <1>4, <1>5, <1>8 DEF IInv, Books, Pointers
  <2>2. k[u] = task[u]
    BY <1>1, <1>8
  <2>3. Moved(u)
    BY <1>3, <2>1, <2>2, ZenonT(30) DEF Moved
  <2> QED
    BY <1>6, <2>3, MovedChanges
<1>9. handed' \subseteq Tasks
  BY DEF IInv, TypeOK
<1> QED
  BY <1>6, <1>7, <1>8, <1>9, KeptByChange DEF IInv

LEMMA BooksByCompletion ==
  ASSUME IInv, NEW t \in Tasks, task' = Completed(t), run' = Ended(t, "completed"),
         handed' = handed \ {t}, UNCHANGED <<next, forced, late>>
  PROVE  Books'
<1> DEFINE l == Left(t, "done", task[t].resume)
           row == [l EXCEPT !.blocks = 0, !.failures = 0]
<1>1. task[t].resume \in Lanes
  BY DEF IInv, TypeOK, TaskRows
<1>2. /\ l \in TaskRows /\ l.status = "done" /\ l.lock = None /\ l.cur = None /\ l.pid = None
  BY <1>1, LeftFields DEF IInv, Status
<1>3. task' = Promoted([task EXCEPT ![t] = row], DefaultLimit)
  BY DEF Completed
<1> HIDE DEF l
<1>4. row \in TaskRows /\ row.status = "done" /\ row.lock = None /\ row.cur = None /\ row.pid = None
  BY <1>2 DEF TaskRows
<1> HIDE DEF row
<1>5. "completed" \in Outcomes \ {"open"}
  BY DEF Outcomes
<1> QED
  BY <1>3, <1>4, <1>5, BooksByPromotion

LEMMA BooksByArchive ==
  ASSUME IInv, NEW t \in Tasks, Archive(t)
  PROVE  Books'
<1> DEFINE row == Left(t, "archived", task[t].resume)
<1>1. task[t].resume \in Lanes
  BY DEF IInv, TypeOK, TaskRows
<1>2. /\ row \in TaskRows /\ row.status = "archived" /\ row.lock = None
      /\ row.cur = None /\ row.pid = None
  BY <1>1, LeftFields DEF IInv, Status
<1>3. /\ task' = Promoted([task EXCEPT ![t] = row], DefaultLimit) /\ run' = Ended(t, "reclaimed")
      /\ UNCHANGED <<next, handed, forced, late>>
  BY DEF Archive
<1> HIDE DEF row
<1>4. "reclaimed" \in Outcomes \ {"open"}
  BY DEF Outcomes
<1> QED
  BY <1>2, <1>3, <1>4, BooksByPromotion

LEMMA BooksByPromote ==
  ASSUME IInv, Promote \/ List
  PROVE  Books'
<1>1. /\ \E limit \in {FailureLimit, DefaultLimit} : task' = Promoted(task, limit)
      /\ UNCHANGED <<run, next, handed, forced, late>>
  BY DEF Promote, List
<1>2. task \in [Tasks -> TaskRows]
  BY DEF IInv, TypeOK
<1>3. \A u \in Tasks :
        /\ task'[u].lock = task[u].lock /\ task'[u].pid = task[u].pid
        /\ task'[u].cur = task[u].cur /\ task'[u].failures = task[u].failures
        /\ task'[u].resume = task[u].resume
        /\ \/ task'[u].status = task[u].status
           \/ /\ task'[u].status = task[u].resume
              /\ \/ task[u].status = "todo"
                 \/ task[u].status = "blocked" /\ task[u].failures < HigherLimit
  BY <1>1, <1>2, PromotedRows
<1>4. RunsKept
  BY <1>1 DEF RunsKept
<1>5. \A u \in Tasks : Moved(u)
  BY <1>1, <1>3 DEF Moved
<1>5a. \A u \in Tasks : Change(u)
  BY <1>1, <1>4, <1>5, MovedChanges
<1>6. handed' \subseteq Tasks
  BY <1>1 DEF IInv, TypeOK
<1> QED
  BY <1>4, <1>5a, <1>6, KeptByChange DEF IInv

LEMMA BooksByReopen ==
  ASSUME IInv, NEW t \in Tasks, Reopen(t)
  PROVE  Books'
<1>1. /\ task' \in [Tasks -> TaskRows]
      /\ \A r \in Runs :
           /\ run'[r].of = run[r].of /\ run'[r].source = run[r].source
           /\ run[r].worker = "none" => run'[r].worker = "none"
           /\ \/ run'[r].outcome = run[r].outcome
              \/ /\ run[r].outcome = "open" /\ run'[r].outcome = "reclaimed"
                 /\ run[r].of \in Retracted(t) /\ task[run[r].of].status = "running"
                 /\ task[run[r].of].cur = r
           /\ run[r].of \in Retracted(t) /\ task[run[r].of].status = "running"
                /\ task[run[r].of].cur = r => run'[r].outcome # "open"
      /\ task'[t].status = "ready" /\ task'[t].lock = None /\ task'[t].pid = None
      /\ task'[t].cur = task[t].cur
      /\ \A c \in Tasks \ {t} :
           IF c \in Retracted(t)
           THEN /\ task'[c].status \in {"todo", task'[c].resume}
                /\ task'[c].lock = None /\ task'[c].pid = None /\ task'[c].cur = None
                /\ task'[c].failures = 0
                /\ task[c].status = "review" => task'[c].resume = "review"
                /\ task[c].status = "running" => task'[c].resume = RetryStatus(c)
           ELSE /\ task'[c].lock = task[c].lock /\ task'[c].pid = task[c].pid
                /\ task'[c].cur = task[c].cur /\ task'[c].failures = task[c].failures
                /\ task'[c].resume = task[c].resume
                /\ \/ task'[c].status = task[c].status
                   \/ /\ task'[c].status = task[c].resume
                      /\ \/ task[c].status = "todo"
                         \/ task[c].status = "blocked" /\ task[c].failures < HigherLimit
  BY ReopenedRows DEF IInv
<1>2. /\ next' = next /\ late' = late /\ forced' = forced \cup {t}
      /\ handed' \subseteq handed
      /\ \A c \in handed' : c \in Retracted(t) \cup {t} => task[c].status \notin {"done", "archived"}
      /\ task[t].status \in {"done", "archived"}
  BY DEF Reopen, Satisfied
<1>3. Pointers /\ TypeOK
  BY DEF IInv, Books
<1>4. next \in Nat /\ \A r \in Runs : r \in Nat
  BY Values DEF IInv, TypeOK
<1>5. \A r \in Runs : IF r < next THEN run[r].of \in Tasks
                      ELSE run[r].outcome = "unused" /\ run[r].worker = "none"
  BY <1>3 DEF Pointers
<1>6. RunsKept
  <2>1. ASSUME NEW r \in Runs
        PROVE  /\ run'[r].outcome = run[r].outcome \/ (run'[r].outcome # "open" /\ r < next)
               /\ r >= next => run'[r].worker = run[r].worker
    BY <1>1, <1>4, <1>5
  <2> QED
    BY <1>1, <1>2, <2>1 DEF RunsKept
<1>7. Change(t)
  <2>1. t \notin late' => task'[t].cur = None
    BY <1>1, <1>2 DEF IInv, Books, InRun
  <2>2. t \notin handed'
    BY <1>2
  <2> QED
    BY <1>1, <1>2, <2>1, <2>2 DEF Change
<1>8. ASSUME NEW c \in Tasks \ {t}, c \in Retracted(t)
      PROVE  Change(c)
  <2>1. task[c].status \in {"ready", "review", "running", "done"}
    BY <1>8 DEF Retracted
  <2>2. task'[c].resume \in {"ready", "review"} /\ task'[c].failures = 0 /\ 0 < HigherLimit
        /\ HigherLimit \in Nat
    BY <1>1, <1>8, Values DEF TaskRows, Lanes
  <2>3. c \notin late' /\ task[c].cur \in Runs => run'[task[c].cur].outcome # "open"
    <3>1. SUFFICES ASSUME c \notin late', task[c].cur \in Runs
                   PROVE  run'[task[c].cur].outcome # "open"
      OBVIOUS
    <3>2. task[c].status = "running"
      BY <1>2, <3>1, Values DEF IInv, Books, InRun
    <3>3. run[task[c].cur].of = c
      BY <1>3, <3>1 DEF Pointers
    <3> QED
      BY <1>1, <1>8, <3>1, <3>2, <3>3
  <2>4. c \in handed' \ late' => task'[c].resume = "review"
    <3>1. SUFFICES ASSUME c \in handed' \ late'
                   PROVE  task'[c].resume = "review"
      OBVIOUS
    <3>2. c \in handed \ late /\ task[c].status \in {"ready", "review", "running"}
      BY <1>2, <1>8, <2>1, <3>1
    <3>3. task[c].status # "ready"
      BY <3>2 DEF IInv, Books, Reviewed
    <3>4. CASE task[c].status = "review"
      BY <1>1, <1>8, <3>4
    <3>5. CASE task[c].status = "running"
      <4>1. task[c].cur \in Runs /\ run[task[c].cur].source = "review"
        BY <3>2, <3>5 DEF IInv, Books, RunsAreBooked, Open, Reviewed
      <4>2. task'[c].resume = RetryStatus(c)
        BY <1>1, <1>8, <3>5
      <4> QED
        BY <1>3, <4>1, <4>2, RetryLane
    <3> QED
      BY <3>2, <3>3, <3>4, <3>5
  <2>5. /\ task'[c].status \in {"todo", task'[c].resume}
        /\ task'[c].lock = None /\ task'[c].pid = None /\ task'[c].cur = None
    BY <1>1, <1>8
  <2>6. ~(task'[c].failures >= HigherLimit)
    BY <2>2
  <2> QED
    BY <2>2, <2>3, <2>4, <2>5, <2>6 DEF Change
<1>9. ASSUME NEW c \in Tasks \ {t}, c \notin Retracted(t)
      PROVE  Change(c)
  <2>1. task[c].cur \in Runs => run'[task[c].cur].outcome = run[task[c].cur].outcome
    <3>1. SUFFICES ASSUME task[c].cur \in Runs
                   PROVE  run'[task[c].cur].outcome = run[task[c].cur].outcome
      OBVIOUS
    <3>2. run[task[c].cur].of = c
      BY <1>3, <3>1 DEF Pointers
    <3> QED
      BY <1>1, <1>9, <3>1, <3>2
  <2>2. Moved(c)
    BY <1>1, <1>9, <2>1 DEF Moved
  <2> QED
    BY <1>2, <1>6, <2>2, MovedChanges
<1>10. \A c \in Tasks : Change(c)
  BY <1>7, <1>8, <1>9
<1>11. handed' \subseteq Tasks
  BY <1>2, <1>3 DEF TypeOK
<1> QED
  BY <1>3, <1>6, <1>10, <1>11, KeptByChange DEF IInv

\* A row that gives up its claim and its run.
LEMMA BooksByLeave ==
  ASSUME IInv, NEW t \in Tasks, NEW row \in TaskRows, task' = [task EXCEPT ![t] = row],
         row.status # "running", row.lock = None, row.pid = None, row.cur = None,
         NEW o \in Outcomes \ {"open"}, run' = Ended(t, o),
         UNCHANGED <<next, forced, late>>, handed' \subseteq handed \cup {t},
         row.status \in {"todo", "ready", "review"} /\ row.failures >= HigherLimit => t \in forced,
         t \in handed' \ late => /\ row.status # "ready"
                                 /\ row.status \in {"todo", "blocked"} => row.resume = "review"
  PROVE  Books'
<1>1. task'[t] = row /\ \A u \in Tasks \ {t} : task'[u] = task[u]
  BY NewRow DEF IInv, TypeOK
<1>2. task[t].cur \in Runs => run'[task[t].cur].outcome # "open"
  BY EndedRuns DEF IInv
<1>3. Change(t)
  BY <1>1, <1>2 DEF Change
<1> QED
  BY <1>1, <1>3, KeptByOne DEF IInv

\* The lane of a task under review.
LEMMA ReviewLane ==
  ASSUME IInv, NEW t \in Tasks, t \notin late,
         task[t].status = "running" \/ task[t].lock # None \/ task[t].cur # None
  PROVE  /\ task[t].status = "running" /\ task[t].cur \in Runs
         /\ t \in handed => RetryStatus(t) = "review"
<1>1. task[t].status = "running"
  BY DEF IInv, Books, InRun
<1>2. task[t].cur \in Runs
  BY <1>1 DEF IInv, Books, RunsAreBooked, Open
<1>3. t \in handed => run[task[t].cur].source = "review"
  BY <1>1 DEF IInv, Books, Reviewed
<1> QED
  BY <1>1, <1>2, <1>3, RetryLane DEF IInv

LEMMA BooksByBlock ==
  ASSUME IInv, NEW r \in Runs, NEW dependency \in BOOLEAN, WorkerBlocks(r, dependency)
  PROVE  Books'
<1> DEFINE t == run[r].of
           lane == IF task[t].status = "running" THEN RetryStatus(t) ELSE "ready"
           again == task[t].blocks + 1
           row == IF dependency THEN [Left(t, "todo", lane) EXCEPT !.blocks = 0]
                  ELSE IF again >= RecurrenceLimit THEN [Left(t, "triage", lane) EXCEPT !.blocks = again]
                  ELSE [Left(t, "blocked", lane) EXCEPT !.blocks = again, !.sticky = TRUE]
<1>1. /\ Live(r) /\ task[t].cur = r /\ task[t].status \in {"running", "ready"}
      /\ task' = [task EXCEPT ![t] = row] /\ run' = Ended(t, "blocked")
      /\ UNCHANGED <<next, handed, forced, late>>
  BY DEF WorkerBlocks, Owner
<1>2. t \in Tasks
  <2>1. r < next \/ ~(r < next)
    OBVIOUS
  <2> QED
    BY <1>1, <2>1 DEF IInv, Books, Pointers, Live
<1> HIDE DEF t
<1>3. lane \in Lanes
  BY <1>2, RetryLane DEF IInv, Lanes
<1>4. again \in Nat
  BY <1>2 DEF IInv, TypeOK, TaskRows
<1>5. t \in handed \ late => lane = "review"
  BY <1>1, <1>2, ReviewLane, Values
<1> HIDE DEF lane, again
<1>6. \A s \in {"todo", "triage", "blocked"} : LET l == Left(t, s, lane) IN
        /\ l \in TaskRows /\ l.status = s /\ l.lock = None /\ l.pid = None /\ l.cur = None
        /\ l.resume = lane /\ l.failures = task[t].failures
  BY <1>2, <1>3, LeftFields DEF IInv, Status
<1>7. ASSUME NEW l \in TaskRows
      PROVE  /\ LET m == [l EXCEPT !.blocks = 0]
                IN  /\ m \in TaskRows /\ m.status = l.status /\ m.lock = l.lock
                    /\ m.pid = l.pid /\ m.cur = l.cur /\ m.resume = l.resume
                    /\ m.failures = l.failures
             /\ LET m == [l EXCEPT !.blocks = again]
                IN  /\ m \in TaskRows /\ m.status = l.status /\ m.lock = l.lock
                    /\ m.pid = l.pid /\ m.cur = l.cur /\ m.resume = l.resume
                    /\ m.failures = l.failures
             /\ LET m == [l EXCEPT !.blocks = again, !.sticky = TRUE]
                IN  /\ m \in TaskRows /\ m.status = l.status /\ m.lock = l.lock
                    /\ m.pid = l.pid /\ m.cur = l.cur /\ m.resume = l.resume
                    /\ m.failures = l.failures
  BY <1>4 DEF TaskRows
<1>8. /\ row \in TaskRows /\ row.status \in {"todo", "triage", "blocked"} /\ row.lock = None
      /\ row.pid = None /\ row.cur = None /\ row.resume = lane
      /\ row.failures = task[t].failures
  BY <1>6, <1>7
<1> HIDE DEF row
<1>9. task[t].failures >= HigherLimit => t \in forced
  BY <1>1, <1>2 DEF IInv, Books, Breaker
<1>10. "blocked" \in Outcomes \ {"open"}
  BY DEF Outcomes
<1> QED
  BY <1>1, <1>2, <1>5, <1>8, <1>9, <1>10, BooksByLeave

LEMMA BooksByReview ==
  ASSUME IInv, NEW r \in Runs, WorkerRequestsReview(r) \/ WorkerRequestsChanges(r)
  PROVE  Books'
<1> DEFINE t == run[r].of
           s == IF ParentsDone(t) THEN "ready" ELSE "todo"
<1>1. /\ Live(r) /\ task[t].cur = r /\ UNCHANGED <<next, forced, late>>
      /\ \/ /\ task[t].status \in {"running", "ready"}
            /\ task' = [task EXCEPT ![t] = Left(t, "review", task[t].resume)]
            /\ run' = Ended(t, "review_requested")
            /\ handed' = handed \cup {t}
         \/ /\ task[t].status = "running"
            /\ task' = [task EXCEPT ![t] = Left(t, s, "ready")]
            /\ run' = Ended(t, "changes_requested")
            /\ handed' = handed \ {t}
  BY DEF WorkerRequestsReview, WorkerRequestsChanges, Owner
<1>2. t \in Tasks
  BY <1>1 DEF IInv, Books, Pointers, Live
<1>3. s \in {"ready", "todo"}
  OBVIOUS
<1> HIDE DEF t, s
<1>4. task[t].resume \in Lanes /\ "ready" \in Lanes
  BY <1>2 DEF IInv, TypeOK, TaskRows, Lanes
<1>5. \A x \in {"review", "ready", "todo"}, lane \in Lanes : LET l == Left(t, x, lane) IN
        /\ l \in TaskRows /\ l.status = x /\ l.lock = None /\ l.pid = None /\ l.cur = None
        /\ l.failures = task[t].failures
  BY <1>2, LeftFields DEF IInv, Status
<1>6. task[t].failures >= HigherLimit => t \in forced
  BY <1>1, <1>2 DEF IInv, Books, Breaker
<1>7. "review_requested" \in Outcomes \ {"open"} /\ "changes_requested" \in Outcomes \ {"open"}
  BY DEF Outcomes
<1>8. CASE /\ task' = [task EXCEPT ![t] = Left(t, "review", task[t].resume)]
           /\ run' = Ended(t, "review_requested") /\ handed' = handed \cup {t}
  BY <1>1, <1>2, <1>4, <1>5, <1>6, <1>7, <1>8, BooksByLeave
<1>9. CASE /\ task' = [task EXCEPT ![t] = Left(t, s, "ready")]
           /\ run' = Ended(t, "changes_requested") /\ handed' = handed \ {t}
  BY <1>1, <1>2, <1>3, <1>4, <1>5, <1>6, <1>7, <1>9, BooksByLeave
<1> QED
  BY <1>1, <1>8, <1>9

LEMMA BooksByReclaim ==
  ASSUME IInv, ReclaimWrite
  PROVE  Books'
<1> DEFINE t == hand.task
           l == Left(t, RetryStatus(t), RetryStatus(t))
           row == [l EXCEPT !.failures = 0]
           hits == task[t].status \in {"running", "ready", "blocked"} /\ task[t].lock = hand.lock
<1>1. /\ hand # NoRow /\ UNCHANGED <<next, handed, forced, late>>
      /\ task' = IF hits THEN [task EXCEPT ![t] = row] ELSE task
      /\ run' = IF hits THEN Ended(t, "reclaimed") ELSE run
  BY DEF ReclaimWrite
<1>2. t \in Tasks /\ hand.lock # None
  BY <1>1 DEF IInv, HandRow, ReadRows
<1> HIDE DEF t
<1>3. CASE ~hits
  <2>1. task' = task /\ run' = run
    BY <1>1, <1>3
  <2> QED
    BY <1>1, <2>1, BooksByProcess
<1>4. CASE hits
  <2>1. RetryStatus(t) \in Lanes /\ RetryStatus(t) \in Status /\ RetryStatus(t) # "running"
    BY <1>2, RetryLane DEF IInv, Lanes, Status
  <2>2. /\ l \in TaskRows /\ l.status = RetryStatus(t) /\ l.lock = None /\ l.pid = None
        /\ l.cur = None /\ l.resume = RetryStatus(t)
    BY <1>2, <2>1, LeftFields DEF IInv
  <2> HIDE DEF l
  <2>3. /\ row \in TaskRows /\ row.status = RetryStatus(t) /\ row.lock = None /\ row.pid = None
        /\ row.cur = None /\ row.resume = RetryStatus(t) /\ row.failures = 0
    BY <2>2 DEF TaskRows
  <2>4. task' = [task EXCEPT ![t] = row] /\ run' = Ended(t, "reclaimed") /\ task[t].lock # None
    BY <1>1, <1>2, <1>4
  <2> HIDE DEF row, hits
  <2>5. t \in handed \ late => RetryStatus(t) = "review"
    BY <1>2, <2>4, ReviewLane
  <2>6. "reclaimed" \in Outcomes \ {"open"} /\ ~(0 >= HigherLimit)
    BY Values DEF Outcomes
  <2> QED
    BY <1>1, <1>2, <2>1, <2>3, <2>4, <2>5, <2>6, BooksByLeave
<1> QED
  BY <1>3, <1>4

LEMMA BooksByUnblock ==
  ASSUME IInv, NEW t \in Tasks, Unblock(t)
  PROVE  Books'
<1>1. /\ task' \in [Tasks -> TaskRows]
      /\ \A u \in Tasks \ {t} : task'[u] = task[u]
      /\ task'[t].status \in {"todo", task[t].resume}
      /\ task'[t].lock = task[t].lock /\ task'[t].pid = task[t].pid
      /\ task'[t].cur = None /\ task'[t].failures = 0
      /\ task'[t].resume = task[t].resume
  BY UnblockedRows DEF IInv
<1>2. task[t].status = "blocked" /\ run' = Ended(t, "reclaimed")
      /\ UNCHANGED <<next, handed, forced, late>>
  BY DEF Unblock
<1>3. "reclaimed" \in Outcomes \ {"open"} /\ ~(0 >= HigherLimit)
  BY Values DEF Outcomes
<1>4. task[t].resume \in {"ready", "review"}
  BY DEF IInv, TypeOK, TaskRows, Lanes
<1>5. task[t].cur \in Runs => run'[task[t].cur].outcome # "open"
  BY <1>2, <1>3, EndedRuns DEF IInv
<1>6. t \notin late => task[t].lock = None
  BY <1>2 DEF IInv, Books, InRun
<1>7. t \in handed \ late => task[t].resume = "review"
  BY <1>2 DEF IInv, Books, Reviewed
<1>8. Change(t)
  BY <1>1, <1>2, <1>3, <1>4, <1>5, <1>6, <1>7 DEF Change
<1> QED
  BY <1>1, <1>2, <1>3, <1>8, KeptByOne DEF IInv

LEMMA BooksByHand ==
  ASSUME IInv, NEW t \in Tasks, PromoteByHand(t)
  PROVE  Books'
<1>1. /\ \A u \in Tasks \ {t} : task'[u] = task[u]
      /\ task'[t].status = "ready" /\ task'[t].lock = task[t].lock
      /\ task'[t].pid = task[t].pid /\ task'[t].cur = task[t].cur
  BY PromotedByHandRows DEF IInv
<1>2. /\ task[t].status \in {"todo", "blocked"} /\ UNCHANGED <<run, next, late>>
      /\ handed' = handed \ {t} /\ forced' = forced \cup {t}
  BY DEF PromoteByHand
<1>3. t \notin late => task[t].lock = None /\ task[t].cur = None
  BY <1>2 DEF IInv, Books, InRun
<1>4. Change(t)
  BY <1>1, <1>2, <1>3 DEF Change
<1> QED
  BY <1>1, <1>2, <1>4, KeptByOne DEF IInv

LEMMA BooksByClaim ==
  ASSUME IInv, NEW t \in Tasks, NEW lane \in Lanes, NEW by \in Dispatchers \cup {Hand},
         Claim(t, lane, by), UNCHANGED <<handed, forced, late>>
  PROVE  Books'
<1>1. next \in Runs
  BY DEF Claim
<1>2. CASE Claimable(t, lane) /\ OpensRun(t, lane, by)
  BY <1>1, <1>2, KeptByClaim DEF IInv
<1>3. CASE Demoted(t, lane)
  <2>1. /\ \A u \in Tasks \ {t} : task'[u] = task[u]
        /\ task'[t].lock = task[t].lock /\ task'[t].pid = task[t].pid
        /\ task'[t].cur = task[t].cur /\ task'[t].failures = task[t].failures
        /\ \/ task'[t].status = task[t].status /\ task'[t].resume = task[t].resume
           \/ /\ task[t].status = lane /\ task'[t].status = "todo"
              /\ task'[t].resume = IF lane = "review" THEN "review" ELSE task[t].resume
    BY <1>3, DemotedRows DEF IInv
  <2>2. UNCHANGED <<run, next>>
    BY <1>3 DEF Demoted
  <2>3. CASE task'[t].status = task[t].status /\ task'[t].resume = task[t].resume
    <3>1. SameRow(t)
      BY <2>1, <2>3 DEF SameRow
    <3>2. RunsKept
      BY <2>2 DEF RunsKept
    <3>3. Change(t)
      BY <2>2, <3>1, <3>2, SameRowChanges DEF IInv
    <3> QED
      BY <2>1, <2>2, <3>3, KeptByOne DEF IInv
  <2>4. CASE /\ task[t].status = lane /\ task'[t].status = "todo"
             /\ task'[t].resume = IF lane = "review" THEN "review" ELSE task[t].resume
    <3>1. lane \in {"ready", "review"}
      BY DEF Lanes
    <3>2. t \notin late => task[t].lock = None /\ task[t].cur = None
      BY <2>4, <3>1 DEF IInv, Books, InRun
    <3>3. t \in handed \ late => lane = "review"
      BY <2>4, <3>1 DEF IInv, Books, Reviewed
    <3>4. task[t].failures >= HigherLimit => t \in forced
      BY <2>4, <3>1 DEF IInv, Books, Breaker
    <3>5. Change(t)
      BY <2>1, <2>4, <3>2, <3>3, <3>4 DEF Change
    <3> QED
      BY <2>1, <2>2, <3>5, KeptByOne DEF IInv
  <2> QED
    BY <2>1, <2>3, <2>4
<1>4. CASE LostSwap(t, lane)
  <2>1. CASE lane = "ready" /\ task[t].status = "ready"
    <3>1. run' = Ended(t, "reclaimed") /\ UNCHANGED <<task, next>>
      BY <1>4, <2>1 DEF LostSwap
    <3>2. "reclaimed" \in Outcomes \ {"open"}
      BY DEF Outcomes
    <3>3. Change(t)
      BY <2>1, <3>1 DEF Change, IInv, Books, InRun, Breaker, Reviewed
    <3> QED
      BY <3>1, <3>2, <3>3, KeptByOne DEF IInv
  <2>2. CASE ~(lane = "ready" /\ task[t].status = "ready")
    <3>1. UNCHANGED <<task, run, next>>
      BY <1>4, <2>2 DEF LostSwap
    <3> QED
      BY <3>1, BooksByProcess
  <2> QED
    BY <2>1, <2>2
<1> QED
  BY <1>2, <1>3, <1>4 DEF Claim

-----------------------------------------------------------------------------
(* The kinds of the rows.                                                  *)

\* Runs keep their task, and their numbers grow.
RowsOK ==
  /\ task' \in [Tasks -> TaskRows] /\ run' \in [Runs -> RunRows]
  /\ next' \in 1..(MaxRuns + 1) /\ next <= next'
  /\ \A r \in Runs : r < next => run'[r].of = run[r].of

LEMMA RowsByRun ==
  ASSUME IInv, task' \in [Tasks -> TaskRows], next' = next,
         \/ run' = run
         \/ \E t \in Tasks : \E o \in Outcomes : run' = Ended(t, o)
         \/ \E r \in Runs : \E w \in Exits \cup {"live"} : run' = [run EXCEPT ![r].worker = w]
         \/ \E r : \E survives \in BOOLEAN : run' = Signalled(r, survives)
  PROVE  RowsOK
<1>1. TypeOK
  BY DEF IInv
<1>2. next' \in 1..(MaxRuns + 1) /\ next <= next'
  BY <1>1, Values DEF TypeOK
<1>3. CASE run' = run
  BY <1>1, <1>2, <1>3 DEF RowsOK, TypeOK
<1>4. ASSUME NEW t \in Tasks, NEW o \in Outcomes, run' = Ended(t, o)
      PROVE  RowsOK
  BY <1>1, <1>2, <1>4, EndedRuns DEF RowsOK
<1>5. ASSUME NEW r \in Runs, NEW w \in Exits \cup {"live"}, run' = [run EXCEPT ![r].worker = w]
      PROVE  RowsOK
  BY <1>1, <1>2, <1>5, WorkerRuns DEF RowsOK
<1>6. ASSUME NEW r, NEW survives \in BOOLEAN, run' = Signalled(r, survives)
      PROVE  RowsOK
  BY <1>1, <1>2, <1>6, SignalledRuns DEF RowsOK
<1> QED
  BY <1>3, <1>4, <1>5, <1>6

LEMMA RowsByTime ==
  ASSUME IInv, UNCHANGED <<run, next>>,
         task' = task \/ \E t \in Tasks : \E b \in BOOLEAN : task' = [task EXCEPT ![t].expired = b]
  PROVE  RowsOK
<1>1. CASE task' = task
  BY <1>1, RowsByRun DEF IInv, TypeOK
<1>2. ASSUME NEW t \in Tasks, NEW b \in BOOLEAN, task' = [task EXCEPT ![t].expired = b]
      PROVE  RowsOK
  BY <1>2, ExpiredRows, RowsByRun DEF IInv
<1> QED
  BY <1>1, <1>2

\* Rows that leave their run.
LEMMA RowsByLeave ==
  ASSUME IInv, NEW t \in Tasks, NEW s \in Status, NEW lane \in Lanes, NEW n \in Nat, NEW b \in BOOLEAN
  PROVE  /\ LET l == Left(t, s, lane)
            IN  [task EXCEPT ![t] = l] \in [Tasks -> TaskRows]
         /\ LET l == Left(t, s, lane)
            IN  [task EXCEPT ![t] = [l EXCEPT !.failures = 0]] \in [Tasks -> TaskRows]
         /\ LET l == Left(t, s, lane)
            IN  [task EXCEPT ![t] = [l EXCEPT !.blocks = 0]] \in [Tasks -> TaskRows]
         /\ LET l == Left(t, s, lane)
            IN  [task EXCEPT ![t] = [l EXCEPT !.blocks = 0, !.failures = 0]] \in [Tasks -> TaskRows]
         /\ LET l == Left(t, s, lane)
            IN  [task EXCEPT ![t] = [l EXCEPT !.blocks = n]] \in [Tasks -> TaskRows]
         /\ LET l == Left(t, s, lane)
            IN  [task EXCEPT ![t] = [l EXCEPT !.blocks = n, !.sticky = TRUE]] \in [Tasks -> TaskRows]
<1> DEFINE l == Left(t, s, lane)
<1>1. l \in TaskRows
  BY LeftFields DEF IInv
<1> HIDE DEF l
<1>2. /\ [l EXCEPT !.failures = 0] \in TaskRows
      /\ [l EXCEPT !.blocks = 0] \in TaskRows
      /\ [l EXCEPT !.blocks = 0, !.failures = 0] \in TaskRows
      /\ [l EXCEPT !.blocks = n] \in TaskRows
      /\ [l EXCEPT !.blocks = n, !.sticky = TRUE] \in TaskRows
  BY <1>1 DEF TaskRows
<1>3. \A row \in TaskRows : [task EXCEPT ![t] = row] \in [Tasks -> TaskRows]
  BY DEF IInv, TypeOK
<1> QED
  BY <1>1, <1>2, <1>3 DEF l

LEMMA RowsByClaim ==
  ASSUME IInv, NEW t \in Tasks, NEW lane \in Lanes, NEW by \in Dispatchers \cup {Hand},
         Claim(t, lane, by)
  PROVE  RowsOK
<1>1. next \in Runs
  BY DEF Claim
<1>2. CASE OpensRun(t, lane, by)
  <2>1. /\ task' \in [Tasks -> TaskRows] /\ run' \in [Runs -> RunRows] /\ next' = next + 1
        /\ \A r \in Runs \ {next} : run'[r].of = run[r].of
    BY <1>1, <1>2, ClaimedRows DEF IInv
  <2>2. MaxRuns \in Nat /\ next \in 1..MaxRuns
    BY <1>1, Values DEF Runs
  <2>3. \A r \in Runs : r < next => r # next
    BY <2>2 DEF Runs
  <2> QED
    BY <2>1, <2>2, <2>3 DEF RowsOK
<1>3. CASE Demoted(t, lane)
  <2>1. task' \in [Tasks -> TaskRows] /\ UNCHANGED <<run, next>>
    BY <1>3, DemotedRows DEF IInv, Demoted
  <2> QED
    BY <2>1, RowsByRun
<1>4. CASE LostSwap(t, lane)
  <2>1. UNCHANGED <<task, next>> /\ (run' = run \/ run' = Ended(t, "reclaimed"))
    BY <1>4 DEF LostSwap
  <2>2. "reclaimed" \in Outcomes /\ task \in [Tasks -> TaskRows]
    BY DEF Outcomes, IInv, TypeOK
  <2> QED
    BY <2>1, <2>2, RowsByRun
<1> QED
  BY <1>2, <1>3, <1>4 DEF Claim

LEMMA RowsByTick ==
  ASSUME IInv, TickStep
  PROVE  RowsOK
<1>1. /\ TypeOK /\ task \in [Tasks -> TaskRows] /\ "live" \in Exits \cup {"live"}
      /\ \A o \in {"open", "completed", "blocked", "reclaimed", "timed_out", "gave_up",
                   "spawn_failed"} : o \in Outcomes
  BY DEF IInv, TypeOK, Outcomes
<1>2. \A t \in Tasks : RetryStatus(t) \in Lanes /\ RetryStatus(t) \in Status
  BY RetryLane DEF IInv, Lanes, Status
<1>3. ASSUME NEW row \in tick.rows, ExtendStale(row)
      PROVE  RowsOK
  <2>1. row.task \in Tasks
    BY <1>3 DEF ExtendStale, At, IInv, TickRows, ReadRows
  <2> QED
    BY <1>3, <2>1, RowsByTime DEF ExtendStale
<1>4. ASSUME NEW row \in tick.rows, AccountCrash(row)
      PROVE  RowsOK
  <2>1. row.task \in Tasks
    BY <1>4 DEF AccountCrash, At, IInv, TickRows, ReadRows
  <2>2. next' = next
    BY <1>4 DEF AccountCrash
  <2>3. CASE UNCHANGED <<task, run>>
    BY <1>1, <2>2, <2>3, RowsByRun
  <2>4. CASE Charge(row.task, Booked(row.run) = "violation" \/ row.task \in tick.alike)
    <3>1. (Booked(row.run) = "violation" \/ row.task \in tick.alike) \in BOOLEAN
      OBVIOUS
    <3>2. task' \in [Tasks -> TaskRows] /\ run' = run
      BY <1>1, <2>1, <2>4, <3>1, ChargedRows
    <3> QED
      BY <2>2, <3>2, RowsByRun
  <2> QED
    BY <1>4, <2>3, <2>4 DEF AccountCrash
<1>5. ASSUME NEW row \in tick.rows, ClaimRow(row)
      PROVE  RowsOK
  <2>1. row \in LaneRows /\ tick.by \in Dispatchers
    BY <1>5 DEF ClaimRow, At, IInv, TickRows, TypeOK
  <2>2. row.task \in Tasks /\ row.lane \in Lanes
    BY <2>1 DEF LaneRows, Lanes
  <2> QED
    BY <1>5, <2>1, <2>2, RowsByClaim DEF ClaimRow
<1>6. ASSUME NEW row \in tick.rows, NEW survives \in BOOLEAN,
             KillStale(row, survives) \/ KillOverdue(row, survives)
      PROVE  RowsOK
  <2>1. run' = Signalled(row.run, survives) /\ UNCHANGED <<task, next>>
    BY <1>6 DEF KillStale, KillOverdue
  <2> QED
    BY <1>1, <2>1, RowsByRun
<1>7. ASSUME AfterStaleKill
      PROVE  RowsOK
  <2>1. tick.row.task \in Tasks /\ next' = next
    BY <1>7 DEF AfterStaleKill, At, IInv, TickRows, ReadRows
  <2>2. CASE DeferReclaim(tick.row)
    BY <2>1, <2>2, RowsByTime DEF DeferReclaim
  <2>3. CASE ReleaseStale(tick.row)
    <3>1. CASE UNCHANGED <<task, run>>
      BY <1>1, <2>1, <3>1, RowsByRun
    <3>2. CASE /\ task' = [task EXCEPT ![tick.row.task] =
                             Left(tick.row.task, RetryStatus(tick.row.task), RetryStatus(tick.row.task))]
               /\ run' = Ended(tick.row.task, "reclaimed")
      <4>1. task' \in [Tasks -> TaskRows]
        BY <1>2, <2>1, <3>2, RowsByLeave
      <4> QED
        BY <1>1, <2>1, <3>2, <4>1, RowsByRun
    <3> QED
      BY <2>3, <3>1, <3>2 DEF ReleaseStale
  <2> QED
    BY <1>7, <2>2, <2>3 DEF AfterStaleKill
<1>8. ASSUME NEW T \in SUBSET Tasks, SweepCrashed(T)
      PROVE  RowsOK
  <2>1. /\ task' \in [Tasks -> TaskRows] /\ run' \in [Runs -> RunRows]
        /\ \A r \in Runs : run'[r].of = run[r].of
    BY <1>8, SweptRows DEF IInv, Books
  <2>2. next' = next /\ next \in 1..(MaxRuns + 1) /\ MaxRuns \in Nat
    BY <1>8, Values DEF SweepCrashed, IInv, TypeOK
  <2>3. next <= next'
    BY <2>2
  <2> QED
    BY <2>1, <2>2, <2>3 DEF RowsOK
<1>9. ASSUME NEW T \in SUBSET Tasks, FindOverdue(T)
      PROVE  RowsOK
  BY <1>1, <1>9, RowsByRun DEF FindOverdue
<1>10. ASSUME ReleaseOverdue
       PROVE  RowsOK
  <2>1. tick.row.task \in Tasks /\ next' = next
    BY <1>10 DEF ReleaseOverdue, At, IInv, TickRows, ReadRows
  <2>2. CASE UNCHANGED <<task, run>>
    BY <1>1, <2>1, <2>2, RowsByRun
  <2>3. CASE /\ task' = [task EXCEPT ![tick.row.task] =
                           Left(tick.row.task, RetryStatus(tick.row.task), RetryStatus(tick.row.task))]
             /\ run' = Ended(tick.row.task, "timed_out")
    <3>1. task' \in [Tasks -> TaskRows]
      BY <1>2, <2>1, <2>3, RowsByLeave
    <3> QED
      BY <1>1, <2>1, <2>3, <3>1, RowsByRun
  <2> QED
    BY <1>10, <2>2, <2>3 DEF ReleaseOverdue
<1>11. ASSUME ChargeOverdue
       PROVE  RowsOK
  <2>1. tick.row.task \in Tasks /\ next' = next /\ Charge(tick.row.task, FALSE)
    BY <1>11 DEF ChargeOverdue, At, IInv, TickRows, ReadRows
  <2>2. task' \in [Tasks -> TaskRows] /\ run' = run
    BY <1>1, <2>1, ChargedRows
  <2> QED
    BY <2>1, <2>2, RowsByRun
<1>12. ASSUME Promote
       PROVE  RowsOK
  <2>1. task' \in [Tasks -> TaskRows]
    BY <1>1, <1>12, PromotedRows DEF Promote
  <2> QED
    BY <1>12, <2>1, RowsByRun DEF Promote
<1>13. ASSUME Launch
       PROVE  RowsOK
  <2>1. tick.row.run \in Runs
    BY <1>13 DEF Launch, At, IInv, TickRows
  <2> QED
    BY <1>1, <1>13, <2>1, RowsByRun DEF Launch
<1>14. ASSUME LaunchFails
       PROVE  RowsOK
  <2>1. tick.row.task \in Tasks /\ next' = next /\ ChargeLaunch(tick.row.task)
    BY <1>14 DEF LaunchFails, At, IInv, TickRows, ReadRows
  <2>2. /\ task' \in [Tasks -> TaskRows]
        /\ \E o \in {"gave_up", "spawn_failed"} : run' = Ended(tick.row.task, o)
    BY <1>1, <2>1, LaunchChargedRows
  <2> QED
    BY <1>1, <2>1, <2>2, RowsByRun
<1>15. ASSUME RecordPid
       PROVE  RowsOK
  <2>1. tick.row.task \in Tasks /\ tick.row.run \in Runs /\ UNCHANGED <<run, next>>
    BY <1>15 DEF RecordPid, At, IInv, TickRows, ReadRows
  <2>2. task' \in [Tasks -> TaskRows]
    BY <1>1, <1>15, <2>1, RecordedRows DEF RecordPid
  <2> QED
    BY <2>1, <2>2, RowsByRun
<1>16. ASSUME TickEnd
       PROVE  RowsOK
  BY <1>1, <1>16, RowsByRun DEF TickEnd
<1> QED
  BY <1>3, <1>4, <1>5, <1>6, <1>7, <1>8, <1>9, <1>10, <1>11, <1>12, <1>13, <1>14, <1>15, <1>16
  DEF TickStep

LEMMA CompletedRows ==
  ASSUME IInv, NEW t \in Tasks
  PROVE  Completed(t) \in [Tasks -> TaskRows]
<1>1. task[t].resume \in Lanes /\ "done" \in Status
  BY DEF IInv, TypeOK, TaskRows, Status
<1>2. [task EXCEPT ![t] = [Left(t, "done", task[t].resume) EXCEPT !.blocks = 0, !.failures = 0]]
        \in [Tasks -> TaskRows]
  BY <1>1, RowsByLeave
<1> QED
  BY <1>2, PromotedRows DEF Completed

LEMMA RowsByWorker ==
  ASSUME IInv, NEW r \in Runs, WorkerStep(r)
  PROVE  RowsOK /\ run[r].of \in Tasks
<1> DEFINE t == run[r].of
<1>1. /\ TypeOK /\ Exits \subseteq Exits \cup {"live"}
      /\ \A o \in {"completed", "blocked", "review_requested", "changes_requested"} : o \in Outcomes
      /\ task \in [Tasks -> TaskRows]
  BY DEF IInv, TypeOK, Outcomes
<1>2. Live(r)
  BY DEF WorkerStep, Beat, WorkerCompletes, WorkerRequestsReview, WorkerRequestsChanges,
         WorkerBlocks, Exit, Owner
<1>3. t \in Tasks
  BY <1>2 DEF IInv, Books, Pointers, Live
<1>4. /\ RetryStatus(t) \in Lanes /\ task[t].resume \in Lanes /\ task[t].blocks + 1 \in Nat
      /\ "ready" \in Lanes /\ TRUE \in BOOLEAN
      /\ \A s \in {"ready", "todo", "review", "triage", "blocked", "done"} : s \in Status
  BY <1>1, <1>3, RetryLane DEF TaskRows, Lanes, Status
<1>5. CASE Beat(r)
  BY <1>3, <1>5, RowsByTime DEF Beat
<1>6. CASE WorkerCompletes(r)
  <2>1. task' = Completed(t) /\ run' = Ended(t, "completed") /\ next' = next
    BY <1>6 DEF WorkerCompletes
  <2> QED
    BY <1>1, <1>3, <2>1, CompletedRows, RowsByRun
<1>7. CASE WorkerRequestsReview(r)
  <2>1. /\ task' = [task EXCEPT ![t] = Left(t, "review", task[t].resume)]
        /\ run' = Ended(t, "review_requested") /\ next' = next
    BY <1>7 DEF WorkerRequestsReview
  <2>2. task' \in [Tasks -> TaskRows]
    BY <1>3, <1>4, <2>1, RowsByLeave
  <2> QED
    BY <1>1, <1>3, <2>1, <2>2, RowsByRun
<1>8. CASE WorkerRequestsChanges(r)
  <2> DEFINE s == IF ParentsDone(t) THEN "ready" ELSE "todo"
  <2>1. /\ task' = [task EXCEPT ![t] = Left(t, s, "ready")]
        /\ run' = Ended(t, "changes_requested") /\ next' = next
    BY <1>8 DEF WorkerRequestsChanges
  <2>2. task' \in [Tasks -> TaskRows]
    BY <1>3, <1>4, <2>1, RowsByLeave
  <2> QED
    BY <1>1, <1>3, <2>1, <2>2, RowsByRun
<1>9. ASSUME NEW dependency \in BOOLEAN, WorkerBlocks(r, dependency)
      PROVE  RowsOK
  <2> DEFINE lane == IF task[t].status = "running" THEN RetryStatus(t) ELSE "ready"
             again == task[t].blocks + 1
             Row1 == [task EXCEPT ![t] = [Left(t, "todo", lane) EXCEPT !.blocks = 0]]
             Row2 == [task EXCEPT ![t] = [Left(t, "triage", lane) EXCEPT !.blocks = again]]
             Row3 == [task EXCEPT ![t] = [Left(t, "blocked", lane) EXCEPT !.blocks = again, !.sticky = TRUE]]
  <2>1. task' = Row1 \/ task' = Row2 \/ task' = Row3
    BY <1>9, Zenon DEF WorkerBlocks
  <2>2. run' = Ended(t, "blocked") /\ next' = next
    BY <1>9 DEF WorkerBlocks
  <2>3. lane \in Lanes /\ again \in Nat
    BY <1>4
  <2> HIDE DEF lane, again, t
  <2>4. Row1 \in [Tasks -> TaskRows] /\ Row2 \in [Tasks -> TaskRows] /\ Row3 \in [Tasks -> TaskRows]
    BY <1>3, <1>4, <2>3, RowsByLeave
  <2>5. task' \in [Tasks -> TaskRows]
    BY <2>1, <2>4
  <2> QED
    BY <1>1, <1>3, <2>2, <2>5, RowsByRun
<1>10. ASSUME NEW how \in Exits, Exit(r, how)
       PROVE  RowsOK
  BY <1>1, <1>10, RowsByRun DEF Exit
<1> QED
  BY <1>3, <1>5, <1>6, <1>7, <1>8, <1>9, <1>10 DEF WorkerStep

LEMMA RowsByPeople ==
  ASSUME IInv, NEW t \in Tasks, PeopleStep(t)
  PROVE  RowsOK
<1>1. /\ TypeOK /\ task \in [Tasks -> TaskRows]
      /\ \A o \in {"completed", "reclaimed"} : o \in Outcomes
  BY DEF IInv, TypeOK, Outcomes
<1>2. ASSUME NEW survives \in BOOLEAN, ReclaimRead(t, survives)
      PROVE  RowsOK
  BY <1>1, <1>2, RowsByRun DEF ReclaimRead
<1>3. CASE Unblock(t)
  <2>1. task' \in [Tasks -> TaskRows]
    BY <1>1, <1>3, UnblockedRows
  <2> QED
    BY <1>1, <1>3, <2>1, RowsByRun DEF Unblock
<1>4. CASE PromoteByHand(t)
  <2>1. task' \in [Tasks -> TaskRows]
    BY <1>1, <1>4, PromotedByHandRows
  <2> QED
    BY <1>4, <2>1, RowsByRun DEF PromoteByHand
<1>5. CASE CompleteByHand(t)
  <2>1. task' = Completed(t) /\ run' = Ended(t, "completed") /\ next' = next
    BY <1>5 DEF CompleteByHand
  <2> QED
    BY <1>1, <2>1, CompletedRows, RowsByRun
<1>6. CASE Archive(t)
  <2>1. task[t].resume \in Lanes /\ "archived" \in Status
    BY <1>1 DEF TaskRows, Status
  <2>2. [task EXCEPT ![t] = Left(t, "archived", task[t].resume)] \in [Tasks -> TaskRows]
    BY <2>1, RowsByLeave
  <2>3. task' \in [Tasks -> TaskRows]
    BY <1>6, <2>2, PromotedRows DEF Archive
  <2> QED
    BY <1>1, <1>6, <2>3, RowsByRun DEF Archive
<1>7. CASE Reopen(t)
  <2>1. /\ task' \in [Tasks -> TaskRows] /\ run' \in [Runs -> RunRows]
        /\ \A r \in Runs : run'[r].of = run[r].of
    BY <1>1, <1>7, ReopenedRows
  <2>2. next' = next /\ next \in 1..(MaxRuns + 1) /\ MaxRuns \in Nat
    BY <1>7, Values DEF Reopen, IInv, TypeOK
  <2>3. next <= next'
    BY <2>2
  <2> QED
    BY <2>1, <2>2, <2>3 DEF RowsOK
<1>8. CASE Pull(t)
  <2>1. "ready" \in Lanes
    BY DEF Lanes
  <2> QED
    BY <1>8, <2>1, RowsByClaim DEF Pull
<1> QED
  BY <1>2, <1>3, <1>4, <1>5, <1>6, <1>7, <1>8 DEF PeopleStep

LEMMA RowsByNext ==
  ASSUME IInv, Next
  PROVE  RowsOK
<1>1. task \in [Tasks -> TaskRows] /\ "reclaimed" \in Outcomes
  BY DEF IInv, TypeOK, Outcomes
<1>2. CASE TickStart
  BY <1>1, <1>2, RowsByRun DEF TickStart
<1>3. CASE Die
  BY <1>1, <1>3, RowsByRun DEF Die
<1>4. ASSUME NEW t \in Tasks, Expire(t)
      PROVE  RowsOK
  BY <1>4, RowsByTime DEF Expire
<1>5. CASE ReclaimWrite
  <2> DEFINE t == hand.task
             hits == task[t].status \in {"running", "ready", "blocked"} /\ task[t].lock = hand.lock
  <2>1. /\ hand # NoRow /\ next' = next
        /\ task' = IF hits THEN [task EXCEPT ![t] = [Left(t, RetryStatus(t), RetryStatus(t))
                                                       EXCEPT !.failures = 0]] ELSE task
        /\ run' = IF hits THEN Ended(t, "reclaimed") ELSE run
    BY <1>5 DEF ReclaimWrite
  <2>2. t \in Tasks
    BY <2>1 DEF IInv, HandRow, ReadRows
  <2>3. RetryStatus(t) \in Lanes /\ RetryStatus(t) \in Status
    BY <2>2, RetryLane DEF IInv, Lanes, Status
  <2> HIDE DEF hits, t
  <2>4. [task EXCEPT ![t] = [Left(t, RetryStatus(t), RetryStatus(t)) EXCEPT !.failures = 0]]
          \in [Tasks -> TaskRows]
    BY <2>2, <2>3, RowsByLeave
  <2>5. CASE hits
    BY <1>1, <2>1, <2>2, <2>4, <2>5, RowsByRun
  <2>6. CASE ~hits
    BY <1>1, <2>1, <2>6, RowsByRun
  <2> QED
    BY <2>5, <2>6
<1>6. CASE List
  BY <1>1, <1>6, PromotedRows, RowsByRun DEF List
<1> QED
  BY <1>2, <1>3, <1>4, <1>5, <1>6, RowsByTick, RowsByPeople, RowsByWorker DEF Next

-----------------------------------------------------------------------------
(* The kinds of the other variables.                                       *)

TickKind == [by : Dispatchers \cup {None}, at : Phases, rows : SUBSET (ReadRows \cup LaneRows),
             row : ReadRows \cup {NoRow}, survived : BOOLEAN, alike : SUBSET Tasks]

RestOK ==
  /\ tick' \in TickKind /\ TickRows'
  /\ hand' \in ReadRows \cup {NoRow} /\ HandRow'
  /\ me' \in Dispatchers /\ upsets' \in 0..MaxUpsets
  /\ handed' \subseteq Tasks /\ forced' \subseteq Tasks /\ late' \subseteq Tasks

\* Nothing but the rows and the histories changes, and an upset is counted.
LEMMA RestByRows ==
  ASSUME IInv, RowsOK, UNCHANGED <<tick, me>>,
         upsets' = upsets \/ (upsets < MaxUpsets /\ upsets' = upsets + 1),
         hand' = hand \/ hand' = NoRow \/ (hand' \in ReadRows /\ hand'.lock # None),
         handed' \subseteq Tasks, forced' \subseteq Tasks, late' \subseteq Tasks
  PROVE  RestOK
<1>1. /\ tick \in TickKind /\ me \in Nat /\ upsets \in Nat /\ upsets <= MaxUpsets /\ MaxUpsets \in Nat
      /\ me \in Dispatchers /\ hand \in ReadRows \cup {NoRow} /\ next \in Nat /\ next' \in Nat
      /\ me <= upsets + 1
  BY Values DEF IInv, TypeOK, TickKind, Dispatchers, RowsOK, TickRows
<1>2. upsets' \in 0..MaxUpsets /\ me' <= upsets' + 1
  BY <1>1
<1>3. TickRows'
  <2>1. \A r \in Runs : r < next => r < next' /\ run'[r].of = run[r].of
    <3>1. \A r \in Runs : r \in Nat
      BY Values
    <3> QED
      BY <1>1, <3>1 DEF RowsOK
  <2> QED
    BY <1>2, <2>1 DEF IInv, TickRows
<1>4. HandRow'
  BY DEF IInv, HandRow
<1> QED
  BY <1>1, <1>2, <1>3, <1>4 DEF RestOK

\* A tick goes on to a phase that reads rows.
LEMMA RestByPhase ==
  ASSUME IInv, NEW phase, NEW rows, NEW alike \in SUBSET Tasks, Turn(phase, rows, alike),
         \/ phase \in {"stale", "account", "overdue"} /\ rows \subseteq ReadRows
         \/ phase = "lanes" /\ rows \subseteq LaneRows,
         UNCHANGED <<me, hand, upsets, handed>>, forced' \subseteq Tasks, late' \subseteq Tasks
  PROVE  RestOK
<1>1. tick \in TickKind /\ TypeOK
  BY DEF IInv, TypeOK, TickKind
<1>2. tick' = [tick EXCEPT !.at = phase, !.rows = rows, !.row = NoRow, !.survived = FALSE,
                           !.alike = alike]
  BY DEF Turn
<1>3. phase \in Phases
  BY DEF Phases
<1>4. tick' \in TickKind /\ tick'.at = phase /\ tick'.rows = rows
  BY <1>1, <1>2, <1>3 DEF TickKind
<1>5. TickRows'
  BY <1>4 DEF TickRows, IInv
<1>6. HandRow'
  BY DEF HandRow, IInv
<1> QED
  BY <1>1, <1>4, <1>5, <1>6 DEF RestOK, TypeOK

LEMMA SnapshotRow ==
  ASSUME TypeOK, NEW t \in Tasks
  PROVE  /\ Snapshot(t) \in ReadRows /\ Snapshot(t).task = t
         /\ Snapshot(t).lock = task[t].lock /\ Snapshot(t).run = task[t].pid
BY DEF TypeOK, TaskRows, ReadRows, Snapshot, Row

\* A tick turns to one of its rows, and an upset may be counted.
LEMMA RestByKill ==
  ASSUME IInv, NEW row \in tick.rows, NEW survives \in BOOLEAN,
         KillStale(row, survives) \/ KillOverdue(row, survives)
  PROVE  RestOK
<1>1. tick \in TickKind /\ TypeOK
  BY DEF IInv, TypeOK, TickKind
<1>2. tick.rows \subseteq ReadRows
  BY DEF KillStale, KillOverdue, At, IInv, TickRows
<1>3. \E phase \in {"release", "timeout"} :
        tick' = [tick EXCEPT !.at = phase, !.row = row, !.survived = survives]
  BY DEF KillStale, KillOverdue
<1>4. \A phase \in {"release", "timeout"} :
        LET k == [tick EXCEPT !.at = phase, !.row = row, !.survived = survives]
        IN  k \in TickKind /\ k.at = phase /\ k.row = row /\ k.rows = tick.rows
  BY <1>1, <1>2 DEF TickKind, Phases
<1>5. /\ tick' \in TickKind /\ tick'.at \in {"release", "timeout"} /\ tick'.row \in ReadRows
      /\ tick'.rows \subseteq ReadRows
  BY <1>2, <1>3, <1>4
<1>6. upsets' = upsets \/ (upsets < MaxUpsets /\ upsets' = upsets + 1)
  BY DEF KillStale, KillOverdue, Upset
<1>7. UNCHANGED <<me, hand, handed, forced, late>>
  BY DEF KillStale, KillOverdue
<1>8. /\ me \in Nat /\ upsets \in Nat /\ upsets <= MaxUpsets /\ MaxUpsets \in Nat
      /\ me <= upsets + 1
  BY <1>1, Values DEF IInv, TypeOK, Dispatchers, TickRows
<1>9. upsets' \in 0..MaxUpsets /\ me' <= upsets' + 1
  BY <1>6, <1>7, <1>8
<1>10. TickRows'
  BY <1>5, <1>9 DEF TickRows
<1>11. HandRow'
  BY <1>7 DEF HandRow, IInv
<1> QED
  BY <1>1, <1>5, <1>7, <1>9, <1>10, <1>11 DEF RestOK, TypeOK

LEMMA RestByTick ==
  ASSUME IInv, RowsOK, TickStep
  PROVE  RestOK
<1>1. /\ TypeOK /\ tick \in TickKind /\ forced \subseteq Tasks /\ late \subseteq Tasks
      /\ tick.alike \in SUBSET Tasks /\ {} \in SUBSET Tasks
  BY DEF IInv, TypeOK, TickKind
<1>2. \A row \in tick.rows : tick.rows \ {row} \subseteq tick.rows
  OBVIOUS
<1>3. \A t \in Tasks : Snapshot(t) \in ReadRows
  BY <1>1, SnapshotRow
<1>4. ASSUME NEW row \in tick.rows, ExtendStale(row)
      PROVE  RestOK
  <2>1. tick.rows \subseteq ReadRows
    BY <1>4 DEF ExtendStale, At, IInv, TickRows
  <2> QED
    BY <1>1, <1>4, <2>1, RestByPhase DEF ExtendStale, Proceed
<1>5. ASSUME NEW row \in tick.rows, AccountCrash(row)
      PROVE  RestOK
  <2>1. tick.rows \subseteq ReadRows /\ row.task \in Tasks
    BY <1>5 DEF AccountCrash, At, IInv, TickRows, ReadRows
  <2>2. forced' \subseteq Tasks /\ late' \subseteq Tasks
    BY <1>1, <1>5, <2>1 DEF AccountCrash, Charge
  <2> QED
    BY <1>1, <1>5, <2>1, <2>2, RestByPhase DEF AccountCrash, Proceed
<1>6. ASSUME NEW row \in tick.rows, ClaimRow(row)
      PROVE  RestOK
  <2>1. tick.rows \subseteq LaneRows /\ row.task \in Tasks /\ row.lane \in Lanes
        /\ tick.by \in Dispatchers
    BY <1>6 DEF ClaimRow, At, IInv, TickRows, LaneRows, Lanes, TypeOK
  <2>2. UNCHANGED <<me, hand, upsets, handed, forced, late>> /\ Claim(row.task, row.lane, tick.by)
    BY <1>6 DEF ClaimRow
  <2>3. CASE Proceed("lanes", row)
    BY <1>1, <2>1, <2>2, <2>3, RestByPhase DEF Proceed
  <2>4. CASE next' # next /\ tick' = [tick EXCEPT !.at = "launch", !.row = Row(row.task, None, next),
                                                  !.rows = @ \ {row}]
    <3>1. next \in Runs
      BY <2>2 DEF Claim
    <3>2. /\ OpensRun(row.task, row.lane, tick.by)
      BY <2>2, <2>4 DEF Claim, Demoted, LostSwap
    <3>3. run'[next].of = row.task /\ next' = next + 1
      BY <1>1, <2>1, <3>1, <3>2, ClaimedRows
    <3>4. /\ Row(row.task, None, next) \in ReadRows /\ Row(row.task, None, next).run = next
          /\ Row(row.task, None, next).task = row.task
      BY <2>1, <3>1 DEF Row, ReadRows
    <3>5. /\ tick' \in TickKind /\ tick'.at = "launch" /\ tick'.row = Row(row.task, None, next)
          /\ tick'.rows \subseteq LaneRows
      BY <1>1, <2>1, <2>4, <3>4 DEF TickKind, Phases
    <3>6. next < next'
      BY <3>1, <3>3, Values
    <3>7. TickRows'
      BY <2>2, <3>1, <3>3, <3>4, <3>5, <3>6 DEF TickRows, IInv
    <3>8. HandRow'
      BY <2>2 DEF HandRow, IInv
    <3> QED
      BY <1>1, <2>2, <3>5, <3>7, <3>8 DEF RestOK, TypeOK
  <2> QED
    BY <1>6, <2>3, <2>4 DEF ClaimRow
<1>7. ASSUME AfterStaleKill
      PROVE  RestOK
  <2>1. tick.rows \subseteq ReadRows
    BY <1>7 DEF AfterStaleKill, At, IInv, TickRows
  <2> QED
    BY <1>1, <1>7, <2>1, RestByPhase DEF AfterStaleKill, Proceed
<1>8. ASSUME NEW T \in SUBSET Tasks, SweepCrashed(T)
      PROVE  RestOK
  <2> DEFINE Dead == {t \in Tasks : task[t].status = "running" /\ task[t].pid # None
                                    /\ ~Live(task[t].pid)}
             rows == {Snapshot(t) : t \in {t \in Dead : Booked(task[t].pid) # "rate_limited"}}
  <2>1. Turn("account", rows, T) /\ UNCHANGED <<me, hand, upsets, handed, forced, late>>
    BY <1>8 DEF SweepCrashed
  <2>2. rows \subseteq ReadRows
    BY <1>3
  <2> QED
    BY <1>1, <1>8, <2>1, <2>2, RestByPhase
<1>9. ASSUME NEW T \in SUBSET Tasks, FindOverdue(T)
      PROVE  RestOK
  <2> DEFINE rows == {Snapshot(t) : t \in T}
  <2>1. Phase("overdue", rows) /\ UNCHANGED <<me, hand, upsets, handed, forced, late>>
    BY <1>9 DEF FindOverdue
  <2>2. rows \subseteq ReadRows
    BY <1>3
  <2> QED
    BY <1>1, <2>1, <2>2, RestByPhase DEF Phase
<1>10. ASSUME ReleaseOverdue
       PROVE  RestOK
  <2>1. tick.rows \subseteq ReadRows /\ tick.row \in ReadRows
        /\ UNCHANGED <<me, hand, upsets, handed, forced, late>>
    BY <1>10 DEF ReleaseOverdue, At, IInv, TickRows
  <2>2. CASE Proceed("overdue", tick.row)
    BY <1>1, <2>1, <2>2, RestByPhase DEF Proceed
  <2>3. CASE tick' = [tick EXCEPT !.at = "charge"]
    <3>1. /\ tick' \in TickKind /\ tick'.at = "charge" /\ tick'.row = tick.row
          /\ tick'.rows = tick.rows
      BY <1>1, <2>3 DEF TickKind, Phases
    <3>2. TickRows'
      BY <2>1, <3>1 DEF TickRows, IInv
    <3>3. HandRow'
      BY <2>1 DEF HandRow, IInv
    <3> QED
      BY <1>1, <2>1, <3>1, <3>2, <3>3 DEF RestOK, TypeOK
  <2> QED
    BY <1>10, <2>2, <2>3 DEF ReleaseOverdue
<1>11. ASSUME ChargeOverdue
       PROVE  RestOK
  <2>1. tick.rows \subseteq ReadRows /\ tick.row.task \in Tasks
    BY <1>11 DEF ChargeOverdue, At, IInv, TickRows, ReadRows
  <2>2. forced' \subseteq Tasks /\ late' \subseteq Tasks
    BY <1>1, <1>11, <2>1 DEF ChargeOverdue, Charge
  <2> QED
    BY <1>1, <1>11, <2>1, <2>2, RestByPhase DEF ChargeOverdue, Proceed
<1>12. ASSUME Promote
       PROVE  RestOK
  <2> DEFINE rows == {LaneRow(t, task'[t].status) : t \in {t \in Tasks : Waiting(task'[t])}}
  <2>1. Phase("lanes", rows) /\ UNCHANGED <<me, hand, upsets, handed, forced, late>>
    BY <1>12 DEF Promote
  <2>2. rows \subseteq LaneRows
    BY DEF LaneRow, LaneRows, Waiting, Lanes
  <2> QED
    BY <1>1, <2>1, <2>2, RestByPhase DEF Phase
<1>13. ASSUME Launch
       PROVE  RestOK
  <2>1. /\ UNCHANGED <<next, me, hand, upsets, handed, forced, late>>
        /\ tick' = [tick EXCEPT !.at = "record"]
    BY <1>13 DEF Launch
  <2>2. /\ tick.rows \subseteq LaneRows
        /\ tick.row \in ReadRows /\ tick.row.run \in Runs /\ tick.row.run < next
        /\ run[tick.row.run].of = tick.row.task
    BY <1>13 DEF Launch, At, IInv, TickRows
  <2>3. /\ tick' \in TickKind /\ tick'.at = "record" /\ tick'.row = tick.row
        /\ tick'.rows = tick.rows
    BY <1>1, <2>1 DEF TickKind, Phases
  <2>4. TickRows'
    BY <2>1, <2>2, <2>3 DEF TickRows, IInv, RowsOK
  <2>5. HandRow'
    BY <2>1 DEF HandRow, IInv
  <2> QED
    BY <1>1, <2>1, <2>3, <2>4, <2>5 DEF RestOK, TypeOK
<1>14. ASSUME LaunchFails
       PROVE  RestOK
  <2>1. tick.rows \subseteq LaneRows /\ tick.row.task \in Tasks
    BY <1>14 DEF LaunchFails, At, IInv, TickRows, ReadRows
  <2>2. forced' \subseteq Tasks /\ late' \subseteq Tasks
    BY <1>1, <1>14, <2>1 DEF LaunchFails, ChargeLaunch
  <2> QED
    BY <1>1, <1>14, <2>1, <2>2, RestByPhase DEF LaunchFails, Phase
<1>15. ASSUME RecordPid
       PROVE  RestOK
  <2>1. tick.rows \subseteq LaneRows
    BY <1>15 DEF RecordPid, At, IInv, TickRows
  <2> QED
    BY <1>1, <1>15, <2>1, RestByPhase DEF RecordPid, Phase
<1>16. ASSUME TickEnd
       PROVE  RestOK
  <2>1. UNCHANGED <<me, hand, upsets, handed, forced, late>> /\ tick' = Idle
    BY <1>16 DEF TickEnd
  <2>2. tick' \in TickKind /\ tick'.at = "idle"
    BY <2>1 DEF Idle, TickKind, Phases
  <2>3. TickRows'
    BY <2>1, <2>2 DEF TickRows, IInv
  <2>4. HandRow'
    BY <2>1 DEF HandRow, IInv
  <2> QED
    BY <1>1, <2>1, <2>2, <2>3, <2>4 DEF RestOK, TypeOK
<1>17. ASSUME NEW row \in tick.rows, NEW survives \in BOOLEAN,
              KillStale(row, survives) \/ KillOverdue(row, survives)
       PROVE  RestOK
  BY <1>17, RestByKill
<1> QED
  BY <1>4, <1>5, <1>6, <1>7, <1>8, <1>9, <1>10, <1>11, <1>12, <1>13, <1>14, <1>15, <1>16, <1>17
  DEF TickStep

LEMMA RestByWorker ==
  ASSUME IInv, RowsOK, NEW r \in Runs, run[r].of \in Tasks, WorkerStep(r)
  PROVE  RestOK
<1>1. handed \subseteq Tasks /\ forced \subseteq Tasks /\ late \subseteq Tasks
  BY DEF IInv, TypeOK
<1>2. UNCHANGED <<tick, me, hand, upsets, forced, late>>
  BY DEF WorkerStep, Beat, WorkerCompletes, WorkerRequestsReview, WorkerRequestsChanges,
         WorkerBlocks, Exit
<1>3. handed' \subseteq Tasks
  BY <1>1 DEF WorkerStep, Beat, WorkerCompletes, WorkerRequestsReview, WorkerRequestsChanges,
              WorkerBlocks, Exit
<1> QED
  BY <1>1, <1>2, <1>3, RestByRows

LEMMA RestByPeople ==
  ASSUME IInv, RowsOK, NEW t \in Tasks, PeopleStep(t)
  PROVE  RestOK
<1>1. handed \subseteq Tasks /\ forced \subseteq Tasks /\ late \subseteq Tasks
  BY DEF IInv, TypeOK
<1>2. UNCHANGED <<tick, me, late>> /\ upsets < MaxUpsets /\ upsets' = upsets + 1
  BY DEF PeopleStep, ReclaimRead, Unblock, PromoteByHand, CompleteByHand, Archive, Reopen, Pull, Upset
<1>3. handed' \subseteq Tasks /\ forced' \subseteq Tasks
  BY <1>1 DEF PeopleStep, ReclaimRead, Unblock, PromoteByHand, CompleteByHand, Archive, Reopen, Pull
<1>4. hand' = hand \/ (hand' \in ReadRows /\ hand'.lock # None)
  <2>1. ASSUME NEW survives \in BOOLEAN, ReclaimRead(t, survives)
        PROVE  hand' \in ReadRows /\ hand'.lock # None
    <3>1. hand' = Snapshot(t) /\ (task[t].status = "running" \/ task[t].lock # None)
      BY <2>1 DEF ReclaimRead
    <3>2. task[t].lock # None
      BY <3>1 DEF IInv, Books, RunsAreBooked
    <3> QED
      BY <3>1, <3>2, SnapshotRow DEF IInv
  <2>2. Unblock(t) \/ PromoteByHand(t) \/ CompleteByHand(t) \/ Archive(t) \/ Reopen(t) \/ Pull(t)
          => hand' = hand
    BY DEF Unblock, PromoteByHand, CompleteByHand, Archive, Reopen, Pull
  <2> QED
    BY <2>1, <2>2 DEF PeopleStep
<1> QED
  BY <1>1, <1>2, <1>3, <1>4, RestByRows

LEMMA RestByNext ==
  ASSUME IInv, RowsOK, Next
  PROVE  RestOK
<1>1. /\ TypeOK /\ tick \in TickKind
      /\ handed \subseteq Tasks /\ forced \subseteq Tasks /\ late \subseteq Tasks
  BY DEF IInv, TypeOK, TickKind
<1>2. CASE TickStart
  <2> DEFINE rows == {Snapshot(t) : t \in {t \in Tasks : Stale(t)}}
  <2>1. /\ UNCHANGED <<me, hand, upsets, handed, forced, late>>
        /\ tick' = [Idle EXCEPT !.by = me, !.at = "stale", !.rows = rows]
    BY <1>2 DEF TickStart
  <2>2. rows \subseteq ReadRows
    BY <1>1, SnapshotRow
  <2> HIDE DEF rows
  <2>3. tick' \in TickKind /\ tick'.at = "stale" /\ tick'.rows = rows
    BY <1>1, <2>1, <2>2 DEF Idle, TickKind, Phases, TypeOK
  <2>4. TickRows'
    BY <2>1, <2>2, <2>3 DEF TickRows, IInv
  <2>5. HandRow'
    BY <2>1 DEF HandRow, IInv
  <2> QED
    BY <1>1, <2>1, <2>3, <2>4, <2>5 DEF RestOK, TypeOK
<1>3. CASE Die
  <2>1. /\ upsets < MaxUpsets /\ upsets' = upsets + 1 /\ me' = me + 1 /\ tick' = Idle
        /\ UNCHANGED <<hand, handed, forced, late>>
    BY <1>3 DEF Die, Upset
  <2>2. tick' \in TickKind /\ tick'.at = "idle"
    BY <2>1 DEF Idle, TickKind, Phases
  <2>3. /\ me \in Nat \ {0} /\ upsets \in Nat /\ MaxUpsets \in Nat /\ me <= upsets + 1
    BY <1>1, Values DEF TypeOK, Dispatchers, IInv, TickRows
  <2>4. me' \in Dispatchers /\ upsets' \in 0..MaxUpsets /\ me' <= upsets' + 1
    BY <2>1, <2>3 DEF Dispatchers
  <2>5. TickRows'
    BY <2>2, <2>4 DEF TickRows
  <2>6. HandRow'
    BY <2>1 DEF HandRow, IInv
  <2> QED
    BY <1>1, <2>1, <2>2, <2>4, <2>5, <2>6 DEF RestOK, TypeOK
<1>4. ASSUME NEW t \in Tasks, Expire(t)
      PROVE  RestOK
  <2>1. UNCHANGED <<tick, me, hand, upsets, handed, forced, late>>
    BY <1>4 DEF Expire
  <2> QED
    BY <1>1, <2>1, RestByRows
<1>5. CASE ReclaimWrite
  <2>1. UNCHANGED <<tick, me, upsets, handed, forced, late>> /\ hand' = NoRow
    BY <1>5 DEF ReclaimWrite
  <2> QED
    BY <1>1, <2>1, RestByRows
<1>6. ASSUME NEW r \in Runs, WorkerStep(r)
      PROVE  RestOK
  BY <1>6, RowsByWorker, RestByWorker
<1>7. CASE List
  <2>1. UNCHANGED <<tick, me, hand, upsets, handed, forced, late>>
    BY <1>7 DEF List
  <2> QED
    BY <1>1, <2>1, RestByRows
<1> QED
  BY <1>2, <1>3, <1>4, <1>5, <1>6, <1>7, RestByTick, RestByPeople DEF Next

-----------------------------------------------------------------------------
(* Books, over all steps.                                                  *)

LEMMA BooksByTick ==
  ASSUME IInv, TickStep
  PROVE  Books'
<1>1. ASSUME NEW row \in tick.rows, ExtendStale(row)
      PROVE  Books'
  <2>1. row.task \in Tasks
    BY <1>1 DEF ExtendStale, At, IInv, TickRows, ReadRows
  <2> QED
    BY <1>1, <2>1, BooksByTime DEF ExtendStale
<1>2. ASSUME NEW row \in tick.rows, AccountCrash(row)
      PROVE  Books'
  <2>1. row.task \in Tasks /\ UNCHANGED <<next, handed>>
    BY <1>2 DEF AccountCrash, At, IInv, TickRows, ReadRows
  <2>2. CASE UNCHANGED <<task, run, forced, late>>
    BY <2>1, <2>2, BooksByProcess
  <2>3. CASE Charge(row.task, Booked(row.run) = "violation" \/ row.task \in tick.alike)
    <3>1. (Booked(row.run) = "violation" \/ row.task \in tick.alike) \in BOOLEAN
      OBVIOUS
    <3> QED
      BY <2>1, <2>3, <3>1, BooksByCharge
  <2> QED
    BY <1>2, <2>2, <2>3 DEF AccountCrash
<1>3. ASSUME NEW row \in tick.rows, ClaimRow(row)
      PROVE  Books'
  <2>1. row.task \in Tasks /\ row.lane \in Lanes /\ tick.by \in Dispatchers
    BY <1>3 DEF ClaimRow, At, IInv, TickRows, TypeOK, LaneRows, Lanes
  <2> QED
    BY <1>3, <2>1, BooksByClaim DEF ClaimRow
<1>4. ASSUME NEW row \in tick.rows, NEW survives \in BOOLEAN,
             KillStale(row, survives) \/ KillOverdue(row, survives)
      PROVE  Books'
  <2>1. run' = Signalled(row.run, survives) /\ UNCHANGED <<task, next, handed, forced, late>>
    BY <1>4 DEF KillStale, KillOverdue
  <2> QED
    BY <2>1, BooksByProcess
<1>5. ASSUME AfterStaleKill
      PROVE  Books'
  <2>1. tick.row.task \in Tasks /\ UNCHANGED <<next, handed, forced, late>>
    BY <1>5 DEF AfterStaleKill, At, IInv, TickRows, ReadRows
  <2>2. CASE DeferReclaim(tick.row)
    BY <2>1, <2>2, BooksByTime DEF DeferReclaim
  <2>3. CASE UNCHANGED <<task, run>>
    BY <2>1, <2>3, BooksByProcess
  <2>4. CASE /\ task[tick.row.task].status = "running"
             /\ task' = [task EXCEPT ![tick.row.task] =
                           Left(tick.row.task, RetryStatus(tick.row.task), RetryStatus(tick.row.task))]
             /\ run' = Ended(tick.row.task, "reclaimed")
    <3>1. "reclaimed" \in Outcomes \ {"open"}
      BY DEF Outcomes
    <3> QED
      BY <2>1, <2>4, <3>1, BooksByRelease
  <2> QED
    BY <1>5, <2>2, <2>3, <2>4 DEF AfterStaleKill, ReleaseStale, Stale
<1>6. ASSUME NEW T \in SUBSET Tasks, FindOverdue(T)
      PROVE  Books'
  BY <1>6, BooksByProcess DEF FindOverdue
<1>7. ASSUME ReleaseOverdue
      PROVE  Books'
  <2>1. tick.row.task \in Tasks /\ UNCHANGED <<next, handed, forced, late>>
    BY <1>7 DEF ReleaseOverdue, At, IInv, TickRows, ReadRows
  <2>2. CASE UNCHANGED <<task, run>>
    BY <2>1, <2>2, BooksByProcess
  <2>3. CASE /\ task[tick.row.task].status = "running"
             /\ task' = [task EXCEPT ![tick.row.task] =
                           Left(tick.row.task, RetryStatus(tick.row.task), RetryStatus(tick.row.task))]
             /\ run' = Ended(tick.row.task, "timed_out")
    <3>1. "timed_out" \in Outcomes \ {"open"}
      BY DEF Outcomes
    <3> QED
      BY <2>1, <2>3, <3>1, BooksByRelease
  <2> QED
    BY <1>7, <2>2, <2>3 DEF ReleaseOverdue, StillClaimed
<1>8. ASSUME ChargeOverdue
      PROVE  Books'
  <2>1. tick.row.task \in Tasks /\ UNCHANGED <<next, handed>> /\ Charge(tick.row.task, FALSE)
    BY <1>8 DEF ChargeOverdue, At, IInv, TickRows, ReadRows
  <2> QED
    BY <2>1, BooksByCharge
<1>9. ASSUME Launch
      PROVE  Books'
  <2>1. tick.row.run \in Runs /\ tick.row.run < next
    BY <1>9 DEF Launch, At, IInv, TickRows
  <2> QED
    BY <1>9, <2>1, BooksByProcess DEF Launch
<1>10. ASSUME TickEnd
       PROVE  Books'
  BY <1>10, BooksByProcess DEF TickEnd
<1> QED
  BY <1>1, <1>2, <1>3, <1>4, <1>5, <1>6, <1>7, <1>8, <1>9, <1>10,
     BooksBySweep, BooksByPromote, BooksByLaunch, BooksByRecord
  DEF TickStep

LEMMA BooksByNext ==
  ASSUME IInv, Next
  PROVE  Books'
<1>1. CASE TickStart
  BY <1>1, BooksByProcess DEF TickStart
<1>2. CASE Die
  BY <1>2, BooksByProcess DEF Die
<1>3. ASSUME NEW t \in Tasks, Expire(t)
      PROVE  Books'
  BY <1>3, BooksByTime DEF Expire
<1>4. ASSUME NEW t \in Tasks, PeopleStep(t)
      PROVE  Books'
  <2>1. ASSUME NEW survives \in BOOLEAN, ReclaimRead(t, survives)
        PROVE  Books'
    <3>1. run' = Signalled(task[t].pid, survives) /\ UNCHANGED <<task, next, handed, forced, late>>
      BY <2>1 DEF ReclaimRead
    <3> QED
      BY <3>1, BooksByProcess
  <2>2. CASE CompleteByHand(t)
    BY <2>2, BooksByCompletion DEF CompleteByHand
  <2>3. CASE Pull(t)
    <3>1. "ready" \in Lanes
      BY DEF Lanes
    <3> QED
      BY <2>3, <3>1, BooksByClaim DEF Pull
  <2> QED
    BY <1>4, <2>1, <2>2, <2>3, BooksByUnblock, BooksByHand, BooksByArchive, BooksByReopen
    DEF PeopleStep
<1>5. ASSUME NEW r \in Runs, WorkerStep(r)
      PROVE  Books'
  <2>1. run[r].of \in Tasks
    BY <1>5, RowsByWorker
  <2>2. CASE Beat(r)
    BY <2>1, <2>2, BooksByTime DEF Beat
  <2>3. CASE WorkerCompletes(r)
    BY <2>1, <2>3, BooksByCompletion DEF WorkerCompletes
  <2>4. ASSUME NEW how \in Exits, Exit(r, how)
        PROVE  Books'
    <3>1. r < next
      <4>1. next \in Nat /\ r \in Nat
        BY Values DEF IInv, TypeOK
      <4> QED
        BY <2>4, <4>1 DEF Exit, Live, IInv, Books, Pointers
    <3> QED
      BY <2>4, <3>1, BooksByProcess DEF Exit
  <2> QED
    BY <1>5, <2>2, <2>3, <2>4, BooksByBlock, BooksByReview DEF WorkerStep
<1> QED
  BY <1>1, <1>2, <1>3, <1>4, <1>5, BooksByTick, BooksByReclaim, BooksByPromote DEF Next

-----------------------------------------------------------------------------
(* Parents and people: where a step takes a task.                          *)

(***************************************************************************)
(* A step leaves finished what is finished, starts or finishes only a task *)
(* whose parents are, and takes from people what waits for them only if it *)
(* is a step of people.                                                    *)
(***************************************************************************)
Onward(t) ==
  /\ Satisfied(task[t].status) => Satisfied(task'[t].status)
  /\ task'[t].status \in {"running", "done"} =>
       task[t].status \in {"running", "done"} \/ ParentsDone(t)
  /\ upsets' = upsets /\ hand' = hand /\ WaitsForPerson(task[t]) => WaitsForPerson(task'[t])

LEMMA OnwardStill ==
  ASSUME NEW t \in Tasks, task'[t].status = task[t].status, task'[t].sticky = task[t].sticky
  PROVE  Onward(t)
BY DEF Onward, WaitsForPerson

LEMMA OnwardOne ==
  ASSUME NEW t \in Tasks, Onward(t), \A u \in Tasks \ {t} : task'[u] = task[u]
  PROVE  \A u \in Tasks : Onward(u)
BY DEF Onward, WaitsForPerson

\* A row that leaves its run.
LEMMA OnwardLeft ==
  ASSUME IInv, NEW t \in Tasks, NEW row \in TaskRows, task' = [task EXCEPT ![t] = row],
         task[t].status \in {"running", "ready"},
         row.status \notin {"running", "done"}
  PROVE  \A u \in Tasks : Onward(u)
<1>1. task'[t] = row /\ \A u \in Tasks \ {t} : task'[u] = task[u]
  BY NewRow DEF IInv, TypeOK
<1>2. Onward(t)
  BY <1>1 DEF Onward, Satisfied, WaitsForPerson
<1> QED
  BY <1>1, <1>2, OnwardOne

\* One row is finished, and the waiting ones are promoted.
LEMMA PromotedAfter ==
  ASSUME TypeOK, NEW t \in Tasks, NEW row \in TaskRows, row.status \in {"done", "archived"}
  PROVE  LET m == Promoted([task EXCEPT ![t] = row], DefaultLimit)
         IN  /\ m[t].status = row.status /\ m[t].cur = row.cur /\ m[t].pid = row.pid
             /\ \A u \in Tasks \ {t} :
                  /\ m[u].sticky = task[u].sticky
                  /\ m[u].cur = task[u].cur /\ m[u].pid = task[u].pid
                  /\ \/ m[u].status = task[u].status
                     \/ /\ m[u].status \in Lanes
                        /\ task[u].status = "todo" \/ (task[u].status = "blocked" /\ ~task[u].sticky)
<1> DEFINE k == [task EXCEPT ![t] = row]
<1>1. k \in [Tasks -> TaskRows] /\ k[t] = row /\ \A u \in Tasks \ {t} : k[u] = task[u]
  BY NewRow DEF TypeOK
<1> HIDE DEF k
<1>2. \A u \in Tasks : k[u].resume \in Lanes
  BY <1>1 DEF TaskRows
<1>3. \A u \in Tasks :
        /\ Promoted(k, DefaultLimit)[u].sticky = k[u].sticky
        /\ Promoted(k, DefaultLimit)[u].cur = k[u].cur /\ Promoted(k, DefaultLimit)[u].pid = k[u].pid
        /\ \/ Promoted(k, DefaultLimit)[u].status = k[u].status
           \/ /\ Promoted(k, DefaultLimit)[u].status = k[u].resume
              /\ k[u].status = "todo" \/ (k[u].status = "blocked" /\ ~k[u].sticky)
  BY <1>1, PromotedRows
<1> QED
  BY <1>1, <1>2, <1>3, ZenonT(30) DEF k

LEMMA OnwardPromoted ==
  ASSUME NEW u \in Tasks, task'[u].sticky = task[u].sticky,
         \/ task'[u].status = task[u].status
         \/ /\ task'[u].status \in Lanes
            /\ task[u].status = "todo" \/ (task[u].status = "blocked" /\ ~task[u].sticky)
  PROVE  Onward(u)
BY DEF Onward, WaitsForPerson, Satisfied, Lanes

\* What completing a task makes of the rows.
LEMMA CompletedAfter ==
  ASSUME IInv, NEW t \in Tasks
  PROVE  LET m == Completed(t)
         IN  /\ m[t].status = "done" /\ m[t].cur = None /\ m[t].pid = None
             /\ \A u \in Tasks \ {t} :
                  /\ m[u].sticky = task[u].sticky
                  /\ m[u].cur = task[u].cur /\ m[u].pid = task[u].pid
                  /\ \/ m[u].status = task[u].status
                     \/ /\ m[u].status \in Lanes
                        /\ task[u].status = "todo" \/ (task[u].status = "blocked" /\ ~task[u].sticky)
<1> DEFINE l == Left(t, "done", task[t].resume)
           row == [l EXCEPT !.blocks = 0, !.failures = 0]
<1>1. task[t].resume \in Lanes
  BY DEF IInv, TypeOK, TaskRows
<1>2. l \in TaskRows /\ l.status = "done" /\ l.cur = None /\ l.pid = None
  BY <1>1, LeftFields DEF IInv, Status
<1>3. Completed(t) = Promoted([task EXCEPT ![t] = row], DefaultLimit)
  BY DEF Completed
<1> HIDE DEF l
<1>4. row \in TaskRows /\ row.status = "done" /\ row.cur = None /\ row.pid = None
  BY <1>2 DEF TaskRows
<1> HIDE DEF row
<1> DEFINE m == Promoted([task EXCEPT ![t] = row], DefaultLimit)
<1>5. /\ m[t].status = row.status /\ m[t].cur = row.cur /\ m[t].pid = row.pid
      /\ \A u \in Tasks \ {t} :
           /\ m[u].sticky = task[u].sticky
           /\ m[u].cur = task[u].cur /\ m[u].pid = task[u].pid
           /\ \/ m[u].status = task[u].status
              \/ /\ m[u].status \in Lanes
                 /\ task[u].status = "todo" \/ (task[u].status = "blocked" /\ ~task[u].sticky)
  BY <1>4, PromotedAfter DEF IInv
<1> HIDE DEF m
<1>6. Completed(t) = m
  BY <1>3 DEF m
<1> QED
  BY <1>4, <1>5, <1>6

LEMMA OnwardCompleted ==
  ASSUME IInv, NEW t \in Tasks, MayComplete(t), task' = Completed(t)
  PROVE  \A u \in Tasks : Onward(u)
<1>1. /\ task'[t].status = "done"
      /\ \A u \in Tasks \ {t} :
           /\ task'[u].sticky = task[u].sticky
           /\ \/ task'[u].status = task[u].status
              \/ /\ task'[u].status \in Lanes
                 /\ task[u].status = "todo" \/ (task[u].status = "blocked" /\ ~task[u].sticky)
  BY CompletedAfter
<1>2. ParentsDone(t)
  BY DEF MayComplete
<1>3. Onward(t)
  BY <1>1, <1>2 DEF Onward, Satisfied, WaitsForPerson
<1> QED
  BY <1>1, <1>3, OnwardPromoted

LEMMA OnwardClaim ==
  ASSUME IInv, NEW t \in Tasks, NEW lane \in Lanes, NEW by \in Dispatchers \cup {Hand},
         Claim(t, lane, by)
  PROVE  \A u \in Tasks : Onward(u)
<1>1. next \in Runs
  BY DEF Claim
<1>2. CASE Claimable(t, lane) /\ OpensRun(t, lane, by)
  <2>1. task'[t].status = "running" /\ \A u \in Tasks \ {t} : task'[u] = task[u]
    BY <1>1, <1>2, ClaimedRows DEF IInv
  <2>2. ParentsDone(t) /\ task[t].status \in {"ready", "review"}
    BY <1>2 DEF Claimable, Lanes
  <2>3. Onward(t)
    BY <2>1, <2>2 DEF Onward, Satisfied, WaitsForPerson
  <2> QED
    BY <2>1, <2>3, OnwardOne
<1>3. CASE Demoted(t, lane)
  <2>1. /\ task'[t].sticky = task[t].sticky
        /\ \A u \in Tasks \ {t} : task'[u] = task[u]
        /\ \/ task'[t].status = task[t].status
           \/ task[t].status = lane /\ task'[t].status = "todo"
    BY <1>3, DemotedRows DEF IInv
  <2>2. Onward(t)
    BY <2>1 DEF Onward, Satisfied, WaitsForPerson, Lanes
  <2> QED
    BY <2>1, <2>2, OnwardOne
<1>4. CASE LostSwap(t, lane)
  BY <1>4, OnwardStill DEF LostSwap
<1> QED
  BY <1>2, <1>3, <1>4 DEF Claim

LEMMA OnwardCharge ==
  ASSUME IInv, NEW t \in Tasks, NEW force \in BOOLEAN, Charge(t, force)
  PROVE  \A u \in Tasks : Onward(u)
<1>1. /\ \A u \in Tasks \ {t} : task'[u] = task[u]
      /\ task'[t].sticky = task[t].sticky
      /\ \/ task'[t].status = task[t].status
         \/ /\ task[t].status \in {"running", "ready", "review"}
            /\ task'[t].status = "blocked"
  BY ChargedRows DEF IInv
<1>2. Onward(t)
  BY <1>1 DEF Onward, Satisfied, WaitsForPerson
<1> QED
  BY <1>1, <1>2, OnwardOne

LEMMA OnwardTime ==
  ASSUME IInv,
         task' = task \/ \E t \in Tasks : \E b \in BOOLEAN : task' = [task EXCEPT ![t].expired = b]
  PROVE  \A u \in Tasks : Onward(u)
<1>1. CASE task' = task
  BY <1>1, OnwardStill
<1>2. ASSUME NEW t \in Tasks, NEW b \in BOOLEAN, task' = [task EXCEPT ![t].expired = b]
      PROVE  \A u \in Tasks : Onward(u)
  BY <1>2, ExpiredRows, OnwardStill DEF IInv
<1> QED
  BY <1>1, <1>2

\* recompute_ready, from a tick or from a listing.
LEMMA OnwardList ==
  ASSUME IInv, Promote \/ List
  PROVE  \A u \in Tasks : Onward(u)
<1>1. task \in [Tasks -> TaskRows] /\ \A u \in Tasks : task[u].resume \in Lanes
  BY DEF IInv, TypeOK, TaskRows
<1>2. \E limit \in {FailureLimit, DefaultLimit} : task' = Promoted(task, limit)
  BY DEF Promote, List
<1>3. \A u \in Tasks :
        /\ task'[u].sticky = task[u].sticky
        /\ \/ task'[u].status = task[u].status
           \/ /\ task'[u].status \in Lanes
              /\ task[u].status = "todo" \/ (task[u].status = "blocked" /\ ~task[u].sticky)
  BY <1>1, <1>2, PromotedRows
<1> QED
  BY <1>3, OnwardPromoted

LEMMA OnwardTick ==
  ASSUME IInv, TickStep
  PROVE  \A u \in Tasks : Onward(u)
<1>1. TypeOK /\ \A t \in Tasks : RetryStatus(t) \in {"ready", "review"}
  BY RetryLane DEF IInv, Lanes
<1>2. \A t \in Tasks : Left(t, RetryStatus(t), RetryStatus(t)) \in TaskRows
                       /\ Left(t, RetryStatus(t), RetryStatus(t)).status \in {"ready", "review"}
  BY <1>1, LeftFields DEF Lanes, Status
<1>3. ASSUME NEW t \in Tasks, task[t].status = "running",
             task' = [task EXCEPT ![t] = Left(t, RetryStatus(t), RetryStatus(t))]
      PROVE  \A u \in Tasks : Onward(u)
  <2> DEFINE row == Left(t, RetryStatus(t), RetryStatus(t))
  <2>1. row \in TaskRows /\ row.status \in {"ready", "review"} /\ task' = [task EXCEPT ![t] = row]
    BY <1>2, <1>3
  <2> HIDE DEF row
  <2> QED
    BY <1>3, <2>1, OnwardLeft
<1>4. ASSUME NEW row \in tick.rows, ExtendStale(row)
      PROVE  \A u \in Tasks : Onward(u)
  <2>1. row.task \in Tasks
    BY <1>4 DEF ExtendStale, At, IInv, TickRows, ReadRows
  <2> QED
    BY <1>4, <2>1, OnwardTime DEF ExtendStale
<1>5. ASSUME NEW row \in tick.rows, AccountCrash(row)
      PROVE  \A u \in Tasks : Onward(u)
  <2>1. row.task \in Tasks
    BY <1>5 DEF AccountCrash, At, IInv, TickRows, ReadRows
  <2>2. CASE task' = task
    BY <2>2, OnwardTime
  <2>3. CASE Charge(row.task, Booked(row.run) = "violation" \/ row.task \in tick.alike)
    <3>1. (Booked(row.run) = "violation" \/ row.task \in tick.alike) \in BOOLEAN
      OBVIOUS
    <3> QED
      BY <2>1, <2>3, <3>1, OnwardCharge
  <2> QED
    BY <1>5, <2>2, <2>3 DEF AccountCrash
<1>6. ASSUME NEW row \in tick.rows, ClaimRow(row)
      PROVE  \A u \in Tasks : Onward(u)
  <2>1. row.task \in Tasks /\ row.lane \in Lanes /\ tick.by \in Dispatchers
    BY <1>6 DEF ClaimRow, At, IInv, TickRows, TypeOK, LaneRows, Lanes
  <2> QED
    BY <1>6, <2>1, OnwardClaim DEF ClaimRow
<1>7. ASSUME AfterStaleKill
      PROVE  \A u \in Tasks : Onward(u)
  <2>1. tick.row.task \in Tasks
    BY <1>7 DEF AfterStaleKill, At, IInv, TickRows, ReadRows
  <2>2. CASE DeferReclaim(tick.row)
    BY <2>1, <2>2, OnwardTime DEF DeferReclaim
  <2>3. CASE ReleaseStale(tick.row)
    BY <1>3, <2>1, <2>3, OnwardTime DEF ReleaseStale, Stale
  <2> QED
    BY <1>7, <2>2, <2>3 DEF AfterStaleKill
<1>8. ASSUME NEW T \in SUBSET Tasks, SweepCrashed(T)
      PROVE  \A u \in Tasks : Onward(u)
  <2>1. \A t \in Tasks :
          \/ task'[t] = task[t]
          \/ task[t].status = "running" /\ task'[t].status = RetryStatus(t)
    BY <1>8, SweptRows DEF IInv, Books
  <2> QED
    BY <1>1, <2>1 DEF Onward, Satisfied, WaitsForPerson
<1>9. ASSUME ReleaseOverdue
      PROVE  \A u \in Tasks : Onward(u)
  <2>1. tick.row.task \in Tasks
    BY <1>9 DEF ReleaseOverdue, At, IInv, TickRows, ReadRows
  <2> QED
    BY <1>3, <1>9, <2>1, OnwardTime DEF ReleaseOverdue, StillClaimed
<1>10. ASSUME ChargeOverdue
       PROVE  \A u \in Tasks : Onward(u)
  <2>1. tick.row.task \in Tasks /\ Charge(tick.row.task, FALSE)
    BY <1>10 DEF ChargeOverdue, At, IInv, TickRows, ReadRows
  <2> QED
    BY <2>1, OnwardCharge
<1>11. ASSUME Promote
       PROVE  \A u \in Tasks : Onward(u)
  BY <1>11, OnwardList
<1>12. ASSUME LaunchFails
       PROVE  \A u \in Tasks : Onward(u)
  <2>1. tick.row.task \in Tasks /\ ChargeLaunch(tick.row.task)
    BY <1>12 DEF LaunchFails, At, IInv, TickRows, ReadRows
  <2> DEFINE t == tick.row.task
  <2> HIDE DEF t
  <2>2. /\ \A u \in Tasks \ {t} : task'[u] = task[u]
        /\ task'[t].sticky = task[t].sticky
        /\ \/ task[t].status = "running" /\ task'[t].status = RetryStatus(t)
           \/ /\ task[t].status \in {"running", "ready", "review"}
              /\ task'[t].status = "blocked"
           \/ task'[t].status = task[t].status
    BY <1>1, <2>1, LaunchChargedRows DEF t
  <2>3. t \in Tasks
    BY <2>1 DEF t
  <2>4. Onward(t)
    BY <1>1, <2>2, <2>3 DEF Onward, Satisfied, WaitsForPerson
  <2> QED
    BY <2>2, <2>3, <2>4, OnwardOne
<1>13. ASSUME RecordPid
       PROVE  \A u \in Tasks : Onward(u)
  <2>1. tick.row.task \in Tasks /\ tick.row.run \in Runs
    BY <1>13 DEF RecordPid, At, IInv, TickRows, ReadRows
  <2> QED
    BY <1>1, <1>13, <2>1, RecordedRows, OnwardStill DEF RecordPid
<1>14. ASSUME \/ \E row \in tick.rows, survives \in BOOLEAN :
                    KillStale(row, survives) \/ KillOverdue(row, survives)
              \/ \E T \in SUBSET Tasks : FindOverdue(T)
              \/ Launch \/ TickEnd
       PROVE  \A u \in Tasks : Onward(u)
  <2>1. task' = task
    BY <1>14 DEF KillStale, KillOverdue, FindOverdue, Launch, TickEnd
  <2> QED
    BY <2>1, OnwardTime
<1> QED
  BY <1>4, <1>5, <1>6, <1>7, <1>8, <1>9, <1>10, <1>11, <1>12, <1>13, <1>14 DEF TickStep

LEMMA OnwardWorker ==
  ASSUME IInv, NEW r \in Runs, WorkerStep(r)
  PROVE  \A u \in Tasks : Onward(u)
<1> DEFINE t == run[r].of
<1>1. t \in Tasks
  BY RowsByWorker
<1>2. /\ RetryStatus(t) \in Lanes /\ task[t].resume \in Lanes /\ "ready" \in Lanes
      /\ task[t].blocks + 1 \in Nat
      /\ \A s \in {"ready", "todo", "review", "triage", "blocked"} : s \in Status
  BY <1>1, RetryLane DEF IInv, TypeOK, TaskRows, Lanes, Status
<1>3. CASE Beat(r)
  BY <1>1, <1>3, OnwardTime DEF Beat
<1>4. CASE WorkerCompletes(r)
  <2>1. MayComplete(t) /\ task' = Completed(t)
    BY <1>4 DEF WorkerCompletes
  <2> QED
    BY <1>1, <2>1, OnwardCompleted
<1>5. CASE WorkerRequestsReview(r)
  <2> DEFINE row == Left(t, "review", task[t].resume)
  <2>1. task[t].status \in {"running", "ready"} /\ task' = [task EXCEPT ![t] = row]
    BY <1>5 DEF WorkerRequestsReview
  <2>2. row \in TaskRows /\ row.status = "review"
    BY <1>1, <1>2, LeftFields DEF IInv
  <2> HIDE DEF row, t
  <2> QED
    BY <1>1, <2>1, <2>2, OnwardLeft
<1>6. CASE WorkerRequestsChanges(r)
  <2> DEFINE s == IF ParentsDone(t) THEN "ready" ELSE "todo"
             row == Left(t, s, "ready")
  <2>1. task[t].status = "running" /\ task' = [task EXCEPT ![t] = row]
    BY <1>6 DEF WorkerRequestsChanges
  <2>2. row \in TaskRows /\ row.status \in {"ready", "todo"}
    BY <1>1, <1>2, LeftFields DEF IInv
  <2> HIDE DEF row, t
  <2> QED
    BY <1>1, <2>1, <2>2, OnwardLeft
<1>7. ASSUME NEW dependency \in BOOLEAN, WorkerBlocks(r, dependency)
      PROVE  \A u \in Tasks : Onward(u)
  <2> DEFINE lane == IF task[t].status = "running" THEN RetryStatus(t) ELSE "ready"
             again == task[t].blocks + 1
             row1 == [Left(t, "todo", lane) EXCEPT !.blocks = 0]
             row2 == [Left(t, "triage", lane) EXCEPT !.blocks = again]
             row3 == [Left(t, "blocked", lane) EXCEPT !.blocks = again, !.sticky = TRUE]
  <2>1. \/ task' = [task EXCEPT ![t] = row1]
        \/ task' = [task EXCEPT ![t] = row2]
        \/ task' = [task EXCEPT ![t] = row3]
    BY <1>7, Zenon DEF WorkerBlocks
  <2>2. task[t].status \in {"running", "ready"}
    BY <1>7 DEF WorkerBlocks
  <2>3. lane \in Lanes /\ again \in Nat
    BY <1>2
  <2> HIDE DEF lane, again, t
  <2>4. \A s \in {"todo", "triage", "blocked"} :
          Left(t, s, lane) \in TaskRows /\ Left(t, s, lane).status = s
    BY <1>1, <1>2, <2>3, LeftFields DEF IInv
  <2>5. ASSUME NEW l \in TaskRows
        PROVE  /\ [l EXCEPT !.blocks = 0] \in TaskRows
               /\ [l EXCEPT !.blocks = 0].status = l.status
               /\ [l EXCEPT !.blocks = again] \in TaskRows
               /\ [l EXCEPT !.blocks = again].status = l.status
               /\ [l EXCEPT !.blocks = again, !.sticky = TRUE] \in TaskRows
               /\ [l EXCEPT !.blocks = again, !.sticky = TRUE].status = l.status
    BY <2>3 DEF TaskRows
  <2>6. /\ row1 \in TaskRows /\ row1.status = "todo"
        /\ row2 \in TaskRows /\ row2.status = "triage"
        /\ row3 \in TaskRows /\ row3.status = "blocked"
    BY <2>4, <2>5
  <2> HIDE DEF row1, row2, row3
  <2>7. PICK row \in {row1, row2, row3} : task' = [task EXCEPT ![t] = row]
    BY <2>1
  <2>8. row \in TaskRows /\ row.status \notin {"running", "done"}
    BY <2>6
  <2> QED
    BY <1>1, <2>2, <2>7, <2>8, OnwardLeft
<1>8. ASSUME NEW how \in Exits, Exit(r, how)
      PROVE  \A u \in Tasks : Onward(u)
  BY <1>8, OnwardTime DEF Exit
<1> QED
  BY <1>3, <1>4, <1>5, <1>6, <1>7, <1>8 DEF WorkerStep

LEMMA OnwardPeople ==
  ASSUME IInv, NEW t \in Tasks, PeopleStep(t), ~Reopen(t)
  PROVE  \A u \in Tasks : Onward(u)
<1>1. upsets' = upsets + 1
  BY DEF PeopleStep, ReclaimRead, Unblock, PromoteByHand, CompleteByHand, Archive, Pull, Upset
<1>2. upsets' # upsets
  <2>1. upsets \in Nat
    BY DEF IInv, TypeOK
  <2> QED
    BY <1>1, <2>1
<1>3. ASSUME NEW survives \in BOOLEAN, ReclaimRead(t, survives)
      PROVE  \A u \in Tasks : Onward(u)
  BY <1>3, OnwardTime DEF ReclaimRead
<1>4. CASE Unblock(t)
  <2>1. /\ \A u \in Tasks \ {t} : task'[u] = task[u]
        /\ task'[t].status \in {"todo", task[t].resume}
        /\ task[t].status = "blocked" /\ task[t].resume \in {"ready", "review"}
    BY <1>4, UnblockedRows DEF IInv, Unblock, TypeOK, TaskRows, Lanes
  <2>2. Onward(t)
    BY <1>2, <2>1 DEF Onward, Satisfied
  <2> QED
    BY <2>1, <2>2, OnwardOne
<1>5. CASE PromoteByHand(t)
  <2>1. /\ \A u \in Tasks \ {t} : task'[u] = task[u]
        /\ task'[t].status = "ready" /\ task[t].status \in {"todo", "blocked"}
    BY <1>5, PromotedByHandRows DEF IInv, PromoteByHand
  <2>2. Onward(t)
    BY <1>2, <2>1 DEF Onward, Satisfied
  <2> QED
    BY <2>1, <2>2, OnwardOne
<1>6. CASE CompleteByHand(t)
  BY <1>6, OnwardCompleted DEF CompleteByHand
<1>7. CASE Archive(t)
  <2> DEFINE row == Left(t, "archived", task[t].resume)
             m == Promoted([task EXCEPT ![t] = row], DefaultLimit)
  <2>1. task[t].resume \in Lanes
    BY DEF IInv, TypeOK, TaskRows
  <2>2. row \in TaskRows /\ row.status = "archived"
    BY <2>1, LeftFields DEF IInv, Status
  <2>3. task' = m
    BY <1>7 DEF Archive
  <2> HIDE DEF row
  <2>4. /\ m[t].status = "archived"
        /\ \A u \in Tasks \ {t} :
             /\ m[u].sticky = task[u].sticky
             /\ \/ m[u].status = task[u].status
                \/ /\ m[u].status \in Lanes
                   /\ task[u].status = "todo" \/ (task[u].status = "blocked" /\ ~task[u].sticky)
    BY <2>2, PromotedAfter DEF IInv
  <2> HIDE DEF m
  <2>5. Onward(t)
    BY <1>2, <2>3, <2>4 DEF Onward, Satisfied
  <2>6. ASSUME NEW u \in Tasks \ {t}
        PROVE  Onward(u)
    BY <2>3, <2>4, OnwardPromoted
  <2> QED
    BY <2>5, <2>6
<1>8. CASE Pull(t)
  <2>1. "ready" \in Lanes
    BY DEF Lanes
  <2> QED
    BY <1>8, <2>1, OnwardClaim DEF Pull
<1> QED
  BY <1>3, <1>4, <1>5, <1>6, <1>7, <1>8 DEF PeopleStep

LEMMA OnwardNext ==
  ASSUME IInv, Next, ~\E t \in Tasks : Reopen(t)
  PROVE  \A u \in Tasks : Onward(u)
<1>1. CASE TickStart \/ Die
  BY <1>1, OnwardTime DEF TickStart, Die
<1>2. ASSUME NEW t \in Tasks, Expire(t)
      PROVE  \A u \in Tasks : Onward(u)
  BY <1>2, OnwardTime DEF Expire
<1>3. CASE ReclaimWrite
  <2> DEFINE t == hand.task
             l == Left(t, RetryStatus(t), RetryStatus(t))
             row == [l EXCEPT !.failures = 0]
             hits == task[t].status \in {"running", "ready", "blocked"} /\ task[t].lock = hand.lock
  <2>1. /\ hand # NoRow /\ hand' = NoRow
        /\ task' = IF hits THEN [task EXCEPT ![t] = row] ELSE task
    BY <1>3 DEF ReclaimWrite
  <2>2. t \in Tasks
    BY <2>1 DEF IInv, HandRow, ReadRows
  <2> HIDE DEF t
  <2>3. CASE ~hits
    BY <2>1, <2>3, OnwardTime
  <2>4. CASE hits
    <3>1. RetryStatus(t) \in {"ready", "review"}
      BY <2>2, RetryLane DEF IInv, Lanes
    <3>2. l \in TaskRows /\ l.status = RetryStatus(t)
      BY <2>2, <3>1, LeftFields DEF IInv, Lanes, Status
    <3> HIDE DEF l
    <3>3. row \in TaskRows /\ row.status = RetryStatus(t)
      BY <3>2 DEF TaskRows
    <3> HIDE DEF row
    <3>4. task'[t] = row /\ \A u \in Tasks \ {t} : task'[u] = task[u]
      BY <2>1, <2>2, <2>4, <3>3, NewRow DEF IInv, TypeOK
    <3>5. task[t].status \in {"running", "ready", "blocked"} /\ hand' # hand
      BY <2>1, <2>4
    <3>6. Onward(t)
      BY <3>1, <3>3, <3>4, <3>5 DEF Onward, Satisfied
    <3> QED
      BY <2>2, <3>4, <3>6, OnwardOne
  <2> QED
    BY <2>3, <2>4
<1> QED
  BY <1>1, <1>2, <1>3, OnwardTick, OnwardWorker, OnwardPeople, OnwardList DEF Next

\* What rests on a descendant is a descendant.
LEMMA DescendantsClosed ==
  ASSUME NEW t \in Tasks, NEW c \in Tasks, Parents[c] \cap (Descendants(t) \cup {t}) # {}
  PROVE  c \in Descendants(t)
<1>1. ASSUME NEW S \in SUBSET Tasks, Children(S \cup {t}) \subseteq S
      PROVE  c \in S
  <2>1. PICK p \in Parents[c] : p \in Descendants(t) \/ p = t
    OBVIOUS
  <2>2. p \in S \cup {t}
    BY <1>1, <2>1 DEF Descendants
  <2>3. c \in Children(S \cup {t})
    BY <2>1, <2>2 DEF Children
  <2> QED
    BY <1>1, <2>3
<1> QED
  BY <1>1 DEF Descendants

LEMMA ParentsByNext ==
  ASSUME IInv, Next
  PROVE  ParentsComeFirst'
<1>1. ParentsComeFirst /\ \A t \in Tasks : Parents[t] \subseteq Tasks
  BY BoardAssumption DEF IInv
<1>2. CASE ~\E t \in Tasks : Reopen(t)
  <2>1. \A u \in Tasks : Onward(u)
    BY <1>2, OnwardNext
  <2> QED
    BY <1>1, <2>1 DEF Onward, ParentsComeFirst, ParentsDone
<1>3. ASSUME NEW t \in Tasks, Reopen(t)
      PROVE  ParentsComeFirst'
  <2>1. /\ task'[t].status = "ready"
        /\ task' \in [Tasks -> TaskRows]
        /\ \A c \in Tasks \ {t} :
             /\ c \in Retracted(t) => task'[c].status \in {"todo", task'[c].resume}
             /\ c \notin Retracted(t) =>
                  \/ task'[c].status = task[c].status
                  \/ /\ task'[c].status = task[c].resume
                     /\ task[c].status = "todo" \/ task[c].status = "blocked"
    BY <1>3, ReopenedRows DEF IInv
  <2>2. \A c \in Tasks : task'[c].resume \in {"ready", "review"} /\ task[c].resume \in {"ready", "review"}
    BY <2>1 DEF IInv, TypeOK, TaskRows, Lanes
  <2>3. SUFFICES ASSUME NEW c \in Tasks, task'[c].status \in {"running", "done"}, NEW p \in Parents[c]
                 PROVE  task'[p].status \in {"done", "archived"}
    BY DEF ParentsComeFirst, ParentsDone, Satisfied
  <2>4. c # t /\ c \notin Retracted(t) /\ task[c].status \in {"running", "done"}
    BY <2>1, <2>2, <2>3
  <2>5. c \notin Descendants(t)
    BY <2>4 DEF Retracted
  <2>6. p \in Tasks /\ p # t /\ p \notin Retracted(t)
    BY <1>1, <2>5, DescendantsClosed DEF Retracted
  <2>7. task[p].status \in {"done", "archived"}
    BY <1>1, <2>4 DEF ParentsComeFirst, ParentsDone, Satisfied
  <2> QED
    BY <2>1, <2>6, <2>7
<1> QED
  BY <1>2, <1>3

-----------------------------------------------------------------------------
(* The invariant.                                                          *)

LEMMA InvStarts ==
  ASSUME Init
  PROVE  IInv
<1>1. TypeOK
  <2>1. task \in [Tasks -> TaskRows] /\ run \in [Runs -> RunRows]
    BY DEF Init, TaskRows, RunRows, Status, Lanes, Outcomes, Exits
  <2>2. tick \in TickKind
    BY DEF Init, Idle, TickKind, Phases
  <2>3. next \in 1..(MaxRuns + 1) /\ me \in Dispatchers /\ upsets \in 0..MaxUpsets
    BY Values DEF Init, Dispatchers
  <2>4. hand \in ReadRows \cup {NoRow} /\ handed \subseteq Tasks /\ forced \subseteq Tasks
        /\ late \subseteq Tasks
    BY BoardAssumption DEF Init
  <2> QED
    BY <2>1, <2>2, <2>3, <2>4 DEF TypeOK, TickKind
<1>2. TickRows /\ HandRow
  BY DEF Init, TickRows, HandRow, Idle
<1>3. Pointers
  <2>1. \A r \in Runs : ~(r < next)
    BY Values DEF Init, Runs
  <2>2. \A r \in Runs : run[r].outcome = "unused" /\ run[r].worker = "none"
    BY DEF Init
  <2>3. \A t \in Tasks : task[t].cur = None /\ task[t].pid = None
    BY DEF Init
  <2> QED
    BY <2>1, <2>2, <2>3, Values DEF Pointers
<1>4. RunsAreBooked /\ InRun
  BY DEF Init, RunsAreBooked, InRun, Open
<1>5. Breaker
  <2>1. \A t \in Tasks : task[t].failures = 0
    BY DEF Init
  <2> QED
    BY <2>1, Values DEF Breaker
<1>6. Reviewed
  BY BoardAssumption DEF Init, Reviewed
<1>7. ParentsComeFirst
  BY DEF Init, ParentsComeFirst
<1> QED
  BY <1>1, <1>2, <1>3, <1>4, <1>5, <1>6, <1>7 DEF IInv, Books

LEMMA InvKept ==
  ASSUME IInv, [Next]_vars
  PROVE  IInv'
<1>1. CASE Next
  <2>1. RowsOK
    BY <1>1, RowsByNext
  <2>2. RestOK
    BY <1>1, <2>1, RestByNext
  <2>3. TypeOK' /\ TickRows' /\ HandRow'
    BY <2>1, <2>2 DEF RowsOK, RestOK, TypeOK, TickKind
  <2> QED
    BY <1>1, <2>3, BooksByNext, ParentsByNext DEF IInv
<1>2. CASE UNCHANGED vars
  <2>1. TypeOK' /\ TickRows' /\ HandRow' /\ ParentsComeFirst'
    BY <1>2 DEF vars, IInv, TypeOK, TickRows, HandRow, ParentsComeFirst, ParentsDone
  <2>2. Books'
    BY <1>2, BooksByProcess DEF vars
  <2> QED
    BY <2>1, <2>2 DEF IInv
<1> QED
  BY <1>1, <1>2

LEMMA Invariant == Spec => []IInv
<1>1. Init => IInv
  BY InvStarts
<1>2. IInv /\ [Next]_vars => IInv'
  BY InvKept
<1> QED
  BY <1>1, <1>2, PTL DEF Spec

-----------------------------------------------------------------------------
(* What holds of every board.                                              *)

(***************************************************************************)
(* Every column of a row holds a value of its kind, whatever the order in  *)
(* which sweeps, workers and people write it.                              *)
(***************************************************************************)
THEOREM TypeCorrect == Spec => []TypeOK
<1>1. IInv => TypeOK
  BY DEF IInv
<1> QED
  BY <1>1, Invariant, PTL

(***************************************************************************)
(* An open run is the current run of its task, and a running task has a    *)
(* claim and an open run (_end_run, _claim_and_open_run): claims, sweeps   *)
(* and people never leave a run behind, but where a breaker tripped late.  *)
(***************************************************************************)
THEOREM RunsBooked == Spec => []RunsAreBooked
<1>1. IInv => RunsAreBooked
  BY DEF IInv, Books
<1> QED
  BY <1>1, Invariant, PTL

(***************************************************************************)
(* No task runs or has finished that rests on an unfinished parent         *)
(* (_parents_satisfied, invalidate_descendants_for_parent_reopen), on any  *)
(* graph of tasks without a cycle.                                         *)
(***************************************************************************)
THEOREM ParentsFirst == Spec => []ParentsComeFirst
<1>1. IInv => ParentsComeFirst
  BY DEF IInv
<1> QED
  BY <1>1, Invariant, PTL

(***************************************************************************)
(* Work handed over for review is run by nobody but a reviewer             *)
(* (_retry_status_for_run, _resume_status_from_events), unless a failure   *)
(* was booked late.                                                        *)
(***************************************************************************)
THEOREM ReviewsStay == Spec => []ReviewStaysReview
<1>1. ASSUME IInv, NEW r \in Runs, Open(r), run[r].of \in handed \ late
      PROVE  run[r].source = "review"
  <2> DEFINE t == run[r].of
  <2>1. t \in Tasks
    BY <1>1 DEF IInv, TypeOK
  <2>2. task[t].cur = r
    BY <1>1 DEF IInv, Books, RunsAreBooked
  <2>3. task[t].status = "running"
    BY <1>1, <2>1, <2>2, Values DEF IInv, Books, InRun
  <2> QED
    BY <1>1, <2>2, <2>3 DEF IInv, Books, Reviewed
<1>2. IInv => ReviewStaysReview
  BY <1>1 DEF ReviewStaysReview
<1> QED
  BY <1>2, Invariant, PTL

(***************************************************************************)
(* A task whose failures have reached both limits is in no lane unless a   *)
(* person put it there, whatever the two limits are (_record_task_failure, *)
(* recompute_ready).                                                       *)
(***************************************************************************)
THEOREM BreakersHold == Spec => []BreakerHolds
<1>1. IInv => BreakerHolds
  BY DEF IInv, Books, Breaker, BreakerHolds, Lanes
<1> QED
  BY <1>1, Invariant, PTL

(***************************************************************************)
(* Nothing but a step of people revives what is finished, in triage or     *)
(* blocked for a person: no sweep, launch or late accounting does.         *)
(***************************************************************************)
THEOREM PeopleRevive == Spec => OnlyPeopleRevive
<1> DEFINE Waits == \A t \in Tasks :
             WaitsForPerson(task[t]) /\ upsets' = upsets /\ hand' = hand => WaitsForPerson(task'[t])
<1>1. ASSUME IInv, Next
      PROVE  Waits
  <2>1. CASE ~\E t \in Tasks : Reopen(t)
    BY <1>1, <2>1, OnwardNext DEF Onward
  <2>2. ASSUME NEW t \in Tasks, Reopen(t)
        PROVE  Waits
    <3>1. upsets' = upsets + 1
      BY <2>2 DEF Reopen, Upset
    <3>2. upsets \in Nat
      BY <1>1 DEF IInv, TypeOK
    <3> QED
      BY <3>1, <3>2
  <2> QED
    BY <2>1, <2>2
<1>2. IInv /\ [Next]_vars => [Waits]_vars
  BY <1>1
<1> QED
  BY <1>2, Invariant, PTL DEF Spec, OnlyPeopleRevive

-----------------------------------------------------------------------------
(* What a tick knows of its tasks.                                         *)

(***************************************************************************)
(* A step takes the process of a row off the record or leaves it, and lets *)
(* go of the current run when the task stops running - but for a late      *)
(* breaker, whose task has no worker of its current run on record.         *)
(***************************************************************************)
Follows(t) ==
  /\ task'[t].pid \in {task[t].pid, None}
  /\ \/ /\ task'[t].cur = task[t].cur
        /\ \/ task'[t].status = task[t].status
           \/ /\ task'[t].status # "running"
              /\ \/ task[t].status # "running"
                 \/ tick.at \in {"account", "charge"} /\ task[t].pid # task[t].cur
     \/ task'[t].cur = None /\ task'[t].status # "running"
     \/ task'[t].cur = next /\ next \in Runs /\ task'[t].status = "running"

\* No run is opened but the next, and no process starts but by a launch.
RunsFollow ==
  \A r \in Runs :
    /\ run'[r].outcome = "open" => run[r].outcome = "open" \/ r = next
    /\ run'[r].worker = "live" => run[r].worker = "live" \/ tick.at = "launch"

LEMMA FollowsOne ==
  ASSUME NEW t \in Tasks, Follows(t), \A u \in Tasks \ {t} : task'[u] = task[u]
  PROVE  \A u \in Tasks : Follows(u)
BY DEF Follows

\* How what is known of one task outlives a step.
LEMMA RowFollows ==
  ASSUME IInv, RunsFollow, NEW t \in Tasks, Follows(t)
  PROVE  /\ \A x \in Runs \cup {None} : task[t].pid \in {x, None} => task'[t].pid \in {x, None}
         /\ (task[t].status = "running" => task[t].pid # task[t].cur)
              => (task'[t].status = "running" => task'[t].pid # task'[t].cur)
         /\ (Open(task[t].cur) /\ task[t].pid = task[t].cur => task[t].status = "running")
              => (task'[t].cur \in Runs /\ run'[task'[t].cur].outcome = "open"
                    /\ task'[t].pid = task'[t].cur => task'[t].status = "running")
         /\ \A x \in Runs : x < next /\ tick.at \in {"launch", "record"}
              /\ (task[t].cur = x /\ Open(x) => task[t].status = "running")
              => (task'[t].cur = x /\ run'[x].outcome = "open" => task'[t].status = "running")
<1>1. /\ None \notin Runs /\ next \in Nat /\ \A r \in Runs : r \in Nat
  BY Values DEF IInv, TypeOK
<1>2. /\ task[t].cur \in Runs \cup {None} /\ task[t].pid \in Runs \cup {None}
      /\ \A r \in Runs : r = task[t].cur \/ r = task[t].pid => r < next
  BY DEF IInv, TypeOK, TaskRows, Books, Pointers
<1>3. next # task[t].cur /\ next # task[t].pid
  <2>1. next # None
    BY <1>1, BoardAssumption
  <2>2. ~(next < next)
    BY <1>1
  <2> QED
    BY <1>2, <2>1, <2>2
<1>4. \A x \in Runs \cup {None} : task[t].pid \in {x, None} => task'[t].pid \in {x, None}
  BY DEF Follows
<1>5. ASSUME task[t].status = "running" => task[t].pid # task[t].cur, task'[t].status = "running"
      PROVE  task'[t].pid # task'[t].cur
  <2>1. CASE task'[t].cur = next /\ next \in Runs
    BY <1>1, <1>3, <2>1 DEF Follows
  <2>2. CASE task'[t].cur = task[t].cur /\ task[t].status = "running"
    <3>1. task[t].cur \in Runs
      BY <2>2 DEF IInv, Books, RunsAreBooked, Open
    <3> QED
      BY <1>1, <1>5, <2>2, <3>1 DEF Follows
  <2> QED
    BY <1>5, <2>1, <2>2 DEF Follows
<1>6. ASSUME Open(task[t].cur) /\ task[t].pid = task[t].cur => task[t].status = "running",
             task'[t].cur \in Runs, run'[task'[t].cur].outcome = "open", task'[t].pid = task'[t].cur
      PROVE  task'[t].status = "running"
  <2>1. CASE task'[t].cur = next /\ task'[t].status = "running"
    BY <2>1
  <2>2. CASE task'[t].cur = task[t].cur
    <3>1. task[t].cur \in Runs \ {next} /\ task[t].pid = task[t].cur
      BY <1>1, <1>3, <1>6, <2>2 DEF Follows
    <3>2. Open(task[t].cur)
      BY <1>6, <2>2, <3>1 DEF RunsFollow, Open
    <3> QED
      BY <1>1, <1>3, <1>6, <2>2, <3>1, <3>2 DEF Follows
  <2> QED
    BY <1>1, <1>6, <2>1, <2>2 DEF Follows
<1>7. ASSUME NEW x \in Runs, x < next, tick.at \in {"launch", "record"},
             task[t].cur = x /\ Open(x) => task[t].status = "running",
             task'[t].cur = x, run'[x].outcome = "open"
      PROVE  task'[t].status = "running"
  <2>1. x # next /\ x # None
    BY <1>1, <1>7
  <2>2. task[t].cur = x /\ Open(x)
    BY <1>7, <2>1 DEF Follows, RunsFollow, Open
  <2> QED
    BY <1>7, <2>1, <2>2 DEF Follows
<1> QED
  BY <1>4, <1>5, <1>6, <1>7

\* No worker on record is at work on a task that does not run.
LEMMA RecordFollows ==
  ASSUME IInv, SInv, RunsFollow, \A t \in Tasks : Follows(t)
  PROVE  \A t \in Tasks : task'[t].cur \in Runs /\ run'[task'[t].cur].outcome = "open"
                          /\ task'[t].pid = task'[t].cur => task'[t].status = "running"
BY RowFollows DEF SInv

\* Steps outside the tick.
LEMMA SKept ==
  ASSUME IInv, SInv, RunsFollow, \A t \in Tasks : Follows(t), tick' = tick
  PROVE  SInv'
<1>1. \A t \in Tasks : task'[t].cur \in Runs /\ run'[task'[t].cur].outcome = "open"
                       /\ task'[t].pid = task'[t].cur => task'[t].status = "running"
  BY RecordFollows
<1>2. tick.at \in {"stale", "release", "account"} =>
        \A row \in tick.rows : row.task \in Tasks /\ row.run \in Runs \cup {None}
  BY DEF IInv, TickRows, ReadRows
<1>3. tick.at \in {"release", "timeout", "charge", "launch", "record"} =>
        tick.row.task \in Tasks /\ tick.row.run \in Runs \cup {None}
  BY DEF IInv, TickRows, ReadRows
<1>4. tick.at \in {"stale", "release"} =>
        \A row \in tick.rows : task'[row.task].pid \in {row.run, None}
  BY <1>2, RowFollows DEF SInv
<1>5. tick.at = "release" => task'[tick.row.task].pid \in {tick.row.run, None}
  BY <1>3, RowFollows DEF SInv
<1>6. tick.at \in {"release", "timeout"} /\ ~tick.survived =>
        ~(tick.row.run \in Runs /\ run'[tick.row.run].worker = "live")
  <2>1. SUFFICES ASSUME tick.at \in {"release", "timeout"}, ~tick.survived, tick.row.run \in Runs,
                        run'[tick.row.run].worker = "live"
                 PROVE  FALSE
    OBVIOUS
  <2>2. run[tick.row.run].worker # "live"
    BY <2>1 DEF SInv, Live
  <2> QED
    BY <2>1, <2>2 DEF RunsFollow
<1>7. tick.at = "account" =>
        \A row \in tick.rows :
          task'[row.task].status = "running" => task'[row.task].pid # task'[row.task].cur
  BY <1>2, RowFollows DEF SInv
<1>8. tick.at = "charge" =>
        (task'[tick.row.task].status = "running" => task'[tick.row.task].pid # task'[tick.row.task].cur)
  BY <1>3, RowFollows DEF SInv
<1>9. tick.at \in {"launch", "record"} /\ task'[tick.row.task].cur = tick.row.run
        /\ tick.row.run \in Runs /\ run'[tick.row.run].outcome = "open"
        => task'[tick.row.task].status = "running"
  <2>1. tick.at \in {"launch", "record"} => tick.row.run < next
    BY DEF IInv, TickRows
  <2> QED
    BY <1>3, <2>1, RowFollows DEF SInv
<1> QED
  BY <1>1, <1>4, <1>5, <1>6, <1>7, <1>8, <1>9 DEF SInv, Open, Live

LEMMA RunsFollowByRun ==
  ASSUME IInv,
         \/ run' = run
         \/ \E t \in Tasks : \E o \in Outcomes \ {"open"} : run' = Ended(t, o)
         \/ \E r \in Runs : \E w \in Exits : run' = [run EXCEPT ![r].worker = w]
         \/ \E r : \E survives \in BOOLEAN : run' = Signalled(r, survives)
  PROVE  RunsFollow
<1>1. TypeOK /\ "live" \notin Exits
  BY DEF IInv, Exits
<1>2. CASE run' = run
  BY <1>2 DEF RunsFollow
<1>3. ASSUME NEW t \in Tasks, NEW o \in Outcomes \ {"open"}, run' = Ended(t, o)
      PROVE  RunsFollow
  BY <1>1, <1>3, EndedRuns DEF RunsFollow
<1>4. ASSUME NEW r \in Runs, NEW w \in Exits \cup {"live"}, w # "live",
             run' = [run EXCEPT ![r].worker = w]
      PROVE  RunsFollow
  BY <1>1, <1>4, WorkerRuns DEF RunsFollow
<1>5. ASSUME NEW r, NEW survives \in BOOLEAN, run' = Signalled(r, survives)
      PROVE  RunsFollow
  <2>1. \A q \in Runs : /\ run'[q].outcome = run[q].outcome
                        /\ run'[q].worker = IF q = r /\ run[q].worker = "live" /\ ~survives
                                            THEN "failed" ELSE run[q].worker
    BY <1>1, <1>5, SignalledRuns
  <2> QED
    BY <2>1 DEF RunsFollow
<1> QED
  BY <1>1, <1>2, <1>3, <1>4, <1>5

LEMMA FollowsTime ==
  ASSUME IInv,
         task' = task \/ \E t \in Tasks : \E b \in BOOLEAN : task' = [task EXCEPT ![t].expired = b]
  PROVE  \A u \in Tasks : Follows(u)
<1>1. CASE task' = task
  BY <1>1 DEF Follows
<1>2. ASSUME NEW t \in Tasks, NEW b \in BOOLEAN, task' = [task EXCEPT ![t].expired = b]
      PROVE  \A u \in Tasks : Follows(u)
  BY <1>2, ExpiredRows DEF IInv, Follows
<1> QED
  BY <1>1, <1>2

LEMMA FollowsLeft ==
  ASSUME IInv, NEW t \in Tasks, NEW row \in TaskRows, task' = [task EXCEPT ![t] = row],
         row.pid = None, row.cur = None, row.status # "running"
  PROVE  \A u \in Tasks : Follows(u)
<1>1. task'[t] = row /\ \A u \in Tasks \ {t} : task'[u] = task[u]
  BY NewRow DEF IInv, TypeOK
<1>2. Follows(t)
  BY <1>1 DEF Follows
<1> QED
  BY <1>1, <1>2, FollowsOne

LEMMA FollowsRelease ==
  ASSUME IInv, NEW t \in Tasks,
         task' = [task EXCEPT ![t] = Left(t, RetryStatus(t), RetryStatus(t))]
  PROVE  \A u \in Tasks : Follows(u)
<1> DEFINE row == Left(t, RetryStatus(t), RetryStatus(t))
<1>1. RetryStatus(t) \in Lanes /\ RetryStatus(t) \in Status /\ RetryStatus(t) # "running"
  BY RetryLane DEF IInv, Lanes, Status
<1>2. row \in TaskRows /\ row.pid = None /\ row.cur = None /\ row.status # "running"
  BY <1>1, LeftFields DEF IInv
<1> HIDE DEF row
<1>3. task' = [task EXCEPT ![t] = row]
  BY DEF row
<1> QED
  BY <1>2, <1>3, FollowsLeft

\* A row that waits is promoted.
LEMMA FollowsPromoted ==
  ASSUME NEW u \in Tasks, task'[u].cur = task[u].cur, task'[u].pid = task[u].pid,
         \/ task'[u].status = task[u].status
         \/ task'[u].status \in Lanes /\ task[u].status \in {"todo", "blocked"}
  PROVE  Follows(u)
BY DEF Follows, Lanes

LEMMA FollowsList ==
  ASSUME IInv, Promote \/ List
  PROVE  RunsFollow /\ \A u \in Tasks : Follows(u)
<1>1. task \in [Tasks -> TaskRows] /\ \A u \in Tasks : task[u].resume \in Lanes
  BY DEF IInv, TypeOK, TaskRows
<1>2. /\ \E limit \in {FailureLimit, DefaultLimit} : task' = Promoted(task, limit)
      /\ run' = run
  BY DEF Promote, List
<1>3. \A u \in Tasks :
        /\ task'[u].cur = task[u].cur /\ task'[u].pid = task[u].pid
        /\ \/ task'[u].status = task[u].status
           \/ task'[u].status \in Lanes /\ task[u].status \in {"todo", "blocked"}
  BY <1>1, <1>2, PromotedRows
<1> QED
  BY <1>2, <1>3, FollowsPromoted, RunsFollowByRun

LEMMA FollowsCompleted ==
  ASSUME IInv, NEW t \in Tasks, task' = Completed(t)
  PROVE  \A u \in Tasks : Follows(u)
<1>1. /\ task'[t].status = "done" /\ task'[t].cur = None /\ task'[t].pid = None
      /\ \A u \in Tasks \ {t} :
           /\ task'[u].cur = task[u].cur /\ task'[u].pid = task[u].pid
           /\ \/ task'[u].status = task[u].status
              \/ task'[u].status \in Lanes /\ task[u].status \in {"todo", "blocked"}
  BY CompletedAfter
<1>2. Follows(t)
  BY <1>1 DEF Follows
<1> QED
  BY <1>1, <1>2, FollowsPromoted

LEMMA FollowsClaim ==
  ASSUME IInv, NEW t \in Tasks, NEW lane \in Lanes, NEW by \in Dispatchers \cup {Hand},
         Claim(t, lane, by)
  PROVE  RunsFollow /\ \A u \in Tasks : Follows(u)
<1>1. next \in Runs /\ "reclaimed" \in Outcomes \ {"open"} /\ lane # "running"
  BY DEF Claim, Outcomes, Lanes
<1>2. CASE OpensRun(t, lane, by)
  <2>1. /\ \A u \in Tasks \ {t} : task'[u] = task[u]
        /\ task'[t].status = "running" /\ task'[t].cur = next /\ task'[t].pid = task[t].pid
        /\ \A r \in Runs \ {next} :
             /\ run'[r].worker = run[r].worker
             /\ run'[r].outcome = IF r = task[t].cur /\ run[r].outcome = "open"
                                  THEN "reclaimed" ELSE run[r].outcome
        /\ run'[next].worker = "none"
    BY <1>1, <1>2, ClaimedRows DEF IInv
  <2>2. Follows(t)
    BY <1>1, <2>1 DEF Follows
  <2>3. RunsFollow
    BY <1>1, <2>1 DEF RunsFollow
  <2> QED
    BY <2>1, <2>2, <2>3, FollowsOne
<1>3. CASE Demoted(t, lane)
  <2>1. /\ \A u \in Tasks \ {t} : task'[u] = task[u]
        /\ task'[t].pid = task[t].pid /\ task'[t].cur = task[t].cur
        /\ \/ task'[t].status = task[t].status
           \/ task[t].status = lane /\ task'[t].status = "todo"
    BY <1>3, DemotedRows DEF IInv
  <2>2. Follows(t)
    BY <1>1, <2>1 DEF Follows
  <2>3. run' = run
    BY <1>3 DEF Demoted
  <2> QED
    BY <2>1, <2>2, <2>3, FollowsOne, RunsFollowByRun
<1>4. CASE LostSwap(t, lane)
  <2>1. task' = task /\ (run' = run \/ run' = Ended(t, "reclaimed"))
    BY <1>4 DEF LostSwap
  <2> QED
    BY <1>1, <2>1, FollowsTime, RunsFollowByRun
<1> QED
  BY <1>2, <1>3, <1>4 DEF Claim

\* A failure booked late finds no worker of the current run on record.
LEMMA FollowsCharge ==
  ASSUME IInv, NEW t \in Tasks, NEW force \in BOOLEAN, Charge(t, force),
         tick.at \in {"account", "charge"},
         task[t].status = "running" => task[t].pid # task[t].cur
  PROVE  RunsFollow /\ \A u \in Tasks : Follows(u)
<1>1. /\ \A u \in Tasks \ {t} : task'[u] = task[u]
      /\ task'[t].pid = task[t].pid /\ task'[t].cur = task[t].cur
      /\ task'[t].status \in {task[t].status, "blocked"}
      /\ run' = run
  BY ChargedRows DEF IInv
<1>2. Follows(t)
  BY <1>1 DEF Follows
<1> QED
  BY <1>1, <1>2, FollowsOne, RunsFollowByRun

LEMMA FollowsWorker ==
  ASSUME IInv, NEW r \in Runs, WorkerStep(r)
  PROVE  RunsFollow /\ \A u \in Tasks : Follows(u)
<1> DEFINE t == run[r].of
<1>1. t \in Tasks
  BY RowsByWorker
<1>2. /\ RetryStatus(t) \in Lanes /\ task[t].resume \in Lanes /\ "ready" \in Lanes
      /\ task[t].blocks + 1 \in Nat
      /\ \A s \in {"ready", "todo", "review", "triage", "blocked"} : s \in Status
  BY <1>1, RetryLane DEF IInv, TypeOK, TaskRows, Lanes, Status
<1>3. \A o \in {"completed", "blocked", "review_requested", "changes_requested"} :
        o \in Outcomes \ {"open"}
  BY DEF Outcomes
<1>4. RunsFollow
  <2>1. \/ run' = run
        \/ \E o \in {"completed", "blocked", "review_requested", "changes_requested"} : run' = Ended(t, o)
        \/ \E w \in Exits : run' = [run EXCEPT ![r].worker = w]
    BY DEF WorkerStep, Beat, WorkerCompletes, WorkerRequestsReview, WorkerRequestsChanges,
           WorkerBlocks, Exit
  <2> HIDE DEF t
  <2> QED
    BY <1>1, <1>3, <2>1, RunsFollowByRun
<1>5. CASE Beat(r)
  BY <1>1, <1>4, <1>5, FollowsTime DEF Beat
<1>6. CASE WorkerCompletes(r)
  <2>1. task' = Completed(t)
    BY <1>6 DEF WorkerCompletes
  <2> QED
    BY <1>1, <1>4, <2>1, FollowsCompleted
<1>7. CASE WorkerRequestsReview(r)
  <2> DEFINE row == Left(t, "review", task[t].resume)
  <2>1. task' = [task EXCEPT ![t] = row]
    BY <1>7 DEF WorkerRequestsReview
  <2>2. row \in TaskRows /\ row.status = "review" /\ row.cur = None /\ row.pid = None
    BY <1>1, <1>2, LeftFields DEF IInv
  <2> HIDE DEF row, t
  <2> QED
    BY <1>1, <1>4, <2>1, <2>2, FollowsLeft
<1>8. CASE WorkerRequestsChanges(r)
  <2> DEFINE s == IF ParentsDone(t) THEN "ready" ELSE "todo"
             row == Left(t, s, "ready")
  <2>1. task' = [task EXCEPT ![t] = row]
    BY <1>8 DEF WorkerRequestsChanges
  <2>2. row \in TaskRows /\ row.status \in {"ready", "todo"} /\ row.cur = None /\ row.pid = None
    BY <1>1, <1>2, LeftFields DEF IInv
  <2> HIDE DEF row, t
  <2> QED
    BY <1>1, <1>4, <2>1, <2>2, FollowsLeft
<1>9. ASSUME NEW dependency \in BOOLEAN, WorkerBlocks(r, dependency)
      PROVE  \A u \in Tasks : Follows(u)
  <2> DEFINE lane == IF task[t].status = "running" THEN RetryStatus(t) ELSE "ready"
             again == task[t].blocks + 1
             row1 == [Left(t, "todo", lane) EXCEPT !.blocks = 0]
             row2 == [Left(t, "triage", lane) EXCEPT !.blocks = again]
             row3 == [Left(t, "blocked", lane) EXCEPT !.blocks = again, !.sticky = TRUE]
  <2>1. \/ task' = [task EXCEPT ![t] = row1]
        \/ task' = [task EXCEPT ![t] = row2]
        \/ task' = [task EXCEPT ![t] = row3]
    BY <1>9, Zenon DEF WorkerBlocks
  <2>2. lane \in Lanes /\ again \in Nat
    BY <1>2
  <2> HIDE DEF lane, again, t
  <2>3. \A s \in {"todo", "triage", "blocked"} : LET l == Left(t, s, lane) IN
          l \in TaskRows /\ l.status # "running" /\ l.cur = None /\ l.pid = None
    BY <1>1, <1>2, <2>2, LeftFields DEF IInv
  <2>4. ASSUME NEW l \in TaskRows, l.status # "running", l.cur = None, l.pid = None
        PROVE  /\ LET m == [l EXCEPT !.blocks = 0]
                  IN  m \in TaskRows /\ m.status # "running" /\ m.cur = None /\ m.pid = None
               /\ LET m == [l EXCEPT !.blocks = again]
                  IN  m \in TaskRows /\ m.status # "running" /\ m.cur = None /\ m.pid = None
               /\ LET m == [l EXCEPT !.blocks = again, !.sticky = TRUE]
                  IN  m \in TaskRows /\ m.status # "running" /\ m.cur = None /\ m.pid = None
    BY <2>2, <2>4 DEF TaskRows
  <2>5. \A row \in {row1, row2, row3} :
          row \in TaskRows /\ row.status # "running" /\ row.cur = None /\ row.pid = None
    BY <2>3, <2>4
  <2> HIDE DEF row1, row2, row3
  <2>6. PICK row \in {row1, row2, row3} : task' = [task EXCEPT ![t] = row]
    BY <2>1
  <2> QED
    BY <1>1, <2>5, <2>6, FollowsLeft
<1>10. ASSUME NEW how \in Exits, Exit(r, how)
       PROVE  \A u \in Tasks : Follows(u)
  BY <1>10, FollowsTime DEF Exit
<1> QED
  BY <1>4, <1>5, <1>6, <1>7, <1>8, <1>9, <1>10 DEF WorkerStep

LEMMA FollowsReopen ==
  ASSUME IInv, NEW t \in Tasks, Reopen(t)
  PROVE  RunsFollow /\ \A u \in Tasks : Follows(u)
<1>1. /\ task' \in [Tasks -> TaskRows]
      /\ \A r \in Runs :
           /\ run'[r].worker = "live" => run[r].worker = "live"
           /\ run'[r].outcome = run[r].outcome \/ run'[r].outcome = "reclaimed"
      /\ task'[t].status = "ready" /\ task'[t].pid = None /\ task'[t].cur = task[t].cur
      /\ \A c \in Tasks \ {t} :
           /\ c \in Retracted(t) => /\ task'[c].status \in {"todo", task'[c].resume}
                                    /\ task'[c].pid = None /\ task'[c].cur = None
           /\ c \notin Retracted(t) =>
                /\ task'[c].pid = task[c].pid /\ task'[c].cur = task[c].cur
                /\ \/ task'[c].status = task[c].status
                   \/ /\ task'[c].status = task[c].resume
                      /\ task[c].status \in {"todo", "blocked"}
  BY ReopenedRows DEF IInv
<1>2. \A c \in Tasks : task'[c].resume \in Lanes /\ task[c].resume \in Lanes
  BY <1>1 DEF IInv, TypeOK, TaskRows
<1>3. task[t].status # "running"
  BY DEF Reopen, Satisfied
<1>4. Follows(t)
  BY <1>1, <1>3 DEF Follows
<1>5. ASSUME NEW c \in Tasks \ {t}
      PROVE  Follows(c)
  <2>1. CASE c \in Retracted(t)
    BY <1>1, <1>2, <2>1 DEF Follows, Lanes
  <2>2. CASE c \notin Retracted(t)
    BY <1>1, <1>2, <2>2, FollowsPromoted
  <2> QED
    BY <2>1, <2>2
<1>6. RunsFollow
  BY <1>1 DEF RunsFollow
<1> QED
  BY <1>4, <1>5, <1>6

LEMMA FollowsPeople ==
  ASSUME IInv, NEW t \in Tasks, PeopleStep(t)
  PROVE  RunsFollow /\ \A u \in Tasks : Follows(u)
<1>1. "reclaimed" \in Outcomes \ {"open"} /\ "completed" \in Outcomes \ {"open"}
  BY DEF Outcomes
<1>2. ASSUME NEW survives \in BOOLEAN, ReclaimRead(t, survives)
      PROVE  RunsFollow /\ \A u \in Tasks : Follows(u)
  BY <1>2, FollowsTime, RunsFollowByRun DEF ReclaimRead
<1>3. CASE Unblock(t)
  <2>1. /\ \A u \in Tasks \ {t} : task'[u] = task[u]
        /\ task'[t].status \in {"todo", task[t].resume}
        /\ task'[t].pid = task[t].pid /\ task'[t].cur = None
        /\ task[t].resume \in {"ready", "review"}
    BY <1>3, UnblockedRows DEF IInv, TypeOK, TaskRows, Lanes
  <2>2. Follows(t)
    BY <2>1 DEF Follows
  <2>3. run' = Ended(t, "reclaimed")
    BY <1>3 DEF Unblock
  <2> QED
    BY <1>1, <2>1, <2>2, <2>3, FollowsOne, RunsFollowByRun
<1>4. CASE PromoteByHand(t)
  <2>1. /\ \A u \in Tasks \ {t} : task'[u] = task[u]
        /\ task'[t].status = "ready" /\ task[t].status # "running"
        /\ task'[t].pid = task[t].pid /\ task'[t].cur = task[t].cur
        /\ run' = run
    BY <1>4, PromotedByHandRows DEF IInv, PromoteByHand
  <2>2. Follows(t)
    BY <2>1 DEF Follows
  <2> QED
    BY <2>1, <2>2, FollowsOne, RunsFollowByRun
<1>5. CASE CompleteByHand(t)
  BY <1>1, <1>5, FollowsCompleted, RunsFollowByRun DEF CompleteByHand
<1>6. CASE Archive(t)
  <2> DEFINE row == Left(t, "archived", task[t].resume)
             m == Promoted([task EXCEPT ![t] = row], DefaultLimit)
  <2>1. task[t].resume \in Lanes
    BY DEF IInv, TypeOK, TaskRows
  <2>2. row \in TaskRows /\ row.status = "archived" /\ row.pid = None /\ row.cur = None
    BY <2>1, LeftFields DEF IInv, Status
  <2>3. task' = m /\ run' = Ended(t, "reclaimed")
    BY <1>6 DEF Archive
  <2> HIDE DEF row
  <2>4. /\ m[t].status = "archived" /\ m[t].pid = None /\ m[t].cur = None
        /\ \A u \in Tasks \ {t} :
             /\ m[u].cur = task[u].cur /\ m[u].pid = task[u].pid
             /\ \/ m[u].status = task[u].status
                \/ m[u].status \in Lanes /\ task[u].status \in {"todo", "blocked"}
    BY <2>2, PromotedAfter DEF IInv
  <2> HIDE DEF m
  <2>5. Follows(t)
    BY <2>3, <2>4 DEF Follows
  <2>6. ASSUME NEW u \in Tasks \ {t}
        PROVE  Follows(u)
    BY <2>3, <2>4, FollowsPromoted
  <2> QED
    BY <1>1, <2>3, <2>5, <2>6, RunsFollowByRun
<1>7. CASE Pull(t)
  <2>1. "ready" \in Lanes
    BY DEF Lanes
  <2> QED
    BY <1>7, <2>1, FollowsClaim DEF Pull
<1> QED
  BY <1>2, <1>3, <1>4, <1>5, <1>6, <1>7, FollowsReopen DEF PeopleStep

LEMMA FollowsReclaim ==
  ASSUME IInv, ReclaimWrite
  PROVE  RunsFollow /\ \A u \in Tasks : Follows(u)
<1> DEFINE t == hand.task
           l == Left(t, RetryStatus(t), RetryStatus(t))
           row == [l EXCEPT !.failures = 0]
<1>1. /\ hand # NoRow
      /\ \/ task' = [task EXCEPT ![t] = row] /\ run' = Ended(t, "reclaimed")
         \/ task' = task /\ run' = run
  BY DEF ReclaimWrite
<1>2. t \in Tasks
  BY <1>1 DEF IInv, HandRow, ReadRows
<1> HIDE DEF t
<1>3. RetryStatus(t) \in {"ready", "review"} /\ "reclaimed" \in Outcomes \ {"open"}
  BY <1>2, RetryLane DEF IInv, Lanes, Outcomes
<1>4. l \in TaskRows /\ l.status = RetryStatus(t) /\ l.pid = None /\ l.cur = None
  BY <1>2, <1>3, LeftFields DEF IInv, Lanes, Status
<1> HIDE DEF l
<1>5. row \in TaskRows /\ row.status # "running" /\ row.pid = None /\ row.cur = None
  BY <1>3, <1>4 DEF TaskRows
<1> HIDE DEF row
<1>6. CASE task' = task /\ run' = run
  BY <1>6, FollowsTime, RunsFollowByRun
<1>7. CASE task' = [task EXCEPT ![t] = row] /\ run' = Ended(t, "reclaimed")
  BY <1>2, <1>3, <1>5, <1>7, FollowsLeft, RunsFollowByRun
<1> QED
  BY <1>1, <1>6, <1>7

\* The part of SInv about rows on record, over a step.
OnRecordOK ==
  \A t \in Tasks : task'[t].cur \in Runs /\ run'[task'[t].cur].outcome = "open"
                   /\ task'[t].pid = task'[t].cur => task'[t].status = "running"

\* Where a tick goes on to look at one of several rows, or at none.
LEMMA SByPhase ==
  ASSUME IInv, SInv, OnRecordOK,
         \/ tick'.at \in {"idle", "overdue", "lanes"}
         \/ /\ tick'.at = "stale"
            /\ \A row \in tick'.rows : task'[row.task].pid \in {row.run, None}
         \/ /\ tick'.at = "account"
            /\ \A row \in tick'.rows :
                 task'[row.task].status = "running" => task'[row.task].pid # task'[row.task].cur
         \/ /\ tick'.at = "charge"
            /\ task'[tick'.row.task].status = "running"
                 => task'[tick'.row.task].pid # task'[tick'.row.task].cur
         \/ /\ tick'.at \in {"launch", "record"}
            /\ task'[tick'.row.task].cur = tick'.row.run /\ tick'.row.run \in Runs
                 /\ run'[tick'.row.run].outcome = "open" => task'[tick'.row.task].status = "running"
  PROVE  SInv'
BY DEF SInv, OnRecordOK, Open

LEMMA PhaseFields ==
  ASSUME IInv, NEW phase, NEW rows, NEW alike, Turn(phase, rows, alike)
  PROVE  tick'.at = phase /\ tick'.rows = rows
<1>1. tick \in TickKind
  BY DEF IInv, TypeOK, TickKind
<1> QED
  BY <1>1 DEF Turn, TickKind

LEMMA SByKill ==
  ASSUME IInv, SInv, NEW row \in tick.rows, NEW survives \in BOOLEAN,
         KillStale(row, survives) \/ KillOverdue(row, survives)
  PROVE  SInv'
<1>1. /\ task' = task /\ run' = Signalled(row.run, survives)
      /\ \E phase \in {"release", "timeout"} :
           /\ tick' = [tick EXCEPT !.at = phase, !.row = row, !.survived = survives]
           /\ phase = "release" => tick.at = "stale"
  BY DEF KillStale, KillOverdue, At
<1>2. tick \in TickKind /\ TypeOK
  BY DEF IInv, TypeOK, TickKind
<1>3. /\ tick'.at \in {"release", "timeout"} /\ tick'.row = row /\ tick'.rows = tick.rows
      /\ tick'.survived = survives /\ (tick'.at = "release" => tick.at = "stale")
  BY <1>1, <1>2 DEF TickKind
<1>4. \A q \in Runs : /\ run'[q].outcome = run[q].outcome
                      /\ run'[q].worker = IF q = row.run /\ run[q].worker = "live" /\ ~survives
                                          THEN "failed" ELSE run[q].worker
  BY <1>1, <1>2, SignalledRuns
<1>5. ~survives => ~(row.run \in Runs /\ run'[row.run].worker = "live")
  BY <1>4
<1>6. \A t \in Tasks : task[t].cur \in Runs /\ run'[task[t].cur].outcome = "open"
                       /\ task[t].pid = task[t].cur => task[t].status = "running"
  BY <1>4 DEF SInv, Open
<1> QED
  BY <1>1, <1>3, <1>5, <1>6 DEF SInv, Open, Live

LEMMA SByStale ==
  ASSUME IInv, SInv, (\E row \in tick.rows : ExtendStale(row)) \/ AfterStaleKill
  PROVE  SInv'
<1>1. /\ tick.at \in {"stale", "release"}
      /\ \A row \in tick.rows : row.task \in Tasks /\ row.run \in Runs \cup {None}
  BY DEF ExtendStale, AfterStaleKill, At, IInv, TickRows, ReadRows
<1>2. tick.row.task \in Tasks \/ tick.at = "stale"
  BY <1>1 DEF IInv, TickRows, ReadRows
<1>3. \E row : Turn("stale", tick.rows \ {row}, tick.alike)
  BY DEF ExtendStale, AfterStaleKill, Proceed
<1>4. tick'.at = "stale" /\ tick'.rows \subseteq tick.rows
  BY <1>3, PhaseFields
<1>5. RunsFollow /\ \A u \in Tasks : Follows(u)
  <2>1. ASSUME NEW row \in tick.rows, ExtendStale(row)
        PROVE  RunsFollow /\ \A u \in Tasks : Follows(u)
    BY <1>1, <2>1, FollowsTime, RunsFollowByRun DEF ExtendStale
  <2>2. ASSUME AfterStaleKill
        PROVE  RunsFollow /\ \A u \in Tasks : Follows(u)
    <3>1. tick.row.task \in Tasks
      BY <1>2, <2>2 DEF AfterStaleKill, At
    <3>2. CASE DeferReclaim(tick.row)
      BY <3>1, <3>2, FollowsTime, RunsFollowByRun DEF DeferReclaim
    <3>3. CASE ReleaseStale(tick.row)
      <4>1. "reclaimed" \in Outcomes \ {"open"}
        BY DEF Outcomes
      <4>2. CASE UNCHANGED <<task, run>>
        BY <4>2, FollowsTime, RunsFollowByRun
      <4>3. CASE /\ task' = [task EXCEPT ![tick.row.task] =
                               Left(tick.row.task, RetryStatus(tick.row.task), RetryStatus(tick.row.task))]
                 /\ run' = Ended(tick.row.task, "reclaimed")
        BY <3>1, <4>1, <4>3, FollowsRelease, RunsFollowByRun
      <4> QED
        BY <3>3, <4>2, <4>3 DEF ReleaseStale
    <3> QED
      BY <2>2, <3>2, <3>3 DEF AfterStaleKill
  <2> QED
    BY <2>1, <2>2
<1>6. OnRecordOK
  BY <1>5, RecordFollows DEF OnRecordOK
<1>7. \A row \in tick.rows : task'[row.task].pid \in {row.run, None}
  BY <1>1, <1>5, RowFollows DEF SInv
<1> QED
  BY <1>4, <1>6, <1>7, SByPhase

LEMMA SBySweep ==
  ASSUME IInv, SInv, NEW T \in SUBSET Tasks, SweepCrashed(T)
  PROVE  SInv'
<1> DEFINE Dead == {t \in Tasks : task[t].status = "running" /\ task[t].pid # None
                                  /\ ~Live(task[t].pid)}
           rows == {Snapshot(t) : t \in {t \in Dead : Booked(task[t].pid) # "rate_limited"}}
<1>1. TypeOK /\ Turn("account", rows, T)
  BY DEF SweepCrashed, IInv
<1>2. tick'.at = "account" /\ tick'.rows = rows
  BY <1>1, PhaseFields
<1>3. /\ task' \in [Tasks -> TaskRows]
      /\ task' = [t \in Tasks |->
                    IF t \notin Dead THEN task[t]
                    ELSE Left(t, RetryStatus(t),
                              IF Booked(task[t].pid) = "violation" THEN task[t].resume
                                                                   ELSE RetryStatus(t))]
      /\ \A r \in Runs :
           /\ run'[r].worker = run[r].worker
           /\ run'[r].outcome = run[r].outcome \/ run'[r].outcome # "open"
  BY SweptRows DEF SweepCrashed, IInv, Books
<1>4. \A t \in Tasks : RetryStatus(t) \in {"ready", "review"} /\ task[t].resume \in Lanes
  BY <1>1, RetryLane DEF TypeOK, TaskRows, Lanes
<1>5. ASSUME NEW t \in Dead
      PROVE  task'[t].status # "running" /\ task'[t].cur = None /\ task'[t].pid = None
  <2> DEFINE lane == IF Booked(task[t].pid) = "violation" THEN task[t].resume ELSE RetryStatus(t)
  <2>1. t \in Tasks /\ lane \in Lanes /\ RetryStatus(t) \in Status
    BY <1>4 DEF Lanes, Status
  <2>2. task'[t] = Left(t, RetryStatus(t), lane)
    BY <1>3, <2>1
  <2> HIDE DEF lane
  <2> QED
    BY <1>1, <1>4, <2>1, <2>2, LeftFields
<1>6. ASSUME NEW t \in Tasks
      PROVE  Follows(t)
  <2>1. CASE t \in Dead
    BY <1>5, <2>1 DEF Follows
  <2>2. CASE t \notin Dead
    <3>1. task'[t] = task[t]
      BY <1>3, <2>2
    <3> QED
      BY <3>1 DEF Follows
  <2> QED
    BY <2>1, <2>2
<1>7. RunsFollow
  BY <1>3 DEF RunsFollow
<1>8. OnRecordOK
  BY <1>6, <1>7, RecordFollows DEF OnRecordOK
<1>9. \A row \in rows : row.task \in Dead
  BY <1>1, SnapshotRow
<1>10. \A row \in rows : task'[row.task].status # "running"
  BY <1>5, <1>9
<1> HIDE DEF rows
<1> QED
  BY <1>2, <1>8, <1>10, SByPhase

LEMMA SByAccount ==
  ASSUME IInv, SInv, NEW row \in tick.rows, AccountCrash(row)
  PROVE  SInv'
<1>1. /\ tick.at = "account" /\ Proceed("account", row)
      /\ \A q \in tick.rows : q.task \in Tasks
  BY DEF AccountCrash, At, IInv, TickRows, ReadRows
<1>2. tick'.at = "account" /\ tick'.rows \subseteq tick.rows
  BY <1>1, PhaseFields DEF Proceed
<1>3. task[row.task].status = "running" => task[row.task].pid # task[row.task].cur
  BY <1>1 DEF SInv
<1>4. RunsFollow /\ \A u \in Tasks : Follows(u)
  <2>1. CASE UNCHANGED <<task, run>>
    BY <2>1, FollowsTime, RunsFollowByRun
  <2>2. CASE Charge(row.task, Booked(row.run) = "violation" \/ row.task \in tick.alike)
    <3>1. (Booked(row.run) = "violation" \/ row.task \in tick.alike) \in BOOLEAN
      OBVIOUS
    <3> QED
      BY <1>1, <1>3, <2>2, <3>1, FollowsCharge
  <2> QED
    BY <2>1, <2>2 DEF AccountCrash
<1>5. OnRecordOK
  BY <1>4, RecordFollows DEF OnRecordOK
<1>6. \A q \in tick.rows : task'[q.task].status = "running" => task'[q.task].pid # task'[q.task].cur
  BY <1>1, <1>4, RowFollows DEF SInv
<1> QED
  BY <1>2, <1>5, <1>6, SByPhase

LEMMA SByOverdue ==
  ASSUME IInv, SInv,
         (\E T \in SUBSET Tasks : FindOverdue(T)) \/ ReleaseOverdue \/ ChargeOverdue
  PROVE  SInv'
<1>1. ASSUME NEW T \in SUBSET Tasks, FindOverdue(T)
      PROVE  SInv'
  <2>1. task' = task /\ run' = run /\ \E rows : Phase("overdue", rows)
    BY <1>1 DEF FindOverdue
  <2>2. tick'.at = "overdue"
    BY <2>1, PhaseFields DEF Phase
  <2>3. OnRecordOK
    BY <2>1, FollowsTime, RunsFollowByRun, RecordFollows DEF OnRecordOK
  <2> QED
    BY <2>2, <2>3, SByPhase
<1>2. ASSUME ReleaseOverdue
      PROVE  SInv'
  <2> DEFINE t == tick.row.task
  <2>1. t \in Tasks /\ "timed_out" \in Outcomes \ {"open"} /\ tick \in TickKind
    BY <1>2 DEF ReleaseOverdue, At, IInv, TypeOK, TickKind, TickRows, ReadRows, Outcomes
  <2>2. CASE Proceed("overdue", tick.row) /\ UNCHANGED <<task, run>>
    <3>1. tick'.at = "overdue"
      BY <2>2, PhaseFields DEF Proceed
    <3>2. OnRecordOK
      BY <2>2, FollowsTime, RunsFollowByRun, RecordFollows DEF OnRecordOK
    <3> QED
      BY <3>1, <3>2, SByPhase
  <2>3. CASE /\ task' = [task EXCEPT ![t] = Left(t, RetryStatus(t), RetryStatus(t))]
             /\ run' = Ended(t, "timed_out")
             /\ tick' = [tick EXCEPT !.at = "charge"]
    <3>1. tick'.at = "charge" /\ tick'.row = tick.row
      BY <2>1, <2>3 DEF TickKind
    <3>2. RetryStatus(t) \in {"ready", "review"}
      BY <2>1, RetryLane DEF IInv, Lanes
    <3>3. Left(t, RetryStatus(t), RetryStatus(t)).status = RetryStatus(t)
      BY <2>1, <3>2, LeftFields DEF IInv, Lanes, Status
    <3>4. task'[t].status # "running"
      BY <2>1, <2>3, <3>2, <3>3 DEF IInv, TypeOK
    <3>5. RunsFollow /\ \A u \in Tasks : Follows(u)
      BY <2>1, <2>3, FollowsRelease, RunsFollowByRun
    <3>6. OnRecordOK
      BY <3>5, RecordFollows DEF OnRecordOK
    <3> QED
      BY <3>1, <3>4, <3>6, SByPhase
  <2> QED
    BY <1>2, <2>2, <2>3 DEF ReleaseOverdue
<1>3. ASSUME ChargeOverdue
      PROVE  SInv'
  <2>1. /\ tick.at = "charge" /\ tick.row.task \in Tasks /\ Charge(tick.row.task, FALSE)
        /\ Proceed("overdue", tick.row)
    BY <1>3 DEF ChargeOverdue, At, IInv, TickRows, ReadRows
  <2>2. task[tick.row.task].status = "running" => task[tick.row.task].pid # task[tick.row.task].cur
    BY <2>1 DEF SInv
  <2>3. RunsFollow /\ \A u \in Tasks : Follows(u)
    BY <2>1, <2>2, FollowsCharge
  <2>4. OnRecordOK
    BY <2>3, RecordFollows DEF OnRecordOK
  <2>5. tick'.at = "overdue"
    BY <2>1, PhaseFields DEF Proceed
  <2> QED
    BY <2>4, <2>5, SByPhase
<1> QED
  BY <1>1, <1>2, <1>3

LEMMA SByLanes ==
  ASSUME IInv, SInv, Promote \/ (\E row \in tick.rows : ClaimRow(row)) \/ LaunchFails \/ TickEnd
  PROVE  SInv'
<1>1. TypeOK /\ tick \in TickKind
  BY DEF IInv, TypeOK, TickKind
<1>2. ASSUME Promote
      PROVE  SInv'
  <2>1. \E rows : Phase("lanes", rows)
    BY <1>2 DEF Promote
  <2>2. tick'.at = "lanes"
    BY <2>1, PhaseFields DEF Phase
  <2>3. OnRecordOK
    BY <1>2, FollowsList, RecordFollows DEF OnRecordOK
  <2> QED
    BY <2>2, <2>3, SByPhase
<1>3. ASSUME NEW row \in tick.rows, ClaimRow(row)
      PROVE  SInv'
  <2>1. row.task \in Tasks /\ row.lane \in Lanes /\ tick.by \in Dispatchers
    BY <1>3 DEF ClaimRow, At, IInv, TickRows, TypeOK, LaneRows, Lanes
  <2>2. Claim(row.task, row.lane, tick.by)
    BY <1>3 DEF ClaimRow
  <2>3. OnRecordOK
    BY <2>1, <2>2, FollowsClaim, RecordFollows DEF OnRecordOK
  <2>4. CASE Proceed("lanes", row)
    <3>1. tick'.at = "lanes"
      BY <2>4, PhaseFields DEF Proceed
    <3> QED
      BY <2>3, <3>1, SByPhase
  <2>5. CASE next' # next /\ tick' = [tick EXCEPT !.at = "launch", !.row = Row(row.task, None, next),
                                                  !.rows = @ \ {row}]
    <3>1. next \in Runs /\ OpensRun(row.task, row.lane, tick.by)
      BY <2>2, <2>5 DEF Claim, Demoted, LostSwap
    <3>2. task'[row.task].status = "running"
      BY <1>1, <2>1, <3>1, ClaimedRows
    <3>3. tick'.at = "launch" /\ tick'.row.task = row.task
      BY <1>1, <2>5 DEF TickKind, Row
    <3> QED
      BY <2>3, <3>2, <3>3, SByPhase
  <2> QED
    BY <1>3, <2>4, <2>5 DEF ClaimRow
<1>4. ASSUME LaunchFails
      PROVE  SInv'
  <2> DEFINE t == tick.row.task
  <2>1. t \in Tasks /\ ChargeLaunch(t) /\ Phase("lanes", tick.rows)
    BY <1>4 DEF LaunchFails, At, IInv, TickRows, ReadRows
  <2>2. tick'.at = "lanes"
    BY <2>1, PhaseFields DEF Phase
  <2> HIDE DEF t
  <2>3. /\ \A u \in Tasks \ {t} : task'[u] = task[u]
        /\ task'[t].cur = None /\ task'[t].pid \in {task[t].pid, None}
        /\ \/ task'[t].status = RetryStatus(t)
           \/ task'[t].status = "blocked"
           \/ task[t].status # "running" /\ task'[t].status = task[t].status
        /\ \E o \in {"gave_up", "spawn_failed"} : run' = Ended(t, o)
    BY <1>1, <2>1, LaunchChargedRows
  <2>4. RetryStatus(t) # "running" /\ {"gave_up", "spawn_failed"} \subseteq Outcomes \ {"open"}
    BY <1>1, <2>1, RetryLane DEF Lanes, Outcomes
  <2>5. Follows(t)
    BY <2>3, <2>4 DEF Follows
  <2>6. RunsFollow
    BY <2>1, <2>3, <2>4, RunsFollowByRun
  <2>7. OnRecordOK
    BY <2>1, <2>3, <2>5, <2>6, FollowsOne, RecordFollows DEF OnRecordOK
  <2> QED
    BY <2>2, <2>7, SByPhase
<1>5. ASSUME TickEnd
      PROVE  SInv'
  <2>1. tick'.at = "idle" /\ task' = task /\ run' = run
    BY <1>5 DEF TickEnd, Idle
  <2>2. OnRecordOK
    BY <2>1, FollowsTime, RunsFollowByRun, RecordFollows DEF OnRecordOK
  <2> QED
    BY <2>1, <2>2, SByPhase
<1> QED
  BY <1>2, <1>3, <1>4, <1>5

\* A worker starts; once it is put on record it runs the task or is late.
LEMMA SByLaunch ==
  ASSUME IInv, SInv, Launch \/ RecordPid
  PROVE  SInv'
<1>1. TypeOK /\ tick \in TickKind
  BY DEF IInv, TypeOK, TickKind
<1>2. /\ tick.at \in {"launch", "record"} /\ tick.row.task \in Tasks /\ tick.row.run \in Runs
      /\ tick.row.run < next
  BY DEF Launch, RecordPid, At, IInv, TickRows, ReadRows
<1>3. ASSUME Launch
      PROVE  SInv'
  <2>1. /\ tick' = [tick EXCEPT !.at = "record"] /\ task' = task
        /\ run' = [run EXCEPT ![tick.row.run].worker = "live"]
    BY <1>3 DEF Launch
  <2>2. tick'.at = "record" /\ tick'.row = tick.row
    BY <1>1, <2>1 DEF TickKind
  <2>3. \A r \in Runs : run'[r].outcome = run[r].outcome
    BY <1>1, <1>2, <2>1, WorkerRuns
  <2>4. OnRecordOK
    BY <2>1, <2>3 DEF OnRecordOK, SInv, Open
  <2> QED
    BY <1>2, <2>1, <2>2, <2>3, <2>4, SByPhase DEF SInv, Open
<1>4. ASSUME RecordPid
      PROVE  SInv'
  <2> DEFINE t == tick.row.task
             x == tick.row.run
  <2>1. /\ task' = [task EXCEPT ![t].pid = x] /\ run' = run /\ Phase("lanes", tick.rows)
    BY <1>4 DEF RecordPid
  <2>2. tick'.at = "lanes"
    BY <2>1, PhaseFields DEF Phase
  <2>3. \A u \in Tasks : /\ task'[u].status = task[u].status /\ task'[u].cur = task[u].cur
                         /\ task'[u].pid = IF u = t THEN x ELSE task[u].pid
    BY <1>1, <1>2, <2>1, RecordedRows
  <2>4. task[t].cur = x /\ Open(x) => task[t].status = "running"
    BY <1>2 DEF SInv
  <2>5. OnRecordOK
    BY <2>1, <2>3, <2>4 DEF OnRecordOK, SInv, Open
  <2> QED
    BY <2>2, <2>5, SByPhase
<1> QED
  BY <1>3, <1>4

LEMMA SByNext ==
  ASSUME IInv, SInv, Next
  PROVE  SInv'
<1>1. CASE TickStart
  <2>1. /\ task' = task /\ run' = run
        /\ tick' = [Idle EXCEPT !.by = me, !.at = "stale",
                      !.rows = {Snapshot(t) : t \in {t \in Tasks : Stale(t)}}]
    BY <1>1 DEF TickStart
  <2>2. tick'.at = "stale" /\ tick'.rows = {Snapshot(t) : t \in {t \in Tasks : Stale(t)}}
    BY <2>1 DEF Idle
  <2>3. \A row \in tick'.rows : task[row.task].pid = row.run
    BY <2>2, SnapshotRow DEF IInv
  <2>4. OnRecordOK
    BY <2>1, FollowsTime, RunsFollowByRun, RecordFollows DEF OnRecordOK
  <2> QED
    BY <2>1, <2>2, <2>3, <2>4, SByPhase
<1>2. CASE Die
  <2>1. task' = task /\ run' = run /\ tick'.at = "idle"
    BY <1>2 DEF Die, Idle
  <2>2. OnRecordOK
    BY <2>1, FollowsTime, RunsFollowByRun, RecordFollows DEF OnRecordOK
  <2> QED
    BY <2>1, <2>2, SByPhase
<1>3. ASSUME NEW t \in Tasks, Expire(t)
      PROVE  SInv'
  <2>1. run' = run /\ tick' = tick /\ task' = [task EXCEPT ![t].expired = TRUE]
    BY <1>3 DEF Expire
  <2> QED
    BY <2>1, FollowsTime, RunsFollowByRun, SKept
<1>4. ASSUME NEW t \in Tasks, PeopleStep(t)
      PROVE  SInv'
  <2>1. tick' = tick
    BY <1>4 DEF PeopleStep, ReclaimRead, Unblock, PromoteByHand, CompleteByHand, Archive, Reopen, Pull
  <2> QED
    BY <1>4, <2>1, FollowsPeople, SKept
<1>5. ASSUME NEW r \in Runs, WorkerStep(r)
      PROVE  SInv'
  <2>1. tick' = tick
    BY <1>5 DEF WorkerStep, Beat, WorkerCompletes, WorkerRequestsReview, WorkerRequestsChanges,
                WorkerBlocks, Exit
  <2> QED
    BY <1>5, <2>1, FollowsWorker, SKept
<1>6. CASE ReclaimWrite
  <2>1. tick' = tick
    BY <1>6 DEF ReclaimWrite
  <2> QED
    BY <1>6, <2>1, FollowsReclaim, SKept
<1>7. CASE TickStep
  BY <1>7, SByKill, SByStale, SBySweep, SByAccount, SByOverdue, SByLanes, SByLaunch DEF TickStep
<1>8. CASE List
  <2>1. tick' = tick
    BY <1>8 DEF List
  <2> QED
    BY <1>8, <2>1, FollowsList, SKept
<1> QED
  BY <1>1, <1>2, <1>3, <1>4, <1>5, <1>6, <1>7, <1>8 DEF Next

LEMMA SInvariant == Spec => [](IInv /\ SInv)
<1>1. Init => IInv /\ SInv
  BY InvStarts DEF Init, SInv, Idle, Open
<1>2. IInv /\ SInv /\ [Next]_vars => (IInv /\ SInv)'
  <2>1. ASSUME IInv, SInv, UNCHANGED vars
        PROVE  SInv'
    BY <2>1 DEF vars, SInv, Open, Live
  <2> QED
    BY <2>1, InvKept, SByNext
<1> QED
  BY <1>1, <1>2, PTL DEF Spec

(***************************************************************************)
(* A sweep that takes a run from a worker on record has seen it dead, but  *)
(* when the runtime limit is enforced on one that outlived the signals     *)
(* (release_stale_claims, detect_crashed_workers, enforce_max_runtime):    *)
(* heartbeats, exits, claims, reclaims and deaths of dispatchers between   *)
(* the read and the write of a sweep cannot lead it astray.                *)
(***************************************************************************)
THEOREM SweepsSpareLiving == Spec => SweepsLeaveNobody
<1> DEFINE Taken(t) ==
             LET r == task[t].cur
             IN  Open(r) /\ run'[r].outcome \in {"reclaimed", "crashed", "violation", "timed_out"}
                 /\ upsets' = upsets /\ hand' = hand /\ task[t].pid = r
<1>1. ASSUME IInv, SInv, Next, NEW t \in Tasks, Taken(t)
      PROVE  ~Live(task[t].cur) \/ (tick.at = "timeout" /\ tick.survived)
  <2> DEFINE r == task[t].cur
  <2>1. /\ r \in Runs /\ run[r].outcome = "open" /\ task[t].pid = r
        /\ run'[r].outcome \in {"reclaimed", "crashed", "violation", "timed_out"}
        /\ upsets' = upsets /\ hand' = hand
    BY <1>1 DEF Open
  <2>2. task[t].status = "running"
    BY <1>1, <2>1 DEF SInv, Open
  <2>3. TypeOK /\ \A u \in Tasks : task[u].cur = r => u = t
    BY <1>1, <2>1 DEF IInv, Books, Pointers
  <2> HIDE DEF r
  <2>4. run' # run
    BY <2>1
  <2>5. \A u \in Tasks : \A o \in Outcomes : run' = Ended(u, o) => task[u].cur = r /\ run'[r].outcome = o
    BY <2>1, <2>3, EndedRuns
  <2>6. ~(\E q : \E survives \in BOOLEAN : run' = Signalled(q, survives))
    BY <2>1, <2>3, SignalledRuns
  <2>7. ~(\E q \in Runs : \E w \in Exits \cup {"live"} : run' = [run EXCEPT ![q].worker = w])
    <3>1. SUFFICES ASSUME NEW q \in Runs, NEW w \in Exits \cup {"live"},
                          run' = [run EXCEPT ![q].worker = w]
                   PROVE  FALSE
      OBVIOUS
    <3>2. \A p \in Runs : run'[p].outcome = run[p].outcome
      BY <2>3, <3>1, WorkerRuns
    <3> QED
      BY <2>1, <3>2
  <2>8. {"reclaimed", "timed_out", "completed", "blocked", "review_requested", "changes_requested",
         "gave_up", "spawn_failed"} \subseteq Outcomes
    BY DEF Outcomes
  <2>9. upsets' # upsets + 1
    BY <2>1, <2>3 DEF TypeOK
  <2>10. ~\E u \in Tasks : PeopleStep(u)
    BY <2>9 DEF PeopleStep, ReclaimRead, Unblock, PromoteByHand, CompleteByHand, Archive, Reopen,
                Pull, Upset
  <2>11. ~ReclaimWrite
    BY <2>1 DEF ReclaimWrite
  <2>12. ~\E q \in Runs : WorkerStep(q)
    <3>1. SUFFICES ASSUME NEW q \in Runs, WorkerStep(q)
                   PROVE  FALSE
      OBVIOUS
    <3>2. run[q].of \in Tasks
      BY <1>1, <3>1, RowsByWorker
    <3>3. \/ run' = run
          \/ \E o \in {"completed", "blocked", "review_requested", "changes_requested"} :
               run' = Ended(run[q].of, o)
          \/ \E w \in Exits : run' = [run EXCEPT ![q].worker = w]
      BY <3>1 DEF WorkerStep, Beat, WorkerCompletes, WorkerRequestsReview, WorkerRequestsChanges,
                  WorkerBlocks, Exit
    <3>4. PICK o \in {"completed", "blocked", "review_requested", "changes_requested"} :
            run' = Ended(run[q].of, o)
      BY <2>4, <2>7, <3>3
    <3>5. run'[r].outcome = o
      BY <2>5, <2>8, <3>2, <3>4
    <3> QED
      BY <2>1, <3>4, <3>5
  <2>13. CASE TickStart \/ Die \/ List \/ \E u \in Tasks : Expire(u)
    BY <2>4, <2>13 DEF TickStart, Die, List, Expire
  <2>14. CASE TickStep
    <3>1. ASSUME AfterStaleKill
          PROVE  ~Live(r)
      <4>1. /\ tick.at = "release" /\ ~tick.survived /\ tick.row.task \in Tasks
            /\ run' = Ended(tick.row.task, "reclaimed")
        BY <1>1, <2>4, <3>1 DEF AfterStaleKill, DeferReclaim, ReleaseStale, At, IInv, TickRows, ReadRows
      <4>2. tick.row.task = t
        BY <2>3, <2>5, <2>8, <4>1
      <4>3. task[t].pid \in {tick.row.run, None} /\ ~Live(tick.row.run)
        BY <1>1, <4>1, <4>2 DEF SInv
      <4> QED
        BY <2>1, <4>3, Values
    <3>2. ASSUME NEW T \in SUBSET Tasks, SweepCrashed(T)
          PROVE  ~Live(r)
      <4>1. \/ r \in Runs => run'[r].outcome = run[r].outcome
            \/ ~Live(task[t].pid)
        BY <1>1, <2>3, <3>2, SweptRows DEF IInv, Books, r
      <4> QED
        BY <2>1, <4>1
    <3>3. ASSUME ReleaseOverdue
          PROVE  ~Live(r) \/ (tick.at = "timeout" /\ tick.survived)
      <4>1. /\ tick.at = "timeout" /\ tick.row.task \in Tasks
            /\ run' = Ended(tick.row.task, "timed_out")
            /\ task[tick.row.task].pid = tick.row.run
        BY <1>1, <2>4, <3>3 DEF ReleaseOverdue, At, IInv, TickRows, ReadRows
      <4>2. tick.row.task = t
        BY <2>3, <2>5, <2>8, <4>1
      <4> QED
        BY <1>1, <2>1, <4>1, <4>2 DEF SInv
    <3>4. ~\E row \in tick.rows : ClaimRow(row)
      <4>1. SUFFICES ASSUME NEW row \in tick.rows, ClaimRow(row)
                     PROVE  FALSE
        OBVIOUS
      <4>2. /\ row.task \in Tasks /\ row.lane \in Lanes /\ tick.by \in Dispatchers
            /\ Claim(row.task, row.lane, tick.by)
        BY <1>1, <4>1 DEF ClaimRow, At, IInv, TickRows, TypeOK, LaneRows, Lanes
      <4>3. CASE Claimable(row.task, row.lane) /\ OpensRun(row.task, row.lane, tick.by) /\ next \in Runs
        <5>1. \A q \in Runs \ {next} :
                run'[q].outcome = IF q = task[row.task].cur /\ run[q].outcome = "open"
                                  THEN "reclaimed" ELSE run[q].outcome
          BY <2>3, <4>2, <4>3, ClaimedRows
        <5>2. r # next
          BY <1>1, <2>1, <4>3, Values DEF IInv, Books, Pointers
        <5>3. row.task = t
          BY <2>1, <2>3, <4>2, <5>1, <5>2
        <5> QED
          <6>1. task[row.task].status \in {"ready", "review"}
            BY <4>2, <4>3 DEF Claimable, Lanes
          <6> QED
            BY <2>2, <5>3, <6>1
      <4>4. CASE Demoted(row.task, row.lane)
        BY <2>4, <4>4 DEF Demoted
      <4>5. CASE LostSwap(row.task, row.lane)
        <5>1. run' = Ended(row.task, "reclaimed") /\ task[row.task].status = "ready"
          BY <2>4, <4>5 DEF LostSwap
        <5>2. row.task = t
          BY <2>3, <2>5, <2>8, <4>2, <5>1
        <5> QED
          BY <2>2, <5>1, <5>2
      <4> QED
        BY <4>2, <4>3, <4>4, <4>5 DEF Claim
    <3>5. ~LaunchFails
      <4>1. SUFFICES ASSUME LaunchFails
                     PROVE  FALSE
        OBVIOUS
      <4>2. tick.row.task \in Tasks /\ ChargeLaunch(tick.row.task)
        BY <1>1, <4>1 DEF LaunchFails, At, IInv, TickRows, ReadRows
      <4>3. PICK o \in {"gave_up", "spawn_failed"} : run' = Ended(tick.row.task, o)
        BY <2>3, <4>2, LaunchChargedRows
      <4>4. run'[r].outcome = o
        BY <2>5, <2>8, <4>2, <4>3
      <4> QED
        BY <2>1, <4>3, <4>4
    <3>6. ~Launch
      <4>1. SUFFICES ASSUME Launch
                     PROVE  FALSE
        OBVIOUS
      <4>2. tick.row.run \in Runs
        BY <1>1, <4>1 DEF Launch, At, IInv, TickRows
      <4>3. "live" \in Exits \cup {"live"}
        OBVIOUS
      <4>4. run' = [run EXCEPT ![tick.row.run].worker = "live"]
        BY <4>1 DEF Launch
      <4> QED
        BY <2>7, <4>2, <4>3, <4>4
    <3>7. ~\E row \in tick.rows, survives \in BOOLEAN : KillStale(row, survives) \/ KillOverdue(row, survives)
      BY <2>6 DEF KillStale, KillOverdue
    <3>8. ~(ChargeOverdue \/ (\E row \in tick.rows : ExtendStale(row) \/ AccountCrash(row))
            \/ (\E T \in SUBSET Tasks : FindOverdue(T)) \/ Promote \/ RecordPid \/ TickEnd)
      BY <2>4 DEF ChargeOverdue, ExtendStale, AccountCrash, FindOverdue, Promote, RecordPid, TickEnd,
                  Charge
    <3> QED
      BY <2>14, <3>1, <3>2, <3>3, <3>4, <3>5, <3>6, <3>7, <3>8 DEF TickStep, r
  <2> QED
    BY <1>1, <2>10, <2>11, <2>12, <2>13, <2>14 DEF Next
<1> DEFINE Spares == \A t \in Tasks :
             Taken(t) => ~Live(task[t].cur) \/ (tick.at = "timeout" /\ tick.survived)
<1>2. IInv /\ SInv /\ [Next]_vars => [Spares]_vars
  BY <1>1
<1> QED
  BY <1>2, SInvariant, PTL DEF Spec, SweepsLeaveNobody
=============================================================================
