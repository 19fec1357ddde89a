---------------------------- MODULE DeliveryLedger ----------------------------
(***************************************************************************)
(* The ledger of final responses a gateway owes to a chat platform         *)
(* (gateway/delivery_ledger.py) with those who write it: the turn that     *)
(* sends its response (gateway/platforms/base.py), the sweep of a gateway  *)
(* that boots over the rows of dead ones, and the sweep after a reconnect  *)
(* over its own (gateway/run_startup.py, gateway/run_adapters.py).         *)
(*                                                                         *)
(* A gateway is one process instance, numbered in the order of start; its  *)
(* stamp is its process id and its start time.  Start times can be read    *)
(* and differ, process ids may be reused.  One platform; an adapter of it  *)
(* is named by its number and is replaced on reconnect.  A job is a task   *)
(* that sends one response.                                                *)
(***************************************************************************)
EXTENDS Integers, FiniteSets

CONSTANTS
  Obligations,  \* final responses; an id is recorded once
  MaxGateways,  \* bound on the process instances of the gateway
  Pid,          \* Pid[g]: the process id of g
  MaxAttempts,  \* MAX_ATTEMPTS
  MaxLinks,     \* bound on the adapters a gateway goes through
  LedgerFails,  \* whether a write of the ledger may fail
  None

Gateways == 1..MaxGateways

ASSUME LedgerAssumption ==
  /\ MaxGateways \in Nat /\ None \notin Nat
  /\ MaxAttempts \in Nat \ {0}
  /\ MaxLinks \in Nat \ {0, 1}  \* one may boot offline, and gets its second
  /\ LedgerFails \in BOOLEAN

VARIABLES
  row,     \* delivery_obligations
  life,    \* of each gateway: whether it has started, runs or died
  link,    \* the number of a gateway's adapter
  online,  \* whether that adapter is connected and registered
  seen,    \* the rows the boot sweep of a gateway has read
  due,     \* whether a reconnect sweep is about to run
  jobs,    \* the tasks that send
  sent,      \* history: how often a response was handed to the platform
  onRecord,  \* history: the responses handed over as the ledger says
  told,      \* history: those on record when the boot sweep of a gateway read
  cancelled  \* history: the responses whose turn was cancelled

vars == <<row, life, link, online, seen, due, jobs, sent, onRecord, told, cancelled>>
history == <<sent, onRecord, told, cancelled>>
transport == <<life, link, online>>

Owed == {"pending", "attempting", "failed"}
States == Owed \cup {"none", "delivered", "abandoned"}
NoRow == [state |-> "none", owner |-> None, attempts |-> 0, degraded |-> FALSE]

Up(g) == life[g] = "up"

\* _owner_alive, a process instance being known by id and start time.
OwnerAlive(k) == Up(k.owner)

\* No row has been read.
Nothing == [o \in Obligations |-> NoRow]

\* The adapter k of g can send.
Sound(g, k) == online[g] /\ k = link[g]

Job(o, g, kind, marked, n) ==
  [of |-> o, by |-> g, kind |-> kind, at |-> "new", via |-> 0, marked |-> marked, claim |-> n]

Becomes(j, k) == jobs' = (jobs \ {j}) \cup {k}
Ends(j) == jobs' = jobs \ {j}

-----------------------------------------------------------------------------
(* Transactions of the ledger.                                             *)

\* _update_state, whatever the row has become.
Update(o, state, degraded) ==
  row' = IF row[o].state = "none" THEN row
         ELSE [row EXCEPT ![o].state = state, ![o].degraded = degraded]

\* Mutant of Spent: one attempt more than the cap.
SpentBeyond(k) == k.attempts > MaxAttempts

\* The attempts cap.
Spent(k) == k.attempts >= MaxAttempts

\* Mutant of StillOwned: whoever comes claims the row.
StillOwnedAnyway(o, k) == row[o].state # "none"

\* The guard of the boot sweep's claim: the process id of the owner it read.
StillOwned(o, k) == row[o].state # "none" /\ Pid[row[o].owner] = Pid[k.owner]

\* release_runtime_claim.
Released(o, g) ==
  IF row[o].state = "attempting" /\ row[o].owner = g
  THEN [row EXCEPT ![o].state = "failed", ![o].degraded = TRUE,
                   ![o].attempts = IF @ > 0 THEN @ - 1 ELSE 0]
  ELSE row

\* Mutant of Claimed: the claim spends no attempt.
ClaimedForFree(k, g) == [k EXCEPT !.owner = g]

\* Mutant of NeedsMarker: only what was rejected is ambiguous.
NeedsMarkerIfFailed(k) == k.state = "failed"

\* needs_marker, by the row as it was read.
NeedsMarker(k) == k.state # "pending"

\* A row claimed by the boot sweep of g: its state stays as it is.
Claimed(k, g) == [k EXCEPT !.owner = g, !.attempts = @ + 1]

-----------------------------------------------------------------------------
(* A turn sends its final response.                                        *)

\* record_obligation; the adapter is resolved before.
Record(o, g) ==
  /\ Up(g) /\ row[o].state = "none" /\ sent[o] = 0
  /\ \A j \in jobs : j.of # o
  /\ row' = [row EXCEPT ![o] = [NoRow EXCEPT !.state = "pending", !.owner = g]]
  /\ jobs' = jobs \cup {[Job(o, g, "turn", FALSE, 0) EXCEPT !.via = link[g]]}
  /\ UNCHANGED <<transport, seen, due, history>>

MarkAttempting(j) ==
  /\ j.kind = "turn" /\ j.at = "new"
  /\ Update(j.of, "attempting", FALSE)
  /\ Becomes(j, [j EXCEPT !.at = "ready"])
  /\ UNCHANGED <<transport, seen, due, history>>

\* The write fails and the send goes on without an obligation.
MarkFails(j) ==
  /\ LedgerFails /\ j.kind = "turn" /\ j.at = "new"
  /\ Becomes(j, [j EXCEPT !.at = "ready", !.claim = -1])
  /\ UNCHANGED <<row, transport, seen, due, history>>

BeginSend(j) ==
  /\ j.at = "ready"
  /\ Becomes(j, [j EXCEPT !.at = "sending"])
  /\ sent' = [sent EXCEPT ![j.of] = @ + 1]
  /\ onRecord' = IF row[j.of].state = "pending" THEN onRecord ELSE onRecord \cup {j.of}
  /\ UNCHANGED <<row, transport, seen, due, told, cancelled>>

Outcomes == {"success", "degraded", "rejected"}

Verdict(outcome) == IF outcome = "success" THEN "delivered" ELSE "failed"

\* The transport answers and the ledger is told, if the write succeeds.
Answer(j, outcome) ==
  /\ j.at = "sending"
  /\ outcome = "degraded" => ~Sound(j.by, j.via)
  /\ \/ /\ j.claim # -1
        /\ Update(j.of, Verdict(outcome), outcome = "degraded")
        /\ onRecord' = onRecord \cup {j.of}
        /\ IF j.kind = "turn" /\ outcome = "degraded"
           THEN Becomes(j, [j EXCEPT !.at = "check"])
           ELSE Ends(j)
     \/ /\ LedgerFails \/ j.claim = -1
        /\ Ends(j)
        /\ UNCHANGED <<row, onRecord>>
  /\ UNCHANGED <<transport, seen, due, sent, told, cancelled>>

\* The turn is cancelled (/stop, /new, shutdown), at any of its awaits: while it
\* sends, before it looks for a replacement, or in the sweep it then runs.
Cancel(j) ==
  /\ j.kind # "boot"
  /\ Ends(j)
  /\ cancelled' = cancelled \cup {j.of}
  /\ UNCHANGED <<row, transport, seen, due, sent, onRecord, told>>


\* _finalize_delivery_obligation: a replacement is live already.
Replaced(j) == online[j.by] /\ link[j.by] # j.via

\* Offline, the turn compares with the adapter it began on, maybe an older one.
CheckLive(j) ==
  /\ j.at = "check"
  /\ \E older \in BOOLEAN :
        /\ older => ~online[j.by] /\ j.via > 1
        /\ due' = [due EXCEPT ![j.by] = @ \/ Replaced(j) \/ older]
  /\ Ends(j)
  /\ UNCHANGED <<row, transport, seen, history>>

-----------------------------------------------------------------------------
(* The boot sweep.                                                         *)

Boot(g) ==
  /\ life[g] = "off" /\ \A h \in 1..g - 1 : life[h] # "off"
  /\ life' = [life EXCEPT ![g] = "up"]
  /\ link' = [link EXCEPT ![g] = 1]
  /\ \E on \in BOOLEAN : online' = [online EXCEPT ![g] = on]
  /\ seen' = [seen EXCEPT ![g] = [o \in Obligations |->
                 IF row[o].state \in Owed THEN row[o] ELSE NoRow]]
  /\ told' = [told EXCEPT ![g] = onRecord]
  /\ UNCHANGED <<row, due, jobs, sent, onRecord, cancelled>>

\* sweep_recoverable judges the rows it read; those of Old are past the cutoff.
SweepBoot(g, Old) ==
  LET Dead == {o \in Obligations : seen[g][o].state # "none" /\ ~OwnerAlive(seen[g][o])}
      Given == {o \in Dead : Spent(seen[g][o]) \/ o \in Old}
      Taken == IF online[g] THEN {o \in Dead \ Given : StillOwned(o, seen[g][o])} ELSE {}
  IN  /\ Up(g) /\ seen[g] # Nothing
      /\ row' = [o \in Obligations |->
                   CASE o \in Given /\ row[o].state # "none" -> [row[o] EXCEPT !.state = "abandoned"]
                     [] o \in Taken -> Claimed(row[o], g)
                     [] OTHER -> row[o]]
      /\ jobs' = jobs \cup {Job(o, g, "boot", NeedsMarker(seen[g][o]),
                                seen[g][o].attempts + 1) : o \in Taken}
      /\ seen' = [seen EXCEPT ![g] = Nothing]
      /\ UNCHANGED <<transport, due, history>>

-----------------------------------------------------------------------------
(* Reconnects and their sweep.                                             *)

Disconnect(g) ==
  /\ Up(g) /\ online[g] /\ link[g] < MaxLinks
  /\ online' = [online EXCEPT ![g] = FALSE]
  /\ UNCHANGED <<row, life, link, seen, due, jobs, history>>

\* The new adapter is published, and what failed meanwhile is swept next.
Reconnect(g) ==
  /\ Up(g) /\ ~online[g]
  /\ online' = [online EXCEPT ![g] = TRUE]
  /\ link' = [link EXCEPT ![g] = @ + 1]
  /\ due' = [due EXCEPT ![g] = TRUE]
  /\ UNCHANGED <<row, life, seen, jobs, history>>

\* sweep_failed_for_runtime, one transaction.
SweepRuntime(g, Old) ==
  LET Mine == {o \in Obligations : row[o].state = "failed" /\ row[o].owner = g /\ row[o].degraded}
      Given == {o \in Mine : Spent(row[o]) \/ o \in Old}
  IN  /\ Up(g) /\ due[g]
      /\ row' = [o \in Obligations |->
                   CASE o \in Given -> [row[o] EXCEPT !.state = "abandoned"]
                     [] o \in Mine \ Given -> [Claimed(row[o], g) EXCEPT !.state = "attempting",
                                                                        !.degraded = FALSE]
                     [] OTHER -> row[o]]
      /\ jobs' = jobs \cup {Job(o, g, "runtime", TRUE, row[o].attempts + 1) : o \in Mine \ Given}
      /\ due' = [due EXCEPT ![g] = FALSE]
      /\ UNCHANGED <<transport, seen, history>>

\* _release_runtime_claim_quiet.
Release(o, g) == row' = Released(o, g) \/ (LedgerFails /\ UNCHANGED row)

\* The resume flag cannot be cleared: the claim is given back unsent.
GiveBack(j) ==
  /\ j.kind = "runtime" /\ j.at = "new"
  /\ Release(j.of, j.by)
  /\ Ends(j)
  /\ UNCHANGED <<transport, seen, due, history>>

\* _obligation_adapter: without one, a runtime claim is given back and a boot
\* claim is left as it is.
Resolve(j) ==
  /\ j.kind # "turn" /\ j.at = "new"
  /\ IF online[j.by]
     THEN Becomes(j, [j EXCEPT !.at = "ready", !.via = link[j.by]]) /\ UNCHANGED row
     ELSE Ends(j) /\ IF j.kind = "runtime" THEN Release(j.of, j.by) ELSE UNCHANGED row
  /\ UNCHANGED <<transport, seen, due, history>>

-----------------------------------------------------------------------------
\* A gateway dies with its tasks.
Die(g) ==
  /\ Up(g)
  /\ life' = [life EXCEPT ![g] = "dead"]
  /\ online' = [online EXCEPT ![g] = FALSE]
  /\ link' = [link EXCEPT ![g] = 0]
  /\ seen' = [seen EXCEPT ![g] = Nothing]
  /\ due' = [due EXCEPT ![g] = FALSE]
  /\ jobs' = {j \in jobs : j.by # g}
  /\ told' = [told EXCEPT ![g] = {}]
  /\ UNCHANGED <<row, sent, onRecord, cancelled>>

Init ==
  /\ row = Nothing
  /\ life = [g \in Gateways |-> "off"]
  /\ link = [g \in Gateways |-> 0]
  /\ online = [g \in Gateways |-> FALSE]
  /\ seen = [g \in Gateways |-> Nothing]
  /\ due = [g \in Gateways |-> FALSE]
  /\ jobs = {}
  /\ sent = [o \in Obligations |-> 0]
  /\ onRecord = {} /\ cancelled = {}
  /\ told = [g \in Gateways |-> {}]

JobStep(j) ==
  \/ MarkAttempting(j) \/ MarkFails(j) \/ BeginSend(j) \/ CheckLive(j) \/ Resolve(j)
  \/ \E outcome \in Outcomes : Answer(j, outcome)

GatewayStep(g) ==
  \/ Boot(g) \/ Die(g) \/ Disconnect(g) \/ Reconnect(g)
  \/ \E o \in Obligations : Record(o, g)
  \/ \E Old \in SUBSET Obligations : SweepBoot(g, Old) \/ SweepRuntime(g, Old)

Next ==
  \/ \E g \in Gateways : GatewayStep(g)
  \/ \E j \in jobs : JobStep(j) \/ Cancel(j) \/ GiveBack(j)

Spec == Init /\ [][Next]_vars

(***************************************************************************)
(* Tasks of a gateway run on, sends answer, and the reconnect watcher      *)
(* keeps trying.  Gateways need neither boot nor stay alive.               *)
(***************************************************************************)
JobsOf(g) == \E j \in jobs : j.by = g /\ JobStep(j)

Fairness ==
  \A g \in Gateways :
    /\ WF_vars(JobsOf(g)) /\ WF_vars(Reconnect(g))
    /\ WF_vars(\E Old \in SUBSET Obligations : SweepRuntime(g, Old))

FairSpec == Spec /\ Fairness
-----------------------------------------------------------------------------
(* Properties.                                                             *)

(***************************************************************************)
(* Every variable holds a value of its kind.  The boot sweep judges the    *)
(* cap on the row it read, so that a row whose owner spent its last        *)
(* attempt and died in between gets one more, but never two.               *)
(***************************************************************************)
Attempts == 0..MaxAttempts + 1

TypeOK ==
  /\ row \in [Obligations -> [state : States, owner : Gateways \cup {None},
                              attempts : Attempts, degraded : BOOLEAN]]
  /\ life \in [Gateways -> {"off", "up", "dead"}]
  /\ link \in [Gateways -> 0..MaxLinks]
  /\ online \in [Gateways -> BOOLEAN] /\ due \in [Gateways -> BOOLEAN]
  /\ jobs \subseteq [of : Obligations, by : Gateways, kind : {"turn", "boot", "runtime"},
                     at : {"new", "ready", "sending", "check"}, via : 0..MaxLinks,
                     marked : BOOLEAN, claim : Attempts \cup {-1}]
  /\ sent \in [Obligations -> Nat]
  /\ told \in [Gateways -> SUBSET Obligations]
  /\ onRecord \subseteq Obligations /\ cancelled \subseteq Obligations

(***************************************************************************)
(* The attempts of a row count the redeliveries: a response goes out once  *)
(* for its turn and once for each attempt spent, whatever claims are given *)
(* back and whichever gateways sweep ("attempts is the redelivery budget   *)
(* and must only be spent on a real send", sweep_recoverable).             *)
(***************************************************************************)
SendsAreBudgeted == \A o \in Obligations : sent[o] <= 1 + row[o].attempts

(***************************************************************************)
(* Two gateways never work on the same response (sweep_recoverable, "a     *)
(* second gateway racing the same sweep cannot double-claim"), as long as  *)
(* their process ids differ.                                               *)
(***************************************************************************)
OneGatewayPerRow == \A j, k \in jobs : j.of = k.of => j.by = k.by

(***************************************************************************)
(* A response rejected by a degraded adapter in its turn is taken up again *)
(* once an adapter is back, even if it came back, and was swept for, before*)
(* the rejection landed (_finalize_delivery_obligation); unless the turn   *)
(* is cancelled just there, which leaves the row to the next reconnect.    *)
(***************************************************************************)
Stranded(o, g) ==
  Up(g) /\ row[o].owner = g /\ row[o].state = "failed" /\ row[o].degraded /\ row[o].attempts = 0


(***************************************************************************)
(* What the ledger knew to be handed over when a gateway read it goes out  *)
(* from that gateway with a marker, whichever gateways tried in between,   *)
(* died, or gave a claim back: no update makes a row look unsent again.    *)
(***************************************************************************)
KnownSendsAreFlagged ==
  \A j \in jobs : j.kind # "turn" /\ j.of \in told[j.by] => j.marked
=============================================================================
