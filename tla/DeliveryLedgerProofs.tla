------------------------ MODULE DeliveryLedgerProofs ------------------------
(***************************************************************************)
(* Theorems about DeliveryLedger for every set of obligations, any number  *)
(* of gateways and every cap on attempts.                                  *)
(*                                                                         *)
(* That redeliveries stay within the attempts spent holds however process  *)
(* ids are reused.  What is said of owners needs that they differ, since   *)
(* the boot sweep's claim is guarded by the previous owner's process id.   *)
(***************************************************************************)
EXTENDS DeliveryLedger, FiniteSetTheorems, TLAPS

\* No process id is used twice.
DistinctPids == \A g, h \in Gateways : Pid[g] = Pid[h] => g = h

----------------------------------------------------------------------------
(* The inductive invariant: the budget. *)

\* What the values are, without the bounds.
Kinds == {"turn", "boot", "runtime"}
Positions == {"new", "ready", "sending", "check"}

Rows == [state : States, owner : Gateways \cup {None}, attempts : Nat, degraded : BOOLEAN]

Tasks == [of : Obligations, by : Gateways, kind : Kinds, at : Positions, via : Nat,
          marked : BOOLEAN, claim : Int]

Shape ==
  /\ row \in [Obligations -> Rows]
  /\ seen \in [Gateways -> [Obligations -> Rows]]
  /\ life \in [Gateways -> {"off", "up", "dead"}]
  /\ jobs \subseteq Tasks
  /\ link \in [Gateways -> Nat]
  /\ online \in [Gateways -> BOOLEAN] /\ due \in [Gateways -> BOOLEAN]
  /\ sent \in [Obligations -> Nat]

\* A row that was never recorded is blank and nobody works on it.
Unrecorded ==
  \A o \in Obligations : row[o].state = "none" =>
    row[o] = NoRow /\ \A j \in jobs : j.of # o

\* The tasks that have yet to hand a response over.
Unsent(o) == {j \in jobs : j.of = o /\ j.at \in {"new", "ready"}}

\* A task that has yet to send has spent the attempt it sends for.
Affords(o) ==
  IsFiniteSet(Unsent(o)) /\ sent[o] + Cardinality(Unsent(o)) <= 1 + row[o].attempts

Budgeted == \A o \in Obligations : Affords(o)

BInv == Shape /\ Unrecorded /\ Budgeted

----------------------------------------------------------------------------
(* The inductive invariant: owners. *)

\* Gateways start in their order.
InOrder == \A g \in Gateways : life[g] # "off" => \A h \in 1..g - 1 : life[h] # "off"

\* An adapter is replaced only while there is another to come.
LinksLeft ==
  \A g \in Gateways : link[g] \in 0..MaxLinks /\ (~online[g] => link[g] < MaxLinks)

\* Who works on a response owns its row and lives; marked are the tasks of
\* sweeps over the gateway's own rows.
WorkerOwnsRow ==
  \A j \in jobs :
    /\ Up(j.by) /\ row[j.of].owner = j.by
    /\ j.kind = "runtime" => j.marked
    /\ j.via \in 0..MaxLinks /\ j.claim \in Attempts \cup {-1}

\* A recorded row has an owner that has started.
OwnerStarted ==
  \A o \in Obligations : row[o].state # "none" =>
    row[o].owner \in Gateways /\ life[row[o].owner] # "off"

\* What a gateway has read and not yet judged is of rows it never owned, last
\* owned by gateways before it.
ReadFromEarlier ==
  \A g \in Gateways, o \in Obligations : seen[g][o].state # "none" =>
    /\ Up(g)
    /\ seen[g][o].owner \in 1..g - 1
    /\ row[o].state # "none" /\ row[o].owner # g
    /\ \A h \in Gateways : seen[h][o].state # "none" => seen[h][o].owner # g

\* One attempt beyond the cap is the last: whoever read the row of its owner
\* read it spent.
Capped ==
  \A o \in Obligations :
    /\ row[o].attempts \in Attempts
    /\ row[o].attempts > MaxAttempts =>
         \A g \in Gateways :
           seen[g][o].state # "none" /\ seen[g][o].owner = row[o].owner => Spent(seen[g][o])

OInv == InOrder /\ LinksLeft /\ WorkerOwnsRow /\ OwnerStarted /\ ReadFromEarlier /\ Capped

----------------------------------------------------------------------------
(* The inductive invariant: what the ledger tells. *)

HistoryShape ==
  /\ told \in [Gateways -> SUBSET Obligations]
  /\ onRecord \subseteq Obligations /\ cancelled \subseteq Obligations

\* A row that told of a handing-over never looks unsent again.
RecordStays == \A o \in onRecord : row[o].state \notin {"none", "pending"}

\* What a gateway read as pending was not on record when it read.
ReadTells ==
  \A g \in Gateways, o \in Obligations : seen[g][o].state = "pending" => o \notin told[g]

\* A task runs in a gateway that is up, and carries the marker its reading asks for.
TasksFlag ==
  \A j \in jobs :
    /\ Up(j.by)
    /\ j.kind # "turn" /\ (j.kind = "runtime" \/ j.of \in told[j.by]) => j.marked

KInv == HistoryShape /\ RecordStays /\ ReadTells /\ TasksFlag

----------------------------------------------------------------------------
(* Counting. *)

LEMMA CountFewer ==
    ASSUME NEW S, IsFiniteSet(S), NEW T, T \subseteq S
    PROVE  /\ IsFiniteSet(T)
           /\ Cardinality(S) \in Nat /\ Cardinality(T) \in Nat
           /\ Cardinality(T) <= Cardinality(S)
  BY FS_Subset, FS_CardinalityType

LEMMA CountWithout ==
    ASSUME NEW S, IsFiniteSet(S), NEW x \in S, NEW T, T \subseteq S \ {x}
    PROVE  /\ IsFiniteSet(T)
           /\ Cardinality(S) \in Nat /\ Cardinality(T) \in Nat
           /\ Cardinality(T) + 1 <= Cardinality(S)
<1>1. IsFiniteSet(S \ {x}) /\ Cardinality(S \ {x}) = Cardinality(S) - 1
  BY FS_RemoveElement
<1>2. IsFiniteSet(T) /\ Cardinality(T) \in Nat /\ Cardinality(T) <= Cardinality(S \ {x})
  BY <1>1, CountFewer
<1> QED BY <1>1, <1>2, FS_CardinalityType

LEMMA CountWith ==
    ASSUME NEW S, IsFiniteSet(S), NEW x, NEW T, T \subseteq S \cup {x}
    PROVE  /\ IsFiniteSet(T)
           /\ Cardinality(S) \in Nat /\ Cardinality(T) \in Nat
           /\ Cardinality(T) <= Cardinality(S) + 1
<1>1. /\ IsFiniteSet(S \cup {x}) /\ Cardinality(S) \in Nat
      /\ Cardinality(S \cup {x}) <= Cardinality(S) + 1
  <2>1. /\ IsFiniteSet(S \cup {x})
        /\ Cardinality(S \cup {x}) = IF x \in S THEN Cardinality(S) ELSE Cardinality(S) + 1
    BY FS_AddElement
  <2>2. Cardinality(S) \in Nat
    BY FS_CardinalityType
  <2> QED BY <2>1, <2>2
<1>2. /\ IsFiniteSet(T) /\ Cardinality(T) \in Nat
      /\ Cardinality(S \cup {x}) \in Nat
      /\ Cardinality(T) <= Cardinality(S \cup {x})
  BY <1>1, CountFewer
<1> QED BY <1>1, <1>2

LEMMA CountSwapped ==
    ASSUME NEW S, IsFiniteSet(S), NEW x \in S, NEW y, NEW T, T \subseteq (S \ {x}) \cup {y}
    PROVE  /\ IsFiniteSet(T)
           /\ Cardinality(S) \in Nat /\ Cardinality(T) \in Nat
           /\ Cardinality(T) <= Cardinality(S)
<1>1. /\ IsFiniteSet(S \ {x}) /\ Cardinality(S) \in Nat
      /\ Cardinality(S \ {x}) + 1 <= Cardinality(S) /\ Cardinality(S \ {x}) \in Nat
  BY CountWithout
<1> QED BY <1>1, CountWith

----------------------------------------------------------------------------
(* The budget is kept. *)

\* Tasks are dropped, and no attempt is given back.
LEMMA AffordsFewer ==
    ASSUME BInv, NEW o \in Obligations, Unsent(o)' \subseteq Unsent(o), sent'[o] = sent[o],
           row'[o].attempts \in Nat, row'[o].attempts >= row[o].attempts
    PROVE  Affords(o)'
<1>1. Affords(o) /\ sent[o] \in Nat /\ row[o].attempts \in Nat
  BY DEF BInv, Shape, Budgeted, Rows
<1>2. /\ IsFiniteSet(Unsent(o)')
      /\ Cardinality(Unsent(o)) \in Nat /\ Cardinality(Unsent(o)') \in Nat
      /\ Cardinality(Unsent(o)') <= Cardinality(Unsent(o))
  BY <1>1, CountFewer DEF Affords
<1> QED BY <1>1, <1>2 DEF Affords

\* A task sends, or gives its attempt back.
LEMMA AffordsWithout ==
    ASSUME BInv, NEW o \in Obligations, NEW j \in Unsent(o), Unsent(o)' \subseteq Unsent(o) \ {j},
           row'[o].attempts \in Nat, sent'[o] \in Nat,
           sent'[o] - row'[o].attempts <= 1 + sent[o] - row[o].attempts
    PROVE  Affords(o)'
<1>1. Affords(o) /\ sent[o] \in Nat /\ row[o].attempts \in Nat
  BY DEF BInv, Shape, Budgeted, Rows
<1>2. /\ IsFiniteSet(Unsent(o)')
      /\ Cardinality(Unsent(o)) \in Nat /\ Cardinality(Unsent(o)') \in Nat
      /\ Cardinality(Unsent(o)') + 1 <= Cardinality(Unsent(o))
  BY <1>1, CountWithout DEF Affords
<1> QED BY <1>1, <1>2 DEF Affords

\* A claim spends an attempt for the task it makes.
LEMMA AffordsWith ==
    ASSUME BInv, NEW o \in Obligations, NEW k, Unsent(o)' \subseteq Unsent(o) \cup {k},
           sent'[o] = sent[o], row'[o].attempts = row[o].attempts + 1
    PROVE  Affords(o)'
<1>1. Affords(o) /\ sent[o] \in Nat /\ row[o].attempts \in Nat
  BY DEF BInv, Shape, Budgeted, Rows
<1>2. /\ IsFiniteSet(Unsent(o)')
      /\ Cardinality(Unsent(o)) \in Nat /\ Cardinality(Unsent(o)') \in Nat
      /\ Cardinality(Unsent(o)') <= Cardinality(Unsent(o)) + 1
  BY <1>1, CountWith DEF Affords
<1> QED BY <1>1, <1>2 DEF Affords

\* A task moves on before it has sent.
LEMMA AffordsSwapped ==
    ASSUME BInv, NEW o \in Obligations, NEW j \in Unsent(o), NEW k,
           Unsent(o)' \subseteq (Unsent(o) \ {j}) \cup {k},
           sent'[o] = sent[o], row'[o].attempts = row[o].attempts
    PROVE  Affords(o)'
<1>1. Affords(o) /\ sent[o] \in Nat /\ row[o].attempts \in Nat
  BY DEF BInv, Shape, Budgeted, Rows
<1>2. /\ IsFiniteSet(Unsent(o)')
      /\ Cardinality(Unsent(o)) \in Nat /\ Cardinality(Unsent(o)') \in Nat
      /\ Cardinality(Unsent(o)') <= Cardinality(Unsent(o))
  BY <1>1, CountSwapped DEF Affords
<1> QED BY <1>1, <1>2 DEF Affords

\* An update of a state leaves owners and attempts alone.
LEMMA UpdateEffect ==
    ASSUME Shape, NEW o \in Obligations, NEW s \in States \ {"none"}, NEW d \in BOOLEAN,
           Update(o, s, d)
    PROVE  /\ row' \in [Obligations -> Rows]
           /\ \A p \in Obligations :
                /\ row'[p].attempts = row[p].attempts /\ row'[p].owner = row[p].owner
                /\ (row'[p].state = "none" <=> row[p].state = "none")
                /\ row[p].state = "none" => row'[p] = row[p]
<1>1. CASE row[o].state = "none"
  BY <1>1 DEF Update, Shape, Rows
<1>2. CASE row[o].state # "none"
  <2>1. row' = [row EXCEPT ![o].state = s, ![o].degraded = d]
    BY <1>2 DEF Update
  <2> QED BY <1>2, <2>1, ZenonT(30) DEF Shape, Rows
<1> QED BY <1>1, <1>2

\* What a turn, a redelivery or its answer does to its task and its row.
LEMMA JobBudget ==
    ASSUME BInv, NEW j \in jobs, JobStep(j) \/ Cancel(j) \/ GiveBack(j)
    PROVE  BInv'
<1> DEFINE o == j.of
<1> USE LedgerAssumption DEF history, transport
<1>0. /\ j \in Tasks /\ o \in Obligations /\ Shape
      /\ row \in [Obligations -> Rows] /\ row[o].state # "none"
      /\ \A p \in Obligations : row[p].attempts \in Nat
  BY DEF BInv, Shape, Unrecorded, Tasks, Rows
\* The task goes on as k, or ends; the row is as before but for its state.
<1>1. ASSUME jobs' \subseteq jobs \cup {[j EXCEPT !.at = "check"]}, NEW d \in BOOLEAN,
             Update(o, "delivered", d) \/ Update(o, "failed", d) \/ UNCHANGED row,
             due' \in [Gateways -> BOOLEAN],
             UNCHANGED <<seen, life, link, online, sent>>
      PROVE  BInv'
  <2>1. /\ row' \in [Obligations -> Rows]
        /\ \A p \in Obligations :
             /\ row'[p].attempts = row[p].attempts
             /\ (row'[p].state = "none" <=> row[p].state = "none")
             /\ row[p].state = "none" => row'[p] = row[p]
    <3>1. {"delivered", "failed"} \subseteq States \ {"none"}
      BY DEF States, Owed
    <3>2. CASE Update(o, "delivered", d)
      BY <1>0, <3>1, <3>2, UpdateEffect
    <3>3. CASE Update(o, "failed", d)
      BY <1>0, <3>1, <3>3, UpdateEffect
    <3>4. CASE UNCHANGED row
      BY <1>0, <3>4
    <3> QED BY <1>1, <3>2, <3>3, <3>4
  <2> DEFINE k == [j EXCEPT !.at = "check"]
  <2>2. k \in Tasks /\ k.of = o /\ k \notin Unsent(o)' /\ jobs' \subseteq jobs \cup {k}
    BY <1>0, <1>1 DEF Tasks, Positions, Unsent
  <2> HIDE DEF k
  <2>3. Shape'
    BY <1>1, <2>1, <2>2 DEF BInv, Shape
  <2>4. Unrecorded'
    BY <1>0, <1>1, <2>1, <2>2 DEF BInv, Shape, Unrecorded
  <2>5. ASSUME NEW p \in Obligations PROVE Affords(p)'
    <3>1. Unsent(p)' \subseteq Unsent(p)
      BY <1>0, <1>1, <2>2 DEF Unsent, Tasks
    <3> QED BY <1>0, <1>1, <2>1, <3>1, AffordsFewer
  <2> QED BY <2>3, <2>4, <2>5 DEF BInv, Budgeted
\* The task gets ready to send.
<1>2. ASSUME NEW k \in Tasks, k.of = o, j.at = "new",
             jobs' = (jobs \ {j}) \cup {k},
             Update(o, "attempting", FALSE) \/ UNCHANGED row,
             UNCHANGED <<seen, life, link, online, due, sent>>
      PROVE  BInv'
  <2>1. /\ row' \in [Obligations -> Rows]
        /\ \A p \in Obligations :
             /\ row'[p].attempts = row[p].attempts
             /\ (row'[p].state = "none" <=> row[p].state = "none")
             /\ row[p].state = "none" => row'[p] = row[p]
    BY <1>0, <1>2, UpdateEffect DEF States, Owed
  <2>3. Shape'
    BY <1>2, <2>1 DEF BInv, Shape
  <2>4. Unrecorded'
    BY <1>0, <1>2, <2>1 DEF BInv, Shape, Unrecorded
  <2>5. ASSUME NEW p \in Obligations PROVE Affords(p)'
    <3>1. CASE p # o
      <4>1. Unsent(p)' \subseteq Unsent(p)
        BY <1>2, <3>1 DEF Unsent
      <4> QED BY <1>0, <1>2, <2>1, <4>1, AffordsFewer
    <3>2. CASE p = o
      <4>1. j \in Unsent(p) /\ Unsent(p)' \subseteq (Unsent(p) \ {j}) \cup {k}
        BY <1>2, <3>2 DEF Unsent
      <4> QED BY <1>2, <2>1, <4>1, AffordsSwapped
    <3> QED BY <3>1, <3>2
  <2> QED BY <2>3, <2>4, <2>5 DEF BInv, Budgeted
\* The claim is given back, or the release fails.
<1>3. ASSUME j.at = "new", Ends(j), Release(o, j.by),
             UNCHANGED <<seen, life, link, online, due, sent>>
      PROVE  BInv'
  <2>1. /\ row' \in [Obligations -> Rows]
        /\ \A p \in Obligations :
             /\ row'[p].attempts >= row[p].attempts - 1
             /\ p # o => row'[p] = row[p]
             /\ row[p].state = "none" => row'[p] = row[p]
             /\ row[p].state # "none" => row'[p].state # "none"
    <3>1. CASE UNCHANGED row
      BY <1>0, <3>1
    <3>2. CASE row' = [row EXCEPT ![o].state = "failed", ![o].degraded = TRUE,
                         ![o].attempts = IF @ > 0 THEN @ - 1 ELSE 0]
      BY <1>0, <3>2 DEF Rows, States, Owed
    <3> QED BY <1>3, <3>1, <3>2 DEF Release, Released
  <2>2. jobs' = jobs \ {j}
    BY <1>3 DEF Ends
  <2>3. Shape'
    BY <1>3, <2>1, <2>2 DEF BInv, Shape
  <2>4. Unrecorded'
    BY <1>3, <2>1, <2>2 DEF BInv, Unrecorded
  <2>5. ASSUME NEW p \in Obligations PROVE Affords(p)'
    <3>0. row'[p].attempts \in Nat /\ sent[p] \in Nat
      BY <2>1 DEF Rows, BInv, Shape
    <3>1. CASE p # o
      <4>1. Unsent(p)' \subseteq Unsent(p)
        BY <2>2 DEF Unsent
      <4> QED BY <1>0, <1>3, <2>1, <3>0, <3>1, <4>1, AffordsFewer
    <3>2. CASE p = o
      <4>1. j \in Unsent(p) /\ Unsent(p)' \subseteq Unsent(p) \ {j}
        BY <1>3, <2>2, <3>2 DEF Unsent
      <4>2. sent'[p] - row'[p].attempts <= 1 + sent[p] - row[p].attempts
        BY <1>0, <1>3, <2>1, <3>0
      <4> QED BY <1>3, <3>0, <4>1, <4>2, AffordsWithout
    <3> QED BY <3>1, <3>2
  <2> QED BY <2>3, <2>4, <2>5 DEF BInv, Budgeted
<1>4. CASE MarkAttempting(j)
  <2> DEFINE k == [j EXCEPT !.at = "ready"]
  <2>1. k \in Tasks /\ k.of = o
    BY <1>0 DEF Tasks, Positions
  <2>2. /\ j.at = "new" /\ jobs' = (jobs \ {j}) \cup {k} /\ Update(o, "attempting", FALSE)
        /\ UNCHANGED <<seen, life, link, online, due, sent>>
    BY <1>4 DEF MarkAttempting, Becomes
  <2> HIDE DEF k
  <2> QED BY <1>2, <2>1, <2>2
<1>5. CASE MarkFails(j)
  <2> DEFINE k == [j EXCEPT !.at = "ready", !.claim = -1]
  <2>1. k \in Tasks /\ k.of = o
    <3>1. ASSUME NEW c \in Int
          PROVE  LET t == [j EXCEPT !.at = "ready", !.claim = c] IN t \in Tasks /\ t.of = o
      BY <1>0 DEF Tasks, Positions
    <3>2. -1 \in Int
      OBVIOUS
    <3> QED BY <3>1, <3>2, Zenon
  <2>2. /\ j.at = "new" /\ jobs' = (jobs \ {j}) \cup {k} /\ UNCHANGED row
        /\ UNCHANGED <<seen, life, link, online, due, sent>>
    BY <1>5 DEF MarkFails, Becomes
  <2> HIDE DEF k
  <2> QED BY <1>2, <2>1, <2>2
<1>6. CASE BeginSend(j)
  <2> DEFINE k == [j EXCEPT !.at = "sending"]
  <2>1. k \in Tasks /\ k.of = o /\ k.at = "sending"
    <3>1. k.at = "sending" /\ k.of = o
      BY <1>0 DEF Tasks
    <3> QED BY <1>0, <3>1 DEF Tasks, Positions
  <2>2. /\ j.at = "ready" /\ jobs' = (jobs \ {j}) \cup {k}
        /\ sent' = [sent EXCEPT ![o] = @ + 1]
        /\ UNCHANGED <<row, seen, life, link, online, due>>
    BY <1>6 DEF BeginSend, Becomes
  <2> HIDE DEF k
  <2>3. Shape'
    BY <1>0, <2>1, <2>2 DEF BInv, Shape
  <2>4. Unrecorded'
    BY <1>0, <2>1, <2>2 DEF BInv, Shape, Unrecorded
  <2>5. ASSUME NEW p \in Obligations PROVE Affords(p)'
    <3>1. CASE p # o
      <4>1. Unsent(p)' \subseteq Unsent(p) /\ sent'[p] = sent[p]
        BY <1>0, <2>1, <2>2, <3>1 DEF Unsent, Shape
      <4> QED BY <1>0, <2>2, <4>1, AffordsFewer
    <3>2. CASE p = o
      <4>1. j \in Unsent(p) /\ Unsent(p)' \subseteq Unsent(p) \ {j}
        BY <2>1, <2>2, <3>2 DEF Unsent
      <4>2. sent'[p] = sent[p] + 1 /\ sent'[p] \in Nat /\ sent[p] \in Nat
        BY <1>0, <2>2, <3>2 DEF Shape
      <4> QED BY <1>0, <2>2, <4>1, <4>2, AffordsWithout
    <3> QED BY <3>1, <3>2
  <2> QED BY <2>3, <2>4, <2>5 DEF BInv, Budgeted
<1>7. ASSUME NEW outcome \in Outcomes, Answer(j, outcome) PROVE BInv'
  <2>1. jobs' \subseteq jobs \cup {[j EXCEPT !.at = "check"]}
    BY <1>7 DEF Answer, Ends, Becomes
  <2>2. \/ Update(o, "delivered", outcome = "degraded")
        \/ Update(o, "failed", outcome = "degraded") \/ UNCHANGED row
    BY <1>7 DEF Answer, Verdict
  <2>3. due' \in [Gateways -> BOOLEAN] /\ UNCHANGED <<seen, life, link, online, sent>>
    BY <1>0, <1>7 DEF Answer, Shape
  <2>4. (outcome = "degraded") \in BOOLEAN
    OBVIOUS
  <2> QED BY <1>1, <2>1, <2>2, <2>3, <2>4
<1>8. CASE Cancel(j) \/ CheckLive(j)
  <2>1. jobs' \subseteq jobs \cup {[j EXCEPT !.at = "check"]}
    BY <1>8 DEF Cancel, CheckLive, Ends
  <2>2. UNCHANGED <<row, seen, life, link, online, sent>>
    BY <1>8 DEF Cancel, CheckLive
  <2>3. due' \in [Gateways -> BOOLEAN]
    BY <1>0, <1>8 DEF Cancel, CheckLive, Shape, Tasks, Replaced
  <2> QED BY <1>1, <2>1, <2>2, <2>3
<1>9. CASE GiveBack(j)
  BY <1>3, <1>9 DEF GiveBack
<1>10. CASE Resolve(j)
  <2>0. /\ j.at = "new" /\ UNCHANGED <<seen, life, link, online, due, sent>>
    BY <1>10 DEF Resolve
  <2>1. CASE online[j.by]
    <3> DEFINE k == [j EXCEPT !.at = "ready", !.via = link[j.by]]
    <3>1. k \in Tasks /\ k.of = o
      BY <1>0 DEF Tasks, Positions, Shape
    <3>2. jobs' = (jobs \ {j}) \cup {k} /\ UNCHANGED row
      BY <1>10, <2>1 DEF Resolve, Becomes
    <3> HIDE DEF k
    <3> QED BY <1>2, <2>0, <3>1, <3>2
  <2>2. CASE ~online[j.by] /\ j.kind = "runtime"
    BY <1>3, <1>10, <2>0, <2>2 DEF Resolve
  <2>3. CASE ~online[j.by] /\ j.kind # "runtime"
    <3>1. jobs' \subseteq jobs \cup {[j EXCEPT !.at = "check"]} /\ UNCHANGED row
      BY <1>10, <2>3 DEF Resolve, Ends
    <3> QED BY <1>0, <1>1, <2>0, <3>1 DEF Shape
  <2> QED BY <2>1, <2>2, <2>3
<1> QED BY <1>4, <1>5, <1>6, <1>7, <1>8, <1>9, <1>10 DEF JobStep

\* A claim changes owner and attempts.
LEMMA ClaimedEffect ==
    ASSUME NEW k \in Rows, NEW g \in Gateways
    PROVE  /\ Claimed(k, g) \in Rows
           /\ Claimed(k, g).attempts = k.attempts + 1 /\ Claimed(k, g).owner = g
           /\ Claimed(k, g).state = k.state
<1>1. k.attempts + 1 \in Nat
  BY DEF Rows
<1> QED BY <1>1 DEF Claimed, Rows

\* What gateways do to the rows they record and sweep.
LEMMA GatewayBudget ==
    ASSUME BInv, NEW g \in Gateways, GatewayStep(g)
    PROVE  BInv'
<1> USE LedgerAssumption DEF history, transport
<1>0. /\ Shape /\ NoRow \in Rows /\ Nothing \in [Obligations -> Rows]
      /\ \A p \in Obligations : row[p].attempts \in Nat
  BY DEF BInv, Shape, Rows, NoRow, Nothing, States, Owed
\* No row changes and no task is new.
<1>1. ASSUME Shape', jobs' \subseteq jobs, UNCHANGED <<row, sent>> PROVE BInv'
  <2>1. Unrecorded'
    BY <1>1 DEF BInv, Unrecorded
  <2>2. ASSUME NEW p \in Obligations PROVE Affords(p)'
    <3>1. Unsent(p)' \subseteq Unsent(p)
      BY <1>1 DEF Unsent
    <3> QED BY <1>0, <1>1, <3>1, AffordsFewer
  <2> QED BY <1>1, <2>1, <2>2 DEF BInv, Budgeted
\* Rows are judged: some are closed, some claimed for a task each.
<1>2. ASSUME Shape', UNCHANGED <<sent>>,
             \A o \in Obligations : row'[o].state = "none" => row'[o] = row[o],
             \A o \in Obligations :
               \/ /\ row'[o].attempts = row[o].attempts
                  /\ \A k \in jobs' : k.of = o => k \in jobs
               \/ /\ row'[o].attempts = row[o].attempts + 1
                  /\ row[o].state # "none" /\ row'[o].state # "none"
                  /\ \E k : \A i \in jobs' : i.of = o => i \in jobs \/ i = k
      PROVE  BInv'
  <2>1. Unrecorded'
    BY <1>0, <1>2 DEF BInv, Shape, Unrecorded
  <2>2. ASSUME NEW p \in Obligations PROVE Affords(p)'
    <3>1. CASE row'[p].attempts = row[p].attempts /\ \A k \in jobs' : k.of = p => k \in jobs
      <4>1. Unsent(p)' \subseteq Unsent(p)
        BY <3>1 DEF Unsent
      <4> QED BY <1>0, <1>2, <3>1, <4>1, AffordsFewer
    <3>2. ASSUME row'[p].attempts = row[p].attempts + 1,
                 NEW k, \A i \in jobs' : i.of = p => i \in jobs \/ i = k
          PROVE  Affords(p)'
      <4>1. Unsent(p)' \subseteq Unsent(p) \cup {k}
        BY <3>2 DEF Unsent
      <4> QED BY <1>2, <3>2, <4>1, AffordsWith
    <3> QED BY <1>2, <3>1, <3>2
  <2> QED BY <1>2, <2>1, <2>2 DEF BInv, Budgeted
<1>3. CASE Boot(g)
  <2>1. Shape'
    BY <1>0, <1>3 DEF Boot, Shape
  <2> QED BY <1>1, <1>3, <2>1 DEF Boot
<1>4. CASE Die(g)
  <2>1. Shape'
    BY <1>0, <1>4 DEF Die, Shape
  <2> QED BY <1>1, <1>4, <2>1 DEF Die
<1>5. CASE Disconnect(g) \/ Reconnect(g)
  <2>1. ASSUME Disconnect(g) PROVE Shape'
    BY <1>0, <2>1 DEF Disconnect, Shape
  <2>2. ASSUME Reconnect(g) PROVE Shape'
    <3>1. link[g] + 1 \in Nat
      BY <1>0 DEF Shape
    <3> QED BY <1>0, <2>2, <3>1 DEF Reconnect, Shape
  <2>3. Shape'
    BY <1>5, <2>1, <2>2
  <2> QED BY <1>1, <1>5, <2>3 DEF Disconnect, Reconnect
<1>6. ASSUME NEW o \in Obligations, Record(o, g) PROVE BInv'
  <2> DEFINE k == [Job(o, g, "turn", FALSE, 0) EXCEPT !.via = link[g]]
             r == [NoRow EXCEPT !.state = "pending", !.owner = g]
  <2>1. k \in Tasks /\ k.of = o
    <3>1. /\ Job(o, g, "turn", FALSE, 0) \in Tasks /\ Job(o, g, "turn", FALSE, 0).of = o
          /\ link[g] \in Nat
      BY <1>0 DEF Job, Tasks, Kinds, Positions, Shape
    <3> QED BY <3>1 DEF Tasks
  <2>2. r \in Rows /\ r.state # "none" /\ r.attempts = 0
    BY DEF NoRow, Rows, States, Owed
  <2>3. /\ row[o].state = "none" /\ sent[o] = 0 /\ \A j \in jobs : j.of # o
        /\ row' = [row EXCEPT ![o] = r] /\ jobs' = jobs \cup {k}
        /\ UNCHANGED <<life, link, online, seen, due, sent>>
    BY <1>6 DEF Record
  <2> HIDE DEF k, r
  <2>4. Shape'
    BY <1>0, <2>1, <2>2, <2>3 DEF Shape
  <2>5. Unrecorded'
    BY <1>0, <2>1, <2>2, <2>3 DEF BInv, Shape, Unrecorded
  <2>6. ASSUME NEW p \in Obligations PROVE Affords(p)'
    <3>1. CASE p # o
      <4>1. Unsent(p)' \subseteq Unsent(p) /\ row'[p] = row[p]
        BY <1>0, <2>1, <2>3, <3>1 DEF Unsent, Shape
      <4> QED BY <1>0, <2>3, <4>1, AffordsFewer
    <3>2. CASE p = o
      <4>1. Unsent(p) = {} /\ Unsent(p)' \subseteq Unsent(p) \cup {k}
        BY <2>3, <3>2 DEF Unsent
      <4>2. /\ IsFiniteSet(Unsent(p)') /\ Cardinality(Unsent(p)') \in Nat
            /\ Cardinality(Unsent(p)') <= 1
        <5>1. IsFiniteSet({}) /\ Cardinality({}) = 0
          BY FS_EmptySet
        <5> QED BY <4>1, <5>1, CountWith
      <4>3. row'[p].attempts = 0 /\ sent'[p] = 0
        BY <1>0, <2>2, <2>3, <3>2 DEF Shape
      <4> QED BY <4>2, <4>3 DEF Affords
    <3> QED BY <3>1, <3>2
  <2> QED BY <2>4, <2>5, <2>6 DEF BInv, Budgeted
<1>7. ASSUME NEW Old \in SUBSET Obligations, SweepBoot(g, Old) PROVE BInv'
  <2> DEFINE Dead == {o \in Obligations : seen[g][o].state # "none" /\ ~OwnerAlive(seen[g][o])}
             Given == {o \in Dead : Spent(seen[g][o]) \/ o \in Old}
             Taken == IF online[g] THEN {o \in Dead \ Given : StillOwned(o, seen[g][o])} ELSE {}
             T == [o \in Obligations |->
                     Job(o, g, "boot", seen[g][o].state # "pending", seen[g][o].attempts + 1)]
  <2>1. /\ row' = [o \in Obligations |->
                     CASE o \in Given /\ row[o].state # "none" -> [row[o] EXCEPT !.state = "abandoned"]
                       [] o \in Taken -> Claimed(row[o], g)
                       [] OTHER -> row[o]]
        /\ jobs' = jobs \cup {T[o] : o \in Taken}
        /\ seen' = [seen EXCEPT ![g] = Nothing]
        /\ UNCHANGED <<due, life, link, online, sent>>
    BY <1>7 DEF SweepBoot, NeedsMarker
  <2>2. \A o \in Obligations : seen[g][o] \in Rows /\ row[o] \in Rows
    BY <1>0 DEF Shape
  <2>3. \A o \in Obligations : T[o] \in Tasks /\ T[o].of = o
    BY <2>2 DEF Job, Tasks, Kinds, Positions, Rows
  <2>4. Taken \in SUBSET Obligations /\ Taken \cap Given = {} /\ \A o \in Taken : row[o].state # "none"
    BY DEF StillOwned
  <2>5. seen' \in [Gateways -> [Obligations -> Rows]]
    BY <1>0, <2>1 DEF Shape
  <2> HIDE DEF Given, Taken, T
  <2>6. /\ row' \in [Obligations -> Rows]
        /\ \A o \in Obligations : row'[o].state = "none" => row'[o] = row[o]
        /\ \A o \in Taken : row'[o].attempts = row[o].attempts + 1
        /\ \A o \in Obligations \ Taken : row'[o].attempts = row[o].attempts
    <3>1. ASSUME NEW o \in Obligations
          PROVE /\ [row[o] EXCEPT !.state = "abandoned"] \in Rows
                /\ [row[o] EXCEPT !.state = "abandoned"].attempts = row[o].attempts
                /\ [row[o] EXCEPT !.state = "abandoned"].state # "none"
      BY <2>2 DEF Rows, States
    <3>2. ASSUME NEW o \in Obligations
          PROVE /\ Claimed(row[o], g) \in Rows
                /\ Claimed(row[o], g).attempts = row[o].attempts + 1
                /\ Claimed(row[o], g).state = row[o].state
      BY <2>2, ClaimedEffect
    <3> QED BY <2>1, <2>2, <2>4, <3>1, <3>2
  <2>7. Shape'
    BY <1>0, <2>1, <2>3, <2>4, <2>5, <2>6 DEF Shape
  <2>8. ASSUME NEW o \in Obligations
        PROVE  \/ /\ row'[o].attempts = row[o].attempts
                  /\ \A k \in jobs' : k.of = o => k \in jobs
               \/ /\ row'[o].attempts = row[o].attempts + 1
                  /\ row[o].state # "none" /\ row'[o].state # "none"
                  /\ \E k : \A i \in jobs' : i.of = o => i \in jobs \/ i = k
    <3>1. CASE o \in Taken
      <4>1. \A i \in jobs' : i.of = o => i \in jobs \/ i = T[o]
        BY <2>1, <2>3, <2>4
      <4>2. row'[o].state # "none"
        BY <2>4, <2>6, <3>1
      <4> QED BY <2>4, <2>6, <3>1, <4>1, <4>2
    <3>2. CASE o \notin Taken
      BY <2>1, <2>3, <2>4, <2>6, <3>2
    <3> QED BY <3>1, <3>2
  <2> QED BY <1>2, <2>1, <2>6, <2>7, <2>8
<1>8. ASSUME NEW Old \in SUBSET Obligations, SweepRuntime(g, Old) PROVE BInv'
  <2> DEFINE Mine == {o \in Obligations : row[o].state = "failed" /\ row[o].owner = g /\ row[o].degraded}
             Given == {o \in Mine : Spent(row[o]) \/ o \in Old}
             Taken == Mine \ Given
             T == [o \in Obligations |-> Job(o, g, "runtime", TRUE, row[o].attempts + 1)]
  <2>1. /\ row' = [o \in Obligations |->
                     CASE o \in Given -> [row[o] EXCEPT !.state = "abandoned"]
                       [] o \in Taken -> [Claimed(row[o], g) EXCEPT !.state = "attempting",
                                                                    !.degraded = FALSE]
                       [] OTHER -> row[o]]
    BY <1>8 DEF SweepRuntime
  <2>0. /\ jobs' = jobs \cup {T[o] : o \in Taken}
        /\ due' = [due EXCEPT ![g] = FALSE]
        /\ UNCHANGED <<seen, life, link, online, sent>>
    BY <1>8 DEF SweepRuntime
  <2>2. \A o \in Obligations : row[o] \in Rows
    BY <1>0 DEF Shape
  <2>3. \A o \in Obligations : T[o] \in Tasks /\ T[o].of = o
    BY <2>2 DEF Job, Tasks, Kinds, Positions, Rows
  <2>4. Taken \in SUBSET Obligations /\ Taken \cap Given = {} /\ \A o \in Taken : row[o].state # "none"
    OBVIOUS
  <2>5. due' \in [Gateways -> BOOLEAN]
    BY <1>0, <2>0 DEF Shape
  <2> HIDE DEF Given, Taken, T
  <2>6. /\ row' \in [Obligations -> Rows]
        /\ \A o \in Obligations : row'[o].state = "none" => row'[o] = row[o]
        /\ \A o \in Taken : row'[o].attempts = row[o].attempts + 1
        /\ \A o \in Obligations \ Taken : row'[o].attempts = row[o].attempts
    <3>1. ASSUME NEW o \in Obligations
          PROVE /\ [row[o] EXCEPT !.state = "abandoned"] \in Rows
                /\ [row[o] EXCEPT !.state = "abandoned"].attempts = row[o].attempts
                /\ [row[o] EXCEPT !.state = "abandoned"].state # "none"
      BY <2>2 DEF Rows, States
    <3>2. ASSUME NEW o \in Obligations
          PROVE LET k == [Claimed(row[o], g) EXCEPT !.state = "attempting", !.degraded = FALSE]
                IN  k \in Rows /\ k.attempts = row[o].attempts + 1 /\ k.state # "none"
      <4>1. Claimed(row[o], g) \in Rows /\ Claimed(row[o], g).attempts = row[o].attempts + 1
        BY <2>2, ClaimedEffect
      <4>2. "attempting" \in States
        BY DEF States, Owed
      <4> QED BY <4>1, <4>2 DEF Rows
    <3> QED BY <2>1, <2>2, <2>4, <3>1, <3>2
  <2>7. Shape'
    BY <1>0, <2>0, <2>3, <2>4, <2>5, <2>6 DEF Shape
  <2>8. ASSUME NEW o \in Obligations
        PROVE  \/ /\ row'[o].attempts = row[o].attempts
                  /\ \A k \in jobs' : k.of = o => k \in jobs
               \/ /\ row'[o].attempts = row[o].attempts + 1
                  /\ row[o].state # "none" /\ row'[o].state # "none"
                  /\ \E k : \A i \in jobs' : i.of = o => i \in jobs \/ i = k
    <3>1. CASE o \in Taken
      <4>1. \A i \in jobs' : i.of = o => i \in jobs \/ i = T[o]
        BY <2>0, <2>3, <2>4
      <4>2. row'[o].state # "none"
        BY <2>4, <2>6, <3>1
      <4> QED BY <2>4, <2>6, <3>1, <4>1, <4>2
    <3>2. CASE o \notin Taken
      BY <2>0, <2>3, <2>4, <2>6, <3>2
    <3> QED BY <3>1, <3>2
  <2> QED BY <1>2, <2>0, <2>6, <2>7, <2>8
<1> QED BY <1>3, <1>4, <1>5, <1>6, <1>7, <1>8 DEF GatewayStep

LEMMA InitBInv == Init => BInv
<1> SUFFICES ASSUME Init PROVE BInv
  OBVIOUS
<1>1. Shape
  BY DEF Init, Shape, Nothing, NoRow, Rows, States, Owed
<1>2. Unrecorded
  BY DEF Init, Unrecorded, Nothing
<1>3. Budgeted
  BY FS_EmptySet DEF Init, Budgeted, Affords, Unsent, Nothing, NoRow
<1> QED BY <1>1, <1>2, <1>3 DEF BInv

LEMMA StutterBInv == ASSUME BInv, UNCHANGED vars PROVE BInv'
  BY DEF BInv, Shape, Unrecorded, Budgeted, Affords, Unsent, vars

LEMMA NextBInv == BInv /\ [Next]_vars => BInv'
  BY JobBudget, GatewayBudget, StutterBInv DEF Next

\* However process ids are reused and claims given back, a response goes out
\* once for its turn and once for each attempt spent on it.
THEOREM RedeliveriesAreBudgeted == Spec => []SendsAreBudgeted
<1>1. BInv => SendsAreBudgeted
  <2> SUFFICES ASSUME BInv, NEW o \in Obligations PROVE sent[o] <= 1 + row[o].attempts
    BY DEF SendsAreBudgeted
  <2>1. /\ sent[o] \in Nat /\ row[o].attempts \in Nat /\ Affords(o)
        /\ Cardinality(Unsent(o)) \in Nat
    BY FS_CardinalityType DEF BInv, Shape, Rows, Budgeted, Affords
  <2> QED BY <2>1 DEF Affords
<1> QED BY <1>1, InitBInv, NextBInv, PTL DEF Spec

----------------------------------------------------------------------------
(* Owners, when process ids differ. *)

\* What every step of a task leaves alone.
LEMMA JobEffect ==
    ASSUME BInv, NEW j \in jobs, JobStep(j) \/ Cancel(j) \/ GiveBack(j)
    PROVE  /\ UNCHANGED <<life, link, online, seen>>
           /\ \A p \in Obligations :
                /\ row'[p].owner = row[p].owner /\ row'[p].attempts <= row[p].attempts
                /\ row'[p].state = "none" <=> row[p].state = "none"
           /\ \E k \in Tasks :
                /\ k.of = j.of /\ k.by = j.by /\ k.kind = j.kind /\ k.marked = j.marked
                /\ k.via \in {j.via, link[j.by]} /\ k.claim \in {j.claim, -1}
                /\ \/ jobs' \subseteq jobs \cup {k} /\ k.at = "check"
                   \/ jobs' \subseteq (jobs \ {j}) \cup {k} /\ j.at = "new"
                   \/ /\ jobs' \subseteq (jobs \ {j}) \cup {k}
                      /\ j.at = "ready" /\ k.at = "sending"
<1> USE LedgerAssumption DEF history, transport
<1> DEFINE o == j.of
           Same == \A p \in Obligations :
                     /\ row'[p].owner = row[p].owner /\ row'[p].attempts <= row[p].attempts
                     /\ row'[p].state = "none" <=> row[p].state = "none"
<1>0. /\ j \in Tasks /\ o \in Obligations /\ Shape /\ row[o].state # "none"
      /\ \A p \in Obligations : row[p] \in Rows /\ row[p].attempts \in Nat
      /\ link[j.by] \in Nat
  BY DEF BInv, Shape, Unrecorded, Tasks, Rows
<1>1. ASSUME NEW s \in {"attempting", "delivered", "failed"}, NEW d \in BOOLEAN, Update(o, s, d)
      PROVE  Same
  <2>1. s \in States \ {"none"}
    BY DEF States, Owed
  <2>2. \A p \in Obligations :
           /\ row'[p].attempts = row[p].attempts /\ row'[p].owner = row[p].owner
           /\ (row'[p].state = "none" <=> row[p].state = "none")
    BY <1>0, <1>1, <2>1, UpdateEffect
  <2> QED BY <1>0, <2>2
<1>2. UNCHANGED row => Same
  BY <1>0
<1>3. Release(o, j.by) => Same
  <2> SUFFICES ASSUME row' = [row EXCEPT ![o].state = "failed", ![o].degraded = TRUE,
                                ![o].attempts = IF @ > 0 THEN @ - 1 ELSE 0]
               PROVE  Same
    BY <1>2 DEF Release, Released
  <2> QED BY <1>0 DEF Shape, Rows
<1> HIDE DEF Same
<1> DEFINE Moves(x, c, v) == [j EXCEPT !.at = x, !.claim = c, !.via = v]
<1>4. ASSUME NEW x \in Positions, NEW c \in Int, NEW v \in Nat
      PROVE  /\ Moves(x, c, v) \in Tasks /\ Moves(x, c, v).of = o /\ Moves(x, c, v).by = j.by
             /\ Moves(x, c, v).kind = j.kind /\ Moves(x, c, v).marked = j.marked
             /\ Moves(x, c, v).at = x /\ Moves(x, c, v).claim = c /\ Moves(x, c, v).via = v
  BY <1>0 DEF Tasks
<1>5. /\ [j EXCEPT !.at = "ready"] = Moves("ready", j.claim, j.via)
      /\ [j EXCEPT !.at = "sending"] = Moves("sending", j.claim, j.via)
      /\ [j EXCEPT !.at = "check"] = Moves("check", j.claim, j.via)
      /\ [j EXCEPT !.at = "ready", !.via = link[j.by]] = Moves("ready", j.claim, link[j.by])
      /\ [j EXCEPT !.at = "ready", !.claim = -1] = Moves("ready", -1, j.via)
  BY <1>0 DEF Tasks
<1>6. j.claim \in Int /\ j.via \in Nat /\ -1 \in Int /\ {"ready", "sending", "check"} \subseteq Positions
  BY <1>0 DEF Tasks, Positions
<1> HIDE DEF Moves
<1>7. CASE MarkAttempting(j)
  <2> DEFINE k == Moves("ready", j.claim, j.via)
  <2>1. /\ jobs' = (jobs \ {j}) \cup {k} /\ j.at = "new"
        /\ UNCHANGED <<life, link, online, seen>> /\ Update(o, "attempting", FALSE)
    BY <1>5, <1>7 DEF MarkAttempting, Becomes
  <2>2. Same
    BY <1>1, <2>1
  <2>3. k \in Tasks /\ k.of = o /\ k.by = j.by /\ k.kind = j.kind /\ k.marked = j.marked
        /\ k.claim = j.claim /\ k.via = j.via
    BY <1>4, <1>6
  <2> HIDE DEF k
  <2> QED BY <2>1, <2>2, <2>3 DEF Same
<1>8. CASE MarkFails(j)
  <2> DEFINE k == Moves("ready", -1, j.via)
  <2>1. /\ jobs' = (jobs \ {j}) \cup {k} /\ j.at = "new"
        /\ UNCHANGED <<life, link, online, seen, row>>
    BY <1>5, <1>8 DEF MarkFails, Becomes
  <2> QED BY <1>2, <1>4, <1>6, <2>1 DEF Same
<1>9. CASE BeginSend(j)
  <2> DEFINE k == Moves("sending", j.claim, j.via)
  <2>1. /\ jobs' = (jobs \ {j}) \cup {k} /\ j.at = "ready"
        /\ UNCHANGED <<life, link, online, seen, row>>
    BY <1>5, <1>9 DEF BeginSend, Becomes
  <2> QED BY <1>2, <1>4, <1>6, <2>1 DEF Same
\* All other steps end the task or leave it to check.
<1>10. ASSUME jobs' \subseteq jobs \cup {[j EXCEPT !.at = "check"]}, Same,
              UNCHANGED <<life, link, online, seen>>
       PROVE  \E k \in Tasks :
                /\ k.of = j.of /\ k.by = j.by /\ k.kind = j.kind /\ k.marked = j.marked
                /\ k.via \in {j.via, link[j.by]} /\ k.claim \in {j.claim, -1}
                /\ jobs' \subseteq jobs \cup {k} /\ k.at = "check"
  BY <1>4, <1>5, <1>6, <1>10
<1>11. ASSUME NEW outcome \in Outcomes, Answer(j, outcome)
       PROVE  /\ jobs' \subseteq jobs \cup {[j EXCEPT !.at = "check"]} /\ Same
              /\ UNCHANGED <<life, link, online, seen>>
  <2>1. /\ jobs' \subseteq jobs \cup {[j EXCEPT !.at = "check"]}
        /\ UNCHANGED <<life, link, online, seen>>
    BY <1>11 DEF Answer, Ends, Becomes
  <2>2. \/ Update(o, "delivered", outcome = "degraded")
        \/ Update(o, "failed", outcome = "degraded") \/ UNCHANGED row
    BY <1>11 DEF Answer, Verdict
  <2>3. (outcome = "degraded") \in BOOLEAN
    OBVIOUS
  <2> QED BY <1>1, <1>2, <2>1, <2>2, <2>3
<1>12. ASSUME Cancel(j) \/ CheckLive(j) \/ GiveBack(j) \/ (Resolve(j) /\ ~online[j.by])
       PROVE  /\ jobs' \subseteq jobs \cup {[j EXCEPT !.at = "check"]} /\ Same
              /\ UNCHANGED <<life, link, online, seen>>
  <2>1. UNCHANGED row \/ Release(o, j.by)
    BY <1>12 DEF Cancel, CheckLive, GiveBack, Resolve
  <2>2. /\ jobs' \subseteq jobs \cup {[j EXCEPT !.at = "check"]}
        /\ UNCHANGED <<life, link, online, seen>>
    BY <1>12 DEF Cancel, CheckLive, GiveBack, Resolve, Ends
  <2> QED BY <1>2, <1>3, <2>1, <2>2
<1>13. CASE Resolve(j) /\ online[j.by]
  <2> DEFINE k == Moves("ready", j.claim, link[j.by])
  <2>1. /\ jobs' = (jobs \ {j}) \cup {k} /\ j.at = "new"
        /\ UNCHANGED <<life, link, online, seen, row>>
    BY <1>5, <1>13 DEF Resolve, Becomes
  <2> QED BY <1>0, <1>2, <1>4, <1>6, <2>1 DEF Same
<1>14. ASSUME \/ \E outcome \in Outcomes : Answer(j, outcome)
              \/ Cancel(j) \/ CheckLive(j) \/ GiveBack(j) \/ (Resolve(j) /\ ~online[j.by])
       PROVE  /\ UNCHANGED <<life, link, online, seen>> /\ Same
              /\ \E k \in Tasks :
                   /\ k.of = j.of /\ k.by = j.by /\ k.kind = j.kind /\ k.marked = j.marked
                   /\ k.via \in {j.via, link[j.by]} /\ k.claim \in {j.claim, -1}
                   /\ jobs' \subseteq jobs \cup {k} /\ k.at = "check"
  <2>1. /\ jobs' \subseteq jobs \cup {[j EXCEPT !.at = "check"]} /\ Same
        /\ UNCHANGED <<life, link, online, seen>>
    BY <1>11, <1>12, <1>14
  <2> QED BY <1>10, <2>1
<1>15. CASE \/ \E outcome \in Outcomes : Answer(j, outcome)
            \/ Cancel(j) \/ CheckLive(j) \/ GiveBack(j) \/ (Resolve(j) /\ ~online[j.by])
  BY <1>14, <1>15 DEF Same
<1> QED
  BY <1>7, <1>8, <1>9, <1>13, <1>15 DEF JobStep

\* A sweep at start-up closes rows of dead owners, or takes them over.
LEMMA SweepBootEffect ==
    ASSUME BInv, OInv, DistinctPids, NEW g \in Gateways, NEW Old \in SUBSET Obligations,
           SweepBoot(g, Old), NEW o \in Obligations
    PROVE  \/ /\ row'[o].owner = row[o].owner /\ row'[o].attempts = row[o].attempts
              /\ row'[o].state = "none" <=> row[o].state = "none"
              /\ \A k \in jobs' : k.of = o => k \in jobs
           \/ /\ row'[o].owner = g /\ row'[o].attempts = row[o].attempts + 1
              /\ row[o].state # "none" /\ row'[o].state # "none"
              /\ seen[g][o].state # "none" /\ ~Spent(seen[g][o])
              /\ row[o].owner = seen[g][o].owner /\ life[row[o].owner] = "dead"
              /\ \A k \in jobs : k.of # o
              /\ \E n \in Attempts :
                   \A k \in jobs' : k.of = o =>
                     k = Job(o, g, "boot", seen[g][o].state # "pending", n)
<1> DEFINE Dead == {p \in Obligations : seen[g][p].state # "none" /\ ~OwnerAlive(seen[g][p])}
           Given == {p \in Dead : Spent(seen[g][p]) \/ p \in Old}
           Taken == IF online[g] THEN {p \in Dead \ Given : StillOwned(p, seen[g][p])} ELSE {}
           T == [p \in Obligations |->
                   Job(p, g, "boot", seen[g][p].state # "pending", seen[g][p].attempts + 1)]
<1>1. /\ row' = [p \in Obligations |->
                   CASE p \in Given /\ row[p].state # "none" -> [row[p] EXCEPT !.state = "abandoned"]
                     [] p \in Taken -> Claimed(row[p], g)
                     [] OTHER -> row[p]]
      /\ jobs' = jobs \cup {T[p] : p \in Taken}
  BY DEF SweepBoot, NeedsMarker
<1>2. row[o] \in Rows /\ seen[g][o] \in Rows
  BY DEF BInv, Shape
<1>3. Taken \subseteq Obligations /\ \A p \in Obligations : T[p].of = p
  BY DEF Job
<1>4. CASE o \notin Taken
  <2>1. row'[o] = row[o] \/ (row[o].state # "none" /\ row'[o] = [row[o] EXCEPT !.state = "abandoned"])
    BY <1>1, <1>4
  <2>2. /\ row'[o].owner = row[o].owner /\ row'[o].attempts = row[o].attempts
        /\ row'[o].state = "none" <=> row[o].state = "none"
    BY <1>2, <2>1 DEF Rows
  <2>3. \A k \in jobs' : k.of = o => k \in jobs
    <3> HIDE DEF Taken, T
    <3> QED BY <1>1, <1>3, <1>4
  <2> QED BY <2>2, <2>3
<1>5. CASE o \in Taken
  <2>1. /\ seen[g][o].state # "none" /\ ~OwnerAlive(seen[g][o]) /\ ~Spent(seen[g][o])
        /\ row[o].state # "none" /\ Pid[row[o].owner] = Pid[seen[g][o].owner]
    BY <1>5 DEF StillOwned
  <2>2. /\ seen[g][o].owner \in Gateways /\ row[o].owner \in Gateways
        /\ life[row[o].owner] # "off"
    <3>1. seen[g][o].owner \in 1..g - 1
      BY <2>1 DEF OInv, ReadFromEarlier
    <3>2. row[o].owner \in Gateways /\ life[row[o].owner] # "off"
      BY <2>1 DEF OInv, OwnerStarted
    <3> QED BY <3>1, <3>2, LedgerAssumption DEF Gateways
  <2>3. row[o].owner = seen[g][o].owner /\ life[row[o].owner] = "dead"
    BY <2>1, <2>2 DEF DistinctPids, OwnerAlive, Up, BInv, Shape
  <2>4. \A k \in jobs : k.of # o
    BY <2>3 DEF OInv, WorkerOwnsRow, Up
  <2>5. row'[o] = Claimed(row[o], g)
    BY <1>1, <1>5
  <2>6. /\ row'[o].owner = g /\ row'[o].attempts = row[o].attempts + 1
        /\ row'[o].state # "none"
    BY <1>2, <2>1, <2>5, ClaimedEffect
  <2>7. \A k \in jobs' : k.of = o => k = T[o]
    <3> HIDE DEF Taken, T
    <3> QED BY <1>1, <1>3, <2>4
  <2>8. seen[g][o].attempts + 1 \in Attempts
    BY <1>2, <2>1, LedgerAssumption DEF Spent, Rows, Attempts
  <2> QED BY <2>1, <2>3, <2>4, <2>6, <2>7, <2>8
<1> QED BY <1>4, <1>5

\* A sweep of one's own rows closes or takes up again what failed.
LEMMA SweepRuntimeEffect ==
    ASSUME BInv, NEW g \in Gateways, NEW Old \in SUBSET Obligations,
           SweepRuntime(g, Old), NEW o \in Obligations
    PROVE  /\ row'[o].owner = row[o].owner
           /\ row'[o].state = "none" <=> row[o].state = "none"
           /\ \/ /\ row'[o].attempts = row[o].attempts
                 /\ \A k \in jobs' : k.of = o => k \in jobs
              \/ /\ row'[o].attempts = row[o].attempts + 1 /\ ~Spent(row[o])
                 /\ row[o].owner = g /\ row[o].state # "none"
                 /\ \E n \in Attempts :
                      \A k \in jobs' : k.of = o => k \in jobs \/ k = Job(o, g, "runtime", TRUE, n)
<1> DEFINE Mine == {p \in Obligations : row[p].state = "failed" /\ row[p].owner = g /\ row[p].degraded}
           Given == {p \in Mine : Spent(row[p]) \/ p \in Old}
           Taken == Mine \ Given
           T == [p \in Obligations |-> Job(p, g, "runtime", TRUE, row[p].attempts + 1)]
<1>1. row' = [p \in Obligations |->
                CASE p \in Given -> [row[p] EXCEPT !.state = "abandoned"]
                  [] p \in Taken -> [Claimed(row[p], g) EXCEPT !.state = "attempting",
                                                               !.degraded = FALSE]
                  [] OTHER -> row[p]]
  BY DEF SweepRuntime
<1>2. jobs' = jobs \cup {T[p] : p \in Taken}
  BY DEF SweepRuntime
<1>3. row[o] \in Rows
  BY DEF BInv, Shape
<1>4. Taken \subseteq Obligations /\ \A p \in Obligations : T[p].of = p
  BY DEF Job
<1>5. CASE o \notin Taken
  <2>1. row'[o] = row[o] \/ (row[o].state # "none" /\ row'[o] = [row[o] EXCEPT !.state = "abandoned"])
    BY <1>1, <1>5
  <2>2. /\ row'[o].owner = row[o].owner /\ row'[o].attempts = row[o].attempts
        /\ row'[o].state = "none" <=> row[o].state = "none"
    BY <1>3, <2>1 DEF Rows
  <2>3. \A k \in jobs' : k.of = o => k \in jobs
    <3> HIDE DEF Taken, T
    <3> QED BY <1>2, <1>4, <1>5
  <2> QED BY <2>2, <2>3
<1>6. CASE o \in Taken
  <2>1. row[o].state = "failed" /\ row[o].owner = g /\ ~Spent(row[o])
    BY <1>6
  <2>2. row'[o] = [Claimed(row[o], g) EXCEPT !.state = "attempting", !.degraded = FALSE]
    BY <1>1, <1>6
  <2>3. /\ row'[o].owner = g /\ row'[o].attempts = row[o].attempts + 1
        /\ row'[o].state = "attempting"
    <3>1. /\ Claimed(row[o], g) \in Rows /\ Claimed(row[o], g).owner = g
          /\ Claimed(row[o], g).attempts = row[o].attempts + 1
      BY <1>3, ClaimedEffect
    <3> QED BY <2>2, <3>1 DEF Rows
  <2>4. \A k \in jobs' : k.of = o => k \in jobs \/ k = T[o]
    <3> HIDE DEF Taken, T
    <3> QED BY <1>2, <1>4
  <2>5. row[o].attempts + 1 \in Attempts
    BY <1>3, <2>1, LedgerAssumption DEF Spent, Rows, Attempts
  <2> QED BY <2>1, <2>3, <2>4, <2>5
<1> QED BY <1>5, <1>6

\* Whoever works on a response owns it, before and after.
LEMMA JobOwners ==
    ASSUME BInv, OInv, NEW j \in jobs, JobStep(j) \/ Cancel(j) \/ GiveBack(j), BInv'
    PROVE  OInv'
<1>0. /\ UNCHANGED <<life, link, online, seen>>
      /\ \A p \in Obligations :
           /\ row'[p].owner = row[p].owner /\ row'[p].attempts <= row[p].attempts
           /\ row'[p].state = "none" <=> row[p].state = "none"
           /\ row[p].attempts \in Nat /\ row'[p].attempts \in Nat
  BY JobEffect DEF BInv, Shape, Rows
<1>1. InOrder' /\ LinksLeft'
  BY <1>0 DEF OInv, InOrder, LinksLeft
<1>2. WorkerOwnsRow'
  <2>1. PICK k \in Tasks : /\ k.of = j.of /\ k.by = j.by /\ k.kind = j.kind /\ k.marked = j.marked
                           /\ k.via \in {j.via, link[j.by]} /\ k.claim \in {j.claim, -1}
                           /\ jobs' \subseteq jobs \cup {k}
    BY JobEffect
  <2>2. j.by \in Gateways /\ \A i \in jobs : i.of \in Obligations
    BY DEF BInv, Shape, Tasks
  <2> QED BY <1>0, <2>1, <2>2 DEF OInv, WorkerOwnsRow, LinksLeft, Up
<1>3. OwnerStarted' /\ ReadFromEarlier'
  BY <1>0 DEF OInv, OwnerStarted, ReadFromEarlier, Up
<1>4. Capped'
  BY <1>0, LedgerAssumption DEF OInv, Capped, Attempts, Spent
<1> QED BY <1>1, <1>2, <1>3, <1>4 DEF OInv

\* Rows that were read at a start and are judged later do not mislead.
LEMMA GatewayOwners ==
    ASSUME BInv, OInv, DistinctPids, NEW g \in Gateways, GatewayStep(g), BInv'
    PROVE  OInv'
<1> USE LedgerAssumption DEF history, transport
<1>0. /\ row \in [Obligations -> Rows] /\ Nothing \in [Obligations -> Rows]
      /\ seen \in [Gateways -> [Obligations -> Rows]]
      /\ life \in [Gateways -> {"off", "up", "dead"}]
      /\ link \in [Gateways -> Nat] /\ online \in [Gateways -> BOOLEAN]
      /\ \A o \in Obligations : row[o].attempts \in Nat /\ Nothing[o].state = "none"
      /\ \A k \in jobs : k.of \in Obligations /\ k.by \in Gateways
  BY DEF BInv, Shape, Rows, Nothing, NoRow, States, Owed, Tasks
<1>1. CASE Boot(g)
  <2>1. /\ life[g] = "off" /\ \A h \in 1..g - 1 : life[h] # "off"
        /\ life' = [life EXCEPT ![g] = "up"] /\ link' = [link EXCEPT ![g] = 1]
        /\ seen' = [seen EXCEPT ![g] = [o \in Obligations |->
                      IF row[o].state \in Owed THEN row[o] ELSE NoRow]]
        /\ \E on \in BOOLEAN : online' = [online EXCEPT ![g] = on]
        /\ UNCHANGED <<row, jobs>>
    BY <1>1 DEF Boot
  <2>2. InOrder'
    BY <1>0, <2>1 DEF OInv, InOrder, Gateways
  <2>3. LinksLeft'
    BY <1>0, <2>1 DEF OInv, LinksLeft
  <2>4. WorkerOwnsRow' /\ OwnerStarted'
    BY <1>0, <2>1 DEF OInv, WorkerOwnsRow, OwnerStarted, Up
  <2>5. /\ \A h \in Gateways \ {g} : seen'[h] = seen[h]
        /\ \A o \in Obligations : seen'[g][o].state # "none" =>
             seen'[g][o] = row[o] /\ row[o].state # "none"
    BY <1>0, <2>1 DEF NoRow
  <2>6. ASSUME NEW o \in Obligations, row[o].state # "none"
        PROVE  row[o].owner \in 1..g - 1
    <3>1. row[o].owner \in Gateways /\ life[row[o].owner] # "off"
      BY <2>6 DEF OInv, OwnerStarted
    <3>2. ~(g < row[o].owner)
      BY <2>1, <3>1 DEF OInv, InOrder, Gateways
    <3> QED BY <2>1, <3>1, <3>2 DEF Gateways
  <2>7. ASSUME NEW h \in Gateways, NEW o \in Obligations, seen[h][o].state # "none"
        PROVE  seen[h][o].owner # g /\ h # g
    <3>1. Up(h) /\ seen[h][o].owner \in 1..h - 1
      BY <2>7 DEF OInv, ReadFromEarlier
    <3>2. life[seen[h][o].owner] # "off"
      BY <3>1 DEF OInv, InOrder, Up
    <3> QED BY <2>1, <3>1, <3>2 DEF Up
  <2>8. ReadFromEarlier'
    <3> SUFFICES ASSUME NEW h \in Gateways, NEW o \in Obligations, seen'[h][o].state # "none"
                 PROVE  /\ Up(h)'
                        /\ seen'[h][o].owner \in 1..h - 1
                        /\ row'[o].state # "none" /\ row'[o].owner # h
                        /\ \A i \in Gateways : seen'[i][o].state # "none" => seen'[i][o].owner # h
      BY DEF ReadFromEarlier
    <3>1. CASE h = g
      BY <1>0, <2>1, <2>5, <2>6, <2>7, <3>1 DEF Up, Gateways
    <3>2. CASE h # g
      BY <1>0, <2>1, <2>5, <3>2 DEF Up, OInv, ReadFromEarlier
    <3> QED BY <3>1, <3>2
  <2>9. Capped'
    <3>1. \A o \in Obligations : row[o].attempts > MaxAttempts /\ seen'[g][o] = row[o] => Spent(seen'[g][o])
      BY <1>0 DEF Spent
    <3> QED BY <2>1, <2>5, <3>1 DEF OInv, Capped
  <2> QED BY <2>2, <2>3, <2>4, <2>8, <2>9 DEF OInv
<1>2. CASE Die(g)
  <2>1. /\ life' = [life EXCEPT ![g] = "dead"] /\ link' = [link EXCEPT ![g] = 0]
        /\ seen' = [seen EXCEPT ![g] = Nothing]
        /\ jobs' = {j \in jobs : j.by # g}
        /\ UNCHANGED row
    BY <1>2 DEF Die
  <2>2. InOrder' /\ LinksLeft'
    BY <1>0, <1>2, <2>1 DEF Die, OInv, InOrder, LinksLeft, Up, Gateways
  <2>3. WorkerOwnsRow' /\ OwnerStarted'
    BY <1>0, <2>1 DEF OInv, WorkerOwnsRow, OwnerStarted, Up
  <2>4. \A h \in Gateways, o \in Obligations :
           seen'[h][o].state # "none" => h # g /\ seen'[h] = seen[h]
    BY <1>0, <2>1
  <2>5. ReadFromEarlier' /\ Capped'
    BY <1>0, <2>1, <2>4 DEF OInv, ReadFromEarlier, Capped, Up
  <2> QED BY <2>2, <2>3, <2>5 DEF OInv
<1>3. CASE Disconnect(g)
  BY <1>0, <1>3
  DEF Disconnect, OInv, InOrder, LinksLeft, WorkerOwnsRow, OwnerStarted, ReadFromEarlier, Capped, Up
<1>4. CASE Reconnect(g)
  BY <1>0, <1>4
  DEF Reconnect, OInv, InOrder, LinksLeft, WorkerOwnsRow, OwnerStarted, ReadFromEarlier, Capped, Up
<1>5. ASSUME NEW o \in Obligations, Record(o, g) PROVE OInv'
  <2> DEFINE k == [Job(o, g, "turn", FALSE, 0) EXCEPT !.via = link[g]]
             r == [NoRow EXCEPT !.state = "pending", !.owner = g]
  <2>1. /\ k.of = o /\ k.by = g /\ k.kind = "turn" /\ k.via = link[g] /\ k.claim = 0
        /\ r.state = "pending" /\ r.owner = g /\ r.attempts = 0
    BY DEF Job, NoRow
  <2>2. /\ Up(g) /\ row[o].state = "none" /\ row' = [row EXCEPT ![o] = r]
        /\ jobs' = jobs \cup {k}
        /\ UNCHANGED <<life, link, online, seen>>
        /\ \A j \in jobs : j.of # o
    BY <1>5 DEF Record
  <2> HIDE DEF k, r
  <2>3. InOrder' /\ LinksLeft'
    BY <2>2 DEF OInv, InOrder, LinksLeft
  <2>4. WorkerOwnsRow'
    <3>1. link[g] \in 0..MaxLinks /\ 0 \in Attempts
      BY DEF OInv, LinksLeft, Attempts
    <3> QED BY <1>0, <2>1, <2>2, <3>1 DEF OInv, WorkerOwnsRow, Up
  <2>5. OwnerStarted' /\ ReadFromEarlier'
    BY <1>0, <2>1, <2>2 DEF OInv, OwnerStarted, ReadFromEarlier, Up
  <2>6. Capped'
    BY <1>0, <2>1, <2>2 DEF OInv, Capped, Attempts
  <2> QED BY <2>3, <2>4, <2>5, <2>6 DEF OInv
<1>6. ASSUME NEW Old \in SUBSET Obligations, SweepBoot(g, Old) PROVE OInv'
  <2>1. Up(g) /\ seen' = [seen EXCEPT ![g] = Nothing] /\ UNCHANGED <<life, link, online>>
    BY <1>6 DEF SweepBoot
  <2>2. InOrder' /\ LinksLeft'
    BY <2>1 DEF OInv, InOrder, LinksLeft
  <2>3. WorkerOwnsRow'
    <3> SUFFICES ASSUME NEW k \in jobs'
                 PROVE  /\ Up(k.by) /\ row'[k.of].owner = k.by
                        /\ k.kind = "runtime" => k.marked
                        /\ k.via \in 0..MaxLinks /\ k.claim \in Attempts \cup {-1}
      BY <2>1 DEF WorkerOwnsRow, Up
    <3>1. k.of \in Obligations
      BY DEF BInv, Shape, Tasks
    <3>2. \/ row'[k.of].owner = row[k.of].owner /\ k \in jobs
          \/ /\ row'[k.of].owner = g
             /\ \E n \in Attempts : k = Job(k.of, g, "boot", seen[g][k.of].state # "pending", n)
      BY <1>6, <3>1, SweepBootEffect
    <3> QED BY <2>1, <3>2 DEF OInv, WorkerOwnsRow, Job, Up
  <2>4. OwnerStarted'
    BY <1>6, <2>1, SweepBootEffect DEF OInv, OwnerStarted, Up
  <2>5. \A h \in Gateways, o \in Obligations :
           seen'[h][o].state # "none" => h # g /\ seen'[h] = seen[h]
    BY <1>0, <2>1
  <2>6. ReadFromEarlier'
    BY <1>6, <2>1, <2>5, SweepBootEffect DEF OInv, ReadFromEarlier, Up
  <2>7. ASSUME NEW o \in Obligations
        PROVE  /\ row'[o].attempts \in Attempts
               /\ row'[o].attempts > MaxAttempts =>
                    \A h \in Gateways :
                      seen'[h][o].state # "none" /\ seen'[h][o].owner = row'[o].owner
                        => Spent(seen'[h][o])
    <3>1. CASE row'[o].owner = row[o].owner /\ row'[o].attempts = row[o].attempts
      BY <2>5, <3>1 DEF OInv, Capped
    <3>2. CASE /\ row'[o].owner = g /\ row'[o].attempts = row[o].attempts + 1
               /\ seen[g][o].state # "none" /\ ~Spent(seen[g][o])
               /\ row[o].owner = seen[g][o].owner
      <4>1. ~(row[o].attempts > MaxAttempts) /\ row[o].attempts \in Nat
        BY <1>0, <3>2 DEF OInv, Capped
      <4>2. \A h \in Gateways : seen[h][o].state # "none" => seen[h][o].owner # g
        BY <3>2 DEF OInv, ReadFromEarlier
      <4> QED BY <2>5, <3>2, <4>1, <4>2 DEF Attempts
    <3> QED BY <1>6, <3>1, <3>2, SweepBootEffect
  <2> QED BY <2>2, <2>3, <2>4, <2>6, <2>7 DEF OInv, Capped
<1>7. ASSUME NEW Old \in SUBSET Obligations, SweepRuntime(g, Old) PROVE OInv'
  <2>1. Up(g) /\ UNCHANGED <<life, link, online, seen>>
    BY <1>7 DEF SweepRuntime
  <2>2. InOrder' /\ LinksLeft'
    BY <2>1 DEF OInv, InOrder, LinksLeft
  <2>3. WorkerOwnsRow'
    <3> SUFFICES ASSUME NEW k \in jobs'
                 PROVE  /\ Up(k.by) /\ row'[k.of].owner = k.by
                        /\ k.kind = "runtime" => k.marked
                        /\ k.via \in 0..MaxLinks /\ k.claim \in Attempts \cup {-1}
      BY <2>1 DEF WorkerOwnsRow, Up
    <3>1. k.of \in Obligations
      BY DEF BInv, Shape, Tasks
    <3>2. \/ row'[k.of].owner = row[k.of].owner /\ k \in jobs
          \/ /\ row'[k.of].owner = g
             /\ \E n \in Attempts : k = Job(k.of, g, "runtime", TRUE, n)
      BY <1>7, <3>1, SweepRuntimeEffect, ZenonT(30)
    <3> QED BY <2>1, <3>2 DEF OInv, WorkerOwnsRow, Job, Up
  <2>4. ASSUME NEW o \in Obligations
        PROVE  /\ row'[o].owner = row[o].owner
               /\ (row'[o].state = "none") <=> (row[o].state = "none")
               /\ \/ row'[o].attempts = row[o].attempts
                  \/ row'[o].attempts = row[o].attempts + 1 /\ ~Spent(row[o])
    BY <1>7, SweepRuntimeEffect
  <2>5. OwnerStarted' /\ ReadFromEarlier'
    BY <2>1, <2>4 DEF OInv, OwnerStarted, ReadFromEarlier, Up
  <2>6. Capped'
    <3>1. \A o \in Obligations :
            /\ row'[o].attempts \in Attempts
            /\ row'[o].attempts > MaxAttempts => row'[o].attempts = row[o].attempts
      BY <1>0, <2>4 DEF OInv, Capped, Attempts, Spent
    <3> QED BY <2>1, <2>4, <3>1 DEF OInv, Capped
  <2> QED BY <2>2, <2>3, <2>5, <2>6 DEF OInv
<1> QED BY <1>1, <1>2, <1>3, <1>4, <1>5, <1>6, <1>7 DEF GatewayStep

LEMMA InitOInv == Init => OInv
  BY LedgerAssumption
  DEF Init, OInv, InOrder, LinksLeft, WorkerOwnsRow, OwnerStarted, ReadFromEarlier, Capped,
      Nothing, NoRow, Attempts

LEMMA StutterOInv == ASSUME OInv, UNCHANGED vars PROVE OInv'
  BY DEF vars, OInv, InOrder, LinksLeft, WorkerOwnsRow, OwnerStarted, ReadFromEarlier, Capped, Up

LEMMA NextOInv == ASSUME DistinctPids PROVE BInv /\ OInv /\ [Next]_vars => BInv' /\ OInv'
<1> SUFFICES ASSUME BInv, OInv, [Next]_vars PROVE BInv' /\ OInv'
  OBVIOUS
<1>1. BInv'
  BY NextBInv
<1>2. CASE UNCHANGED vars
  BY <1>1, <1>2, StutterOInv
<1>3. ASSUME NEW g \in Gateways, GatewayStep(g) PROVE OInv'
  BY <1>1, <1>3, GatewayOwners
<1>4. ASSUME NEW j \in jobs, JobStep(j) \/ Cancel(j) \/ GiveBack(j) PROVE OInv'
  BY <1>1, <1>4, JobOwners
<1> QED BY <1>1, <1>2, <1>3, <1>4 DEF Next

LEMMA OwnersHold == ASSUME DistinctPids PROVE Spec => [](BInv /\ OInv)
<1>1. BInv /\ OInv /\ [Next]_vars => (BInv /\ OInv)'
  BY NextOInv
<1>2. Init => BInv /\ OInv
  BY InitBInv, InitOInv
<1> QED BY <1>1, <1>2, PTL DEF Spec

\* Two gateways never work on one response, however many start side by side
\* over the rows of dead ones: who takes a row over owned none of its tasks, and
\* whoever had tasks of it is dead.
THEOREM OneGateway == ASSUME DistinctPids PROVE Spec => []OneGatewayPerRow
<1>1. OInv => OneGatewayPerRow
  BY DEF OInv, WorkerOwnsRow, OneGatewayPerRow
<1> QED BY <1>1, OwnersHold, PTL

----------------------------------------------------------------------------
(* What the ledger tells, however process ids are reused. *)

\* An update of a task writes a state that tells of the handing-over, and only
\* what has such a state is added to the record.
LEMMA JobRecords ==
    ASSUME BInv, HistoryShape, RecordStays, NEW j \in jobs, JobStep(j) \/ Cancel(j) \/ GiveBack(j)
    PROVE  /\ onRecord' \subseteq onRecord \cup {j.of}
           /\ RecordStays'
<1> USE DEF history, transport
<1> DEFINE o == j.of
<1>0. /\ j \in Tasks /\ o \in Obligations /\ row[o].state # "none"
      /\ row \in [Obligations -> Rows] /\ onRecord \subseteq Obligations
  BY DEF BInv, Shape, Unrecorded, Tasks, HistoryShape
<1>1. ASSUME NEW s \in {"attempting", "delivered", "failed"}, NEW d \in BOOLEAN, Update(o, s, d),
             onRecord' \subseteq onRecord \cup {o}
      PROVE  RecordStays'
  <2>1. row'[o].state = s /\ \A p \in Obligations \ {o} : row'[p] = row[p]
    BY <1>0, <1>1 DEF Update, Rows
  <2>3. ASSUME NEW p \in onRecord' PROVE row'[p].state \notin {"none", "pending"}
    <3>1. CASE p = o
      BY <2>1, <3>1
    <3>2. CASE p # o
      <4>1. p \in onRecord /\ row[p].state \notin {"none", "pending"}
        BY <1>1, <3>2 DEF RecordStays
      <4>2. row'[p] = row[p]
        BY <1>0, <2>1, <3>2, <4>1
      <4> QED BY <4>1, <4>2
    <3> QED BY <3>1, <3>2
  <2> QED BY <2>3 DEF RecordStays
<1>2. ASSUME UNCHANGED <<row, onRecord>> PROVE RecordStays'
  BY <1>2 DEF RecordStays
<1>3. ASSUME Release(o, j.by), UNCHANGED onRecord PROVE RecordStays'
  <2>1. CASE UNCHANGED row
    BY <1>2, <1>3, <2>1
  <2>2. CASE row' = [row EXCEPT ![o].state = "failed", ![o].degraded = TRUE,
                                ![o].attempts = IF @ > 0 THEN @ - 1 ELSE 0]
    <3>1. ASSUME NEW p \in onRecord PROVE row'[p].state \notin {"none", "pending"}
      BY <1>0, <2>2 DEF RecordStays, Rows
    <3> QED BY <1>3, <3>1 DEF RecordStays
  <2> QED BY <1>3, <2>1, <2>2 DEF Release, Released
<1>4. CASE MarkAttempting(j)
  BY <1>1, <1>4 DEF MarkAttempting
<1>5. CASE BeginSend(j)
  <2>1. UNCHANGED row
    BY <1>5 DEF BeginSend
  <2>2. onRecord' = onRecord \/ (onRecord' = onRecord \cup {o} /\ row[o].state # "pending")
    BY <1>5 DEF BeginSend
  <2> QED BY <1>0, <2>1, <2>2 DEF RecordStays
<1>6. ASSUME NEW outcome \in Outcomes, Answer(j, outcome)
      PROVE  onRecord' \subseteq onRecord \cup {o} /\ RecordStays'
  <2>1. \/ /\ Update(o, Verdict(outcome), outcome = "degraded")
           /\ onRecord' = onRecord \cup {o}
        \/ UNCHANGED <<row, onRecord>>
    BY <1>6 DEF Answer
  <2>2. Verdict(outcome) \in {"attempting", "delivered", "failed"}
    BY DEF Verdict
  <2>3. (outcome = "degraded") \in BOOLEAN
    OBVIOUS
  <2> QED BY <1>1, <1>2, <2>1, <2>2, <2>3
<1>7. CASE MarkFails(j) \/ Cancel(j) \/ CheckLive(j)
  BY <1>2, <1>7 DEF MarkFails, Cancel, CheckLive
<1>8. CASE GiveBack(j) \/ Resolve(j)
  <2>1. UNCHANGED onRecord /\ (UNCHANGED row \/ Release(o, j.by))
    BY <1>8 DEF GiveBack, Resolve
  <2> QED BY <1>2, <1>3, <2>1
<1> QED BY <1>4, <1>5, <1>6, <1>7, <1>8 DEF JobStep

LEMMA JobKnown ==
    ASSUME BInv, KInv, NEW j \in jobs, JobStep(j) \/ Cancel(j) \/ GiveBack(j)
    PROVE  KInv'
<1> USE DEF KInv
<1>0. j \in Tasks /\ j.of \in Obligations
  BY DEF BInv, Shape, Tasks
<1>1. UNCHANGED <<life, seen, told>>
  BY DEF JobStep, MarkAttempting, MarkFails, BeginSend, CheckLive, Resolve, Answer, Cancel,
     GiveBack, history, transport
<1>2. cancelled' \subseteq cancelled \cup {j.of}
  BY DEF JobStep, MarkAttempting, MarkFails, BeginSend, CheckLive, Resolve, Answer, Cancel,
     GiveBack, history
<1>3. onRecord' \subseteq onRecord \cup {j.of} /\ RecordStays'
  BY JobRecords
<1>4. HistoryShape' /\ ReadTells'
  BY <1>0, <1>1, <1>2, <1>3 DEF HistoryShape, ReadTells
<1>5. TasksFlag'
  <2>1. PICK k \in Tasks : /\ k.by = j.by /\ k.of = j.of /\ k.kind = j.kind
                           /\ k.marked = j.marked /\ jobs' \subseteq jobs \cup {k}
    BY JobEffect
  <2> QED BY <1>1, <2>1 DEF TasksFlag, Up
<1> QED BY <1>3, <1>4, <1>5

\* A gateway starts, sweeps and dies.
LEMMA GatewayKnown ==
    ASSUME BInv, KInv, NEW g \in Gateways, GatewayStep(g)
    PROVE  KInv'
<1> USE DEF KInv, history, transport
<1>0. Shape
  BY DEF BInv
<1>1. ASSUME NEW o \in Obligations, Record(o, g)
      PROVE  KInv'
  <2>1. /\ row[o].state = "none" /\ Up(g)
        /\ row' = [row EXCEPT ![o] = [NoRow EXCEPT !.state = "pending", !.owner = g]]
        /\ jobs' = jobs \cup {[Job(o, g, "turn", FALSE, 0) EXCEPT !.via = link[g]]}
        /\ UNCHANGED <<life, seen, onRecord, told, cancelled>>
    BY <1>1 DEF Record
  <2>2. RecordStays'
    <3>1. o \notin onRecord
      BY <2>1 DEF RecordStays
    <3> QED BY <1>0, <2>1, <3>1 DEF RecordStays, Shape
  <2>3. TasksFlag'
    BY <2>1 DEF TasksFlag, Job, Up
  <2> QED BY <2>1, <2>2, <2>3 DEF HistoryShape, ReadTells
<1>2. CASE Boot(g)
  <2>1. /\ life[g] = "off" /\ life' = [life EXCEPT ![g] = "up"]
        /\ seen' = [seen EXCEPT ![g] = [o \in Obligations |->
                       IF row[o].state \in Owed THEN row[o] ELSE NoRow]]
        /\ told' = [told EXCEPT ![g] = onRecord]
        /\ UNCHANGED <<row, jobs, onRecord, cancelled>>
    BY <1>2 DEF Boot
  <2>2. HistoryShape'
    BY <2>1 DEF HistoryShape
  <2>3. /\ told'[g] = onRecord /\ \A h \in Gateways \ {g} : told'[h] = told[h]
        /\ \A h \in Gateways \ {g} : seen'[h] = seen[h] /\ life'[h] = life[h]
        /\ \A o \in Obligations : seen'[g][o] = IF row[o].state \in Owed THEN row[o] ELSE NoRow
    BY <1>0, <2>1 DEF HistoryShape, Shape
  <2>4. ReadTells'
    <3> SUFFICES ASSUME NEW h \in Gateways, NEW o \in Obligations, seen'[h][o].state = "pending"
                 PROVE  o \notin told'[h]
      BY DEF ReadTells
    <3>1. CASE h = g
      BY <2>3, <3>1 DEF RecordStays, NoRow
    <3>2. CASE h # g
      BY <2>3, <3>2 DEF ReadTells
    <3> QED BY <3>1, <3>2
  <2>5. TasksFlag'
    <3> SUFFICES ASSUME NEW j \in jobs
                 PROVE  /\ Up(j.by)'
                        /\ j.kind # "turn" /\ (j.kind = "runtime" \/ j.of \in told'[j.by])
                             => j.marked
      BY <2>1 DEF TasksFlag
    <3>1. j.by \in Gateways /\ Up(j.by) /\ j.by # g
      BY <1>0, <2>1 DEF Shape, Tasks, TasksFlag, Up
    <3> QED BY <2>3, <3>1 DEF TasksFlag, Up
  <2> QED BY <2>1, <2>2, <2>4, <2>5 DEF RecordStays
<1>3. ASSUME NEW Old \in SUBSET Obligations, SweepBoot(g, Old)
      PROVE  KInv'
  <2>1. /\ Up(g) /\ UNCHANGED <<life, onRecord, told, cancelled>>
        /\ seen' = [seen EXCEPT ![g] = Nothing]
    BY <1>3 DEF SweepBoot
  <2>2. \A o \in Obligations : row'[o].state \in {row[o].state, "abandoned"}
    <3> SUFFICES ASSUME NEW o \in Obligations PROVE row'[o].state \in {row[o].state, "abandoned"}
      OBVIOUS
    <3>1. row'[o] \in {row[o], [row[o] EXCEPT !.state = "abandoned"], Claimed(row[o], g)}
      BY <1>3 DEF SweepBoot
    <3>2. row[o] \in Rows
      BY <1>0 DEF Shape
    <3> QED BY <3>1, <3>2 DEF Claimed, Rows
  <2>3. RecordStays'
    BY <2>1, <2>2 DEF RecordStays, HistoryShape
  <2>4. ReadTells'
    BY <1>0, <2>1 DEF ReadTells, Shape, Nothing, NoRow
  <2>5. TasksFlag'
    <3>1. jobs' \subseteq jobs \cup {Job(o, g, "boot", NeedsMarker(seen[g][o]),
                                         seen[g][o].attempts + 1) :
                                       o \in {o \in Obligations : seen[g][o].state # "none"}}
      BY <1>3 DEF SweepBoot
    <3>2. ASSUME NEW j \in jobs' \ jobs
          PROVE  j.by = g /\ j.kind = "boot" /\ (j.of \in told[g] => j.marked)
      <4>1. PICK o \in Obligations : j = Job(o, g, "boot", NeedsMarker(seen[g][o]),
                                             seen[g][o].attempts + 1)
        BY <3>1
      <4>2. j.by = g /\ j.kind = "boot" /\ j.of = o /\ j.marked = NeedsMarker(seen[g][o])
        BY <4>1 DEF Job
      <4> QED BY <4>2 DEF NeedsMarker, ReadTells
    <3> QED BY <2>1, <3>2 DEF TasksFlag, Up
  <2> QED BY <2>1, <2>3, <2>4, <2>5 DEF HistoryShape
<1>4. ASSUME NEW Old \in SUBSET Obligations, SweepRuntime(g, Old)
      PROVE  KInv'
  <2>1. Up(g) /\ UNCHANGED <<life, seen, onRecord, told, cancelled>>
    BY <1>4 DEF SweepRuntime
  <2>2. \A o \in Obligations : row'[o].state \in {row[o].state, "abandoned", "attempting"}
    <3> SUFFICES ASSUME NEW o \in Obligations
                 PROVE  row'[o].state \in {row[o].state, "abandoned", "attempting"}
      OBVIOUS
    <3>1. row'[o] \in {row[o], [row[o] EXCEPT !.state = "abandoned"],
                       [Claimed(row[o], g) EXCEPT !.state = "attempting", !.degraded = FALSE]}
      BY <1>4 DEF SweepRuntime
    <3>2. row[o] \in Rows
      BY <1>0 DEF Shape
    <3> QED BY <3>1, <3>2 DEF Claimed, Rows
  <2>3. RecordStays'
    BY <2>1, <2>2 DEF RecordStays, HistoryShape
  <2>4. ASSUME NEW j \in jobs' \ jobs
        PROVE  j.by = g /\ j.marked
    <3>1. PICK o \in Obligations : j = Job(o, g, "runtime", TRUE, row[o].attempts + 1)
      BY <1>4 DEF SweepRuntime
    <3> QED BY <3>1 DEF Job
  <2>5. TasksFlag'
    BY <2>1, <2>4 DEF TasksFlag, Up
  <2> QED BY <2>1, <2>3, <2>5 DEF HistoryShape, ReadTells
<1>5. CASE Disconnect(g) \/ Reconnect(g)
  BY <1>5 DEF Disconnect, Reconnect, HistoryShape, RecordStays, ReadTells, TasksFlag, Up
<1>6. CASE Die(g)
  <2>1. /\ life' = [life EXCEPT ![g] = "dead"]
        /\ seen' = [seen EXCEPT ![g] = Nothing]
        /\ jobs' = {j \in jobs : j.by # g}
        /\ told' = [told EXCEPT ![g] = {}]
        /\ UNCHANGED <<row, onRecord, cancelled>>
    BY <1>6 DEF Die
  <2>2. /\ told'[g] = {} /\ \A h \in Gateways \ {g} : told'[h] = told[h]
        /\ \A h \in Gateways \ {g} : seen'[h] = seen[h] /\ life'[h] = life[h]
    BY <1>0, <2>1 DEF HistoryShape, Shape
  <2>3. HistoryShape' /\ RecordStays' /\ ReadTells'
    BY <2>1, <2>2 DEF HistoryShape, RecordStays, ReadTells
  <2>4. \A j \in jobs : j.by \in Gateways
    BY <1>0 DEF Shape, Tasks
  <2>5. TasksFlag'
    BY <2>1, <2>2, <2>4 DEF TasksFlag, Up
  <2> QED BY <2>3, <2>5
<1> QED BY <1>1, <1>2, <1>3, <1>4, <1>5, <1>6 DEF GatewayStep

LEMMA KnownHolds == Spec => [](BInv /\ KInv)
<1>1. Init => KInv
  BY DEF Init, KInv, HistoryShape, RecordStays, ReadTells, TasksFlag, Nothing, NoRow
<1>2. BInv /\ KInv /\ UNCHANGED vars => KInv'
  BY DEF vars, KInv, HistoryShape, RecordStays, ReadTells, TasksFlag, Up
<1>3. BInv /\ KInv /\ [Next]_vars => KInv'
  BY <1>2, JobKnown, GatewayKnown DEF Next
<1> QED BY <1>1, <1>3, InitBInv, NextBInv, PTL DEF Spec

\* What the ledger told a gateway of goes out from it with a marker: whatever
\* others wrote since its reading, no update makes a row look unsent again.
THEOREM KnownSends == Spec => []KnownSendsAreFlagged
<1>1. KInv => KnownSendsAreFlagged
  BY DEF KInv, TasksFlag, KnownSendsAreFlagged
<1> QED BY <1>1, KnownHolds, PTL

\* Every value is of its kind; a row's attempts end one beyond the cap.
THEOREM TypeCorrect == ASSUME DistinctPids PROVE Spec => []TypeOK
<1>1. BInv /\ OInv /\ KInv => TypeOK
  <2> SUFFICES ASSUME BInv, OInv, KInv PROVE TypeOK
    OBVIOUS
  <2>1. row \in [Obligations -> [state : States, owner : Gateways \cup {None},
                                 attempts : Attempts, degraded : BOOLEAN]]
    BY DEF BInv, Shape, Rows, OInv, Capped
  <2>2. link \in [Gateways -> 0..MaxLinks]
    BY DEF BInv, Shape, OInv, LinksLeft
  <2>3. jobs \subseteq [of : Obligations, by : Gateways, kind : {"turn", "boot", "runtime"},
                        at : {"new", "ready", "sending", "check"}, via : 0..MaxLinks,
                        marked : BOOLEAN, claim : Attempts \cup {-1}]
    BY DEF BInv, Shape, Tasks, Kinds, Positions, OInv, WorkerOwnsRow
  <2> QED BY <2>1, <2>2, <2>3 DEF BInv, Shape, KInv, HistoryShape, TypeOK
<1> QED BY <1>1, OwnersHold, KnownHolds, PTL
=============================================================================
