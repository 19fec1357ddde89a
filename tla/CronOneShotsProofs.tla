-------------------------- MODULE CronOneShotsProofs --------------------------
(***************************************************************************)
(* Theorems about CronOneShots for every number of processes, every budget *)
(* of runs and every choice of what goes wrong.                            *)
(***************************************************************************)
EXTENDS CronOneShots, FiniteSetTheorems, TLAPS

----------------------------------------------------------------------------
(* The inductive invariant. *)

\* A job is re-armed once.
Typed ==
  /\ TypeOK /\ IsFiniteSet(upsets)
  /\ job.occurrence = IF "rearm" \in upsets THEN 2 ELSE 1

\* The holder of the fire_claim holds it for this occurrence and has recorded
\* nothing yet; nobody records twice.
ClaimIsForNow ==
  \A p \in Processes :
    /\ job.fireClaim.by = p => for[p] = job.occurrence /\ records[p] = 0
    /\ records[p] <= 1

\* What is left of a record that ends.
Ending ==
  /\ job.state = "completed" => job.ran
  /\ ~Present => job.runClaim = NoClaim /\ job.fireClaim = NoClaim

\* Runs begun have been counted.
Counted == Present => starts <= job.completed

IInv == Typed /\ ClaimIsForNow /\ Ending /\ Counted

\* The record waits for a run.
Armed == job.state \in {"scheduled", "paused"}

\* Why no scan retires the record under a run.  Before the job is due nothing
\* has happened; in the grace window whoever has it holds a fresh run_claim, and
\* no second process scans it; later its fire_claim is kept alive.
Guarded ==
  /\ starts <= Times
  /\ ~Present => \A p \in Processes : ~AtWork(p)
  /\ Armed => \A p \in Processes :
       AtWork(p) => job.fireClaim.by = p /\ job.fireClaim.age # "stale"
  /\ when = "before" => ticking = None /\ \A p \in Processes : run[p] = "none"
  /\ when = "due" /\ Armed =>
       /\ \A p \in Processes :
            ticking = p \/ run[p] # "none" => Live(job.runClaim) /\ job.runClaim.age = "fresh"
       /\ ticking # None => \A p \in Processes : run[p] = "none"

GInv == Undisturbed => Guarded

----------------------------------------------------------------------------
(* Kinds and the small parts. *)

Jobs == [state : {"scheduled", "paused", "completed", "gone"}, completed : 0..Times,
         ran : BOOLEAN, occurrence : 1..2, runClaim : Claims, fireClaim : Claims]

LEMMA ClaimKinds ==
  /\ NoClaim \in Claims /\ NoClaim.by = None /\ ~Live(NoClaim)
  /\ \A p \in Processes :
       /\ ClaimOf(p) \in Claims /\ ClaimOf(p).by = p /\ ClaimOf(p).age = "fresh"
       /\ NoClaim.by # p
  BY OneShotAssumption DEF NoClaim, ClaimOf, Claims, Ages, Live

\* A claim whose age changes keeps its owner.
LEMMA AgeKinds ==
    ASSUME NEW c \in Claims
    PROVE  /\ Aged(c) \in Claims /\ Aged(c).by = c.by
           /\ [c EXCEPT !.age = "fresh"] \in Claims /\ [c EXCEPT !.age = "fresh"].by = c.by
           /\ [c EXCEPT !.age = "fresh"].age = "fresh"
  BY DEF Claims, Ages, Aged

\* The record with another state, another claim, retired, dispatched, recorded.
LEMMA StateOfJob ==
    ASSUME job \in Jobs, NEW s \in {"scheduled", "paused", "completed"}
    PROVE  LET k == [job EXCEPT !.state = s]
           IN  /\ k \in Jobs /\ k.state = s /\ k.completed = job.completed /\ k.ran = job.ran
               /\ k.occurrence = job.occurrence
               /\ k.runClaim = job.runClaim /\ k.fireClaim = job.fireClaim
  BY DEF Jobs

LEMMA RunClaimOfJob ==
    ASSUME job \in Jobs, NEW c \in Claims
    PROVE  LET k == [job EXCEPT !.runClaim = c]
           IN  /\ k \in Jobs /\ k.state = job.state /\ k.completed = job.completed
               /\ k.ran = job.ran /\ k.occurrence = job.occurrence
               /\ k.runClaim = c /\ k.fireClaim = job.fireClaim
  BY DEF Jobs

LEMMA FireClaimOfJob ==
    ASSUME job \in Jobs, NEW c \in Claims
    PROVE  LET k == [job EXCEPT !.fireClaim = c]
           IN  /\ k \in Jobs /\ k.state = job.state /\ k.completed = job.completed
               /\ k.ran = job.ran /\ k.occurrence = job.occurrence
               /\ k.runClaim = job.runClaim /\ k.fireClaim = c
  BY DEF Jobs

LEMMA FreshFire ==
    ASSUME job \in Jobs
    PROVE  LET k == [job EXCEPT !.fireClaim.age = "fresh"]
           IN  /\ k \in Jobs /\ k.state = job.state /\ k.completed = job.completed
               /\ k.ran = job.ran /\ k.occurrence = job.occurrence
               /\ k.runClaim = job.runClaim
               /\ k.fireClaim.by = job.fireClaim.by /\ k.fireClaim.age = "fresh"
<1> DEFINE c == [job.fireClaim EXCEPT !.age = "fresh"]
<1>1. c \in Claims /\ c.by = job.fireClaim.by /\ c.age = "fresh"
  BY AgeKinds DEF Jobs
<1>2. [job EXCEPT !.fireClaim.age = "fresh"] = [job EXCEPT !.fireClaim = c]
  BY DEF Jobs
<1> HIDE DEF c
<1> QED BY <1>1, <1>2, FireClaimOfJob

LEMMA FreshRun ==
    ASSUME job \in Jobs
    PROVE  LET k == [job EXCEPT !.runClaim.age = "fresh"]
           IN  /\ k \in Jobs /\ k.state = job.state /\ k.completed = job.completed
               /\ k.ran = job.ran /\ k.occurrence = job.occurrence
               /\ k.runClaim.by = job.runClaim.by /\ k.runClaim.age = "fresh"
               /\ k.fireClaim = job.fireClaim
<1> DEFINE c == [job.runClaim EXCEPT !.age = "fresh"]
<1>1. c \in Claims /\ c.by = job.runClaim.by /\ c.age = "fresh"
  BY AgeKinds DEF Jobs
<1>2. [job EXCEPT !.runClaim.age = "fresh"] = [job EXCEPT !.runClaim = c]
  BY DEF Jobs
<1> HIDE DEF c
<1> QED BY <1>1, <1>2, RunClaimOfJob

LEMMA GoneJob ==
    ASSUME job \in Jobs
    PROVE  /\ Gone \in Jobs /\ Gone.state = "gone" /\ Gone.completed = job.completed
           /\ Gone.occurrence = job.occurrence
           /\ Gone.runClaim = NoClaim /\ Gone.fireClaim = NoClaim
<1>1. NoClaim \in Claims
  BY ClaimKinds
<1> QED BY <1>1 DEF Gone, Jobs

LEMMA DispatchedJob ==
    ASSUME job \in Jobs, ~Spent(job)
    PROVE  /\ Dispatched \in Jobs /\ Dispatched.state = job.state /\ Dispatched.ran = job.ran
           /\ Dispatched.completed = job.completed + 1 /\ Dispatched.completed <= Times
           /\ Dispatched.occurrence = job.occurrence
           /\ Dispatched.runClaim = job.runClaim /\ Dispatched.fireClaim = job.fireClaim
<1>1. job.completed + 1 \in 0..Times
  BY OneShotAssumption DEF Jobs, Spent
<1> QED BY <1>1, OneShotAssumption DEF Dispatched, Jobs

LEMMA RecordedJob ==
    ASSUME job \in Jobs
    PROVE  /\ Recorded \in Jobs /\ Recorded.state = "completed" /\ Recorded.ran
           /\ Recorded.completed >= job.completed
           /\ Recorded.occurrence = job.occurrence
           /\ Recorded.runClaim = NoClaim /\ Recorded.fireClaim = NoClaim
<1> DEFINE n == IF job.completed = 0 THEN 1 ELSE job.completed
<1>1. n \in 0..Times /\ n >= job.completed
  BY OneShotAssumption DEF Jobs
<1>2. Recorded = [job EXCEPT !.state = "completed", !.ran = TRUE, !.runClaim = NoClaim,
                             !.fireClaim = NoClaim, !.completed = n]
  BY DEF Recorded, Jobs
<1>3. NoClaim \in Claims
  BY ClaimKinds
<1> HIDE DEF n
<1> QED BY <1>1, <1>2, <1>3 DEF Jobs

LEMMA RearmedJob ==
    ASSUME job \in Jobs, job.occurrence = 1
    PROVE  /\ Rearmed \in Jobs /\ Rearmed.state = "scheduled" /\ Rearmed.completed = 0
           /\ Rearmed.occurrence = 2
           /\ Rearmed.runClaim = NoClaim /\ Rearmed.fireClaim = NoClaim
<1>1. NoClaim \in Claims /\ 0 \in 0..Times /\ 2 \in 1..2
  BY ClaimKinds, OneShotAssumption
<1>2. Rearmed = [job EXCEPT !.state = "scheduled", !.completed = 0, !.occurrence = 2,
                            !.runClaim = NoClaim, !.fireClaim = NoClaim]
  BY DEF Rearmed, Jobs
<1> DEFINE zero == 0
           two == 2
<1>3. Rearmed = [job EXCEPT !.state = "scheduled", !.completed = zero, !.occurrence = two,
                            !.runClaim = NoClaim, !.fireClaim = NoClaim]
  BY <1>2
<1>4. zero \in 0..Times /\ two \in 1..2
  BY <1>1
<1> HIDE DEF zero, two
<1>5. Rearmed \in Jobs
  BY <1>1, <1>3, <1>4 DEF Jobs
<1> USE DEF zero, two
<1> QED BY <1>2, <1>5 DEF Jobs

LEMMA UpsetEffect ==
    ASSUME Typed, NEW k, Upset(k)
    PROVE  /\ upsets' = upsets \cup {k} /\ k \notin upsets
           /\ upsets' \subseteq Upsets /\ IsFiniteSet(upsets') /\ Cardinality(upsets') <= MaxUpsets
<1>1. /\ IsFiniteSet(upsets) /\ upsets \subseteq Upsets /\ Cardinality(upsets) \in Nat
      /\ k \in Upsets \ upsets /\ Cardinality(upsets) < MaxUpsets /\ upsets' = upsets \cup {k}
  BY FS_CardinalityType DEF Typed, TypeOK, Upset
<1>2. IsFiniteSet(upsets \cup {k}) /\ Cardinality(upsets \cup {k}) = Cardinality(upsets) + 1
  BY <1>1, FS_AddElement
<1> QED BY <1>1, <1>2, OneShotAssumption

\* The outcomes of a run, and what they leave alone.
LEMMA RecordsEffect ==
    ASSUME IInv, NEW p \in Processes, Records(p)
    PROVE  \/ UNCHANGED <<job, records>>
           \/ /\ Present /\ job.fireClaim.by = p /\ for[p] = job.occurrence
              /\ job' \in Jobs /\ job'.state = "completed" /\ job'.ran
              /\ job'.occurrence = job.occurrence /\ job'.completed >= job.completed
              /\ job'.runClaim = NoClaim /\ job'.fireClaim = NoClaim
              /\ records' = [records EXCEPT ![p] = 1]
<1> SUFFICES ASSUME MayMark(p) PROVE
           /\ Present /\ job.fireClaim.by = p /\ for[p] = job.occurrence
           /\ job' \in Jobs /\ job'.state = "completed" /\ job'.ran
           /\ job'.occurrence = job.occurrence /\ job'.completed >= job.completed
           /\ job'.runClaim = NoClaim /\ job'.fireClaim = NoClaim
           /\ records' = [records EXCEPT ![p] = 1]
  BY DEF Records
<1>1. /\ job \in Jobs /\ Present /\ job.fireClaim.by = p /\ for[p] = job.occurrence
      /\ records[p] = 0 /\ records \in [Processes -> Nat]
  BY DEF IInv, Typed, TypeOK, Jobs, ClaimIsForNow, MayMark
<1>2. job' = Recorded /\ records' = [records EXCEPT ![p] = @ + 1]
  BY DEF Records
<1>3. /\ Recorded \in Jobs /\ Recorded.state = "completed" /\ Recorded.ran
      /\ Recorded.occurrence = job.occurrence /\ Recorded.completed >= job.completed
      /\ Recorded.runClaim = NoClaim /\ Recorded.fireClaim = NoClaim
  BY <1>1, RecordedJob
<1>4. records' = [records EXCEPT ![p] = 1]
  BY <1>1, <1>2
<1> QED BY <1>1, <1>2, <1>3, <1>4

LEMMA InitIInv == Init => IInv
<1> SUFFICES ASSUME Init PROVE IInv
  OBVIOUS
<1>1. IsFiniteSet({}) /\ Cardinality({}) = 0
  BY FS_EmptySet
<1>2. TypeOK
  BY <1>1, ClaimKinds, OneShotAssumption DEF Init, TypeOK
<1>3. Typed
  BY <1>1, <1>2 DEF Init, Typed
<1>4. ClaimIsForNow /\ Ending /\ Counted
  BY ClaimKinds, OneShotAssumption DEF Init, ClaimIsForNow, Ending, Counted, Present
<1> QED BY <1>3, <1>4 DEF IInv

\* The claims and the stages of a step in which only the thread of p moves.
\* The record changes, and the history with it.
LEMMA RecordIInv ==
    ASSUME IInv, TypeOK', UNCHANGED upsets, job'.occurrence = job.occurrence,
           \A p \in Processes :
             \/ job'.fireClaim.by # p /\ records'[p] <= 1
             \/ job'.fireClaim.by = p /\ for'[p] = job.occurrence /\ records'[p] = 0
             \/ job'.fireClaim = job.fireClaim /\ for'[p] = for[p] /\ records'[p] = records[p],
           Ending', Counted'
    PROVE  IInv'
<1>1. Typed'
  BY DEF IInv, Typed
<1>2. ClaimIsForNow'
  BY DEF IInv, ClaimIsForNow
<1> QED BY <1>1, <1>2 DEF IInv

LEMMA ThreadIInv ==
    ASSUME IInv, NEW p \in Processes,
           TickStep(p) \/ ThreadStep(p) \/ RenewRunClaim(p) \/ RenewFireClaim(p)
    PROVE  IInv'
<1> USE DEF clockwork, threads
<1>0. /\ job \in Jobs /\ TypeOK /\ Typed /\ Ending /\ Counted /\ ClaimIsForNow
      /\ starts \in Nat /\ records \in [Processes -> Nat]
  BY DEF IInv, Typed, TypeOK, Jobs
<1>1. CASE Scan(p)
  <2>1. /\ job' \in Jobs /\ job'.occurrence = job.occurrence /\ job'.completed = job.completed
        /\ \/ job'.state = "gone" /\ job'.runClaim = NoClaim /\ job'.fireClaim = NoClaim
           \/ job'.state = "scheduled" /\ job'.fireClaim = job.fireClaim
        /\ job.state = "scheduled"
    <3>1. job.state = "scheduled" /\ (job' = Gone \/ job' = [job EXCEPT !.runClaim = ClaimOf(p)])
      BY <1>1 DEF Scan
    <3>2. CASE job' = Gone
      BY <1>0, <3>1, <3>2, GoneJob
    <3>3. CASE job' = [job EXCEPT !.runClaim = ClaimOf(p)]
      BY <1>0, <3>1, <3>3, ClaimKinds, RunClaimOfJob
    <3> QED BY <3>1, <3>2, <3>3
  <2>2. TypeOK'
    BY <1>0, <1>1, <2>1 DEF Scan, TypeOK, Jobs
  <2>3. Ending' /\ Counted'
    BY <1>0, <1>1, <2>1 DEF Scan, Ending, Counted, Present
  <2>4. \A q \in Processes : records[q] <= 1
    BY <1>0 DEF ClaimIsForNow
  <2>5. UNCHANGED <<for, records, upsets>>
    BY <1>1 DEF Scan
  <2> QED BY <2>1, <2>2, <2>3, <2>4, <2>5, ClaimKinds, RecordIInv
<1>2. CASE Submit(p) \/ Skip(p) \/ RunEnds(p)
  <2>1. TypeOK'
    BY <1>0, <1>2 DEF Submit, Skip, RunEnds, Ended, Stage, TypeOK
  <2>2. UNCHANGED <<job, for, records, starts, upsets>>
    BY <1>2 DEF Submit, Skip, RunEnds
  <2>3. Ending' /\ Counted'
    BY <1>0, <2>2 DEF Ending, Counted, Present
  <2> QED BY <2>1, <2>2, <2>3, RecordIInv
<1>3. CASE SubmitFails(p)
  <2>1. /\ job' \in Jobs /\ job'.occurrence = job.occurrence /\ job'.completed = job.completed
        /\ job'.state = job.state /\ job'.fireClaim = job.fireClaim /\ job'.ran = job.ran
        /\ job'.runClaim = NoClaim
    BY <1>0, <1>3, ClaimKinds, RunClaimOfJob DEF SubmitFails, Cleared
  <2>2. /\ upsets' \subseteq Upsets /\ IsFiniteSet(upsets') /\ Cardinality(upsets') <= MaxUpsets
        /\ "rearm" \in upsets' <=> "rearm" \in upsets
    <3>1. CASE UNCHANGED upsets
      BY <1>0, <3>1 DEF Typed, TypeOK
    <3>2. CASE Upset("failure")
      BY <1>0, <3>2, UpsetEffect
    <3> QED BY <1>3, <3>1, <3>2 DEF SubmitFails
  <2>3. TypeOK'
    BY <1>0, <1>3, <2>1, <2>2 DEF SubmitFails, TypeOK, Jobs
  <2>4. Typed'
    BY <1>0, <2>1, <2>2, <2>3 DEF Typed
  <2>5. ClaimIsForNow' /\ Ending' /\ Counted'
    BY <1>0, <1>3, <2>1 DEF SubmitFails, ClaimIsForNow, Ending, Counted, Present
  <2> QED BY <2>4, <2>5 DEF IInv
<1>5. CASE FireClaim(p)
  <2>0. UNCHANGED <<upsets, starts>>
    BY <1>5 DEF FireClaim
  <2>1. CASE job.state = "scheduled" /\ ~Live(job.fireClaim)
    <3>1. /\ job' = [job EXCEPT !.fireClaim = ClaimOf(p)]
          /\ for' = [for EXCEPT ![p] = job.occurrence]
          /\ records' = [records EXCEPT ![p] = 0]
      BY <1>5, <2>1 DEF FireClaim
    <3>2. /\ job' \in Jobs /\ job'.occurrence = job.occurrence /\ job'.completed = job.completed
          /\ job'.state = "scheduled" /\ job'.fireClaim = ClaimOf(p)
      BY <1>0, <2>1, <3>1, ClaimKinds, FireClaimOfJob
    <3>3. TypeOK'
      <4>1. job.runClaim.by \in Processes \cup {None} /\ job.occurrence \in 0..2
        BY <1>0 DEF Jobs, Claims
      <4>2. run' = [run EXCEPT ![p] = "claimed"] /\ noted' = [noted EXCEPT ![p] = job.runClaim.by]
        BY <1>5, <2>1 DEF FireClaim, Stage
      <4>3. UNCHANGED <<when, life, ticking, flagged, toMark, starts, upsets>>
        BY <1>5, <2>1 DEF FireClaim
      <4> QED BY <1>0, <3>1, <3>2, <4>1, <4>2, <4>3 DEF TypeOK, Jobs
    <3>4. Ending' /\ Counted'
      BY <1>0, <2>0, <2>1, <3>2 DEF Ending, Counted, Present
    <3>5. for[p] \in 0..2 /\ for \in [Processes -> 0..2]
      BY <1>0 DEF TypeOK
    <3>6. for'[p] = job.occurrence /\ records'[p] = 0 /\ job'.fireClaim.by = p
      BY <1>0, <3>1, <3>2, <3>5, ClaimKinds
    <3>7. \A q \in Processes \ {p} : job'.fireClaim.by # q /\ records'[q] <= 1
      BY <1>0, <3>1, <3>2, ClaimKinds DEF ClaimIsForNow
    <3> QED BY <2>0, <3>2, <3>3, <3>4, <3>6, <3>7, RecordIInv
  <2>2. CASE ~(job.state = "scheduled" /\ ~Live(job.fireClaim))
    <3>1. UNCHANGED <<job, for, records>> /\ Ended(p)
      BY <1>5, <2>2 DEF FireClaim
    <3>2. TypeOK'
      BY <1>0, <1>5, <3>1 DEF FireClaim, Ended, Stage, TypeOK
    <3>3. Ending' /\ Counted'
      BY <1>0, <2>0, <3>1 DEF Ending, Counted, Present
    <3> QED BY <2>0, <3>1, <3>2, <3>3, RecordIInv
  <2> QED BY <2>1, <2>2
<1>6. CASE Begin(p)
  <2>1. /\ job' \in Jobs /\ job'.occurrence = job.occurrence /\ job'.completed = job.completed
        /\ job'.state = job.state /\ job'.fireClaim.by = job.fireClaim.by /\ job'.ran = job.ran
        /\ job'.runClaim = job.runClaim
        /\ job' = job \/ job.fireClaim.by = p
    <3>1. CASE UNCHANGED job
      BY <1>0, <3>1
    <3>2. CASE job' = [job EXCEPT !.fireClaim.age = "fresh"] /\ job.fireClaim.by = p
      BY <1>0, <3>2, FreshFire
    <3> QED BY <1>6, <3>1, <3>2 DEF Begin
  <2>2. TypeOK'
    BY <1>0, <1>6, <2>1 DEF Begin, Ended, Stage, TypeOK, Jobs
  <2>3. Ending' /\ Counted'
    BY <1>0, <1>6, <2>1, ClaimKinds DEF Begin, Ending, Counted, Present
  <2>4. \A q \in Processes :
          /\ for'[q] = for[q] /\ records'[q] = records[q]
          /\ records[q] <= 1 /\ (job.fireClaim.by = q => for[q] = job.occurrence /\ records[q] = 0)
    BY <1>0, <1>6 DEF Begin, ClaimIsForNow
  <2> QED BY <1>6, <2>1, <2>2, <2>3, <2>4, RecordIInv DEF Begin
<1>7. CASE Dispatch(p)
  <2>1. /\ job' \in Jobs /\ job'.occurrence = job.occurrence
        /\ \/ job'.state = "gone" /\ job'.runClaim = NoClaim /\ job'.fireClaim = NoClaim
           \/ /\ job'.fireClaim = job.fireClaim /\ job'.runClaim = job.runClaim
              /\ job'.state = "completed" => job'.ran
              /\ job'.state # "gone"
              /\ \/ starts' = starts + 1 /\ job'.completed = job.completed + 1
                 \/ starts' = starts /\ job'.completed = job.completed
    <3>1. CASE Present /\ ~Spent(job) /\ job' = Dispatched /\ starts' = starts + 1
      BY <1>0, <3>1, DispatchedJob DEF Present, Ending
    <3>2. CASE ~Present /\ job' = job
      BY <1>0, <3>2 DEF Present, Ending
    <3>3. CASE Present /\ job' = Gone
      BY <1>0, <3>3, GoneJob
    <3>4. CASE Present /\ job.ran /\ job' = [job EXCEPT !.state = "completed"] /\ starts' = starts
      BY <1>0, <3>4, StateOfJob
    <3> QED BY <1>7, <3>1, <3>2, <3>3, <3>4 DEF Dispatch
  <2>2. TypeOK'
    <3>1. /\ run' \in [Processes -> {"none", "queued", "claimed", "begun", "live", "marking"}]
          /\ noted' \in [Processes -> Processes \cup {None}]
          /\ flagged' \in [Processes -> BOOLEAN]
      BY <1>0, <1>7 DEF Dispatch, Ended, Stage, TypeOK
    <3>2. starts' \in Nat /\ UNCHANGED <<when, life, ticking, for, toMark, records, upsets>>
      BY <1>0, <1>7 DEF Dispatch
    <3> QED BY <1>0, <2>1, <3>1, <3>2 DEF TypeOK, Jobs
  <2>3. Ending' /\ Counted'
    <3>1. Ending'
      BY <2>1 DEF Ending, Present
    <3>2. Counted'
      BY <1>0, <1>7, <2>1 DEF Dispatch, Counted, Present, Jobs, Gone, Ending
    <3> QED BY <3>1, <3>2
  <2>4. /\ \A q \in Processes : for'[q] = for[q] /\ records'[q] = records[q] /\ records[q] <= 1
        /\ UNCHANGED upsets
    BY <1>0, <1>7 DEF Dispatch, ClaimIsForNow
  <2> QED BY <2>1, <2>2, <2>3, <2>4, ClaimKinds, RecordIInv
<1>8. CASE Mark(p)
  <2>0. UNCHANGED <<for, starts, upsets>> /\ Records(p)
    BY <1>8 DEF Mark
  <2>1. job' \in Jobs /\ records' \in [Processes -> Nat]
    BY <1>0, <2>0, RecordsEffect DEF IInv
  <2>2. TypeOK'
    BY <1>0, <1>8, <2>1 DEF Mark, Ended, Stage, TypeOK, Jobs
  <2>3. Ending' /\ Counted' /\ job'.occurrence = job.occurrence
    BY <1>0, <2>0, <2>1, RecordsEffect DEF Ending, Counted, Present, Jobs
  <2>4. \A q \in Processes :
          \/ job'.fireClaim.by # q /\ records'[q] <= 1
          \/ job'.fireClaim = job.fireClaim /\ records'[q] = records[q]
    <3>1. \A q \in Processes : records[q] <= 1
      BY <1>0 DEF ClaimIsForNow
    <3> QED BY <1>0, <2>0, <3>1, ClaimKinds, RecordsEffect
  <2> QED BY <2>0, <2>2, <2>3, <2>4, RecordIInv
<1>9. CASE RenewRunClaim(p) \/ RenewFireClaim(p)
  <2>1. /\ job' \in Jobs /\ job'.occurrence = job.occurrence /\ job'.completed = job.completed
        /\ job'.state = job.state /\ job'.fireClaim.by = job.fireClaim.by /\ job'.ran = job.ran
        /\ Present
    <3>1. CASE job' = [job EXCEPT !.runClaim.age = "fresh"] /\ job.runClaim.by # None
      BY <1>0, <3>1, FreshRun, ClaimKinds DEF Ending
    <3>2. CASE job' = [job EXCEPT !.fireClaim.age = "fresh"] /\ job.fireClaim.by = p
      BY <1>0, <3>2, FreshFire, ClaimKinds, OneShotAssumption DEF Ending
    <3> QED BY <1>9, <3>1, <3>2 DEF RenewRunClaim, RenewFireClaim, TendsRun, TendsFire
  <2>2. TypeOK'
    BY <1>0, <1>9, <2>1 DEF RenewRunClaim, RenewFireClaim, TypeOK, Jobs
  <2>3. Ending' /\ Counted'
    BY <1>0, <1>9, <2>1 DEF RenewRunClaim, RenewFireClaim, Ending, Counted, Present
  <2>4. ClaimIsForNow'
    BY <1>0, <1>9, <2>1 DEF RenewRunClaim, RenewFireClaim, ClaimIsForNow
  <2>5. Typed'
    BY <1>0, <1>9, <2>1, <2>2 DEF RenewRunClaim, RenewFireClaim, Typed
  <2> QED BY <2>3, <2>4, <2>5 DEF IInv
<1> QED BY <1>1, <1>2, <1>3, <1>5, <1>6, <1>7, <1>8, <1>9 DEF TickStep, ThreadStep

LEMMA OtherIInv ==
    ASSUME IInv, NEW p \in Processes, ShutDown(p) \/ MarkInterrupted(p) \/ Exit(p) \/ Die(p)
    PROVE  IInv'
<1> USE DEF clockwork, threads
<1>0. /\ job \in Jobs /\ TypeOK /\ Typed /\ Ending /\ Counted /\ ClaimIsForNow
      /\ starts \in Nat /\ records \in [Processes -> Nat]
  BY DEF IInv, Typed, TypeOK, Jobs
<1>1. CASE ShutDown(p) \/ Exit(p) \/ Die(p)
  <2>1. /\ upsets' \subseteq Upsets /\ IsFiniteSet(upsets') /\ Cardinality(upsets') <= MaxUpsets
        /\ "rearm" \in upsets' <=> "rearm" \in upsets
    <3>1. CASE UNCHANGED upsets
      BY <1>0, <3>1 DEF Typed, TypeOK
    <3>2. ASSUME NEW k \in {"shutdown", "death"}, Upset(k)
          PROVE  /\ upsets' \subseteq Upsets /\ IsFiniteSet(upsets')
                 /\ Cardinality(upsets') <= MaxUpsets
                 /\ "rearm" \in upsets' <=> "rearm" \in upsets
      BY <1>0, <3>2, UpsetEffect
    <3> QED BY <1>1, <3>1, <3>2 DEF ShutDown, Exit, Die
  <2>2. UNCHANGED <<job, when, for, starts, records>>
    BY <1>1 DEF ShutDown, Exit, Die, Leaves
  <2>3. TypeOK'
    <3>1. CASE ShutDown(p)
      BY <1>0, <2>1, <3>1 DEF ShutDown, TypeOK
    <3>2. CASE Leaves(p)
      BY <1>0, <2>1, <3>2 DEF Leaves, Ended, Stage, TypeOK
    <3> QED BY <1>1, <3>1, <3>2 DEF Exit, Die
  <2>4. Typed'
    BY <1>0, <2>1, <2>2, <2>3 DEF Typed
  <2>5. ClaimIsForNow' /\ Ending' /\ Counted'
    BY <1>0, <2>2 DEF ClaimIsForNow, Ending, Counted, Present
  <2> QED BY <2>4, <2>5 DEF IInv
<1>2. CASE MarkInterrupted(p)
  <2>0. UNCHANGED <<for, starts, upsets>> /\ Records(p)
    BY <1>2 DEF MarkInterrupted
  <2>1. job' \in Jobs /\ records' \in [Processes -> Nat]
    BY <1>0, <2>0, RecordsEffect DEF IInv
  <2>2. TypeOK'
    BY <1>0, <1>2, <2>1 DEF MarkInterrupted, TypeOK, Jobs
  <2>3. Ending' /\ Counted' /\ job'.occurrence = job.occurrence
    BY <1>0, <2>0, <2>1, RecordsEffect DEF Ending, Counted, Present, Jobs
  <2>4. \A q \in Processes :
          \/ job'.fireClaim.by # q /\ records'[q] <= 1
          \/ job'.fireClaim = job.fireClaim /\ records'[q] = records[q]
    <3>1. \A q \in Processes : records[q] <= 1
      BY <1>0 DEF ClaimIsForNow
    <3> QED BY <1>0, <2>0, <3>1, ClaimKinds, RecordsEffect
  <2> QED BY <2>0, <2>2, <2>3, <2>4, RecordIInv
<1> QED BY <1>1, <1>2

\* Time, and people.
LEMMA WorldIInv ==
    ASSUME IInv, TimeStep \/ Stall \/ Pause \/ Resume \/ Trigger \/ Rearm \/ Remove
    PROVE  IInv'
<1> USE DEF clockwork, threads
<1>0. /\ job \in Jobs /\ TypeOK /\ Typed /\ Ending /\ Counted /\ ClaimIsForNow
      /\ starts \in Nat /\ records \in [Processes -> Nat]
  BY DEF IInv, Typed, TypeOK, Jobs
<1>1. ASSUME NEW k, Upset(k)
      PROVE  /\ upsets' \subseteq Upsets /\ IsFiniteSet(upsets') /\ Cardinality(upsets') <= MaxUpsets
             /\ "rearm" \in upsets' <=> "rearm" \in upsets \/ k = "rearm"
             /\ k \notin upsets
  BY <1>0, <1>1, UpsetEffect
<1>2. CASE GoesBy
  <2>1. TypeOK'
    BY <1>0, <1>2 DEF GoesBy, TypeOK
  <2>2. UNCHANGED <<job, for, records, starts, upsets>>
    BY <1>2 DEF GoesBy
  <2> QED BY <1>0, <2>1, <2>2 DEF IInv, Typed, ClaimIsForNow, Ending, Counted, Present
<1>3. CASE AgeRunClaim \/ AgeFireClaim
  <2>1. /\ job' \in Jobs /\ job'.state = job.state /\ job'.completed = job.completed
        /\ job'.ran = job.ran /\ job'.occurrence = job.occurrence
        /\ job'.fireClaim.by = job.fireClaim.by /\ Present
    <3>1. job.runClaim \in Claims /\ job.fireClaim \in Claims
      BY <1>0 DEF Jobs
    <3>2. CASE AgeRunClaim
      <4>1. Live(job.runClaim) /\ job' = [job EXCEPT !.runClaim = Aged(@)]
        BY <3>2 DEF AgeRunClaim, MayAge
      <4>2. PICK c \in Claims : c.by = job.runClaim.by /\ job' = [job EXCEPT !.runClaim = c]
        BY <1>0, <3>1, <4>1, AgeKinds DEF Jobs
      <4>3. Present
        BY <1>0, <4>1, ClaimKinds DEF Ending
      <4> QED BY <1>0, <4>2, <4>3, RunClaimOfJob
    <3>3. CASE AgeFireClaim
      <4>1. Live(job.fireClaim) /\ job' = [job EXCEPT !.fireClaim = Aged(@)]
        BY <3>3 DEF AgeFireClaim, MayAge
      <4>2. PICK c \in Claims : c.by = job.fireClaim.by /\ job' = [job EXCEPT !.fireClaim = c]
        BY <1>0, <3>1, <4>1, AgeKinds DEF Jobs
      <4>3. Present
        BY <1>0, <4>1, ClaimKinds DEF Ending
      <4> QED BY <1>0, <4>2, <4>3, FireClaimOfJob
    <3> QED BY <1>3, <3>2, <3>3
  <2>2. UNCHANGED <<when, upsets, life, ticking, run, noted, for, flagged, toMark, starts, records>>
    BY <1>3 DEF AgeRunClaim, AgeFireClaim
  <2>3. TypeOK'
    BY <1>0, <2>1, <2>2 DEF TypeOK, Jobs
  <2> QED BY <1>0, <2>1, <2>2, <2>3 DEF IInv, Typed, ClaimIsForNow, Ending, Counted, Present
<1>4. CASE Stall
  <2>1. UNCHANGED <<job, when, life, ticking, run, noted, for, flagged, toMark, starts, records>>
    BY <1>4 DEF Stall
  <2>2. TypeOK'
    BY <1>0, <1>1, <1>4, <2>1 DEF Stall, TypeOK
  <2>3. Typed'
    BY <1>0, <1>1, <1>4, <2>1, <2>2 DEF Stall, Typed
  <2> QED BY <1>0, <2>1, <2>3 DEF IInv, ClaimIsForNow, Ending, Counted, Present
<1>5. CASE Pause \/ Resume \/ Trigger
  <2>1. /\ job' \in Jobs /\ job'.state \in {"scheduled", "paused"} /\ job'.completed = job.completed
        /\ job'.occurrence = job.occurrence /\ job'.fireClaim = job.fireClaim /\ Present
    <3>1. /\ job.state \in {"scheduled", "paused"}
          /\ \E s \in {"scheduled", "paused"} : job' = [job EXCEPT !.state = s]
      BY <1>5 DEF Pause, Resume, Trigger, ByHand
    <3> QED BY <1>0, <3>1, StateOfJob DEF Present
  <2>2. /\ UNCHANGED <<life, ticking, run, noted, for, flagged, toMark, starts, records>>
        /\ when' = when \/ when' = "due"
    BY <1>5 DEF Pause, Resume, Trigger, ByHand
  <2>3. /\ upsets' \subseteq Upsets /\ IsFiniteSet(upsets') /\ Cardinality(upsets') <= MaxUpsets
        /\ "rearm" \in upsets' <=> "rearm" \in upsets
    <3>1. CASE UNCHANGED upsets
      BY <1>0, <3>1 DEF Typed, TypeOK
    <3>2. CASE Upset("pause") \/ Upset("trigger")
      BY <1>1, <3>2
    <3> QED BY <1>5, <3>1, <3>2 DEF Pause, Resume, Trigger
  <2>4. TypeOK'
    BY <1>0, <2>1, <2>2, <2>3 DEF TypeOK, Jobs
  <2>5. Typed' /\ Ending' /\ Counted'
    BY <1>0, <2>1, <2>2, <2>3, <2>4 DEF Typed, Ending, Counted, Present
  <2> QED BY <1>0, <2>1, <2>2, <2>5 DEF IInv, ClaimIsForNow
<1>6. CASE Rearm
  <2>1. /\ job' = Rearmed /\ "rearm" \notin upsets /\ "rearm" \in upsets'
        /\ when' = "before" /\ starts' = 0
        /\ UNCHANGED <<life, ticking, run, noted, for, flagged, toMark, records>>
    BY <1>1, <1>6 DEF Rearm, ByHand
  <2>2. /\ job' \in Jobs /\ job'.state = "scheduled" /\ job'.completed = 0
        /\ job'.occurrence = 2 /\ job'.fireClaim = NoClaim
    BY <1>0, <2>1, RearmedJob DEF Typed
  <2>3. TypeOK'
    BY <1>0, <1>1, <1>6, <2>1, <2>2 DEF Rearm, TypeOK, Jobs
  <2>4. Typed' /\ Ending' /\ Counted'
    BY <1>0, <1>1, <1>6, <2>1, <2>2, <2>3 DEF Rearm, Typed, Ending, Counted, Present
  <2> QED BY <1>0, <2>1, <2>2, <2>4, ClaimKinds DEF IInv, ClaimIsForNow
<1>7. CASE Remove
  <2>1. /\ job' = Gone
        /\ UNCHANGED <<when, life, ticking, run, noted, for, flagged, toMark, starts, records>>
    BY <1>7 DEF Remove, ByHand
  <2>2. /\ job' \in Jobs /\ job'.state = "gone" /\ job'.occurrence = job.occurrence
        /\ job'.fireClaim = NoClaim /\ job'.runClaim = NoClaim
    BY <1>0, <2>1, GoneJob
  <2>3. TypeOK'
    BY <1>0, <1>1, <1>7, <2>1, <2>2 DEF Remove, TypeOK, Jobs
  <2>4. Typed' /\ Ending' /\ Counted'
    BY <1>0, <1>1, <1>7, <2>1, <2>2, <2>3 DEF Remove, Typed, Ending, Counted, Present
  <2> QED BY <1>0, <2>1, <2>2, <2>4, ClaimKinds DEF IInv, ClaimIsForNow
<1> QED BY <1>2, <1>3, <1>4, <1>5, <1>6, <1>7 DEF TimeStep

LEMMA NextIInv == IInv /\ [Next]_vars => IInv'
<1>1. ASSUME IInv, UNCHANGED vars PROVE IInv'
  BY <1>1 DEF vars, IInv, Typed, TypeOK, ClaimIsForNow, Ending, Counted, Present
<1> QED BY <1>1, ThreadIInv, OtherIInv, WorldIInv DEF Next, ProcessStep

LEMMA IInvHolds == Spec => []IInv
  BY InitIInv, NextIInv, PTL DEF Spec

\* Every value is of its kind, and the dispatches stay in the budget.
THEOREM TypeCorrect == Spec => []TypeOK
<1>1. IInv => TypeOK
  BY DEF IInv, Typed
<1> QED BY <1>1, IInvHolds, PTL

\* However shutdown and thread meet, the outcome of a run is recorded once.
THEOREM OneRecord == Spec => []RecordedOnce
<1>1. IInv => RecordedOnce
  BY DEF IInv, ClaimIsForNow, RecordedOnce
<1> QED BY <1>1, IInvHolds, PTL

\* Whatever is recorded late is turned away: the fire_claim of a run that is
\* of another occurrence is gone.
THEOREM RecordsOfItsOccurrence == Spec => RecordsItsOccurrence
<1> DEFINE A == \A p \in Processes : records'[p] > records[p] => for[p] = job.occurrence
<1>1. IInv /\ [Next]_vars => [A]_vars
  <2> SUFFICES ASSUME IInv, Next, NEW p \in Processes, records'[p] > records[p]
               PROVE  for[p] = job.occurrence
    OBVIOUS
  <2>0. records \in [Processes -> Nat] /\ ~(records[p] > records[p]) /\ ~(0 > records[p])
    BY DEF IInv, Typed, TypeOK
  <2>1. ASSUME NEW q \in Processes, Records(q) PROVE for[p] = job.occurrence
    BY <2>0, <2>1, RecordsEffect
  <2>2. ASSUME NEW q \in Processes, FireClaim(q) PROVE FALSE
    BY <2>0, <2>2 DEF FireClaim
  <2>3. CASE UNCHANGED records
    BY <2>0, <2>3
  <2>4. ASSUME NEW q \in Processes, ProcessStep(q) PROVE for[p] = job.occurrence
    <3>1. \/ FireClaim(q) \/ Records(q) \/ UNCHANGED records
      BY <2>4
      DEF ProcessStep, TickStep, ThreadStep, Scan, Submit, SubmitFails, Skip, Begin, Dispatch,
          RunEnds, Mark, RenewRunClaim, RenewFireClaim, ShutDown, MarkInterrupted, Exit, Die,
          Leaves, threads
    <3> QED BY <2>1, <2>2, <2>3, <3>1
  <2>5. CASE TimeStep \/ Stall \/ Pause \/ Resume \/ Trigger \/ Rearm \/ Remove
    BY <2>3, <2>5
    DEF TimeStep, GoesBy, AgeRunClaim, AgeFireClaim, Stall, Pause, Resume, Trigger, Rearm,
        Remove, ByHand, threads
  <2> QED BY <2>4, <2>5 DEF Next
<1> QED BY <1>1, IInvHolds, PTL DEF Spec, RecordsItsOccurrence

----------------------------------------------------------------------------
(* No live run loses its record. *)

LEMMA InitGuarded == Init => Guarded
  BY OneShotAssumption DEF Init, Guarded, Present, AtWork, Armed

\* What has happened has happened.
LEMMA UpsetsStay == [Next]_vars => upsets \subseteq upsets'
  BY DEF Next, ProcessStep, TickStep, ThreadStep, TimeStep, vars, clockwork, Upset, Scan, Submit,
         SubmitFails, Skip, FireClaim, Begin, Dispatch, RunEnds, Mark, RenewRunClaim,
         RenewFireClaim, ShutDown, MarkInterrupted, Exit, Die, GoesBy, AgeRunClaim,
         AgeFireClaim, Stall, Pause, Resume, Trigger, Rearm, Remove

LEMMA NextGuarded ==
    ASSUME IInv, Guarded, Next, Undisturbed', IInv'
    PROVE  Guarded'
<1> USE DEF clockwork, threads
<1>0. /\ job \in Jobs /\ Ending /\ Counted /\ starts \in Nat /\ TypeOK
      /\ run \in [Processes -> {"none", "queued", "claimed", "begun", "live", "marking"}]
      /\ \A p \in Processes : p # None
  BY OneShotAssumption DEF IInv, Typed, TypeOK, Jobs
<1>1. \A k \in {"stall", "trigger", "rearm", "remove"} : ~Upset(k)
  BY DEF Upset, Undisturbed
\* The run of p goes no further, the record and the tick stay.
<1>2. ASSUME NEW p \in Processes, job' = job, when' = when, starts' = starts,
             ticking' = ticking \/ ticking' = None,
             \A q \in Processes : AtWork(q)' => AtWork(q),
             \A q \in Processes : run'[q] # "none" => run[q] # "none"
      PROVE  Guarded'
  BY <1>0, <1>2 DEF Guarded, Present, Armed
<1>3. ASSUME NEW p \in Processes, Scan(p) PROVE Guarded'
  <2>1. UNCHANGED <<when, starts, run>> /\ ticking = None /\ job.state = "scheduled" /\ Free
    BY <1>3 DEF Scan
  <2>2. CASE job' = Gone /\ ticking' = ticking /\ (Expired \/ Wedged(p))
    <3>1. job'.state = "gone"
      BY <1>0, <2>2, GoneJob
    <3>2. \A q \in Processes : ~AtWork(q)
      <4>1. CASE Expired
        BY <2>1, <4>1, ClaimKinds DEF Expired, Guarded, Armed
      <4>2. CASE Wedged(p)
        BY <2>1, <4>2 DEF Wedged, Guarded, Armed, Free, AtWork
      <4> QED BY <2>2, <4>1, <4>2
    <3> QED BY <2>1, <2>2, <3>1, <3>2 DEF Guarded, Present, Armed, AtWork
  <2>3. CASE /\ when = "due" /\ job' = [job EXCEPT !.runClaim = ClaimOf(p)] /\ ticking' = p
    <3>1. /\ job'.state = "scheduled" /\ job'.runClaim = ClaimOf(p)
          /\ job'.fireClaim = job.fireClaim
      BY <1>0, <2>1, <2>3, RunClaimOfJob, ClaimKinds
    <3>2. Live(ClaimOf(p)) /\ ClaimOf(p).age = "fresh"
      BY <1>0, ClaimKinds DEF Live
    <3>3. \A q \in Processes : run[q] = "none"
      BY <2>1, <2>3 DEF Guarded, Armed, Free
    <3> QED BY <2>1, <2>3, <3>1, <3>2, <3>3 DEF Guarded, Present, Armed, AtWork
  <2> QED BY <1>3, <2>2, <2>3 DEF Scan
<1>4. ASSUME NEW p \in Processes, Submit(p) PROVE Guarded'
  <2>1. /\ UNCHANGED <<job, when, starts>> /\ ticking = p /\ ticking' = None /\ run[p] = "none"
        /\ run' = [run EXCEPT ![p] = "queued"]
    BY <1>4 DEF Submit
  <2> QED BY <1>0, <2>1 DEF Guarded, Present, Armed, AtWork
<1>5. ASSUME NEW p \in Processes, SubmitFails(p) PROVE Guarded'
  <2>1. /\ UNCHANGED <<when, starts, run>> /\ ticking = p /\ ticking' = None
        /\ job' = [job EXCEPT !.runClaim = NoClaim]
    BY <1>5 DEF SubmitFails, Cleared
  <2>2. job'.state = job.state /\ job'.fireClaim = job.fireClaim
    BY <1>0, <2>1, RunClaimOfJob, ClaimKinds
  <2> QED BY <1>0, <2>1, <2>2 DEF Guarded, Present, Armed, AtWork
<1>6. ASSUME NEW p \in Processes, Skip(p) PROVE Guarded'
  BY <1>0, <1>6 DEF Skip, Guarded, Present, Armed, AtWork
<1>7. ASSUME NEW p \in Processes, FireClaim(p) PROVE Guarded'
  <2>0. UNCHANGED <<when, ticking, starts>> /\ run[p] = "queued"
    BY <1>7 DEF FireClaim
  <2>1. CASE /\ job.state = "scheduled" /\ ~Live(job.fireClaim)
             /\ job' = [job EXCEPT !.fireClaim = ClaimOf(p)] /\ run' = [run EXCEPT ![p] = "claimed"]
    <3>1. job'.state = "scheduled" /\ job'.runClaim = job.runClaim
      BY <1>0, <2>1, FireClaimOfJob, ClaimKinds
    <3>2. \A q \in Processes : ~AtWork(q)
      BY <1>0, <2>1 DEF Guarded, Armed, Live
    <3>3. \A q \in Processes : ~AtWork(q)'
      BY <1>0, <2>1, <3>2 DEF AtWork
    <3> QED BY <1>0, <2>0, <2>1, <3>1, <3>3 DEF Guarded, Present, Armed
  <2>2. CASE UNCHANGED job /\ Ended(p)
    <3>1. run' = [run EXCEPT ![p] = "none"]
      BY <2>2 DEF Ended, Stage
    <3> QED BY <1>0, <1>2, <2>0, <2>2, <3>1 DEF AtWork
  <2> QED BY <1>7, <2>1, <2>2 DEF FireClaim, Stage
<1>8. ASSUME NEW p \in Processes, Begin(p) PROVE Guarded'
  <2>0. UNCHANGED <<when, ticking, starts>> /\ run[p] = "claimed"
    BY <1>8 DEF Begin
  <2>1. CASE /\ job.fireClaim.by = p /\ job' = [job EXCEPT !.fireClaim.age = "fresh"]
             /\ run' = [run EXCEPT ![p] = "begun"]
    <3>1. /\ job'.state = job.state /\ job'.runClaim = job.runClaim
          /\ job'.fireClaim.by = p /\ job'.fireClaim.age = "fresh"
      BY <1>0, <2>1, FreshFire
    <3>2. job.state # "gone"
      BY <1>0, <2>1, ClaimKinds DEF Ending, Present
    <3>3. Armed => \A q \in Processes : AtWork(q) => q = p
      BY <1>0, <2>1 DEF Guarded
    <3> QED BY <1>0, <2>0, <2>1, <3>1, <3>2, <3>3 DEF Guarded, Present, Armed, AtWork
  <2>2. CASE UNCHANGED job /\ Ended(p)
    <3>1. run' = [run EXCEPT ![p] = "none"]
      BY <2>2 DEF Ended, Stage
    <3> QED BY <1>0, <1>2, <2>0, <2>2, <3>1 DEF AtWork
  <2> QED BY <1>8, <2>1, <2>2 DEF Begin, Stage
<1>9. ASSUME NEW p \in Processes, Dispatch(p) PROVE Guarded'
  <2>0. /\ UNCHANGED <<when, ticking>> /\ run[p] = "begun" /\ Present
    BY <1>9 DEF Dispatch, Guarded, AtWork
  <2>1. CASE ~Spent(job) /\ job' = Dispatched /\ starts' = starts + 1 /\ run' = [run EXCEPT ![p] = "live"]
    <3>1. /\ job'.state = job.state /\ job'.runClaim = job.runClaim
          /\ job'.fireClaim = job.fireClaim
      BY <1>0, <2>1, DispatchedJob
    <3>2. starts' <= Times
      BY <1>0, <2>0, <2>1, OneShotAssumption DEF Counted, Spent, Jobs
    <3> QED BY <1>0, <2>0, <2>1, <3>1, <3>2 DEF Guarded, Present, Armed, AtWork
  <2>2. CASE Ended(p) /\ starts' = starts /\ job' = [job EXCEPT !.state = "completed"]
    <3>1. job'.state = "completed" /\ run' = [run EXCEPT ![p] = "none"]
      BY <1>0, <2>2, StateOfJob DEF Ended, Stage
    <3> QED BY <1>0, <2>0, <2>2, <3>1 DEF Guarded, Present, Armed, AtWork
  <2>3. CASE Ended(p) /\ starts' = starts /\ job' = Gone /\ ~job.ran
    <3>1. job'.state = "gone" /\ run' = [run EXCEPT ![p] = "none"]
      BY <1>0, <2>3, GoneJob DEF Ended, Stage
    <3>2. Armed
      BY <1>0, <2>0, <2>3 DEF Ending, Jobs, Armed, Present
    <3>3. \A q \in Processes : AtWork(q) => q = p
      BY <1>0, <2>0, <3>2 DEF Guarded, AtWork
    <3>4. \A q \in Processes : ~AtWork(q)'
      BY <1>0, <3>1, <3>3 DEF AtWork
    <3> QED BY <1>0, <2>0, <2>3, <3>1, <3>4 DEF Guarded, Present, Armed
  <2> QED BY <1>9, <2>0, <2>1, <2>2, <2>3 DEF Dispatch, Stage
<1>10. ASSUME NEW p \in Processes, RunEnds(p) PROVE Guarded'
  <2>1. /\ UNCHANGED <<job, when, ticking, starts>> /\ run[p] = "live"
        /\ run' = [run EXCEPT ![p] = "none"] \/ run' = [run EXCEPT ![p] = "marking"]
    BY <1>10 DEF RunEnds, Ended, Stage
  <2> QED BY <1>0, <1>2, <2>1 DEF AtWork
\* A record that is completed is due no more.
<1>11. ASSUME NEW p \in Processes, Records(p), UNCHANGED <<when, ticking, starts>>,
              run' = run \/ run' = [run EXCEPT ![p] = "none"]
       PROVE  Guarded'
  <2>1. CASE UNCHANGED job
    BY <1>0, <1>2, <1>11, <2>1 DEF AtWork
  <2>2. CASE job'.state = "completed" /\ Present
    BY <1>0, <1>11, <2>2 DEF Guarded, Present, Armed, AtWork
  <2> QED BY <1>11, <2>1, <2>2, RecordsEffect
<1>12. ASSUME NEW p \in Processes, Mark(p) PROVE Guarded'
  BY <1>11, <1>12 DEF Mark, Ended, Stage
<1>13. ASSUME NEW p \in Processes, MarkInterrupted(p) PROVE Guarded'
  BY <1>11, <1>13 DEF MarkInterrupted
<1>14. ASSUME NEW p \in Processes, ShutDown(p) PROVE Guarded'
  BY <1>2, <1>14 DEF ShutDown, AtWork
<1>15. ASSUME NEW p \in Processes, Leaves(p) PROVE Guarded'
  BY <1>0, <1>2, <1>15 DEF Leaves, Ended, Stage, AtWork
<1>16. ASSUME NEW p \in Processes, RenewRunClaim(p) \/ RenewFireClaim(p) PROVE Guarded'
  <2>1. /\ UNCHANGED <<when, ticking, run, starts>>
        /\ \/ job' = [job EXCEPT !.runClaim.age = "fresh"] /\ job.runClaim.by # None
           \/ job' = [job EXCEPT !.fireClaim.age = "fresh"]
    BY <1>16 DEF RenewRunClaim, RenewFireClaim, TendsRun
  <2>2. CASE job' = [job EXCEPT !.runClaim.age = "fresh"] /\ job.runClaim.by # None
    <3>1. /\ job'.state = job.state /\ job'.fireClaim = job.fireClaim
          /\ Live(job'.runClaim) /\ job'.runClaim.age = "fresh"
      BY <1>0, <2>2, FreshRun DEF Live
    <3> QED BY <1>0, <2>1, <3>1 DEF Guarded, Present, Armed, AtWork
  <2>3. CASE job' = [job EXCEPT !.fireClaim.age = "fresh"]
    <3>1. /\ job'.state = job.state /\ job'.runClaim = job.runClaim
          /\ job'.fireClaim.by = job.fireClaim.by /\ job'.fireClaim.age = "fresh"
      BY <1>0, <2>3, FreshFire
    <3> QED BY <1>0, <2>1, <3>1 DEF Guarded, Present, Armed, AtWork
  <2> QED BY <2>1, <2>2, <2>3
<1>17. CASE GoesBy
  <2>1. /\ UNCHANGED <<job, ticking, run, starts>>
        /\ \/ when = "before" /\ when' = "due"
           \/ when = "due" /\ when' = "late"
    BY <1>17 DEF GoesBy
  <2> QED BY <1>0, <2>1 DEF Guarded, Present, Armed, AtWork
<1>18. CASE AgeRunClaim
  <2>1. /\ UNCHANGED <<when, ticking, run, starts>> /\ MayAge(job.runClaim)
        /\ job' = [job EXCEPT !.runClaim = Aged(@)]
    BY <1>18 DEF AgeRunClaim
  <2>2. job'.state = job.state /\ job'.fireClaim = job.fireClaim
    BY <1>0, <2>1 DEF Jobs
  <2>3. when = "due" => job.runClaim.age # "fresh"
    BY <2>1 DEF MayAge
  <2> QED BY <1>0, <2>1, <2>2, <2>3 DEF Guarded, Present, Armed, AtWork
<1>19. CASE AgeFireClaim
  <2>1. /\ UNCHANGED <<when, ticking, run, starts>>
        /\ job' = [job EXCEPT !.fireClaim = Aged(@)]
        /\ \A p \in Processes : ~TendsFire(p)
    BY <1>19 DEF AgeFireClaim, Stalled, Undisturbed
  <2>2. job'.state = job.state /\ job'.runClaim = job.runClaim
    BY <1>0, <2>1 DEF Jobs
  <2>3. Armed => \A p \in Processes : ~AtWork(p)
    BY <2>1 DEF Guarded, TendsFire
  <2> QED BY <1>0, <2>1, <2>2, <2>3 DEF Guarded, Present, Armed, AtWork
<1>20. CASE Pause \/ Resume
  <2>1. /\ UNCHANGED <<when, ticking, run, starts>> /\ Armed
        /\ \E s \in {"scheduled", "paused"} : job' = [job EXCEPT !.state = s]
    BY <1>20 DEF Pause, Resume, ByHand, Armed
  <2>2. /\ job'.state \in {"scheduled", "paused"} /\ job'.runClaim = job.runClaim
        /\ job'.fireClaim = job.fireClaim
    BY <1>0, <2>1, StateOfJob
  <2> QED BY <1>0, <2>1, <2>2 DEF Guarded, Present, Armed, AtWork
<1>21. ~Stall /\ ~Trigger /\ ~Rearm /\ ~Remove
  BY <1>1 DEF Stall, Trigger, Rearm, Remove
<1> QED
  BY <1>3, <1>4, <1>5, <1>6, <1>7, <1>8, <1>9, <1>10, <1>12, <1>13, <1>14, <1>15, <1>16, <1>17,
     <1>18, <1>19, <1>20, <1>21
  DEF Next, ProcessStep, TickStep, ThreadStep, TimeStep, Exit, Die

LEMMA GInvHolds == Spec => [](IInv /\ GInv)
<1>1. Init => IInv /\ GInv
  BY InitIInv, InitGuarded DEF GInv
<1>2. IInv /\ GInv /\ [Next]_vars => (IInv /\ GInv)'
  <2> SUFFICES ASSUME IInv, GInv, [Next]_vars PROVE IInv' /\ GInv'
    OBVIOUS
  <2>1. IInv'
    BY NextIInv
  <2>2. Undisturbed' => Undisturbed
    BY UpsetsStay DEF Undisturbed
  <2>3. ASSUME UNCHANGED vars PROVE GInv'
    BY <2>3 DEF vars, GInv, Undisturbed, Guarded, Present, AtWork, Armed
  <2>4. ASSUME Next PROVE GInv'
    BY <2>1, <2>2, <2>4, NextGuarded DEF GInv
  <2>5. GInv'
    BY <2>3, <2>4
  <2> QED BY <2>1, <2>5
<1> QED BY <1>1, <1>2, PTL DEF Spec

\* An occurrence runs at most `repeat.times' times, whatever happens while its
\* record is there, and without one too if nobody meddled and no beat stalled.
THEOREM RunsAreBounded == Spec => []AtMostTimes
<1>1. IInv /\ GInv => AtMostTimes
  <2>1. ASSUME IInv, Present PROVE starts <= Times
    <3>1. starts \in Nat /\ job.completed \in 0..Times /\ starts <= job.completed
      BY <2>1 DEF IInv, Typed, TypeOK, Counted
    <3> QED BY <3>1, OneShotAssumption
  <2> QED BY <2>1 DEF GInv, Guarded, AtMostTimes
<1> QED BY <1>1, GInvHolds, PTL

\* The due scan retires no record under a run: in the grace window the fresh
\* run_claim keeps other scans off, later the fire_claim is kept alive.
THEOREM LiveRunsKeepTheirRecord == Spec => []LiveRunKeepsRecord
<1>1. GInv => LiveRunKeepsRecord
  BY DEF GInv, Guarded, LiveRunKeepsRecord
<1> QED BY <1>1, GInvHolds, PTL

=============================================================================
