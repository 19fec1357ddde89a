-------------------------- MODULE CronFiresProofs --------------------------
(***************************************************************************)
(* Theorems about CronFires for every set of processes and fires.          *)
(*                                                                         *)
(* That answers are fenced holds whatever happens.  The two that say who   *)
(* may run are about jobs nobody runs by hand: a manual run registers      *)
(* without a future, so that a sweep may release it while it is live and   *)
(* clear its claim.  The last also needs that renewals come in time.       *)
(***************************************************************************)
EXTENDS CronFires, TLAPS

----------------------------------------------------------------------------
(* Type correctness, one step for each action. *)

\* The store, the registry and the ledger start empty and well typed.
LEMMA InitType == Init => TypeOK
  BY FiresAssumption DEF Init, TypeOK, Stages

\* No operation of the store, the run, the guard or the sweep breaks a type.
LEMMA TypeStep == TypeOK /\ [Next]_vars => TypeOK'
<1> SUFFICES ASSUME TypeOK, [Next]_vars PROVE TypeOK'
  OBVIOUS
<1> USE FiresAssumption DEF TypeOK, Stages, store, runs, local
<1>1. ASSUME NEW p \in Processes, NEW r \in Fires, Submit(p, r) PROVE TypeOK'
  BY <1>1 DEF Submit, Register
<1>2. ASSUME NEW p \in Processes, NEW r \in Fires, FireRow(p, r) PROVE TypeOK'
  BY <1>2 DEF FireRow
<1>3. ASSUME NEW p \in Processes, NEW r \in Fires, ClaimManual(p, r) PROVE TypeOK'
  BY <1>3 DEF ClaimManual, Acquire
<1>4. ASSUME NEW r \in Fires, ClaimQueued(r) PROVE TypeOK'
  BY <1>4 DEF ClaimQueued, Acquire
<1>5. ASSUME NEW r \in Fires, ClaimLost(r) PROVE TypeOK'
  BY <1>5 DEF ClaimLost
<1>6. ASSUME NEW r \in Fires, RegisterManual(r) PROVE TypeOK'
  BY <1>6 DEF RegisterManual, Register
<1>7. ASSUME NEW r \in Fires, AlreadyRunning(r) PROVE TypeOK'
  BY <1>7 DEF AlreadyRunning
<1>8. ASSUME NEW r \in Fires, Begin(r) PROVE TypeOK'
  BY <1>8, ZenonT(30) DEF Begin, CloseRow
<1>9. ASSUME NEW r \in Fires, RunEnds(r) PROVE TypeOK'
  BY <1>9, ZenonT(30) DEF RunEnds, CheckedStep, RecordLost, ClearClaim, CloseRow
<1>10. ASSUME NEW r \in Fires, RunRaises(r) PROVE TypeOK'
  BY <1>10 DEF RunRaises
<1>11. ASSUME NEW r \in Fires, RecordFailure(r) PROVE TypeOK'
  BY <1>11 DEF RecordFailure, ClearClaim, CloseRow
<1>12. ASSUME NEW r \in Fires, Save(r) PROVE TypeOK'
  <2>1. CASE token[r] = None \/ Renews(r)
    <3>1. PICK next \in {"saved", "delivered"} : stage' = [stage EXCEPT ![r] = next]
      BY <1>12, <2>1 DEF Save
    <3> QED
      BY <1>12, <2>1, <3>1 DEF Save
  <2>2. CASE ~(token[r] = None \/ Renews(r))
    BY <1>12, <2>2 DEF Save, RecordLost, ClearClaim, CloseRow
  <2> QED BY <2>1, <2>2
<1>13. ASSUME NEW r \in Fires, Deliver(r) PROVE TypeOK'
  <2>1. CASE Lost(r)
    <3>1. /\ stage[r] = "saved" /\ RecordLost(r)
          /\ UNCHANGED <<fence, latest, at, token, lost, cancelled, local>>
      BY <1>13, <2>1 DEF Deliver
    <3> QED
      BY <3>1, ZenonT(30) DEF RecordLost, ClearClaim, CloseRow
  <2>2. CASE ~Lost(r)
    BY <1>13, <2>2 DEF Deliver, Lost, Renews, FenceFree
  <2> QED BY <2>1, <2>2
<1>14. ASSUME NEW r \in Fires, Delivered(r) PROVE TypeOK'
  BY <1>14 DEF Delivered, FenceAfter
<1>15. ASSUME NEW r \in Fires, Record(r) PROVE TypeOK'
  BY <1>15, ZenonT(30) DEF Record, RecordLost, ClearClaim, CloseRow
<1>16. ASSUME NEW r \in Fires, Finish(r) PROVE TypeOK'
  BY <1>16 DEF Finish, Released
<1>17. ASSUME NEW r \in Fires, Heartbeat(r) PROVE TypeOK'
  BY <1>17 DEF Heartbeat
<1>18. ASSUME NEW r \in Fires, Cancel(r) PROVE TypeOK'
  BY <1>18 DEF Cancel
<1>19. ASSUME NEW p \in Processes, Age(p) PROVE TypeOK'
  BY <1>19 DEF Age
<1>20. ASSUME NEW p \in Processes, SweepRelease(p) PROVE TypeOK'
  BY <1>20 DEF SweepRelease
<1>21. ASSUME NEW p \in Processes, SweepMark(p) PROVE TypeOK'
  BY <1>21 DEF SweepMark, ClearClaim
<1>22. ASSUME NEW p \in Processes, Crash(p) PROVE TypeOK'
  BY <1>22 DEF Crash
<1>23. CASE Expire
  BY <1>23 DEF Expire
<1>24. CASE UNCHANGED vars
  BY <1>24 DEF vars
<1> QED
  BY <1>1, <1>2, <1>3, <1>4, <1>5, <1>6, <1>7, <1>8, <1>9, <1>10, <1>11, <1>12, <1>13,
     <1>14, <1>15, <1>16, <1>17, <1>18, <1>19, <1>20, <1>21, <1>22, <1>23, <1>24
     DEF Next, Start, RunStep, SweepStep

----------------------------------------------------------------------------
(* The fence: whoever sends with a token holds the fence and the claim. *)

\* The claim changes hands only while the fence is free.
Fenced ==
    \A r \in Fires : stage[r] = "delivering" /\ token[r] # None =>
        fence = r /\ claim = token[r]

\* Every write to the claim (acquiring, clearing) waits for the fence, and only
\* the delivery that took the fence gives it back.
LEMMA FencedStep == TypeOK /\ Fenced /\ [Next]_vars => Fenced'
<1> SUFFICES ASSUME TypeOK, Fenced, [Next]_vars PROVE Fenced'
  OBVIOUS
<1> USE FiresAssumption DEF Fenced, FenceFree, TypeOK, Stages, store, runs, local
<1>1. ASSUME NEW p \in Processes, NEW r \in Fires, Submit(p, r) PROVE Fenced'
  BY <1>1 DEF Submit, Register
<1>2. ASSUME NEW p \in Processes, NEW r \in Fires, FireRow(p, r) PROVE Fenced'
  BY <1>2 DEF FireRow
<1>3. ASSUME NEW p \in Processes, NEW r \in Fires, ClaimManual(p, r) PROVE Fenced'
  BY <1>3 DEF ClaimManual, Acquire, Available
<1>4. ASSUME NEW r \in Fires, ClaimQueued(r) PROVE Fenced'
  BY <1>4 DEF ClaimQueued, Acquire, Available
<1>5. ASSUME NEW r \in Fires, ClaimLost(r) PROVE Fenced'
  BY <1>5 DEF ClaimLost
<1>6. ASSUME NEW r \in Fires, RegisterManual(r) PROVE Fenced'
  BY <1>6 DEF RegisterManual, Register
<1>7. ASSUME NEW r \in Fires, AlreadyRunning(r) PROVE Fenced'
  BY <1>7 DEF AlreadyRunning
<1>8. ASSUME NEW r \in Fires, Begin(r) PROVE Fenced'
  BY <1>8 DEF Begin, CloseRow, MayBegin, Renews, Owns
<1>9. ASSUME NEW r \in Fires, RunEnds(r) PROVE Fenced'
  BY <1>9 DEF RunEnds, CheckedStep, RecordLost, ClearClaim, CloseRow, Renews, Owns
<1>10. ASSUME NEW r \in Fires, RunRaises(r) PROVE Fenced'
  BY <1>10 DEF RunRaises
<1>11. ASSUME NEW r \in Fires, RecordFailure(r) PROVE Fenced'
  BY <1>11 DEF RecordFailure, ClearClaim, CloseRow, MayMark, Owns
<1>12. ASSUME NEW r \in Fires, Save(r) PROVE Fenced'
  BY <1>12 DEF Save, RecordLost, ClearClaim, CloseRow, Renews, Owns
<1>13. ASSUME NEW r \in Fires, Deliver(r) PROVE Fenced'
  BY <1>13 DEF Deliver, Lost, Renews, Owns, RecordLost, ClearClaim, CloseRow
<1>14. ASSUME NEW r \in Fires, Delivered(r) PROVE Fenced'
  BY <1>14 DEF Delivered, FenceAfter
<1>15. ASSUME NEW r \in Fires, Record(r) PROVE Fenced'
  BY <1>15 DEF Record, RecordLost, ClearClaim, CloseRow, Renews, Owns, MayMark
<1>16. ASSUME NEW r \in Fires, Finish(r) PROVE Fenced'
  BY <1>16 DEF Finish, Released
<1>17. ASSUME NEW r \in Fires, Heartbeat(r) PROVE Fenced'
  BY <1>17 DEF Heartbeat
<1>18. ASSUME NEW r \in Fires, Cancel(r) PROVE Fenced'
  BY <1>18 DEF Cancel
<1>19. ASSUME NEW p \in Processes, Age(p) PROVE Fenced'
  BY <1>19 DEF Age
<1>20. ASSUME NEW p \in Processes, SweepRelease(p) PROVE Fenced'
  BY <1>20 DEF SweepRelease
<1>21. ASSUME NEW p \in Processes, SweepMark(p) PROVE Fenced'
  BY <1>21 DEF SweepMark, ClearClaim
<1>22. ASSUME NEW p \in Processes, Crash(p) PROVE Fenced'
  BY <1>22 DEF Crash
<1>23. CASE Expire
  BY <1>23 DEF Expire
<1>24. CASE UNCHANGED vars
  BY <1>24 DEF vars
<1> QED
  BY <1>1, <1>2, <1>3, <1>4, <1>5, <1>6, <1>7, <1>8, <1>9, <1>10, <1>11, <1>12, <1>13,
     <1>14, <1>15, <1>16, <1>17, <1>18, <1>19, <1>20, <1>21, <1>22, <1>23, <1>24
     DEF Next, Start, RunStep, SweepStep

----------------------------------------------------------------------------
(* The in-flight guard, when nobody runs the job by hand. *)

\* A fire some thread still works for.
Busy(r) == stage[r] \notin {"idle", "done", "dead"}

\* A process's registration and its busy tick determine one another: what the
\* ticker registered stays registered until its run has finished.
Registered ==
    /\ \A p \in Processes : guard[p] # None =>
          guard[p] \in Ticked /\ at[guard[p]] = p /\ Busy(guard[p])
    /\ \A r \in Ticked : Busy(r) => at[r] \in Processes /\ guard[at[r]] = r
    /\ \A r \in Fires : stage[r] = "idle" => at[r] = None
    /\ \A r \in Fires : stage[r] # "claimed"
    /\ marking = {}

\* The sweep releases nothing: each registration has a live future.
LEMMA RegisteredStep == Manual = {} /\ TypeOK /\ Registered /\ [Next]_vars => Registered'
<1> SUFFICES ASSUME Manual = {}, TypeOK, Registered, [Next]_vars PROVE Registered'
  OBVIOUS
<1> USE FiresAssumption DEF Registered, Busy, Fires, TypeOK, Stages, store, runs, local
<1>1. ASSUME NEW p \in Processes, NEW r \in Fires, Submit(p, r) PROVE Registered'
  BY <1>1 DEF Submit, Register
<1>2. ASSUME NEW p \in Processes, NEW r \in Fires, FireRow(p, r) PROVE Registered'
  BY <1>2 DEF FireRow
<1>3. ASSUME NEW p \in Processes, NEW r \in Fires, ClaimManual(p, r) PROVE Registered'
  BY <1>3 DEF ClaimManual, Acquire, Available
<1>4. ASSUME NEW r \in Fires, ClaimQueued(r) PROVE Registered'
  BY <1>4 DEF ClaimQueued, Acquire, Available
<1>5. ASSUME NEW r \in Fires, ClaimLost(r) PROVE Registered'
  BY <1>5 DEF ClaimLost
<1>6. ASSUME NEW r \in Fires, RegisterManual(r) PROVE Registered'
  BY <1>6 DEF RegisterManual, Register
<1>7. ASSUME NEW r \in Fires, AlreadyRunning(r) PROVE Registered'
  BY <1>7 DEF AlreadyRunning
<1>8. ASSUME NEW r \in Fires, Begin(r) PROVE Registered'
  BY <1>8 DEF Begin, CloseRow
<1>9. ASSUME NEW r \in Fires, RunEnds(r) PROVE Registered'
  BY <1>9 DEF RunEnds, CheckedStep, RecordLost, ClearClaim, CloseRow, Renews, Owns
<1>10. ASSUME NEW r \in Fires, RunRaises(r) PROVE Registered'
  BY <1>10 DEF RunRaises
<1>11. ASSUME NEW r \in Fires, RecordFailure(r) PROVE Registered'
  BY <1>11 DEF RecordFailure, ClearClaim, CloseRow, MayMark, Owns
<1>12. ASSUME NEW r \in Fires, Save(r) PROVE Registered'
  BY <1>12 DEF Save, RecordLost, ClearClaim, CloseRow, Renews, Owns
<1>13. ASSUME NEW r \in Fires, Deliver(r) PROVE Registered'
  BY <1>13 DEF Deliver, Lost, Renews, Owns, RecordLost, ClearClaim, CloseRow
<1>14. ASSUME NEW r \in Fires, Delivered(r) PROVE Registered'
  BY <1>14 DEF Delivered, FenceAfter
<1>15. ASSUME NEW r \in Fires, Record(r) PROVE Registered'
  BY <1>15 DEF Record, RecordLost, ClearClaim, CloseRow, Renews, Owns, MayMark
<1>16. ASSUME NEW r \in Fires, Finish(r) PROVE Registered'
  BY <1>16 DEF Finish, Released
<1>17. ASSUME NEW r \in Fires, Heartbeat(r) PROVE Registered'
  BY <1>17 DEF Heartbeat
<1>18. ASSUME NEW r \in Fires, Cancel(r) PROVE Registered'
  BY <1>18 DEF Cancel
<1>19. ASSUME NEW p \in Processes, Age(p) PROVE Registered'
  BY <1>19 DEF Age
<1>20. ASSUME NEW p \in Processes, SweepRelease(p) PROVE Registered'
  BY <1>20 DEF SweepRelease, NoLiveFuture
<1>21. ASSUME NEW p \in Processes, SweepMark(p) PROVE Registered'
  BY <1>21 DEF SweepMark, ClearClaim
<1>22. ASSUME NEW p \in Processes, Crash(p) PROVE Registered'
  BY <1>22 DEF Crash
<1>23. CASE Expire
  BY <1>23 DEF Expire
<1>24. CASE UNCHANGED vars
  BY <1>24 DEF vars
<1> QED
  BY <1>1, <1>2, <1>3, <1>4, <1>5, <1>6, <1>7, <1>8, <1>9, <1>10, <1>11, <1>12, <1>13,
     <1>14, <1>15, <1>16, <1>17, <1>18, <1>19, <1>20, <1>21, <1>22, <1>23, <1>24
     DEF Next, Start, RunStep, SweepStep

----------------------------------------------------------------------------
(* The in-flight guard, with runs by hand. *)

\* A manual run of this process has finished, and dropped what was registered.
Dropped(p) == \E x \in Manual : at[x] = p /\ stage[x] = "done" /\ result[x] # "refused"

\* A busy tick stays registered until then.
Kept ==
    /\ \A r \in Ticked : Busy(r) =>
          at[r] \in Processes /\ (guard[at[r]] = r \/ Dropped(at[r]))
    /\ \A x \in Manual : stage[x] = "closing" => result[x] # "refused"

\* The sweep releases live manual runs, and no live tick.
LEMMA KeptStep == TypeOK /\ Kept /\ [Next]_vars => Kept'
<1> SUFFICES ASSUME TypeOK, Kept, [Next]_vars PROVE Kept'
  OBVIOUS
<1> USE FiresAssumption DEF Kept, Dropped, Busy, Fires, TypeOK, Stages, store, runs, local
<1>1. ASSUME NEW p \in Processes, NEW r \in Fires, Submit(p, r) PROVE Kept'
  BY <1>1 DEF Submit, Register
<1>2. ASSUME NEW p \in Processes, NEW r \in Fires, FireRow(p, r) PROVE Kept'
  BY <1>2 DEF FireRow
<1>3. ASSUME NEW p \in Processes, NEW r \in Fires, ClaimManual(p, r) PROVE Kept'
  BY <1>3 DEF ClaimManual, Acquire, Available
<1>4. ASSUME NEW r \in Fires, ClaimQueued(r) PROVE Kept'
  BY <1>4 DEF ClaimQueued, Acquire, Available
<1>5. ASSUME NEW r \in Fires, ClaimLost(r) PROVE Kept'
  BY <1>5 DEF ClaimLost
<1>6. ASSUME NEW r \in Fires, RegisterManual(r) PROVE Kept'
  BY <1>6 DEF RegisterManual, Register
<1>7. ASSUME NEW r \in Fires, AlreadyRunning(r) PROVE Kept'
  BY <1>7 DEF AlreadyRunning
<1>8. ASSUME NEW r \in Fires, Begin(r) PROVE Kept'
  BY <1>8 DEF Begin, CloseRow
<1>9. ASSUME NEW r \in Fires, RunEnds(r) PROVE Kept'
  BY <1>9 DEF RunEnds, CheckedStep, RecordLost, ClearClaim, CloseRow, Renews, Owns
<1>10. ASSUME NEW r \in Fires, RunRaises(r) PROVE Kept'
  BY <1>10 DEF RunRaises
<1>11. ASSUME NEW r \in Fires, RecordFailure(r) PROVE Kept'
  BY <1>11 DEF RecordFailure, ClearClaim, CloseRow, MayMark, Owns
<1>12. ASSUME NEW r \in Fires, Save(r) PROVE Kept'
  BY <1>12 DEF Save, RecordLost, ClearClaim, CloseRow, Renews, Owns
<1>13. ASSUME NEW r \in Fires, Deliver(r) PROVE Kept'
  BY <1>13 DEF Deliver, Lost, Renews, Owns, RecordLost, ClearClaim, CloseRow
<1>14. ASSUME NEW r \in Fires, Delivered(r) PROVE Kept'
  BY <1>14 DEF Delivered, FenceAfter
<1>15. ASSUME NEW r \in Fires, Record(r) PROVE Kept'
  BY <1>15 DEF Record, RecordLost, ClearClaim, CloseRow, Renews, Owns, MayMark
<1>16. ASSUME NEW r \in Fires, Finish(r) PROVE Kept'
  BY <1>16 DEF Finish, Released
<1>17. ASSUME NEW r \in Fires, Heartbeat(r) PROVE Kept'
  BY <1>17 DEF Heartbeat
<1>18. ASSUME NEW r \in Fires, Cancel(r) PROVE Kept'
  BY <1>18 DEF Cancel
<1>19. ASSUME NEW p \in Processes, Age(p) PROVE Kept'
  BY <1>19 DEF Age
<1>20. ASSUME NEW p \in Processes, SweepRelease(p) PROVE Kept'
  BY <1>20 DEF SweepRelease, NoLiveFuture
<1>21. ASSUME NEW p \in Processes, SweepMark(p) PROVE Kept'
  BY <1>21 DEF SweepMark, ClearClaim
<1>22. ASSUME NEW p \in Processes, Crash(p) PROVE Kept'
  BY <1>22 DEF Crash
<1>23. CASE Expire
  BY <1>23 DEF Expire
<1>24. CASE UNCHANGED vars
  BY <1>24 DEF vars
<1> QED
  BY <1>1, <1>2, <1>3, <1>4, <1>5, <1>6, <1>7, <1>8, <1>9, <1>10, <1>11, <1>12, <1>13,
     <1>14, <1>15, <1>16, <1>17, <1>18, <1>19, <1>20, <1>21, <1>22, <1>23, <1>24
     DEF Next, Start, RunStep, SweepStep

----------------------------------------------------------------------------
(* The claim, when renewals come in time. *)

\* Every run goes by its own token, and one that has not lost its claim holds a
\* fresh one, which no other fire can take and no other run can clear.
Owned ==
    \A r \in Fires :
        /\ token[r] \in {None, r}
        /\ stage[r] \in UnderWay \cup {"claimed", "held"} => token[r] = r
        /\ stage[r] \in {"idle", "queued", "claimed", "held", "running"} => ~lost[r]
        /\ Beating(r) => claim = r /\ fresh

\* It is kept because acquiring needs a stale claim, clearing needs the owner's
\* token, and a claim somebody renews does not go stale.
LEMMA OwnedStep ==
    Timely /\ Crowded = {} /\ TypeOK /\ Fenced /\ marking = {} /\ Owned /\ [Next]_vars => Owned'
<1> SUFFICES ASSUME Timely, Crowded = {}, TypeOK, Fenced, marking = {}, Owned, [Next]_vars
             PROVE  Owned'
  OBVIOUS
<1> USE FiresAssumption DEF Owned, Beating, UnderWay, FenceFree, TypeOK, Stages,
        store, runs, local
<1>1. ASSUME NEW p \in Processes, NEW r \in Fires, Submit(p, r) PROVE Owned'
  BY <1>1 DEF Submit, Register
<1>2. ASSUME NEW p \in Processes, NEW r \in Fires, FireRow(p, r) PROVE Owned'
  BY <1>2 DEF FireRow
<1>3. ASSUME NEW p \in Processes, NEW r \in Fires, ClaimManual(p, r) PROVE Owned'
  BY <1>3 DEF ClaimManual, Acquire, Available
<1>4. ASSUME NEW r \in Fires, ClaimQueued(r) PROVE Owned'
  BY <1>4 DEF ClaimQueued, Acquire, Available
<1>5. ASSUME NEW r \in Fires, ClaimLost(r) PROVE Owned'
  BY <1>5 DEF ClaimLost
<1>6. ASSUME NEW r \in Fires, RegisterManual(r) PROVE Owned'
  BY <1>6 DEF RegisterManual, Register
<1>7. ASSUME NEW r \in Fires, AlreadyRunning(r) PROVE Owned'
  BY <1>7 DEF AlreadyRunning
<1>8. ASSUME NEW r \in Fires, Begin(r) PROVE Owned'
  <2>1. token[r] = r /\ token[r] # None /\ ~lost[r] /\ stage[r] = "held"
    BY <1>8 DEF Begin
  <2>2. CASE MayBegin(r)
    <3>1. claim = r
      BY <2>1, <2>2 DEF MayBegin, Renews, Owns
    <3>2. /\ fresh' = TRUE /\ stage' = [stage EXCEPT ![r] = "running"]
          /\ UNCHANGED <<claim, token, lost>>
      BY <1>8, <2>1, <2>2 DEF Begin
    <3> QED
      BY <2>1, <3>1, <3>2
  <2>3. CASE ~MayBegin(r)
    BY <1>8, <2>1, <2>3 DEF Begin, CloseRow
  <2> QED BY <2>2, <2>3
<1>9. ASSUME NEW r \in Fires, RunEnds(r) PROVE Owned'
  BY <1>9 DEF RunEnds, CheckedStep, RecordLost, ClearClaim, CloseRow, Renews, Owns
<1>10. ASSUME NEW r \in Fires, RunRaises(r) PROVE Owned'
  BY <1>10 DEF RunRaises
<1>11. ASSUME NEW r \in Fires, RecordFailure(r) PROVE Owned'
  BY <1>11 DEF RecordFailure, ClearClaim, CloseRow, MayMark, Owns
<1>12. ASSUME NEW r \in Fires, Save(r) PROVE Owned'
  BY <1>12 DEF Save, RecordLost, ClearClaim, CloseRow, Renews, Owns
<1>13. ASSUME NEW r \in Fires, Deliver(r) PROVE Owned'
  BY <1>13 DEF Deliver, Lost, Renews, Owns, RecordLost, ClearClaim, CloseRow
<1>14. ASSUME NEW r \in Fires, Delivered(r) PROVE Owned'
  BY <1>14 DEF Delivered, FenceAfter
<1>15. ASSUME NEW r \in Fires, Record(r) PROVE Owned'
  BY <1>15 DEF Record, RecordLost, ClearClaim, CloseRow, Renews, Owns, MayMark
<1>16. ASSUME NEW r \in Fires, Finish(r) PROVE Owned'
  BY <1>16 DEF Finish, Released
<1>17. ASSUME NEW r \in Fires, Heartbeat(r) PROVE Owned'
  BY <1>17 DEF Heartbeat, Renews, Owns, Fenced
<1>18. ASSUME NEW r \in Fires, Cancel(r) PROVE Owned'
  BY <1>18 DEF Cancel
<1>19. ASSUME NEW p \in Processes, Age(p) PROVE Owned'
  BY <1>19 DEF Age
<1>20. ASSUME NEW p \in Processes, SweepRelease(p) PROVE Owned'
  BY <1>20 DEF SweepRelease
<1>21. ASSUME NEW p \in Processes, SweepMark(p) PROVE Owned'
  BY <1>21 DEF SweepMark, ClearClaim
<1>22. ASSUME NEW p \in Processes, Crash(p) PROVE Owned'
  BY <1>22 DEF Crash
<1>23. CASE Expire
  BY <1>23 DEF Expire
<1>24. CASE UNCHANGED vars
  BY <1>24 DEF vars
<1> QED
  BY <1>1, <1>2, <1>3, <1>4, <1>5, <1>6, <1>7, <1>8, <1>9, <1>10, <1>11, <1>12, <1>13,
     <1>14, <1>15, <1>16, <1>17, <1>18, <1>19, <1>20, <1>21, <1>22, <1>23, <1>24
     DEF Next, Start, RunStep, SweepStep

----------------------------------------------------------------------------
(* The theorems. *)

\* The state of the job store, the runs and the guard keeps its types.
THEOREM TypeCorrect == Spec => []TypeOK
<1>1. Init => TypeOK
  BY InitType
<1>2. TypeOK /\ [Next]_vars => TypeOK'
  BY TypeStep
<1> QED BY <1>1, <1>2, PTL DEF Spec

\* A delivery holds the fence and the claim throughout.
LEMMA Fencing == Spec => [](TypeOK /\ Fenced)
<1>1. Init => TypeOK /\ Fenced
  BY InitType DEF Init, Fenced
<1>2. TypeOK /\ Fenced /\ [Next]_vars => (TypeOK /\ Fenced)'
  BY TypeStep, FencedStep
<1> QED BY <1>1, <1>2, PTL DEF Spec

\* A run sends its answer only while the job's claim is its own: whoever fires,
\* crashes, sweeps or is late (_save_compose_deliver).
THEOREM DeliveriesAreFenced == Spec => []DeliveryIsFenced
<1>1. Fenced => DeliveryIsFenced
  BY DEF Fenced, DeliveryIsFenced
<1> QED BY <1>1, Fencing, PTL

\* The guard and the busy ticks of a process agree throughout.
LEMMA Guarding == ASSUME Manual = {} PROVE Spec => [](TypeOK /\ Registered)
<1>1. Init => TypeOK /\ Registered
  BY InitType, FiresAssumption DEF Init, Registered, Busy, Fires
<1>2. TypeOK /\ Registered /\ [Next]_vars => (TypeOK /\ Registered)'
  BY TypeStep, RegisteredStep
<1> QED BY <1>1, <1>2, PTL DEF Spec

\* The in-flight guard lets one thread of a process run the job for the ticker,
\* whoever is late, until a manual run of that process has finished.
THEOREM OneThreadPerProcess == Spec => []OneRunPerProcess
<1>1. Init => Kept
  BY DEF Init, Kept, Busy, Fires
<1>2. TypeOK /\ Kept /\ [Next]_vars => Kept'
  BY KeptStep
<1>3. Kept => OneRunPerProcess
  BY DEF Kept, Dropped, OneRunPerProcess, Live, Busy
<1> QED BY <1>1, <1>2, <1>3, TypeCorrect, PTL DEF Spec

\* No sweep has a stale release to record: a job with a repeat budget is never
\* recorded, and without manual runs nothing stale is released.
LEMMA Unmarked ==
    ASSUME Finite \/ Manual = {} PROVE Spec => [](marking = {})
<1>1. CASE Finite
  <2>1. Init => marking = {}
    BY DEF Init
  <2>2. TypeOK /\ marking = {} /\ [Next]_vars => (marking = {})'
    BY <1>1 DEF Next, RunStep, Start, SweepStep, Submit, Register, FireRow, ClaimManual,
       ClaimQueued, ClaimLost, RegisterManual, AlreadyRunning, Begin, RunEnds, CheckedStep,
       RunRaises, RecordFailure, Save, Deliver, Delivered, Record, Finish, Heartbeat, Cancel,
       Age, SweepRelease, SweepMark, Crash, Expire, vars, local
  <2> QED BY <2>1, <2>2, TypeCorrect, PTL DEF Spec
<1>2. CASE Manual = {}
  <2>1. Registered => marking = {}
    BY DEF Registered
  <2> QED BY <1>2, <2>1, Guarding, PTL
<1> QED BY <1>1, <1>2

\* Live claims are held by the runs that renew them.
LEMMA Owning ==
    ASSUME Timely, Crowded = {}, Finite \/ Manual = {}
    PROVE  Spec => [](TypeOK /\ Fenced /\ Owned)
<1>1. Init => Owned
  BY FiresAssumption DEF Init, Owned, Beating, UnderWay
<1>2. TypeOK /\ Fenced /\ marking = {} /\ Owned /\ [Next]_vars => Owned'
  BY OwnedStep
<1> QED BY <1>1, <1>2, Fencing, Unmarked, PTL DEF Spec

\* A run that has not lost its claim still has it: no other fire and no late
\* bookkeeping of another run took it away.  A manual run of a job without a
\* budget may be swept while it is live, and one that found the pool full holds
\* no token, hence the premises.
THEOREM ClaimsAreKept ==
    ASSUME Timely, Crowded = {}, Finite \/ Manual = {}
    PROVE  Spec => []LiveRunKeepsClaim
<1>1. Owned => LiveRunKeepsClaim
  BY DEF Owned, LiveRunKeepsClaim
<1> QED BY <1>1, Owning, PTL

\* One fire at a time works for the job or sends its answer, over all the
\* processes that share the store.
THEOREM OneRunOfTheJob ==
    ASSUME Timely, Crowded = {}, Finite \/ Manual = {}
    PROVE  Spec => []OneRunAtATime
<1>1. TypeOK /\ Fenced /\ Owned => OneRunAtATime
  <2> SUFFICES ASSUME TypeOK, Fenced, Owned PROVE OneRunAtATime
    OBVIOUS
  <2>1. ASSUME NEW r \in Fires, Live(r) PROVE claim = r
    <3>1. token[r] = r /\ token[r] # None
      BY <2>1, FiresAssumption DEF Live, Owned, UnderWay
    <3> QED
      BY <2>1, <3>1 DEF Live, Owned, Beating, UnderWay, Fenced
  <2> QED
    BY <2>1 DEF OneRunAtATime
<1> QED BY <1>1, Owning, PTL
=============================================================================
