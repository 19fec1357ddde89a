-------------------------- MODULE TurnLeaseProofs --------------------------
(***************************************************************************)
(* Theorems about TurnLease for every set of turns, keys and sessions and  *)
(* every registry size: mutual exclusion over a session under any number   *)
(* of overlapping turns of a key, and no orphaned lease but those whose    *)
(* token a newer turn of the key overwrote.                                *)
(***************************************************************************)
EXTENDS TurnLease, TLAPS

----------------------------------------------------------------------------
(* The inductive invariant. *)

\* A key's slot keeps the token of a running turn of that key.
SlotIsRunning ==
    \A k \in Keys : slot[k] # None => KeyOf[slot[k]] = k /\ stage[slot[k]] = "running"

\* A held lease is locked, by a turn that acquired it.
HolderLocks ==
    \A l \in Turns : holder[l] # None =>
        /\ locked[l]
        /\ lease[holder[l]] = l
        /\ stage[holder[l]] \in {"running", "done"}

\* The acquire that is about to return owns the lock and is the only one.
GrantedLocks ==
    \A t \in Turns : stage[t] = "granted" =>
        /\ locked[lease[t]]
        /\ holder[lease[t]] = None
        /\ \A u \in Turns : stage[u] = "granted" /\ lease[u] = lease[t] => u = t

IInv ==
    /\ TypeOK
    /\ LeaseIsRegistered
    /\ RunnerIsHolder
    /\ SlotIsRunning
    /\ HolderLocks
    /\ GrantedLocks
    /\ LockedForSomebody

LEMMA InitIInv == Init => IInv
  BY TurnAssumption DEF Init, IInv, TypeOK, LeaseIsRegistered, RunnerIsHolder, SlotIsRunning,
     HolderLocks, GrantedLocks, LockedForSomebody, Stages, Acquiring

----------------------------------------------------------------------------
(* Steps that change which lease is registered where. *)

\* A turn that waits for or holds a lease keeps it from being idle.
LEMMA LiveIsNotIdle ==
    ASSUME IInv, NEW t \in Turns, stage[t] \in Acquiring \cup {"running"}
    PROVE  lease[t] \in Turns /\ ~Idle(lease[t])
<1>1. lease[t] \in Turns
  BY DEF IInv, TypeOK
<1>2. stage[t] \in Acquiring => t \in Pending(lease[t])
  BY DEF Pending
<1>3. stage[t] = "running" => holder[lease[t]] # None
  BY TurnAssumption DEF IInv, RunnerIsHolder
<1> QED BY <1>1, <1>2, <1>3 DEF Idle

\* Taking or creating a lease evicts nobody's.
LEMMA AcquireRegistered ==
    ASSUME IInv, NEW t \in Turns, NEW s \in Sessions, Acquire(t, s)
    PROVE  /\ leases' \in [Sessions -> Turns \cup {None}]
           /\ lease' \in [Turns -> Turns \cup {None}]
           /\ lease'[t] \in Turns
           /\ leases'[s] = lease'[t]
           /\ \A u \in Turns \ {t} : lease'[u] = lease[u]
           /\ \A u \in Turns : stage[u] \in Acquiring \cup {"running"} =>
                 leases'[token[u]] = leases[token[u]]
<1>1. stage[t] = "begun" /\ GetOrCreate(t, s)
  BY DEF Acquire
<1>2. CASE leases[s] # None
  BY <1>1, <1>2 DEF GetOrCreate, IInv, TypeOK
<1>3. CASE leases[s] = None
  <2>1. PICK E \in SUBSET Registered :
          /\ Evictable(E)
          /\ leases' = [x \in Sessions |->
                           IF x = s THEN t ELSE IF x \in E THEN None ELSE leases[x]]
          /\ lease' = [lease EXCEPT ![t] = t]
    BY <1>1, <1>3 DEF GetOrCreate
  <2>2. \A x \in E : Idle(leases[x])
    BY <2>1 DEF Evictable
  <2>3. ASSUME NEW u \in Turns, stage[u] \in Acquiring \cup {"running"}
        PROVE  leases'[token[u]] = leases[token[u]]
    <3>1. token[u] \in Sessions /\ leases[token[u]] = lease[u]
      BY <2>3 DEF IInv, TypeOK, LeaseIsRegistered
    <3>2. ~Idle(leases[token[u]]) /\ leases[token[u]] # None
      BY <2>3, <3>1, LiveIsNotIdle, TurnAssumption
    <3> QED BY <1>3, <2>1, <2>2, <3>1, <3>2
  <2> QED BY <2>1, <2>3 DEF IInv, TypeOK
<1> QED BY <1>2, <1>3

LEMMA AcquireIInv ==
    ASSUME IInv, NEW t \in Turns, NEW s \in Sessions, Acquire(t, s)
    PROVE  IInv'
<1> USE DEF IInv
<1>1. /\ stage[t] = "begun"
      /\ stage' = [stage EXCEPT ![t] = "scheduled"]
      /\ token' = [token EXCEPT ![t] = s]
      /\ UNCHANGED <<holder, locked, ahead, slot, occupant, evictions, target, blocked, overtaken>>
  BY DEF Acquire, runner, history
<1>2. /\ leases' \in [Sessions -> Turns \cup {None}]
      /\ lease' \in [Turns -> Turns \cup {None}]
      /\ lease'[t] \in Turns
      /\ leases'[s] = lease'[t]
      /\ \A u \in Turns \ {t} : lease'[u] = lease[u]
      /\ \A u \in Turns : stage[u] \in Acquiring \cup {"running"} =>
            leases'[token[u]] = leases[token[u]]
  BY AcquireRegistered
<1>3. /\ stage'[t] = "scheduled" /\ token'[t] = s
      /\ \A u \in Turns \ {t} : stage'[u] = stage[u] /\ token'[u] = token[u]
  BY <1>1 DEF TypeOK
<1>4. TypeOK'
  <2>1. stage' \in [Turns -> Stages] /\ token' \in [Turns -> Sessions \cup {None}]
    BY <1>1 DEF TypeOK, Stages
  <2>2. \A u \in Turns : stage'[u] \in Acquiring \cup {"running"} =>
           lease'[u] \in Turns /\ token'[u] \in Sessions
    BY <1>2, <1>3 DEF TypeOK
  <2> QED BY <1>1, <1>2, <2>1, <2>2 DEF TypeOK
<1>5. LeaseIsRegistered'
  BY <1>2, <1>3 DEF LeaseIsRegistered
<1>6. RunnerIsHolder'
  BY <1>1, <1>2, <1>3 DEF RunnerIsHolder
<1>7. SlotIsRunning'
  BY <1>1, <1>3 DEF TypeOK, SlotIsRunning
<1>8. HolderLocks'
  BY <1>1, <1>2, <1>3 DEF TypeOK, HolderLocks
<1>9. GrantedLocks'
  BY <1>1, <1>2, <1>3 DEF GrantedLocks
<1>10. LockedForSomebody'
  BY <1>1, <1>2, <1>3 DEF LockedForSomebody
<1> QED BY <1>4, <1>5, <1>6, <1>7, <1>8, <1>9, <1>10

LEMMA RotateIInv ==
    ASSUME IInv, NEW t \in Turns, NEW new \in Sessions, Rotate(t, new)
    PROVE  IInv'
<1> USE DEF IInv
<1>1. /\ stage[t] = "running"
      /\ target' \in [Turns -> Sessions \cup {None}]
      /\ UNCHANGED <<holder, locked, stage, lease, ahead, slot, occupant, evictions, overtaken>>
  BY DEF Rotate, TypeOK, runner
<1>2. CASE UNCHANGED <<leases, token>>
  <2>1. blocked' \in [Turns -> BOOLEAN]
    BY DEF Rotate, TypeOK
  <2> QED
    BY <1>1, <1>2, <2>1 DEF TypeOK, LeaseIsRegistered, RunnerIsHolder, SlotIsRunning,
       HolderLocks, GrantedLocks, LockedForSomebody
<1>3. CASE /\ RebindAllowed(t, new)
           /\ leases' = [leases EXCEPT ![new] = leases[token[t]]]
           /\ token' = [token EXCEPT ![t] = new]
           /\ UNCHANGED blocked
  <2>1. token[t] \in Sessions /\ leases[token[t]] = lease[t] /\ lease[t] \in Turns
    BY <1>1 DEF TypeOK, LeaseIsRegistered
  <2>2. TypeOK'
    BY <1>1, <1>3, <2>1 DEF TypeOK
  <2>3. ASSUME NEW u \in Turns, stage[u] \in Acquiring \cup {"running"}
        PROVE  leases'[token'[u]] = lease[u]
    <3>1. token[u] \in Sessions /\ leases[token[u]] = lease[u]
      BY <2>3 DEF TypeOK, LeaseIsRegistered
    <3>2. ~Idle(lease[u]) /\ lease[u] # None
      BY <2>3, LiveIsNotIdle, TurnAssumption
    <3> QED BY <1>3, <2>1, <3>1, <3>2 DEF RebindAllowed, TypeOK
  <2>4. LeaseIsRegistered'
    BY <1>1, <2>3 DEF LeaseIsRegistered
  <2> QED
    BY <1>1, <2>2, <2>4 DEF RunnerIsHolder, SlotIsRunning, HolderLocks, GrantedLocks,
       LockedForSomebody
<1> QED BY <1>2, <1>3 DEF Rotate

----------------------------------------------------------------------------
(* Steps of the lock and the key. *)

\* Steps that move one turn between stages in which it has no lease, or out of
\* the waiting ones.
LEMMA StageIInv ==
    ASSUME IInv, NEW t \in Turns, NEW x \in {"begun", "ending"},
           stage[t] \in {"new", "scheduled", "queued"},
           stage' = [stage EXCEPT ![t] = x],
           occupant' \in [Keys -> Turns \cup {None}],
           UNCHANGED <<leases, holder, locked, lease, token, ahead, slot, evictions, target,
                       blocked, overtaken>>
    PROVE  IInv'
<1> USE DEF IInv
<1>1. stage'[t] = x /\ \A u \in Turns \ {t} : stage'[u] = stage[u]
  BY DEF TypeOK
<1>2. TypeOK'
  <2>1. stage' \in [Turns -> Stages]
    BY DEF TypeOK, Stages
  <2> QED BY <1>1, <2>1 DEF TypeOK, Acquiring
<1>3. LeaseIsRegistered' /\ RunnerIsHolder'
  BY <1>1 DEF LeaseIsRegistered, RunnerIsHolder, Acquiring
<1>4. SlotIsRunning'
  BY <1>1 DEF TypeOK, SlotIsRunning
<1>5. HolderLocks'
  BY <1>1 DEF TypeOK, HolderLocks
<1>6. GrantedLocks' /\ LockedForSomebody'
  BY <1>1 DEF GrantedLocks, LockedForSomebody
<1> QED BY <1>2, <1>3, <1>4, <1>5, <1>6

\* The lock is taken, at once or after a hand-off.
LEMMA LockIInv ==
    ASSUME IInv, NEW t \in Turns, LockAtOnce(t) \/ LockHandedOver(t)
    PROVE  IInv'
<1> USE DEF IInv
<1>1. /\ stage[t] \in {"scheduled", "queued"}
      /\ ~locked[lease[t]]
      /\ locked' = [locked EXCEPT ![lease[t]] = TRUE]
      /\ stage' = [stage EXCEPT ![t] = "granted"]
      /\ UNCHANGED <<leases, holder, lease, token, ahead, slot, occupant, evictions, target, blocked, overtaken>>
  BY DEF LockAtOnce, LockHandedOver, runner, history
<1>2. lease[t] \in Turns /\ token[t] \in Sessions /\ stage[t] \in Acquiring
  BY <1>1 DEF TypeOK, Acquiring
<1>3. holder[lease[t]] = None
  BY <1>1, <1>2 DEF HolderLocks
<1>4. stage'[t] = "granted" /\ \A u \in Turns \ {t} : stage'[u] = stage[u]
  BY <1>1 DEF TypeOK
<1>5. locked'[lease[t]] /\ \A l \in Turns \ {lease[t]} : locked'[l] = locked[l]
  BY <1>1, <1>2 DEF TypeOK
<1>6. TypeOK'
  <2>1. stage' \in [Turns -> Stages] /\ locked' \in [Turns -> BOOLEAN]
    BY <1>1 DEF TypeOK, Stages
  <2> QED BY <1>1, <1>2, <1>4, <2>1 DEF TypeOK
<1>7. LeaseIsRegistered'
  BY <1>1, <1>2, <1>4 DEF LeaseIsRegistered
<1>8. RunnerIsHolder'
  <2> SUFFICES ASSUME NEW u \in Turns, stage'[u] = "running"
               PROVE  holder[lease[u]] = u /\ locked'[lease[u]]
    BY <1>1 DEF RunnerIsHolder
  <2>1. stage[u] = "running" /\ lease[u] \in Turns
    BY <1>4 DEF TypeOK
  <2> QED BY <1>5, <2>1 DEF RunnerIsHolder
<1>9. SlotIsRunning'
  BY <1>1, <1>4 DEF TypeOK, SlotIsRunning
<1>10. HolderLocks'
  BY <1>1, <1>4, <1>5 DEF TypeOK, HolderLocks
<1>11. GrantedLocks'
  <2> SUFFICES ASSUME NEW u \in Turns, stage'[u] = "granted"
               PROVE  /\ locked'[lease[u]]
                      /\ holder[lease[u]] = None
                      /\ \A v \in Turns : stage'[v] = "granted" /\ lease[v] = lease[u] => v = u
    BY <1>1 DEF GrantedLocks
  <2>1. CASE u = t
    BY <1>1, <1>3, <1>4, <1>5, <2>1 DEF GrantedLocks
  <2>2. CASE u # t
    <3>1. stage[u] = "granted" /\ lease[u] \in Turns /\ locked[lease[u]]
      BY <1>4, <2>2 DEF TypeOK, GrantedLocks, Acquiring
    <3>2. lease[u] # lease[t]
      BY <1>1, <3>1
    <3> QED BY <1>4, <1>5, <3>1, <3>2 DEF GrantedLocks
  <2> QED BY <2>1, <2>2
<1>12. LockedForSomebody'
  BY <1>1, <1>4, <1>5 DEF LockedForSomebody
<1> QED BY <1>6, <1>7, <1>8, <1>9, <1>10, <1>11, <1>12

LEMMA LockLaterIInv ==
    ASSUME IInv, NEW t \in Turns, LockLater(t)
    PROVE  IInv'
<1> USE DEF IInv
<1>1. /\ stage[t] = "scheduled"
      /\ ahead' = [ahead EXCEPT ![t] = Waiting(lease[t])]
      /\ stage' = [stage EXCEPT ![t] = "queued"]
      /\ UNCHANGED <<leases, holder, locked, lease, token, slot, occupant, evictions, target, blocked, overtaken>>
  BY DEF LockLater, registry, runner, history
<1>2. stage'[t] = "queued" /\ \A u \in Turns \ {t} : stage'[u] = stage[u]
  BY <1>1 DEF TypeOK
<1>4. TypeOK'
  <2>1. stage' \in [Turns -> Stages]
    BY <1>1 DEF TypeOK, Stages
  <2>2. ahead' \in [Turns -> SUBSET Turns]
    BY <1>1 DEF TypeOK, Waiting
  <2> QED BY <1>1, <1>2, <2>1, <2>2 DEF TypeOK, Acquiring
<1>5. LeaseIsRegistered' /\ RunnerIsHolder'
  BY <1>1, <1>2 DEF LeaseIsRegistered, RunnerIsHolder, Acquiring
<1>6. SlotIsRunning'
  BY <1>1, <1>2 DEF TypeOK, SlotIsRunning
<1>7. HolderLocks'
  BY <1>1, <1>2 DEF TypeOK, HolderLocks
<1>8. GrantedLocks' /\ LockedForSomebody'
  BY <1>1, <1>2 DEF GrantedLocks, LockedForSomebody
<1> QED BY <1>4, <1>5, <1>6, <1>7, <1>8

LEMMA PublishIInv ==
    ASSUME IInv, NEW t \in Turns, Publish(t)
    PROVE  IInv'
<1> USE DEF IInv
<1>1. /\ stage[t] = "granted"
      /\ holder' = [holder EXCEPT ![lease[t]] = t]
      /\ slot' = [slot EXCEPT ![KeyOf[t]] = t]
      /\ stage' = [stage EXCEPT ![t] = "running"]
      /\ target' = [target EXCEPT ![t] = token[t]]
      /\ overtaken' = overtaken \cup ({slot[KeyOf[t]]} \ {None, t})
      /\ UNCHANGED <<leases, locked, lease, token, ahead, occupant, evictions, blocked>>
  BY DEF Publish
<1>2. /\ lease[t] \in Turns /\ token[t] \in Sessions /\ stage[t] \in Acquiring
      /\ KeyOf[t] \in Keys
  BY <1>1, TurnAssumption DEF TypeOK, Acquiring
<1>3. locked[lease[t]] /\ holder[lease[t]] = None
  BY <1>1 DEF GrantedLocks
<1>4. stage'[t] = "running" /\ \A u \in Turns \ {t} : stage'[u] = stage[u]
  BY <1>1 DEF TypeOK
<1>5. holder'[lease[t]] = t /\ \A l \in Turns \ {lease[t]} : holder'[l] = holder[l]
  BY <1>1, <1>2 DEF TypeOK
<1>6. slot'[KeyOf[t]] = t /\ \A k \in Keys \ {KeyOf[t]} : slot'[k] = slot[k]
  BY <1>1, <1>2 DEF TypeOK
<1>7. TypeOK'
  <2>1. stage' \in [Turns -> Stages] /\ holder' \in [Turns -> Turns \cup {None}]
    BY <1>1 DEF TypeOK, Stages
  <2>2. slot' \in [Keys -> Turns \cup {None}] /\ target' \in [Turns -> Sessions \cup {None}]
    BY <1>1, <1>2 DEF TypeOK
  <2>3. overtaken' \subseteq Turns
    BY <1>1, <1>2 DEF TypeOK
  <2> QED BY <1>1, <1>2, <1>4, <2>1, <2>2, <2>3 DEF TypeOK
<1>8. LeaseIsRegistered'
  BY <1>1, <1>2, <1>4 DEF LeaseIsRegistered
<1>9. RunnerIsHolder'
  <2> SUFFICES ASSUME NEW u \in Turns, stage'[u] = "running"
               PROVE  holder'[lease[u]] = u /\ locked[lease[u]]
    BY <1>1 DEF RunnerIsHolder
  <2>1. CASE u = t
    BY <1>3, <1>5, <2>1
  <2>2. CASE u # t
    <3>1. lease[u] \in Turns /\ holder[lease[u]] = u /\ locked[lease[u]]
      BY <1>4, <2>2 DEF TypeOK, RunnerIsHolder
    <3>2. lease[u] # lease[t]
      BY <1>3, <3>1, TurnAssumption
    <3> QED BY <1>5, <3>1, <3>2
  <2> QED BY <2>1, <2>2
<1>10. SlotIsRunning'
  BY <1>4, <1>6 DEF TypeOK, SlotIsRunning
<1>11. HolderLocks'
  BY <1>1, <1>3, <1>4, <1>5 DEF TypeOK, HolderLocks
<1>12. GrantedLocks'
  <2> SUFFICES ASSUME NEW u \in Turns, stage'[u] = "granted"
               PROVE  /\ locked[lease[u]]
                      /\ holder'[lease[u]] = None
                      /\ \A v \in Turns : stage'[v] = "granted" /\ lease[v] = lease[u] => v = u
    BY <1>1 DEF GrantedLocks
  <2>1. u # t /\ stage[u] = "granted" /\ lease[u] \in Turns
    BY <1>4 DEF TypeOK, Acquiring
  <2>2. lease[u] # lease[t]
    BY <1>1, <2>1 DEF GrantedLocks
  <2> QED BY <1>4, <1>5, <2>1, <2>2 DEF GrantedLocks
<1>13. LockedForSomebody'
  BY <1>1, <1>2, <1>4, <1>5, TurnAssumption DEF LockedForSomebody
<1> QED BY <1>7, <1>8, <1>9, <1>10, <1>11, <1>12, <1>13

\* The finally of a dispatch: the turn gives back its lease, or, when a newer
\* turn of the key took the slot, leaves it to nobody.
LEMMA EndIInv ==
    ASSUME IInv, NEW t \in Turns, End(t)
    PROVE  IInv'
<1> USE DEF IInv
<1>1. /\ stage[t] \in {"running", "ending"}
      /\ occupant' = [occupant EXCEPT ![KeyOf[t]] = None]
      /\ stage' = [stage EXCEPT ![t] = "done"]
      /\ UNCHANGED <<leases, lease, token, ahead, evictions, target, blocked, overtaken>>
  BY DEF End, history
<1>2. KeyOf[t] \in Keys
  BY TurnAssumption
<1>3. stage'[t] = "done" /\ \A u \in Turns \ {t} : stage'[u] = stage[u]
  BY <1>1 DEF TypeOK
<1>4. stage' \in [Turns -> Stages] /\ occupant' \in [Keys -> Turns \cup {None}]
  BY <1>1, <1>2 DEF TypeOK, Stages
<1>5. LeaseIsRegistered'
  BY <1>1, <1>3 DEF LeaseIsRegistered, Acquiring
<1>6. CASE SlotMatches(t)
  <2>1. stage[t] = "running" /\ slot[KeyOf[t]] = t
    BY <1>2, <1>6, TurnAssumption DEF SlotMatches, SlotIsRunning
  <2>2. /\ token[t] \in Sessions /\ lease[t] \in Turns
        /\ leases[token[t]] = lease[t]
        /\ holder[lease[t]] = t
    BY <2>1 DEF TypeOK, LeaseIsRegistered, RunnerIsHolder
  <2>3. /\ slot' = [slot EXCEPT ![KeyOf[t]] = None]
        /\ holder' = [holder EXCEPT ![lease[t]] = None]
        /\ locked' = [locked EXCEPT ![lease[t]] = FALSE]
    BY <1>6, <2>1, <2>2, TurnAssumption DEF End, HoldsRegistered, Unlocked
  <2>4. slot'[KeyOf[t]] = None /\ \A k \in Keys \ {KeyOf[t]} : slot'[k] = slot[k]
    BY <1>2, <2>3 DEF TypeOK
  <2>5. /\ holder'[lease[t]] = None /\ ~locked'[lease[t]]
        /\ \A l \in Turns \ {lease[t]} : holder'[l] = holder[l] /\ locked'[l] = locked[l]
    BY <2>2, <2>3 DEF TypeOK
  <2>6. TypeOK'
    <3>1. /\ slot' \in [Keys -> Turns \cup {None}]
          /\ holder' \in [Turns -> Turns \cup {None}]
          /\ locked' \in [Turns -> BOOLEAN]
      BY <2>3 DEF TypeOK
    <3> QED BY <1>1, <1>3, <1>4, <3>1 DEF TypeOK, Acquiring
  <2>7. RunnerIsHolder'
    <3> SUFFICES ASSUME NEW u \in Turns, stage'[u] = "running"
                 PROVE  holder'[lease[u]] = u /\ locked'[lease[u]]
      BY <1>1 DEF RunnerIsHolder
    <3>1. u # t /\ lease[u] \in Turns /\ holder[lease[u]] = u /\ locked[lease[u]]
      BY <1>3 DEF TypeOK, RunnerIsHolder
    <3> QED BY <2>2, <2>5, <3>1
  <2>8. SlotIsRunning'
    BY <1>2, <1>3, <2>4 DEF TypeOK, SlotIsRunning
  <2>9. HolderLocks'
    BY <1>1, <1>3, <2>5, TurnAssumption DEF TypeOK, HolderLocks
  <2>10. GrantedLocks'
    <3> SUFFICES ASSUME NEW u \in Turns, stage'[u] = "granted"
                 PROVE  /\ locked'[lease[u]]
                        /\ holder'[lease[u]] = None
                        /\ \A v \in Turns : stage'[v] = "granted" /\ lease[v] = lease[u] => v = u
      BY <1>1 DEF GrantedLocks
    <3>1. u # t /\ stage[u] = "granted" /\ lease[u] \in Turns /\ holder[lease[u]] = None
      BY <1>3 DEF TypeOK, Acquiring, GrantedLocks
    <3>2. lease[u] # lease[t]
      BY <2>2, <3>1, TurnAssumption
    <3> QED BY <1>3, <2>5, <3>1, <3>2 DEF GrantedLocks
  <2>11. LockedForSomebody'
    BY <1>1, <1>3, <2>1, <2>5 DEF LockedForSomebody
  <2> QED BY <1>5, <2>6, <2>7, <2>8, <2>9, <2>10, <2>11
<1>7. CASE ~SlotMatches(t)
  <2>1. UNCHANGED <<slot, holder, locked>>
    BY <1>7 DEF End
  <2>2. TypeOK'
    BY <1>1, <1>3, <1>4, <2>1 DEF TypeOK, Acquiring
  <2>3. RunnerIsHolder'
    BY <1>1, <1>3, <2>1 DEF RunnerIsHolder
  <2>4. SlotIsRunning'
    BY <1>1, <1>3, <1>7, <2>1 DEF TypeOK, SlotIsRunning, SlotMatches
  <2>5. HolderLocks'
    BY <1>1, <1>3, <2>1 DEF TypeOK, HolderLocks
  <2>6. GrantedLocks' /\ LockedForSomebody'
    BY <1>1, <1>3, <2>1 DEF GrantedLocks, LockedForSomebody
  <2> QED BY <1>5, <2>2, <2>3, <2>4, <2>5, <2>6
<1> QED BY <1>6, <1>7

LEMMA FrameIInv ==
    ASSUME IInv, occupant' \in [Keys -> Turns \cup {None}], evictions' \in 0..MaxEvictions,
           UNCHANGED <<registry, turnVars, slot, history>>
    PROVE  IInv'
  BY DEF IInv, registry, turnVars, history, TypeOK, LeaseIsRegistered, RunnerIsHolder,
     SlotIsRunning, HolderLocks, GrantedLocks, LockedForSomebody, Waiting

LEMMA NextIInv ==
    ASSUME IInv, [Next]_vars
    PROVE  IInv'
<1>1. ASSUME NEW t \in Turns, Begin(t)
      PROVE  IInv'
  <2>1. stage' = [stage EXCEPT ![t] = "begun"] /\ stage[t] = "new"
    BY <1>1 DEF Begin
  <2>2. occupant' \in [Keys -> Turns \cup {None}]
    BY <1>1 DEF Begin, IInv, TypeOK
  <2> QED BY <1>1, <2>1, <2>2, StageIInv DEF Begin, registry, history
<1>2. ASSUME NEW t \in Turns, LockStep(t)
      PROVE  IInv'
  BY <1>2, LockIInv, LockLaterIInv, PublishIInv DEF LockStep
<1>3. ASSUME NEW t \in Turns, GiveUp(t)
      PROVE  IInv'
  <2>1. stage' = [stage EXCEPT ![t] = "ending"] /\ stage[t] \in {"scheduled", "queued"}
    BY <1>3 DEF GiveUp
  <2>2. occupant' \in [Keys -> Turns \cup {None}]
    BY <1>3 DEF GiveUp, runner, IInv, TypeOK
  <2> QED BY <1>3, <2>1, <2>2, StageIInv DEF GiveUp, registry, runner, history
<1>4. ASSUME NEW t \in Turns, NEW s \in Sessions, Acquire(t, s) \/ Rotate(t, s)
      PROVE  IInv'
  BY <1>4, AcquireIInv, RotateIInv
<1>5. ASSUME NEW k \in Keys, EvictTurn(k)
      PROVE  IInv'
  <2>1. occupant' \in [Keys -> Turns \cup {None}] /\ evictions' \in 0..MaxEvictions
    BY <1>5, TurnAssumption DEF EvictTurn, IInv, TypeOK
  <2> QED BY <1>5, <2>1, FrameIInv DEF EvictTurn
<1>6. ASSUME NEW t \in Turns, FreeKey(t)
      PROVE  IInv'
  <2>1. occupant' \in [Keys -> Turns \cup {None}] /\ evictions' \in 0..MaxEvictions
    BY <1>6 DEF FreeKey, IInv, TypeOK
  <2> QED BY <1>6, <2>1, FrameIInv DEF FreeKey
<1>7. CASE UNCHANGED vars
  BY <1>7, FrameIInv DEF vars, runner, IInv, TypeOK
<1> QED BY <1>1, <1>2, <1>3, <1>4, <1>5, <1>6, <1>7, EndIInv DEF Next, TurnStep

----------------------------------------------------------------------------
(* Theorems. *)

\* The strengthened invariant holds in every reachable state.
THEOREM Invariance == Spec => []IInv
<1> QED BY InitIInv, NextIInv, PTL DEF Spec

\* The variables keep their types.
THEOREM TypeCorrect == Spec => []TypeOK
<1>1. IInv => TypeOK
  BY DEF IInv
<1> QED BY <1>1, Invariance, PTL

\* No session id is ever leased by two turns, however many turns of a key
\* overlap and however small the registry is: two running turns with
\* one token are the holder of one registered lease.
THEOREM SessionExclusion == Spec => []OneTurnPerSession
<1>1. IInv => OneTurnPerSession
  BY DEF IInv, OneTurnPerSession, LeaseIsRegistered, RunnerIsHolder
<1> QED BY <1>1, Invariance, PTL

\* Eviction and aliasing never move a session from the lock its turns wait for.
THEOREM LeasesStayRegistered == Spec => []LeaseIsRegistered
<1>1. IInv => LeaseIsRegistered
  BY DEF IInv
<1> QED BY <1>1, Invariance, PTL

\* Release and rebind find the lease of every running turn.
THEOREM RunnersHold == Spec => []RunnerIsHolder
<1>1. IInv => RunnerIsHolder
  BY DEF IInv
<1> QED BY <1>1, Invariance, PTL

\* No lock stays taken without a holder or an acquire about to return.
THEOREM NoLostLock == Spec => []LockedForSomebody
<1>1. IInv => LockedForSomebody
  BY DEF IInv
<1> QED BY <1>1, Invariance, PTL

----------------------------------------------------------------------------
(* The slots of the keys. *)

\* A running turn finds its token in its key's slot, unless a newer turn of the
\* key overwrote it there.
SlotOrOvertaken ==
    \A t \in Turns : stage[t] = "running" => slot[KeyOf[t]] = t \/ t \in overtaken

GInv == SlotOrOvertaken /\ LeaseIsGivenBack

LEMMA PublishGInv ==
    ASSUME IInv, GInv, NEW t \in Turns, Publish(t)
    PROVE  GInv'
<1> USE DEF GInv
<1>1. TypeOK /\ KeyOf[t] \in Keys
  BY TurnAssumption DEF IInv
<1>2. /\ stage[t] = "granted" /\ stage' = [stage EXCEPT ![t] = "running"]
      /\ slot' = [slot EXCEPT ![KeyOf[t]] = t]
      /\ holder' = [holder EXCEPT ![lease[t]] = t]
      /\ overtaken' = overtaken \cup ({slot[KeyOf[t]]} \ {None, t})
  BY DEF Publish
<1>3. stage'[t] = "running" /\ \A u \in Turns \ {t} : stage'[u] = stage[u]
  BY <1>1, <1>2 DEF TypeOK
<1>4. slot'[KeyOf[t]] = t /\ \A k \in Keys \ {KeyOf[t]} : slot'[k] = slot[k]
  BY <1>1, <1>2 DEF TypeOK
<1>5. SlotOrOvertaken'
  <2> SUFFICES ASSUME NEW u \in Turns, u # t, stage'[u] = "running"
               PROVE  slot'[KeyOf[u]] = u \/ u \in overtaken'
    BY <1>4 DEF SlotOrOvertaken
  <2>1. KeyOf[u] \in Keys /\ (slot[KeyOf[u]] = u \/ u \in overtaken)
    BY <1>3, TurnAssumption DEF SlotOrOvertaken
  <2> QED BY <1>2, <1>4, <2>1, TurnAssumption
<1>6. \A l \in Turns : holder'[l] \in {t, holder[l]}
  BY <1>1, <1>2 DEF TypeOK
<1>7. LeaseIsGivenBack'
  BY <1>1, <1>2, <1>3, <1>6 DEF TypeOK, LeaseIsGivenBack
<1> QED BY <1>5, <1>7

\* The finally frees the lease of a turn whose token is still in the slot.
LEMMA EndGInv ==
    ASSUME IInv, GInv, NEW t \in Turns, End(t)
    PROVE  GInv'
<1> USE DEF GInv
<1>1. TypeOK /\ KeyOf[t] \in Keys
  BY TurnAssumption DEF IInv
<1>2. /\ stage[t] \in {"running", "ending"}
      /\ stage' = [stage EXCEPT ![t] = "done"]
      /\ UNCHANGED overtaken
  BY DEF End, history
<1>3. stage'[t] = "done" /\ \A u \in Turns \ {t} : stage'[u] = stage[u]
  BY <1>1, <1>2 DEF TypeOK
<1>4. CASE SlotMatches(t)
  <2>1. stage[t] = "running" /\ slot[KeyOf[t]] = t
    BY <1>1, <1>4, TurnAssumption DEF SlotMatches, IInv, SlotIsRunning
  <2>2. /\ token[t] \in Sessions /\ lease[t] \in Turns
        /\ leases[token[t]] = lease[t] /\ holder[lease[t]] = t
    BY <2>1 DEF IInv, TypeOK, LeaseIsRegistered, RunnerIsHolder
  <2>3. /\ slot' = [slot EXCEPT ![KeyOf[t]] = None]
        /\ holder' = [holder EXCEPT ![lease[t]] = None]
    BY <1>4, <2>1, <2>2, TurnAssumption DEF End, HoldsRegistered
  <2>4. \A k \in Keys : slot[k] # t => slot'[k] = slot[k]
    BY <1>1, <2>1, <2>3 DEF TypeOK
  <2>5. SlotOrOvertaken'
    BY <1>2, <1>3, <2>4, TurnAssumption DEF SlotOrOvertaken
  <2>6. holder'[lease[t]] = None /\ \A l \in Turns \ {lease[t]} : holder'[l] = holder[l]
    BY <1>1, <2>2, <2>3 DEF TypeOK
  <2>7. \A l \in Turns : holder[l] # None => lease[holder[l]] = l
    BY DEF IInv, HolderLocks
  <2>8. LeaseIsGivenBack'
    BY <1>1, <1>2, <1>3, <2>6, <2>7 DEF TypeOK, LeaseIsGivenBack
  <2> QED BY <2>5, <2>8
<1>5. CASE ~SlotMatches(t)
  <2>1. UNCHANGED <<slot, holder>>
    BY <1>5 DEF End
  <2>2. SlotOrOvertaken'
    BY <1>2, <1>3, <2>1 DEF SlotOrOvertaken
  <2>3. stage[t] = "running" => t \in overtaken
    BY <1>5 DEF SlotMatches, SlotOrOvertaken
  <2>4. LeaseIsGivenBack'
    BY <1>1, <1>2, <1>3, <2>1, <2>3 DEF TypeOK, LeaseIsGivenBack
  <2> QED BY <2>2, <2>4
<1> QED BY <1>4, <1>5

LEMMA NextGInv ==
    ASSUME IInv, GInv, [Next]_vars
    PROVE  GInv'
<1> USE DEF GInv
<1>1. TypeOK
  BY DEF IInv
<1>2. ASSUME NEW t \in Turns, NEW x \in Stages \ {"running"}, stage[t] # "running",
             stage' = [stage EXCEPT ![t] = x],
             UNCHANGED <<holder, slot, overtaken>>
      PROVE  GInv'
  <2>1. stage'[t] = x /\ \A u \in Turns \ {t} : stage'[u] = stage[u]
    BY <1>1, <1>2 DEF TypeOK
  <2> QED BY <1>1, <1>2, <2>1 DEF TypeOK, SlotOrOvertaken, LeaseIsGivenBack
<1>3. ASSUME UNCHANGED <<holder, slot, stage, overtaken>>
      PROVE  GInv'
  BY <1>3 DEF SlotOrOvertaken, LeaseIsGivenBack
<1>4. ASSUME NEW t \in Turns,
             Begin(t) \/ LockAtOnce(t) \/ LockLater(t) \/ LockHandedOver(t) \/ GiveUp(t)
      PROVE  GInv'
  BY <1>2, <1>4 DEF Begin, LockAtOnce, LockLater, LockHandedOver, GiveUp, registry, runner,
     history, Stages
<1>5. ASSUME NEW t \in Turns, NEW s \in Sessions, Acquire(t, s) \/ Rotate(t, s)
      PROVE  GInv'
  BY <1>2, <1>3, <1>5 DEF Acquire, Rotate, runner, history, Stages
<1>6. CASE \/ \E t \in Turns : FreeKey(t)
           \/ \E k \in Keys : EvictTurn(k)
           \/ UNCHANGED vars
  BY <1>3, <1>6 DEF FreeKey, EvictTurn, vars, registry, turnVars, runner, history
<1> QED BY <1>4, <1>5, <1>6, PublishGInv, EndGInv DEF Next, TurnStep, LockStep

\* Every release finds the lease of its turn, through rotations, refused
\* rebinds, registry evictions and stale unwinds: a lease outlives its turn only
\* if a newer turn of the key overwrote its token (which lease_orphan shows).
THEOREM LeasesAreGivenBack == Spec => []LeaseIsGivenBack
<1>1. Init => GInv
  BY DEF Init, GInv, SlotOrOvertaken, LeaseIsGivenBack
<1>2. GInv => LeaseIsGivenBack
  BY DEF GInv
<1> QED BY <1>1, <1>2, NextGInv, Invariance, PTL DEF Spec

----------------------------------------------------------------------------
(* Transcripts. *)

\* A running turn whose every rebind was granted writes the transcript of the
\* session its token leases.
WritesItsLease ==
    \A t \in Turns : stage[t] = "running" => blocked[t] \/ target[t] = token[t]

LEMMA NextWrites ==
    ASSUME IInv, WritesItsLease, [Next]_vars
    PROVE  WritesItsLease'
<1>1. TypeOK
  BY DEF IInv
<1>2. ASSUME NEW t \in Turns, Publish(t)
      PROVE  WritesItsLease'
  <2>1. /\ stage' = [stage EXCEPT ![t] = "running"]
        /\ target' = [target EXCEPT ![t] = token[t]]
        /\ UNCHANGED <<token, blocked>>
    BY <1>2 DEF Publish
  <2>2. target'[t] = token'[t]
    BY <1>1, <2>1 DEF TypeOK
  <2>3. \A u \in Turns \ {t} : stage'[u] = stage[u] /\ target'[u] = target[u]
    BY <1>1, <2>1 DEF TypeOK
  <2> QED BY <2>1, <2>2, <2>3 DEF WritesItsLease
<1>3. ASSUME NEW t \in Turns, NEW s \in Sessions, Rotate(t, s)
      PROVE  WritesItsLease'
  <2>1. /\ stage[t] = "running" /\ s # target[t] /\ UNCHANGED stage
        /\ target' = [target EXCEPT ![t] = s]
    BY <1>3 DEF Rotate
  <2>2. target'[t] = s /\ \A u \in Turns \ {t} : target'[u] = target[u]
    BY <1>1, <2>1 DEF TypeOK
  <2>3. CASE token' = [token EXCEPT ![t] = s] /\ UNCHANGED blocked
    <3>1. token'[t] = s /\ \A u \in Turns \ {t} : token'[u] = token[u]
      BY <1>1, <2>3 DEF TypeOK
    <3> QED BY <2>1, <2>2, <2>3, <3>1 DEF WritesItsLease
  <2>4. CASE blocked' = [blocked EXCEPT ![t] = @ \/ s # token[t]] /\ UNCHANGED token
    <3>1. blocked'[t] = (blocked[t] \/ s # token[t])
      BY <1>1, <2>4 DEF TypeOK
    <3>2. \A u \in Turns \ {t} : blocked'[u] = blocked[u]
      BY <1>1, <2>4 DEF TypeOK
    <3>3. blocked'[t]
      BY <2>1, <3>1 DEF WritesItsLease
    <3> QED BY <2>1, <2>2, <2>4, <3>2, <3>3 DEF WritesItsLease
  <2> QED BY <1>3, <2>3, <2>4 DEF Rotate
<1>4. ASSUME NEW t \in Turns, NEW x \in Stages \ {"running"},
             stage' = [stage EXCEPT ![t] = x],
             \A u \in Turns : stage[u] = "running" => token'[u] = token[u],
             UNCHANGED <<target, blocked, overtaken>>
      PROVE  WritesItsLease'
  <2>1. \A u \in Turns : stage'[u] = "running" => stage[u] = "running"
    BY <1>1, <1>4 DEF TypeOK
  <2> QED BY <1>4, <2>1 DEF WritesItsLease
<1>5. ASSUME NEW t \in Turns, NEW s \in Sessions, Acquire(t, s)
      PROVE  WritesItsLease'
  <2>1. \A u \in Turns : stage[u] = "running" => token'[u] = token[u]
    BY <1>1, <1>5 DEF Acquire, TypeOK
  <2> QED BY <1>4, <1>5, <2>1 DEF Acquire, history, Stages
<1>6. ASSUME NEW t \in Turns, Begin(t) \/ LockAtOnce(t) \/ LockLater(t) \/ LockHandedOver(t)
                              \/ GiveUp(t) \/ End(t)
      PROVE  WritesItsLease'
  BY <1>4, <1>6 DEF Begin, LockAtOnce, LockLater, LockHandedOver, GiveUp, End, history, Stages
<1>7. ASSUME UNCHANGED <<stage, token, target, blocked, overtaken>>
      PROVE  WritesItsLease'
  BY <1>7 DEF WritesItsLease
<1>8. CASE \/ \E t \in Turns : FreeKey(t)
           \/ \E k \in Keys : EvictTurn(k)
           \/ UNCHANGED vars
  BY <1>7, <1>8 DEF FreeKey, EvictTurn, vars, turnVars, history
<1> QED BY <1>2, <1>3, <1>5, <1>6, <1>8 DEF Next, TurnStep, LockStep

\* However turns are rotated by compression, evicted and handed leases, two of
\* them write one transcript only if a rebind was refused to one.
THEOREM OneWriter == Spec => []OneWriterPerTranscript
<1>1. Init => WritesItsLease
  BY DEF Init, WritesItsLease
<1>2. IInv /\ WritesItsLease => OneWriterPerTranscript
  <2> SUFFICES ASSUME IInv, WritesItsLease, NEW t \in Turns, NEW u \in Turns,
                      stage[t] = "running", stage[u] = "running", target[t] = target[u],
                      ~blocked[t], ~blocked[u]
               PROVE  t = u
    BY DEF OneWriterPerTranscript
  <2>1. token[t] = token[u]
    BY DEF WritesItsLease
  <2> QED BY <2>1 DEF IInv, LeaseIsRegistered, RunnerIsHolder
<1> QED BY <1>1, <1>2, NextWrites, Invariance, PTL DEF Spec
\* The registry implements a lease with one holder: an acquire returns only to
\* a session nobody holds, whatever was evicted, aliased or orphaned meanwhile.
THEOREM LeaseRefinement == Spec => ImplementsOneHolder
<1> DEFINE on(s) == {t \in Turns : stage[t] = "running" /\ token[t] = s}
           held == [s \in Sessions |-> on(s)]
<1>1. Init => Lease!AInit
  BY DEF Init, Lease!AInit
<1>2. ASSUME IInv, NEW t \in Turns, stage[t] = "running"
      PROVE  token[t] \in Sessions /\ held[token[t]] = {t}
  <2>1. token[t] \in Sessions
    BY <1>2 DEF IInv, TypeOK
  <2>2. \A u \in Turns : stage[u] = "running" /\ token[u] = token[t] => u = t
    BY <1>2 DEF IInv, LeaseIsRegistered, RunnerIsHolder
  <2> QED BY <1>2, <2>1, <2>2
<1>3. ASSUME IInv, NEW t \in Turns, Publish(t)
      PROVE  Lease!ANext
  <2>1. /\ stage[t] = "granted" /\ stage' = [stage EXCEPT ![t] = "running"] /\ token' = token
        /\ token[t] \in Sessions
    BY <1>3 DEF Publish, IInv, TypeOK, Acquiring
  <2>2. stage'[t] = "running" /\ \A u \in Turns \ {t} : stage'[u] = stage[u]
    BY <1>3, <2>1 DEF IInv, TypeOK
  <2>3. \A u \in Turns : stage[u] = "running" => token[u] # token[t]
    <3> SUFFICES ASSUME NEW u \in Turns, stage[u] = "running", token[u] = token[t]
                 PROVE  FALSE
      OBVIOUS
    <3>1. lease[u] = lease[t]
      BY <1>3, <2>1 DEF IInv, LeaseIsRegistered, Acquiring
    <3>2. holder[lease[u]] = u /\ holder[lease[t]] = None
      BY <1>3, <2>1 DEF IInv, RunnerIsHolder, GrantedLocks
    <3> QED BY <3>1, <3>2, TurnAssumption
  <2>4. on(token[t]) = {} /\ on(token[t])' = {t}
    BY <2>1, <2>2, <2>3
  <2>5. \A s \in Sessions \ {token[t]} : on(s)' = on(s)
    BY <2>1, <2>2
  <2>6. held' = [held EXCEPT ![token[t]] = {t}]
    BY <2>1, <2>4, <2>5
  <2> QED BY <2>1, <2>4, <2>6 DEF Lease!ANext, Lease!Take, Lease!Free
<1>4. ASSUME IInv, NEW t \in Turns, End(t)
      PROVE  [Lease!ANext]_held
  <2>1. /\ stage[t] \in {"running", "ending"} /\ stage' = [stage EXCEPT ![t] = "done"]
        /\ token' = token
    BY <1>4 DEF End
  <2>2. stage'[t] = "done" /\ \A u \in Turns \ {t} : stage'[u] = stage[u]
    BY <1>4, <2>1 DEF IInv, TypeOK
  <2>3. CASE stage[t] = "ending"
    <3>1. \A s \in Sessions : on(s)' = on(s)
      BY <2>1, <2>2, <2>3
    <3> QED BY <3>1
  <2>4. CASE stage[t] = "running"
    <3>1. PICK old \in Sessions : old = token[t] /\ held[old] = {t}
      BY <1>2, <1>4, <2>4
    <3>2. held'[old] = {}
      BY <2>1, <2>2, <3>1
    <3>3. \A s \in Sessions \ {old} : held'[s] = held[s]
      BY <2>1, <2>2, <3>1
    <3>4. held = [s \in Sessions |-> held[s]] /\ held' = [s \in Sessions |-> held'[s]]
      OBVIOUS
    <3> HIDE DEF held
    <3>5. held' = [held EXCEPT ![old] = {}]
      BY <3>2, <3>3, <3>4
    <3> QED BY <3>1, <3>5 DEF Lease!ANext, Lease!GiveBack, held
  <2> QED BY <2>1, <2>3, <2>4
<1>5. ASSUME IInv, NEW t \in Turns, NEW new \in Sessions, Rotate(t, new)
      PROVE  [Lease!ANext]_held
  <2>1. stage[t] = "running" /\ stage' = stage
    BY <1>5 DEF Rotate
  <2>2. CASE token' = token
    BY <2>1, <2>2
  <2>3. CASE token' # token
    <3>1. /\ HoldsRegistered(t) /\ RebindAllowed(t, new)
          /\ token' = [token EXCEPT ![t] = new]
      BY <1>5, <2>3 DEF Rotate
    <3>2. PICK old \in Sessions : old = token[t] /\ held[old] = {t} /\ new # old
      BY <1>2, <1>5, <2>1, <3>1 DEF RebindAllowed
    <3>3. token'[t] = new /\ \A u \in Turns \ {t} : token'[u] = token[u]
      BY <1>5, <3>1 DEF IInv, TypeOK
    <3>4. \A u \in Turns : stage[u] = "running" => token[u] # new
      <4> SUFFICES ASSUME NEW u \in Turns, stage[u] = "running", token[u] = new
                   PROVE  FALSE
        OBVIOUS
      <4>1. /\ leases[new] = lease[u] /\ holder[lease[u]] = u /\ lease[u] \in Turns
            /\ leases[token[t]] = lease[t] /\ holder[lease[t]] = t
        BY <1>5, <2>1 DEF IInv, TypeOK, LeaseIsRegistered, RunnerIsHolder
      <4>2. leases[new] # None /\ ~Idle(leases[new])
        BY <4>1, TurnAssumption DEF Idle
      <4>3. u = t
        BY <3>1, <4>1, <4>2 DEF RebindAllowed
      <4> QED BY <3>2, <4>3
    <3>5. held[new] = {} /\ held'[new] = {t}
      BY <2>1, <3>3, <3>4
    <3>6. held'[old] = {}
      <4>1. \A u \in Turns : stage[u] = "running" /\ token[u] = old => u = t
        BY <3>2
      <4>2. \A u \in Turns : stage'[u] = "running" => token'[u] # old
        BY <2>1, <3>2, <3>3, <4>1
      <4> QED BY <4>2
    <3>7. \A s \in Sessions \ {new, old} : held'[s] = held[s]
      BY <2>1, <3>2, <3>3
    <3>8. held = [s \in Sessions |-> held[s]] /\ held' = [s \in Sessions |-> held'[s]]
      OBVIOUS
    <3> HIDE DEF held
    <3>9. held' = [held EXCEPT ![old] = {}, ![new] = {t}]
      BY <3>2, <3>5, <3>6, <3>7, <3>8
    <3>10. Lease!Exchange(old, new, t)
      BY <3>2, <3>5, <3>9 DEF Lease!Exchange, Lease!Free, held
    <3> QED BY <3>10 DEF Lease!ANext
  <2> QED BY <2>2, <2>3
<1>6. ASSUME IInv, NEW t \in Turns, NEW x \in Stages \ {"running"},
             stage[t] # "running", stage' = [stage EXCEPT ![t] = x],
             \A u \in Turns : stage[u] = "running" => token'[u] = token[u]
      PROVE  held' = held
  <2>1. \A u \in Turns : (stage'[u] = "running") <=> (stage[u] = "running")
    BY <1>6 DEF IInv, TypeOK
  <2> QED BY <1>6, <2>1
<1>7. ASSUME IInv, NEW t \in Turns, NEW s \in Sessions, Acquire(t, s)
      PROVE  held' = held
  <2>1. \A u \in Turns : stage[u] = "running" => token'[u] = token[u]
    BY <1>7 DEF Acquire, IInv, TypeOK
  <2> QED BY <1>6, <1>7, <2>1 DEF Acquire, Stages
<1>8. ASSUME IInv, NEW t \in Turns,
             Begin(t) \/ LockAtOnce(t) \/ LockLater(t) \/ LockHandedOver(t) \/ GiveUp(t)
      PROVE  held' = held
  BY <1>6, <1>8 DEF Begin, LockAtOnce, LockLater, LockHandedOver, GiveUp, Stages
<1>9. ASSUME \/ \E t \in Turns : FreeKey(t)
             \/ \E k \in Keys : EvictTurn(k)
             \/ UNCHANGED vars
      PROVE  held' = held
  BY <1>9 DEF FreeKey, EvictTurn, vars, turnVars
<1>10. IInv /\ [Next]_vars => [Lease!ANext]_held
  BY <1>3, <1>4, <1>5, <1>7, <1>8, <1>9 DEF Next, TurnStep, LockStep
<1> QED BY <1>1, <1>10, Invariance, PTL DEF Spec, ImplementsOneHolder, Lease!ASpec
============================================================================
