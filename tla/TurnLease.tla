----------------------------- MODULE TurnLease -----------------------------
(***************************************************************************)
(* The per-session turn lease of the gateway: the registry of              *)
(* gateway/turn_lease.py, and the slot of each routing key in which the    *)
(* runner keeps the token of the turn it serves (gateway/run_agent_cache,  *)
(* run_turn, run_inbound, session_state).                                  *)
(*                                                                         *)
(* Everything runs on one event loop; an action is what runs between two   *)
(* awaits.  A turn is one run generation of one routing key and acquires   *)
(* at most once, so a turn also names its token and the _SessionLease      *)
(* object it may create.                                                   *)
(***************************************************************************)
EXTENDS Integers, FiniteSets

CONSTANTS
    Turns,         \* (routing key, run generation) pairs
    Keys,          \* routing keys
    KeyOf,         \* the routing key of each turn
    Sessions,      \* durable session ids
    MaxEntries,    \* SessionTurnLeaseRegistry._max_entries
    MaxEvictions,  \* bound: evictions of a key whose turn still unwinds
    None

ASSUME TurnAssumption ==
    /\ IsFiniteSet(Sessions)
    /\ KeyOf \in [Turns -> Keys]
    /\ MaxEntries \in Nat \ {0}
    /\ MaxEvictions \in Nat
    /\ None \notin Turns \cup Sessions

VARIABLES
    leases,     \* _leases: the lease registered under each session id
    holder,     \* _SessionLease.holder of the lease created by each turn
    locked,     \* _SessionLease.lock.locked()
    stage,      \* where each turn stands
    lease,      \* the lease object an acquire works on
    token,      \* TurnLeaseToken.session_id
    ahead,      \* the waiters of the lock that queued before this turn
    slot,       \* TurnState.lease_token / lease_generation of each key
    occupant,   \* the turn whose agent and generation occupy the key
    evictions,  \* how often a key was evicted (bounded)
    target,     \* history: the session whose transcript the turn writes
    blocked,    \* history: a rebind was refused for the turn's rotation
    overtaken   \* history: the turns whose token was overwritten in its slot

registry == <<leases, holder, locked>>
turnVars == <<stage, lease, token, ahead>>
runner   == <<slot, occupant, evictions>>
history  == <<target, blocked, overtaken>>
vars     == <<registry, turnVars, runner, history>>

Stages == {"new", "begun", "scheduled", "queued", "granted", "running",
           "ending", "done"}

Acquiring == {"scheduled", "queued", "granted"}

----------------------------------------------------------------------------
(* The registry. *)

Registered == {s \in Sessions : leases[s] # None}

Waiting(l) == {t \in Turns : lease[t] = l /\ stage[t] = "queued"}

\* pending_acquires: the acquires of a lease that have not returned yet.
Pending(l) == {t \in Turns : lease[t] = l /\ stage[t] \in Acquiring}

\* Mutant of Idle: the hand-off between two holders counts as idle.
IdleIfUnlocked(l) == holder[l] = None /\ ~locked[l]

\* _SessionLease.idle
Idle(l) == holder[l] = None /\ ~locked[l] /\ Pending(l) = {}

\* _evict_idle: of the idle entries as many as needed for one more below the
\* cap; which ones (the oldest) does not matter here.
Evictable(E) ==
    LET idle == {s \in Registered : Idle(leases[s])}
        overflow == Cardinality(Registered) - MaxEntries + 1 IN
    /\ E \subseteq idle
    /\ Cardinality(E) = IF overflow <= 0 THEN 0
                        ELSE IF overflow <= Cardinality(idle) THEN overflow
                        ELSE Cardinality(idle)

\* _get_or_create, for the turn that becomes the creator of a new lease.
GetOrCreate(t, s) ==
    IF leases[s] # None
    THEN lease' = [lease EXCEPT ![t] = leases[s]] /\ UNCHANGED leases
    ELSE \E E \in SUBSET Registered :
            /\ Evictable(E)
            /\ leases' = [x \in Sessions |->
                             IF x = s THEN t ELSE IF x \in E THEN None ELSE leases[x]]
            /\ lease' = [lease EXCEPT ![t] = t]

\* Mutant of RebindAllowed: the new id's lease is not looked at.
RebindAnyway(t, new) == new # token[t]

\* The checks of rebind that depend on the new id.
RebindAllowed(t, new) ==
    /\ new # token[t]
    /\ \/ leases[new] = None
       \/ leases[new] = leases[token[t]]
       \/ Idle(leases[new])

\* release and rebind: the lease registered under the token's session id is
\* held by this very token.
HoldsRegistered(t) ==
    leases[token[t]] # None /\ holder[leases[token[t]]] = t

\* _held_turn_lease: the key's slot holds the token of this generation.
SlotMatches(t) == slot[KeyOf[t]] = t

\* asyncio.Lock wakes its waiters in the order they came.
FirstInLine(t) == ahead[t] \cap Waiting(lease[t]) = {}

\* Mutant of Unlocked: release clears the holder and leaves the lock taken.
StillLocked(l) == locked

\* lease.lock.release()
Unlocked(l) == [locked EXCEPT ![l] = FALSE]

----------------------------------------------------------------------------
(* A turn, from its dispatch to the finally of its dispatch. *)

\* The key is free, the sentinel is installed, a generation is drawn.
Begin(t) ==
    /\ stage[t] = "new"
    /\ occupant[KeyOf[t]] = None
    /\ occupant' = [occupant EXCEPT ![KeyOf[t]] = t]
    /\ stage' = [stage EXCEPT ![t] = "begun"]
    /\ UNCHANGED <<registry, lease, token, ahead, slot, evictions, history>>

\* acquire, up to its await: any key may be mapped to any session.
Acquire(t, s) ==
    /\ stage[t] = "begun"
    /\ GetOrCreate(t, s)
    /\ token' = [token EXCEPT ![t] = s]
    /\ stage' = [stage EXCEPT ![t] = "scheduled"]
    /\ UNCHANGED <<holder, locked, ahead, runner, history>>

\* lock.acquire finds the lock free and nobody queued.
LockAtOnce(t) ==
    /\ stage[t] = "scheduled"
    /\ ~locked[lease[t]]
    /\ Waiting(lease[t]) = {}
    /\ locked' = [locked EXCEPT ![lease[t]] = TRUE]
    /\ stage' = [stage EXCEPT ![t] = "granted"]
    /\ UNCHANGED <<leases, holder, lease, token, ahead, runner, history>>

\* lock.acquire queues behind the waiters there are.
LockLater(t) ==
    /\ stage[t] = "scheduled"
    /\ locked[lease[t]] \/ Waiting(lease[t]) # {}
    /\ ahead' = [ahead EXCEPT ![t] = Waiting(lease[t])]
    /\ stage' = [stage EXCEPT ![t] = "queued"]
    /\ UNCHANGED <<registry, lease, token, runner, history>>

\* The first waiter resumes after a release and takes the lock.
LockHandedOver(t) ==
    /\ stage[t] = "queued"
    /\ ~locked[lease[t]]
    /\ FirstInLine(t)
    /\ locked' = [locked EXCEPT ![lease[t]] = TRUE]
    /\ stage' = [stage EXCEPT ![t] = "granted"]
    /\ UNCHANGED <<leases, holder, lease, token, ahead, runner, history>>

\* acquire returns: the token becomes the holder and goes into the key's slot,
\* whatever token of another turn is in there.
Publish(t) ==
    /\ stage[t] = "granted"
    /\ holder' = [holder EXCEPT ![lease[t]] = t]
    /\ slot' = [slot EXCEPT ![KeyOf[t]] = t]
    /\ stage' = [stage EXCEPT ![t] = "running"]
    /\ target' = [target EXCEPT ![t] = token[t]]
    /\ overtaken' = overtaken \cup ({slot[KeyOf[t]]} \ {None, t})
    /\ UNCHANGED <<leases, locked, lease, token, ahead, occupant, evictions, blocked>>

\* The wait budget is spent, or the turn is cancelled while it waits: the turn
\* is refused and goes on to its finally.
GiveUp(t) ==
    /\ stage[t] \in {"scheduled", "queued"}
    /\ stage' = [stage EXCEPT ![t] = "ending"]
    /\ UNCHANGED <<registry, lease, token, ahead, runner, history>>

\* Compression moves the running turn to session `new`; _rebind_turn_lease
\* registers its lease there, if the slot still knows the token.
Rotate(t, new) ==
    /\ stage[t] = "running"
    /\ new # target[t]
    /\ target' = [target EXCEPT ![t] = new]
    /\ IF SlotMatches(t) /\ HoldsRegistered(t) /\ RebindAllowed(t, new)
       THEN /\ leases' = [leases EXCEPT ![new] = leases[token[t]]]
            /\ token' = [token EXCEPT ![t] = new]
            /\ UNCHANGED blocked
       ELSE /\ blocked' = [blocked EXCEPT ![t] = @ \/ new # token[t]]
            /\ UNCHANGED <<leases, token>>
    /\ UNCHANGED <<holder, locked, stage, lease, ahead, runner, overtaken>>

\* The cleanup of _run_agent frees the key if this turn's generation is still
\* the key's, before the post-turn awaits and the finally of the dispatch: the
\* turn keeps its lease, but its key may serve another message.
FreeKey(t) ==
    /\ stage[t] = "running"
    /\ occupant[KeyOf[t]] = t
    /\ occupant' = [occupant EXCEPT ![KeyOf[t]] = None]
    /\ UNCHANGED <<registry, turnVars, slot, evictions, history>>

\* The finally of the dispatch: _release_running_agent_state clears the key
\* whatever its generation, _release_turn_lease only frees its own token.
End(t) ==
    /\ stage[t] \in {"running", "ending"}
    /\ occupant' = [occupant EXCEPT ![KeyOf[t]] = None]
    /\ IF SlotMatches(t)
       THEN LET u == slot[KeyOf[t]] IN
            /\ slot' = [slot EXCEPT ![KeyOf[t]] = None]
            /\ IF HoldsRegistered(u)
               THEN /\ holder' = [holder EXCEPT ![leases[token[u]]] = None]
                    /\ locked' = Unlocked(leases[token[u]])
               ELSE UNCHANGED <<holder, locked>>
       ELSE UNCHANGED <<slot, holder, locked>>
    /\ stage' = [stage EXCEPT ![t] = "done"]
    /\ UNCHANGED <<leases, lease, token, ahead, evictions, history>>

\* /new, /stop or a stale-agent eviction frees the key while its turn is still
\* unwinding (_hm_evict_running_agent, _interrupt_and_clear_session,
\* cancel_session_processing after its 5 s).
EvictTurn(k) ==
    /\ occupant[k] # None
    /\ evictions < MaxEvictions
    /\ occupant' = [occupant EXCEPT ![k] = None]
    /\ evictions' = evictions + 1
    /\ UNCHANGED <<registry, turnVars, slot, history>>

----------------------------------------------------------------------------
Init ==
    /\ leases    = [s \in Sessions |-> None]
    /\ holder    = [t \in Turns |-> None]
    /\ locked    = [t \in Turns |-> FALSE]
    /\ stage     = [t \in Turns |-> "new"]
    /\ lease     = [t \in Turns |-> None]
    /\ token     = [t \in Turns |-> None]
    /\ ahead     = [t \in Turns |-> {}]
    /\ slot      = [k \in Keys |-> None]
    /\ occupant  = [k \in Keys |-> None]
    /\ evictions = 0
    /\ target    = [t \in Turns |-> None]
    /\ blocked   = [t \in Turns |-> FALSE]
    /\ overtaken = {}

LockStep(t) == LockAtOnce(t) \/ LockLater(t) \/ LockHandedOver(t) \/ Publish(t)

TurnStep(t) ==
    \/ Begin(t) \/ LockStep(t) \/ GiveUp(t) \/ FreeKey(t) \/ End(t)
    \/ \E s \in Sessions : Acquire(t, s) \/ Rotate(t, s)

Next == (\E t \in Turns : TurnStep(t)) \/ (\E k \in Keys : EvictTurn(k))

Spec == Init /\ [][Next]_vars

\* The event loop resumes every task that can run, and every turn that runs
\* ends; nothing forces a waiter to time out.
Fairness == \A t \in Turns : WF_vars(LockStep(t)) /\ WF_vars(End(t))

FairSpec == Spec /\ Fairness

----------------------------------------------------------------------------
(* Properties. *)

\* Every variable stays within the values the code can give it.
TypeOK ==
    /\ leases    \in [Sessions -> Turns \cup {None}]
    /\ holder    \in [Turns -> Turns \cup {None}]
    /\ locked    \in [Turns -> BOOLEAN]
    /\ stage     \in [Turns -> Stages]
    /\ lease     \in [Turns -> Turns \cup {None}]
    /\ token     \in [Turns -> Sessions \cup {None}]
    /\ ahead     \in [Turns -> SUBSET Turns]
    /\ slot      \in [Keys -> Turns \cup {None}]
    /\ occupant  \in [Keys -> Turns \cup {None}]
    /\ evictions \in 0..MaxEvictions
    /\ target    \in [Turns -> Sessions \cup {None}]
    /\ blocked   \in [Turns -> BOOLEAN]
    /\ overtaken \subseteq Turns
    /\ \A t \in Turns : stage[t] \in Acquiring \cup {"running"} =>
                         lease[t] \in Turns /\ token[t] \in Sessions

\* At most one turn at a time holds the lease of a session id, through
\* hand-offs, evictions from the registry, aliasing and stale unwinds.
OneTurnPerSession ==
    \A t, u \in Turns :
        stage[t] = "running" /\ stage[u] = "running" /\ token[t] = token[u] => t = u

\* The registry is a lease: the turns that run with a token of a session are
\* its holders.
Lease == INSTANCE OneHolder WITH
    Resources <- Sessions,
    Holders   <- Turns,
    holders   <- [s \in Sessions |-> {t \in Turns : stage[t] = "running" /\ token[t] = s}]

\* A session is granted only while no turn holds it, and changes hands only
\* through its release; compression moves a turn only to a session that is free.
ImplementsOneHolder == Lease!ASpec

\* The lease a turn waits for or holds is the one registered under its token's
\* session id: neither _evict_idle nor rebind ever splits a session's turns
\* over two locks.
LeaseIsRegistered ==
    \A t \in Turns :
        stage[t] \in Acquiring \cup {"running"} => leases[token[t]] = lease[t]

\* A running turn is the published holder of its lease, so that its release
\* and its rebind find it.
RunnerIsHolder ==
    \A t \in Turns :
        stage[t] = "running" => holder[lease[t]] = t /\ locked[lease[t]]

\* Two running turns never write the same transcript, unless a rebind was
\* refused (the rotation-alias edge rebind logs, turn_lease.py:148).
OneWriterPerTranscript ==
    \A t, u \in Turns :
        /\ stage[t] = "running" /\ stage[u] = "running"
        /\ target[t] = target[u]
        /\ t # u
        => blocked[t] \/ blocked[u]

\* A lease is held by a turn that still runs: one slot for each key is enough
\* to give every lease back ("one TurnState slot per key equals the old dict",
\* gateway/session_state.py:184).
NoOrphanHolder ==
    \A l \in Turns : holder[l] # None => stage[holder[l]] = "running"

\* A lease outlives its turn only if a newer turn of the same key overwrote the
\* turn's token in the slot: no rotation, refused rebind, eviction from the
\* registry, timeout or stale unwind keeps a release from finding its lease.
LeaseIsGivenBack ==
    \A l \in Turns : holder[l] # None =>
        stage[holder[l]] = "running" \/ holder[l] \in overtaken

\* A lock is taken only for somebody: a holder, or an acquire about to return.
LockedForSomebody ==
    \A l \in Turns : locked[l] =>
        \/ holder[l] # None
        \/ \E t \in Turns : lease[t] = l /\ stage[t] = "granted"

\* A waiter is granted the lease or gives up, however long its predecessors
\* are and however late it came; no wake-up is lost.  Only an orphaned lease may
\* keep it waiting.
WaiterIsServed ==
    \A t \in Turns :
        (stage[t] \in Acquiring) ~> (stage[t] \notin Acquiring \/ ~NoOrphanHolder)
============================================================================
