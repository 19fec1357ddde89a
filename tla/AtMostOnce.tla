----------------------------- MODULE AtMostOnce -----------------------------
(***************************************************************************)
(* What the cron delivery queue promises, without gateways, workers, rows  *)
(* or tombstones: a requested message is taken up at most once, may reach  *)
(* the platform only after it was taken up, and ends in one outcome that   *)
(* never changes.  "unknown" says nothing about what the platform got:     *)
(* the message may even arrive after that outcome was recorded.            *)
(***************************************************************************)
CONSTANT Messages

VARIABLES
    phase,    \* "none", "queued", "taken", "delivered", "failed", "unknown"
    reached   \* whether the message reached the platform

avars == <<phase, reached>>

AInit ==
    /\ phase   = [m \in Messages |-> "none"]
    /\ reached = [m \in Messages |-> FALSE]

Request(m) ==
    /\ phase[m] = "none"
    /\ phase' = [phase EXCEPT ![m] = "queued"]
    /\ UNCHANGED reached

TakeUp(m) ==
    /\ phase[m] = "queued"
    /\ phase' = [phase EXCEPT ![m] = "taken"]
    /\ UNCHANGED reached

Arrive(m) ==
    /\ phase[m] \in {"taken", "unknown"}
    /\ ~reached[m]
    /\ reached' = [reached EXCEPT ![m] = TRUE]
    /\ UNCHANGED phase

Settle(m, outcome) ==
    /\ phase[m] = "taken"
    /\ outcome = "delivered" => reached[m]
    /\ phase' = [phase EXCEPT ![m] = outcome]
    /\ UNCHANGED reached

\* One recovery pass gives up on several messages at once.
GiveUp(M) ==
    /\ \A m \in M : phase[m] = "taken"
    /\ phase' = [m \in Messages |-> IF m \in M THEN "unknown" ELSE phase[m]]
    /\ UNCHANGED reached

ANext ==
    \/ \E m \in Messages :
        \/ Request(m) \/ TakeUp(m) \/ Arrive(m)
        \/ \E outcome \in {"delivered", "failed"} : Settle(m, outcome)
    \/ \E M \in SUBSET Messages : GiveUp(M)

ASpec == AInit /\ [][ANext]_avars
=============================================================================
