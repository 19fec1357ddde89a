----------------------------- MODULE OneHolder -----------------------------
(***************************************************************************)
(* What the leases and claims of this system promise, without locks,       *)
(* registries, clocks, tokens or processes: a resource has one holder at a *)
(* time, is given only while it is free, stays with its holder until it is *)
(* given back, and is exchanged only for one that is free.                 *)
(***************************************************************************)
CONSTANTS Resources, Holders

VARIABLE holders    \* of each resource, those who hold it

AInit == holders = [r \in Resources |-> {}]

Free(r) == holders[r] = {}

Take(r, h) ==
    /\ Free(r)
    /\ holders' = [holders EXCEPT ![r] = {h}]

GiveBack(r, h) ==
    /\ holders[r] = {h}
    /\ holders' = [holders EXCEPT ![r] = {}]

Exchange(r, q, h) ==
    /\ holders[r] = {h} /\ Free(q)
    /\ holders' = [holders EXCEPT ![r] = {}, ![q] = {h}]

ANext ==
    \E r \in Resources, h \in Holders :
        \/ Take(r, h) \/ GiveBack(r, h)
        \/ \E q \in Resources : Exchange(r, q, h)

ASpec == AInit /\ [][ANext]_holders
=============================================================================
