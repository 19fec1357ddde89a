---------------------------- MODULE TurnLeaseMC ----------------------------
(* Instances of TurnLease for TLC: two keys, one with two generations, on    *)
(* two session ids, with room for one idle lease in the registry.         *)
EXTENDS TurnLease, TLC

CONSTANTS a1, a2, b1, a, b, s1, s2

ThreeTurns == {a1, a2, b1}
TwoKeys == {a, b}
ThreeTurnsOf == a1 :> a @@ a2 :> a @@ b1 :> b
TwoSessions == {s1, s2}
Symmetry == Permutations(Sessions)
=============================================================================
