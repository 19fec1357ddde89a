---------------------------- MODULE KanbanBoardMC ----------------------------
(* Instances of KanbanBoard for TLC.                                       *)
EXTENDS KanbanBoard

CONSTANTS parent, child

Chain == [t \in Tasks |-> IF t = child THEN {parent} ELSE {}]
=============================================================================
