--------------------------- MODULE DeliveryLedgerMC ---------------------------
(* Instances of DeliveryLedger for TLC: gateways that follow one another or *)
(* boot side by side.                                                       *)
EXTENDS DeliveryLedger, TLC

CONSTANTS o1

OwnPids == [g \in Gateways |-> g]
=============================================================================
