------------------------------ MODULE MCC2Link ------------------------------
(* An instance of C2Link with hosts that differ in address and port.       *)
EXTENDS C2Link

CONSTANTS near, far, report, heartbeat

MCIp == [h \in Host |-> IF h = near THEN 1 ELSE 2]
MCPort == [h \in Host |-> IF h = near THEN 1 ELSE 2]
MCClient == 1 .. 2
=============================================================================
