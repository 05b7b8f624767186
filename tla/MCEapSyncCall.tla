--------------------------- MODULE MCEapSyncCall ---------------------------
(***************************************************************************)
(* The synchronous calls of the device in small: the ALINK thread asks SYS *)
(* for the serial number while it handles a packet (SysAlinkFunc.cpp), and *)
(* others send SYS requests and timer messages of their own.               *)
(***************************************************************************)
EXTENDS EapSyncCall

CONSTANTS ALINK, SYS, PACKET, GET_SN

MCOwner == [c \in Cmd |-> IF c = PACKET THEN ALINK ELSE SYS]
MCNested == [c \in Cmd |-> IF c = PACKET THEN GET_SN ELSE NoCmd]
MCCapacity == [t \in Thread |-> 1]
MCRank == [t \in Thread |-> IF t = SYS THEN 0 ELSE 1]
=============================================================================
