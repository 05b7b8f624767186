------------------------- MODULE MCFirmwareUpgrade -------------------------
(***************************************************************************)
(* Two images of different length: fragments of the one are stale or       *)
(* misdirected in a transfer of the other, and can exceed its length and   *)
(* the buffer.  The file of the longer one takes two chunks, the second    *)
(* shorter than the buffer of the copy loop.                               *)
(***************************************************************************)
EXTENDS FirmwareUpgrade, TLC

CONSTANTS LONG, SHORT
MCImageLen == (LONG :> 4) @@ (SHORT :> 2)
=============================================================================
