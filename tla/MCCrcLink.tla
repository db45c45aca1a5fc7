----------------------------- MODULE MCCrcLink -----------------------------
(* CrcLink with the bounds of its cfg files: Transfers, Reads and Faults   *)
(* end every behaviour, so the system may stop.                            *)
EXTENDS CrcLink
=============================================================================
