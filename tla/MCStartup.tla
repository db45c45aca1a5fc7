----------------------------- MODULE MCStartup -----------------------------
(***************************************************************************)
(* Small instances of Startup.  The constants are numbers of ticks: an     *)
(* inhibit and a retry of several checkpoint intervals each, a poll of one *)
(* tick, and a work overrun that makes elapsed time exceed what was asked. *)
(***************************************************************************)
EXTENDS Startup
=============================================================================
