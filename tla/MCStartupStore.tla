-------------------------- MODULE MCStartupStore ---------------------------
(***************************************************************************)
(* A small instance of StartupStore: sequences up to 4, so that exhaustion *)
(* is reached by saving, and a save lost, repeated and cut several times   *)
(* before it; any pair of slot images at first.                            *)
(***************************************************************************)
EXTENDS StartupStore

InhibitRecord ==
  [resume_state |-> "INITIAL_CHECKS", attempts_used |-> 0, armed |-> TRUE,
   remaining_ms |-> STARTUP_INHIBIT_MS]

ReservedRecord ==
  [resume_state |-> "WAITING_FOR_UPLINK", attempts_used |-> 1, armed |-> TRUE,
   remaining_ms |-> STARTUP_RETRY_MS]

TransientRecord ==
  [resume_state |-> "GROUND_TO_SAT_1", attempts_used |-> 1, armed |-> TRUE, remaining_ms |-> 0]

MCFactory == {InhibitRecord, TransientRecord}
MCRequests == {InhibitRecord, ReservedRecord, TransientRecord}
=============================================================================
