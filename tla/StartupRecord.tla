--------------------------- MODULE StartupRecord ---------------------------
(***************************************************************************)
(* The values the Startup persistence contract is about: the boot states   *)
(* of MCUState, the record StartupStoreState and the two pure functions    *)
(* startup_store_retry_ms and startup_store_state_is_valid.                *)
(*                                                                         *)
(* Times are in ticks: the module is parameterised by the intervals, so    *)
(* the same definitions stand for 1800000, 172800000 and 604800000 ms and  *)
(* for the few ticks a model-checking run gives them.                      *)
(***************************************************************************)
EXTENDS Naturals

CONSTANTS
  STARTUP_INHIBIT_MS,    \* the inhibit before the first attempt
  STARTUP_RETRY_MS,      \* the wait owed while attempts remain
  STARTUP_WEEKLY_MS,     \* the wait owed once every attempt was used
  STARTUP_ATTEMPT_LIMIT  \* attempts_used saturates here

ASSUME IntervalAssumption ==
  /\ STARTUP_INHIBIT_MS \in Nat \ {0}
  /\ STARTUP_RETRY_MS \in Nat \ {0}
  /\ STARTUP_WEEKLY_MS \in Nat \ {0}
  /\ STARTUP_ATTEMPT_LIMIT \in Nat \ {0}

MCUState ==
  {"INITIAL_CHECKS", "WAIT_POWER_ON", "WAITING_FOR_UPLINK", "SAT_TO_GROUND_1",
   "GROUND_TO_SAT_1", "SAT_TO_GROUND_2", "MAIN_OPS", "DIAGNOSTICS_MODE"}

StartupStoreState ==
  [resume_state : MCUState, attempts_used : Nat, armed : BOOLEAN, remaining_ms : Nat]

startup_store_retry_ms(attempts_used) ==
  IF attempts_used < STARTUP_ATTEMPT_LIMIT THEN STARTUP_RETRY_MS ELSE STARTUP_WEEKLY_MS

(***************************************************************************)
(* The transient handshake states and DIAGNOSTICS_MODE are never durable.  *)
(***************************************************************************)
startup_store_state_is_valid(state) ==
  /\ state.attempts_used <= STARTUP_ATTEMPT_LIMIT
  /\ \/ /\ state.resume_state = "INITIAL_CHECKS"
        /\ state.attempts_used = 0
        /\ state.remaining_ms <= STARTUP_INHIBIT_MS
     \/ /\ state.resume_state = "WAITING_FOR_UPLINK"
        /\ state.armed
        /\ state.attempts_used >= 1
        /\ state.remaining_ms <= startup_store_retry_ms(state.attempts_used)
     \/ /\ state.resume_state \in {"WAIT_POWER_ON", "SAT_TO_GROUND_1", "MAIN_OPS"}
        /\ state.armed
        /\ state.remaining_ms = 0
=============================================================================
