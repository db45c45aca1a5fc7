---------------------------- MODULE MCProvision ----------------------------
(***************************************************************************)
(* A small instance of Provision: images with equal, ascending and         *)
(* descending sequences, an ambiguous one, one with a transient state and  *)
(* one with a saturated counter, over a blank device, a device in use, one *)
(* with a committed body no CRC vouches for, and one left half provisioned.*)
(***************************************************************************)
EXTENDS Provision

Fresh(authorized) ==
  [resume_state |-> "INITIAL_CHECKS", attempts_used |-> 0, armed |-> authorized,
   remaining_ms |-> STARTUP_INHIBIT_MS]
Waiting(attempts) ==
  [resume_state |-> "WAITING_FOR_UPLINK", attempts_used |-> attempts, armed |-> TRUE,
   remaining_ms |-> startup_store_retry_ms(attempts)]
Transient ==
  [resume_state |-> "GROUND_TO_SAT_1", attempts_used |-> 1, armed |-> TRUE, remaining_ms |-> 0]

Body(sequence, record) == [sequence |-> sequence, state |-> record]
Holds(commit, payload) == [commit |-> commit, payload |-> payload]
Pair(a, b) == [s \in Slot |-> IF s = "A" THEN Holds(TRUE, a) ELSE Holds(TRUE, b)]
Counter(n) == [boot_count |-> n, reserved_bits |-> FALSE]

MCImages ==
  {[prefix |-> Counter(0), slots |-> slots] :
     slots \in {Pair(Body(1, Fresh(FALSE)), Body(1, Fresh(FALSE))),
                Pair(Body(2, Waiting(1)), Body(1, Fresh(TRUE))),
                Pair(Body(1, Fresh(TRUE)), Body(UINT32_MAX, Waiting(2))),
                Pair(Body(1, Fresh(TRUE)), Body(1, Fresh(FALSE))),
                Pair(Body(2, Transient), Body(1, Fresh(TRUE)))}}
  \cup {[prefix |-> Counter(UINT32_MAX),
         slots |-> Pair(Body(1, Fresh(TRUE)), Body(1, Fresh(TRUE)))]}

MCDevices ==
  {[prefix |-> Torn, slots |-> [s \in Slot |-> Holds(FALSE, Torn)]],
   [prefix |-> Counter(1), slots |-> Pair(Body(2, Waiting(1)), Body(1, Fresh(TRUE)))],
   [prefix |-> Counter(1), slots |-> [s \in Slot |-> Holds(TRUE, Torn)]],
   [prefix |-> Counter(0),
    slots |-> [s \in Slot |-> Holds(s = "A", Body(1, Fresh(TRUE)))]]}
=============================================================================
