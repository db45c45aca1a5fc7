--------------------------- MODULE StartupMedia ----------------------------
(***************************************************************************)
(* The SSP1 record in its two FRAM slots, and what a load makes of them.   *)
(*                                                                         *)
(* A slot is abstracted to its commit marker and to a body that is either  *)
(* a complete payload (its tag, flags and CRC hold) or Torn: a payload no  *)
(* CRC vouches for.                                                        *)
(***************************************************************************)
EXTENDS StartupRecord

CONSTANTS
  UINT32_MAX,    \* the largest sequence
  Torn           \* a payload no CRC vouches for

Payload == [sequence : 0 .. UINT32_MAX, state : StartupStoreState]

ASSUME MediaAssumption ==
  /\ UINT32_MAX \in Nat \ {0}
  /\ Torn \notin Payload

Slot == {"A", "B"}
SlotContents == [commit : BOOLEAN, payload : Payload \cup {Torn}]

(***************************************************************************)
(* store_decode and the selection of startup_store_load.                   *)
(***************************************************************************)
store_decode(slot) ==
  /\ slot.commit
  /\ slot.payload # Torn
  /\ slot.payload.sequence # 0
  /\ startup_store_state_is_valid(slot.payload.state)

Ambiguous(media) ==
  /\ \A s \in Slot : store_decode(media[s])
  /\ media["A"].payload.sequence = media["B"].payload.sequence
  /\ media["A"] # media["B"]

Loadable(media) == (\E s \in Slot : store_decode(media[s])) /\ ~Ambiguous(media)

(* mutant: the older of two records *)
selected_Oldest(media) ==
  IF /\ store_decode(media["A"])
     /\ store_decode(media["B"]) => media["A"].payload.sequence <= media["B"].payload.sequence
  THEN "A" ELSE "B"

selected(media) ==
  IF /\ store_decode(media["A"])
     /\ store_decode(media["B"]) => media["A"].payload.sequence >= media["B"].payload.sequence
  THEN "A" ELSE "B"
=============================================================================
