--------------------------- MODULE DurableRecord ---------------------------
(***************************************************************************)
(* What the Startup store promises to its caller, without slots, markers   *)
(* or sequences: one register that survives resets and whose update is all *)
(* or nothing.  An update that was not acknowledged may be on the media or *)
(* not; a further attempt of the same boot may put either back.            *)
(***************************************************************************)
CONSTANTS
  Record,    \* the values the register can hold
  NoRecord   \* no usable record; nothing loaded; nothing pending

VARIABLES
  durable,    \* what a boot starting now would load
  committed,  \* what this boot last loaded or saved successfully
  pending     \* the record being saved

vars == <<durable, committed, pending>>

Init ==
  /\ durable \in Record \cup {NoRecord}
  /\ committed = NoRecord
  /\ pending = NoRecord

(***************************************************************************)
(* A load reads what is durable, or fails and leaves nothing loaded.       *)
(***************************************************************************)
Load ==
  /\ pending = NoRecord
  /\ committed' \in {durable, NoRecord}
  /\ UNCHANGED <<durable, pending>>

Begin ==
  /\ committed # NoRecord
  /\ pending = NoRecord
  /\ pending' \in Record
  /\ UNCHANGED <<durable, committed>>

(***************************************************************************)
(* While a save runs the media holds the acknowledged or the new record.   *)
(***************************************************************************)
OldOrNew == {durable, committed, pending} \ {NoRecord}

Land ==
  /\ pending # NoRecord
  /\ durable' \in {committed, pending}
  /\ UNCHANGED <<committed, pending>>

Acknowledge ==
  /\ pending # NoRecord
  /\ durable' = pending
  /\ committed' = pending
  /\ pending' = NoRecord

Abandon ==
  /\ pending # NoRecord
  /\ durable' \in OldOrNew
  /\ pending' = NoRecord
  /\ UNCHANGED committed

Reset ==
  /\ durable' \in IF pending = NoRecord THEN {durable} ELSE OldOrNew
  /\ committed' = NoRecord
  /\ pending' = NoRecord

Next == Load \/ Begin \/ Land \/ Acknowledge \/ Abandon \/ Reset

Spec == Init /\ [][Next]_vars
=============================================================================
