--------------------------- MODULE StartupStore ----------------------------
(***************************************************************************)
(* startup_store.c: the SSP1 record in two FRAM slots.                     *)
(*                                                                         *)
(* A save rewrites only the slot the last load did not choose: invalidate  *)
(* its commit marker and verify, write the 19 payload bytes and verify,    *)
(* write the marker and verify the whole record.  Every FRAM operation may *)
(* report a failure with or without having taken effect, a write may be    *)
(* silently ignored, and a reset may fall between or inside any two of     *)
(* them.  A slot is abstracted to its marker and to a body that is either  *)
(* a complete payload (its CRC and tag hold) or Torn.                      *)
(*                                                                         *)
(* The module assumes what the code assumes of the device: one byte is     *)
(* written whole or not at all, a read that reports success returns the    *)
(* bytes on the media, and no torn payload satisfies the CRC.              *)
(***************************************************************************)
EXTENDS StartupMedia

CONSTANTS
  Requests,      \* what callers ask to save, valid or not
  Factory,       \* the states an image on the device may hold at first
  NoRecord       \* no request

ASSUME StoreAssumption ==
  /\ Requests \subseteq StartupStoreState
  /\ Factory \subseteq StartupStoreState
  /\ NoRecord \notin StartupStoreState

VARIABLES
  slots,     \* the media
  s_active,  \* the slot the last load chose, volatile
  pc,        \* "idle" between calls, otherwise the next device operation
  state,     \* the argument of the last save
  result     \* what the last call returned

vars == <<slots, s_active, pc, state, result>>

Steps == {"invalidate", "verify_invalid", "payload", "verify_payload", "commit", "verify_record"}
Unknown == [known |-> FALSE, slot |-> "A", sequence |-> 0]

TypeOK ==
  /\ slots \in [Slot -> SlotContents]
  /\ s_active \in [known : BOOLEAN, slot : Slot, sequence : 0 .. UINT32_MAX]
  /\ pc \in Steps \cup {"idle"}
  /\ state \in Requests \cup {NoRecord}
  /\ result \in {"NONE", "OK", "INVALID", "IO", "EXHAUSTED"}

(* mutant: the save rewrites the slot it was loaded from *)
target_Active == s_active.slot

target == IF s_active.slot = "A" THEN "B" ELSE "A"

(* mutant: the sequence does not advance *)
store_encode_SameSequence == [sequence |-> s_active.sequence, state |-> state]

store_encode == [sequence |-> s_active.sequence + 1, state |-> state]

----------------------------------------------------------------------------
(***************************************************************************)
(* Any image may be on the device before the first boot: a blank chip, an  *)
(* interrupted provisioning, two records of unrelated sequences.           *)
(***************************************************************************)
Init ==
  /\ slots \in [Slot -> [commit : BOOLEAN,
                         payload : [sequence : 0 .. UINT32_MAX, state : Factory] \cup {Torn}]]
  /\ s_active = Unknown
  /\ pc = "idle"
  /\ state = NoRecord
  /\ result = "NONE"

LoadReturns(active, status) ==
  /\ pc = "idle"
  /\ s_active' = active
  /\ state' = NoRecord
  /\ result' = status
  /\ UNCHANGED <<slots, pc>>

LoadOk ==
  /\ Loadable(slots)
  /\ LET s == selected(slots)
     IN  LoadReturns([known |-> TRUE, slot |-> s, sequence |-> slots[s].payload.sequence], "OK")

LoadInvalid == ~Loadable(slots) /\ LoadReturns(Unknown, "INVALID")

LoadIO == LoadReturns(Unknown, "IO")

(***************************************************************************)
(* The early returns of startup_store_save, in their order: no device      *)
(* operation follows.                                                      *)
(***************************************************************************)
SaveRefused(request) ==
  /\ pc = "idle"
  /\ \/ ~s_active.known /\ result' = "IO"
     \/ /\ s_active.known
        /\ ~startup_store_state_is_valid(request)
        /\ result' = "INVALID"
     \/ /\ s_active.known
        /\ startup_store_state_is_valid(request)
        /\ s_active.sequence = UINT32_MAX
        /\ result' = "EXHAUSTED"
  /\ state' = request
  /\ UNCHANGED <<slots, s_active, pc>>

(* mutant: a sequence that cannot advance is not refused *)
SaveBegin_Wraps(request) ==
  /\ pc = "idle"
  /\ s_active.known
  /\ startup_store_state_is_valid(request)
  /\ state' = request
  /\ pc' = "invalidate"
  /\ result' = "NONE"
  /\ UNCHANGED <<slots, s_active>>

SaveBegin(request) ==
  /\ pc = "idle"
  /\ s_active.known
  /\ startup_store_state_is_valid(request)
  /\ s_active.sequence # UINT32_MAX
  /\ state' = request
  /\ pc' = "invalidate"
  /\ result' = "NONE"
  /\ UNCHANGED <<slots, s_active>>

(***************************************************************************)
(* store_write: the device may keep the old bytes, take the new ones or,   *)
(* for the payload, a part of them.  store_verify: it goes on only when    *)
(* the bytes read back are the bytes meant.                                *)
(***************************************************************************)
GoTo(next) == pc' = next /\ UNCHANGED <<s_active, state, result>>

Invalidate ==
  /\ pc = "invalidate"
  /\ \E commit \in {slots[target].commit, FALSE} :
        slots' = [slots EXCEPT ![target].commit = commit]
  /\ GoTo("verify_invalid")

VerifyInvalid ==
  /\ pc = "verify_invalid"
  /\ ~slots[target].commit
  /\ GoTo("payload")
  /\ UNCHANGED slots

WritePayload ==
  /\ pc = "payload"
  /\ \E payload \in {slots[target].payload, Torn, store_encode} :
        slots' = [slots EXCEPT ![target].payload = payload]
  /\ GoTo("verify_payload")

(* mutant: the payload is committed without reading it back *)
VerifyPayload_Unchecked ==
  /\ pc = "verify_payload"
  /\ GoTo("commit")
  /\ UNCHANGED slots

VerifyPayload ==
  /\ pc = "verify_payload"
  /\ slots[target].payload = store_encode
  /\ GoTo("commit")
  /\ UNCHANGED slots

Commit ==
  /\ pc = "commit"
  /\ \E commit \in {slots[target].commit, TRUE} :
        slots' = [slots EXCEPT ![target].commit = commit]
  /\ GoTo("verify_record")

(* mutant: success is reported without reading the record back *)
VerifyRecord_Unchecked ==
  /\ pc = "verify_record"
  /\ s_active' = [s_active EXCEPT !.slot = target, !.sequence = @ + 1]
  /\ pc' = "idle"
  /\ result' = "OK"
  /\ UNCHANGED <<slots, state>>

VerifyRecord ==
  /\ pc = "verify_record"
  /\ slots[target] = [commit |-> TRUE, payload |-> store_encode]
  /\ s_active' = [s_active EXCEPT !.slot = target, !.sequence = @ + 1]
  /\ pc' = "idle"
  /\ result' = "OK"
  /\ UNCHANGED <<slots, state>>

(***************************************************************************)
(* A write enable, write, write disable, read or comparison failed: the    *)
(* save returns at once, whatever the last write did to the media.         *)
(***************************************************************************)
SaveFails ==
  /\ pc # "idle"
  /\ pc' = "idle"
  /\ result' = "IO"
  /\ UNCHANGED <<slots, s_active, state>>

Reset ==
  /\ s_active' = Unknown
  /\ pc' = "idle"
  /\ state' = NoRecord
  /\ result' = "NONE"
  /\ UNCHANGED slots

Load == LoadOk \/ LoadInvalid \/ LoadIO
Save == \E request \in Requests : SaveRefused(request) \/ SaveBegin(request)
Device ==
  \/ Invalidate \/ VerifyInvalid
  \/ WritePayload \/ VerifyPayload
  \/ Commit \/ VerifyRecord
  \/ SaveFails

Next == Load \/ Save \/ Device \/ Reset

Spec == Init /\ [][Next]_vars

----------------------------------------------------------------------------
(***************************************************************************)
(* The slot a load chose stays a complete committed record with the        *)
(* sequence it was loaded with, through every failed or interrupted save,  *)
(* and the other slot, when it decodes, is a copy, an older record or the  *)
(* one next record ("the previous slot was never written").                *)
(***************************************************************************)
LoadedSlotIntact ==
  s_active.known =>
    /\ store_decode(slots[s_active.slot])
    /\ slots[s_active.slot].payload.sequence = s_active.sequence
    /\ store_decode(slots[target]) =>
         \/ slots[target] = slots[s_active.slot]
         \/ slots[target].payload.sequence < s_active.sequence
         \/ slots[target].payload.sequence = s_active.sequence + 1

(***************************************************************************)
(* "A successful return means the new record is verified on the media":    *)
(* after OK the next boot would load exactly the record saved, or loaded.  *)
(***************************************************************************)
AcknowledgedIsDurable ==
  pc = "idle" /\ result = "OK" =>
    /\ s_active.known
    /\ Loadable(slots)
    /\ slots[selected(slots)] = slots[s_active.slot]
    /\ state # NoRecord => slots[selected(slots)].payload.state = state

(***************************************************************************)
(* A device that would load keeps loading whatever is cut, refused or      *)
(* half done: no save can leave an ambiguous pair or no record at all.     *)
(***************************************************************************)
StaysLoadable == [][Loadable(slots) => Loadable(slots')]_vars

(***************************************************************************)
(* What the next boot would load never goes back in sequence before the    *)
(* loaded record, and an acknowledged save advances it by exactly one.     *)
(***************************************************************************)
durable_sequence(media) == media[selected(media)].payload.sequence

SequenceAdvances ==
  [][pc # "idle" =>
        /\ durable_sequence(slots') \in {s_active.sequence, s_active.sequence + 1}
        /\ result' = "OK" => durable_sequence(slots') = s_active.sequence + 1]_vars

(***************************************************************************)
(* The store implements the all-or-nothing register.                       *)
(***************************************************************************)
durable_state(media) ==
  IF Loadable(media) THEN media[selected(media)].payload.state ELSE NoRecord

committed_state == IF s_active.known THEN slots[s_active.slot].payload.state ELSE NoRecord
pending_state == IF pc = "idle" THEN NoRecord ELSE state

Register ==
  INSTANCE DurableRecord WITH
    Record <- StartupStoreState,
    durable <- durable_state(slots),
    committed <- committed_state,
    pending <- pending_state

ImplementsDurableRecord == Register!Spec
=============================================================================
