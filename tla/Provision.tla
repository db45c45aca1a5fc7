----------------------------- MODULE Provision -----------------------------
(***************************************************************************)
(* startup_fram_provision.c: the ground tool's writer of the 48-byte       *)
(* factory image, run by the separate provisioning firmware.               *)
(*                                                                         *)
(* One run validates the image, then performs eight stages in order.  A    *)
(* writing stage is one checked device write: the device may keep the old  *)
(* bytes, take the new ones or a part of them, and the stage is left only  *)
(* when the bytes read back are the intended ones.  A stage that fails     *)
(* ends the run with its status and the board resets into the same         *)
(* firmware; power may be cut anywhere, and whoever boots next loads       *)
(* whatever the slots hold.  Boot counter and ADCS mask are one prefix.    *)
(***************************************************************************)
EXTENDS StartupMedia, Sequences

CONSTANTS
  Images,    \* images given to the tool, acceptable or not
  Devices    \* what the FRAM may hold before the first run

Prefix == [boot_count : 0 .. UINT32_MAX, reserved_bits : BOOLEAN]
Device == [prefix : Prefix \cup {Torn}, slots : [Slot -> SlotContents]]

ASSUME ProvisionAssumption ==
  /\ Torn \notin Prefix
  /\ Images \subseteq [prefix : Prefix, slots : [Slot -> SlotContents]]
  /\ Devices \subseteq Device

VARIABLES
  device,    \* the media
  intended,  \* the private copy of the image of the last accepted run
  former,    \* history: the media when that run began
  stage,     \* the stage the run is in, 0 between runs
  written,   \* the write of this stage was issued and is to be verified
  status     \* the status the last run returned

vars == <<device, intended, former, stage, written, status>>

(* mutants: A is published before it is written; B keeps its old marker *)
Steps_CommitFirst ==
  <<"invalidate_A", "invalidate_B", "commit_A", "prefix_and_A", "payload_B", "reread", "commit_B",
    "verify">>
Steps_LeavesB ==
  <<"invalidate_A", "prefix_and_A", "payload_B", "reread", "commit_A", "commit_B", "verify">>

Steps ==
  <<"invalidate_A", "invalidate_B", "prefix_and_A", "payload_B", "reread", "commit_A", "commit_B",
    "verify">>

Statuses ==
  {"NONE", "OK", "IMAGE_REJECTED", "INVALIDATE_FAILED", "WRITE_FAILED", "COMMIT_FAILED",
   "VERIFY_FAILED"}

TypeOK ==
  /\ device \in Device /\ intended \in Device /\ former \in Device
  /\ stage \in 0 .. Len(Steps)
  /\ written \in BOOLEAN
  /\ status \in Statuses

----------------------------------------------------------------------------
(***************************************************************************)
(* The image rules, which the loader does not share code with.             *)
(***************************************************************************)
startup_fram_state_is_persistent(state) ==
  state \in {"INITIAL_CHECKS", "WAIT_POWER_ON", "WAITING_FOR_UPLINK", "SAT_TO_GROUND_1",
             "MAIN_OPS"}

startup_fram_slot_fields_are_valid(sequence, record) ==
  /\ sequence >= 1
  /\ startup_fram_state_is_persistent(record.resume_state)
  /\ record.attempts_used <= STARTUP_ATTEMPT_LIMIT
  /\ record.resume_state = "INITIAL_CHECKS" =>
       record.attempts_used = 0 /\ record.remaining_ms <= STARTUP_INHIBIT_MS
  /\ record.resume_state = "WAITING_FOR_UPLINK" =>
       /\ record.attempts_used >= 1
       /\ record.remaining_ms <= startup_store_retry_ms(record.attempts_used)
  /\ record.resume_state \notin {"INITIAL_CHECKS", "WAITING_FOR_UPLINK"} => record.remaining_ms = 0
  /\ record.resume_state # "INITIAL_CHECKS" => record.armed

startup_fram_slot_is_valid(slot) ==
  /\ slot.commit
  /\ slot.payload # Torn
  /\ startup_fram_slot_fields_are_valid(slot.payload.sequence, slot.payload.state)

(* mutant: two different records may claim one sequence *)
startup_fram_image_is_valid_AnyPair(image) ==
  /\ image.prefix.boot_count < UINT32_MAX
  /\ ~image.prefix.reserved_bits
  /\ \A s \in Slot : startup_fram_slot_is_valid(image.slots[s])

startup_fram_image_is_valid(image) ==
  /\ image.prefix.boot_count < UINT32_MAX
  /\ ~image.prefix.reserved_bits
  /\ \A s \in Slot : startup_fram_slot_is_valid(image.slots[s])
  /\ image.slots["A"].payload.sequence = image.slots["B"].payload.sequence =>
       image.slots["A"] = image.slots["B"]

----------------------------------------------------------------------------
(***************************************************************************)
(* startup_fram_write_verified and startup_fram_matches, stage by stage.   *)
(***************************************************************************)
SlotOf(step) == IF step \in {"invalidate_A", "prefix_and_A", "commit_A"} THEN "A" ELSE "B"

MarkerLeft(s, marker) ==
  {[device EXCEPT !.slots[s].commit = commit] : commit \in {device.slots[s].commit, marker}}

PayloadLeft(s) ==
  {[device EXCEPT !.slots[s].payload = payload] :
     payload \in {device.slots[s].payload, Torn, intended.slots[s].payload}}

(* what a write may leave on the media *)
Left(step) ==
  CASE step \in {"invalidate_A", "invalidate_B"} -> MarkerLeft(SlotOf(step), FALSE)
    [] step \in {"commit_A", "commit_B"} -> MarkerLeft(SlotOf(step), TRUE)
    [] step = "payload_B" -> PayloadLeft("B")
    [] step = "prefix_and_A" ->
         {[d EXCEPT !.prefix = prefix] :
            d \in PayloadLeft("A"), prefix \in {device.prefix, Torn, intended.prefix}}

PayloadMatches(s) == device.slots[s].payload = intended.slots[s].payload

startup_fram_matches(step) ==
  CASE step \in {"invalidate_A", "invalidate_B"} -> ~device.slots[SlotOf(step)].commit
    [] step \in {"commit_A", "commit_B"} -> device.slots[SlotOf(step)].commit
    [] step = "payload_B" -> PayloadMatches("B")
    [] step = "prefix_and_A" -> device.prefix = intended.prefix /\ PayloadMatches("A")
    [] step = "reread" ->
         device.prefix = intended.prefix /\ PayloadMatches("A") /\ PayloadMatches("B")
    [] step = "verify" -> device = intended

failure(step) ==
  CASE step \in {"invalidate_A", "invalidate_B"} -> "INVALIDATE_FAILED"
    [] step \in {"prefix_and_A", "payload_B"} -> "WRITE_FAILED"
    [] step \in {"commit_A", "commit_B"} -> "COMMIT_FAILED"
    [] step \in {"reread", "verify"} -> "VERIFY_FAILED"

Reads == {"reread", "verify"}

----------------------------------------------------------------------------
Init ==
  /\ device \in Devices
  /\ intended = device /\ former = device
  /\ stage = 0 /\ written = FALSE
  /\ status = "NONE"

Reject(image) ==
  /\ stage = 0
  /\ ~startup_fram_image_is_valid(image)
  /\ status' = "IMAGE_REJECTED"
  /\ UNCHANGED <<device, intended, former, stage, written>>

Accept(image) ==
  /\ stage = 0
  /\ startup_fram_image_is_valid(image)
  /\ intended' = image /\ former' = device
  /\ stage' = 1 /\ written' = FALSE
  /\ status' = "NONE"
  /\ UNCHANGED device

Write ==
  /\ stage > 0 /\ ~written
  /\ Steps[stage] \notin Reads
  /\ device' \in Left(Steps[stage])
  /\ written' = TRUE
  /\ UNCHANGED <<intended, former, stage, status>>

(* mutant: the run does not end with its last stage *)
after_Runaway == stage + 1

after == IF stage < Len(Steps) THEN stage + 1 ELSE 0

Verify ==
  /\ stage > 0
  /\ written \/ Steps[stage] \in Reads
  /\ startup_fram_matches(Steps[stage])
  /\ stage' = after
  /\ written' = FALSE
  /\ status' = IF stage' = 0 THEN "OK" ELSE status
  /\ UNCHANGED <<device, intended, former>>

(* a device call reported a failure, or the bytes read back differ *)
StageFails ==
  /\ stage > 0
  /\ stage' = 0 /\ written' = FALSE
  /\ status' = failure(Steps[stage])
  /\ UNCHANGED <<device, intended, former>>

Cut ==
  /\ stage' = 0 /\ written' = FALSE
  /\ status' = "NONE"
  /\ UNCHANGED <<device, intended, former>>

Next ==
  \/ \E image \in Images : Reject(image) \/ Accept(image)
  \/ Write \/ Verify \/ StageFails
  \/ Cut

Spec == Init /\ [][Next]_vars

----------------------------------------------------------------------------
(* "Every committed slot is either the previous complete record or the     *)
(* complete new one" (README of the tool), at every byte and every cut.    *)
CommittedSlotsComplete ==
  \A s \in Slot : device.slots[s].commit =>
    device.slots[s] \in {former.slots[s], intended.slots[s]}

(* No load ever chooses between an old record and a new one: once a new    *)
(* slot is published, no slot of the former image is committed.            *)
OneGeneration ==
  (\E s \in Slot : device.slots[s].commit /\ device.slots[s] # former.slots[s]) =>
    \A s \in Slot : device.slots[s].commit => device.slots[s] = intended.slots[s]

(* A run that reports success leaves a device the normal firmware loads:   *)
(* the counter can be incremented and the newer record of the image, read  *)
(* with the loader's own rules, is the one chosen.                         *)
OkMeansBootable ==
  status = "OK" =>
    /\ device = intended
    /\ device.prefix.boot_count < UINT32_MAX
    /\ Loadable(device.slots)
    /\ \A s \in Slot : device.slots[selected(device.slots)].payload.sequence
                         >= intended.slots[s].payload.sequence
=============================================================================
