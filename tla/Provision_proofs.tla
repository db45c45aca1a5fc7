-------------------------- MODULE Provision_proofs --------------------------
(***************************************************************************)
(* The provisioning tool, for every image, every device and every limit.   *)
(* The inductive invariant says what each stage has verified before the    *)
(* next one begins (StageInv), and that a run only ever has an accepted    *)
(* image in hand.                                                          *)
(***************************************************************************)
EXTENDS Provision, StartupMedia_proofs

(***************************************************************************)
(* The two copies of the record contract agree: the tool accepts exactly   *)
(* the slots the firmware decodes.                                         *)
(***************************************************************************)
THEOREM SlotRulesAgree ==
  ASSUME NEW slot \in SlotContents
  PROVE  startup_fram_slot_is_valid(slot) <=> store_decode(slot)
  <1>1. CASE ~slot.commit \/ slot.payload = Torn
    BY <1>1 DEF startup_fram_slot_is_valid, store_decode
  <1>2. CASE slot.commit /\ slot.payload # Torn
    <2>1. slot.payload \in Payload
      BY <1>2 DEF SlotContents
    <2>2. slot.payload.sequence \in Nat /\ slot.payload.state \in StartupStoreState
      BY <2>1, MediaAssumption DEF Payload
    <2>3. slot.payload.sequence >= 1 <=> slot.payload.sequence # 0
      BY <2>2
    <2>4. ASSUME NEW r \in StartupStoreState
          PROVE  startup_store_state_is_valid(r) <=>
                   startup_fram_slot_fields_are_valid(1, r)
      BY IntervalAssumption, <2>4
         DEF startup_store_state_is_valid, startup_fram_slot_fields_are_valid,
             startup_fram_state_is_persistent, StartupStoreState, MCUState
    <2>5. QED
      BY <1>2, <2>2, <2>3, <2>4
         DEF startup_fram_slot_is_valid, store_decode, startup_fram_slot_fields_are_valid
  <1>3. QED
    BY <1>1, <1>2

(***************************************************************************)
(* An image the tool accepts is one the firmware boots: loadable, and the  *)
(* record chosen is the newer of its two.                                  *)
(***************************************************************************)
THEOREM AcceptedImageBoots ==
  ASSUME NEW image \in Images, startup_fram_image_is_valid(image)
  PROVE  /\ Loadable(image.slots)
         /\ \A s \in Slot : image.slots[selected(image.slots)].payload.sequence
                              >= image.slots[s].payload.sequence
  <1> DEFINE media == image.slots
  <1>1. media \in [Slot -> SlotContents]
    BY ProvisionAssumption
  <1>2. \A s \in Slot : store_decode(media[s])
    BY <1>1, SlotRulesAgree DEF startup_fram_image_is_valid
  <1>3. media["A"].payload.sequence \in Nat /\ media["B"].payload.sequence \in Nat
    BY <1>1, <1>2, DecodedPayload DEF Slot
  <1>4. ~Ambiguous(media)
    BY DEF Ambiguous, startup_fram_image_is_valid
  <1>5. Loadable(media)
    BY <1>2, <1>4 DEF Loadable, Slot
  <1>6. \A s \in Slot : media[selected(media)].payload.sequence >= media[s].payload.sequence
    BY <1>2, <1>3 DEF selected, Slot
  <1>7. QED
    BY <1>5, <1>6

----------------------------------------------------------------------------
(* The stages by number. *)
LEMMA StepTable ==
  /\ Len(Steps) = 8
  /\ Steps[1] = "invalidate_A" /\ Steps[2] = "invalidate_B"
  /\ Steps[3] = "prefix_and_A" /\ Steps[4] = "payload_B" /\ Steps[5] = "reread"
  /\ Steps[6] = "commit_A" /\ Steps[7] = "commit_B" /\ Steps[8] = "verify"
  BY DEF Steps

(* Every image the tool is given, and every first media, is a device. *)
LEMMA IntendedIsDevice == Images \subseteq Device /\ Devices \subseteq Device
  BY ProvisionAssumption DEF Device

(* What a write leaves is a device; it touches one slot. *)
LEMMA LeftType ==
  ASSUME TypeOK, NEW i \in 1 .. 8, Steps[i] \notin Reads, NEW d \in Left(Steps[i])
  PROVE  /\ d \in Device
         /\ i \in {1, 3, 6} => d.slots["B"] = device.slots["B"]
         /\ i \in {2, 4, 7} => d.slots["A"] = device.slots["A"]
         /\ i \in {1, 2, 6, 7} => \A s \in Slot : d.slots[s].payload = device.slots[s].payload
         /\ i \in {3, 4} => \A s \in Slot : d.slots[s].commit = device.slots[s].commit
         /\ i = 1 => d.slots["A"] = device.slots["A"] \/ ~d.slots["A"].commit
         /\ i = 2 => d.slots["B"] = device.slots["B"] \/ ~d.slots["B"].commit
  <1>1. /\ device.prefix \in Prefix \cup {Torn} /\ intended.prefix \in Prefix \cup {Torn}
        /\ device.slots \in [Slot -> SlotContents] /\ intended.slots \in [Slot -> SlotContents]
        /\ device = [prefix |-> device.prefix, slots |-> device.slots]
    BY DEF TypeOK, Device
  <1>2. "A" \in Slot /\ "B" \in Slot /\ \A s \in Slot : s = "A" \/ s = "B"
    BY DEF Slot
  <1>3. ASSUME NEW s \in Slot, NEW c \in BOOLEAN, NEW e,
               e = [device EXCEPT !.slots[s].commit = c]
        PROVE  /\ e \in Device
               /\ \A t \in Slot : t # s => e.slots[t] = device.slots[t]
               /\ \A t \in Slot : e.slots[t].payload = device.slots[t].payload
               /\ e.slots[s] = device.slots[s] \/ (e.slots[s].commit <=> c)
    <2>1. device.slots[s] \in SlotContents
      BY <1>1
    <2>2. /\ e.prefix = device.prefix
          /\ e.slots = [device.slots EXCEPT ![s] = [device.slots[s] EXCEPT !.commit = c]]
          /\ e = [prefix |-> e.prefix, slots |-> e.slots]
      BY <1>1, <1>3
    <2>3. [device.slots[s] EXCEPT !.commit = c] = [commit |-> c, payload |-> device.slots[s].payload]
      BY <2>1 DEF SlotContents
    <2>4. [device.slots[s] EXCEPT !.commit = c] \in SlotContents
      BY <2>1, <2>3 DEF SlotContents
    <2>5. e.slots \in [Slot -> SlotContents]
      BY <1>1, <2>2, <2>4
    <2>6. e.slots[s] = [commit |-> c, payload |-> device.slots[s].payload]
      BY <1>1, <2>2, <2>3
    <2>7. \A t \in Slot : t # s => e.slots[t] = device.slots[t]
      BY <1>1, <2>2
    <2>8. e \in Device
      BY <1>1, <2>2, <2>5 DEF Device
    <2>9. QED
      BY <2>6, <2>7, <2>8
  <1>4. ASSUME NEW s \in Slot, NEW e \in PayloadLeft(s)
        PROVE  /\ e \in Device /\ e.prefix = device.prefix
               /\ \A t \in Slot : t # s => e.slots[t] = device.slots[t]
               /\ \A t \in Slot : e.slots[t].commit = device.slots[t].commit
    <2>1. PICK p \in {device.slots[s].payload, Torn, intended.slots[s].payload} :
            e = [device EXCEPT !.slots[s].payload = p]
      BY <1>4 DEF PayloadLeft
    <2>2. p \in Payload \cup {Torn} /\ device.slots[s] \in SlotContents
      BY <1>1, <2>1 DEF SlotContents
    <2>3. /\ e.prefix = device.prefix
          /\ e.slots = [device.slots EXCEPT ![s] = [device.slots[s] EXCEPT !.payload = p]]
          /\ e = [prefix |-> e.prefix, slots |-> e.slots]
      BY <1>1, <2>1
    <2>4. [device.slots[s] EXCEPT !.payload = p] = [commit |-> device.slots[s].commit, payload |-> p]
      BY <2>2 DEF SlotContents
    <2>5. [device.slots[s] EXCEPT !.payload = p] \in SlotContents
      BY <2>2, <2>4 DEF SlotContents
    <2>6. e.slots \in [Slot -> SlotContents]
      BY <1>1, <2>3, <2>5
    <2>7. e.slots[s] = [commit |-> device.slots[s].commit, payload |-> p]
      BY <1>1, <2>3, <2>4
    <2>8. \A t \in Slot : t # s => e.slots[t] = device.slots[t]
      BY <1>1, <2>3
    <2>9. e \in Device
      BY <1>1, <2>3, <2>6 DEF Device
    <2>10. QED
      BY <2>3, <2>7, <2>8, <2>9
  <1>5a. CASE i = 1
    <2>1. PICK c \in {device.slots["A"].commit, FALSE} :
            d = [device EXCEPT !.slots["A"].commit = c]
      BY <1>5a, StepTable DEF Left, SlotOf, MarkerLeft
    <2>2. c \in BOOLEAN
      BY <1>1, <1>2, <2>1 DEF SlotContents
    <2>3. c = device.slots["A"].commit \/ ~c
      BY <2>1
    <2>4. /\ d \in Device
          /\ \A t \in Slot : t # "A" => d.slots[t] = device.slots[t]
          /\ \A t \in Slot : d.slots[t].payload = device.slots[t].payload
          /\ d.slots["A"] = device.slots["A"] \/ (d.slots["A"].commit <=> c)
      BY <1>2, <1>3, <2>1, <2>2
    <2>5. d.slots["A"] = device.slots["A"] \/ ~d.slots["A"].commit
      <3>1. CASE ~c
        BY <2>4, <3>1
      <3>2. CASE c = device.slots["A"].commit
        <4>1. d.slots["A"] \in SlotContents /\ device.slots["A"] \in SlotContents
          BY <1>1, <1>2, <2>4 DEF Device
        <4>2. d.slots["A"].payload = device.slots["A"].payload
          BY <1>2, <2>4
        <4>3. QED
          BY <2>4, <3>2, <4>1, <4>2 DEF SlotContents
      <3>3. QED
        BY <2>3, <3>1, <3>2
    <2>6. QED
      BY <1>2, <1>5a, <2>4, <2>5
  <1>5b. CASE i = 2
    <2>1. PICK c \in {device.slots["B"].commit, FALSE} :
            d = [device EXCEPT !.slots["B"].commit = c]
      BY <1>5b, StepTable DEF Left, SlotOf, MarkerLeft
    <2>2. c \in BOOLEAN
      BY <1>1, <1>2, <2>1 DEF SlotContents
    <2>3. c = device.slots["B"].commit \/ ~c
      BY <2>1
    <2>4. /\ d \in Device
          /\ \A t \in Slot : t # "B" => d.slots[t] = device.slots[t]
          /\ \A t \in Slot : d.slots[t].payload = device.slots[t].payload
          /\ d.slots["B"] = device.slots["B"] \/ (d.slots["B"].commit <=> c)
      BY <1>2, <1>3, <2>1, <2>2
    <2>5. d.slots["B"] = device.slots["B"] \/ ~d.slots["B"].commit
      <3>1. CASE ~c
        BY <2>4, <3>1
      <3>2. CASE c = device.slots["B"].commit
        <4>1. d.slots["B"] \in SlotContents /\ device.slots["B"] \in SlotContents
          BY <1>1, <1>2, <2>4 DEF Device
        <4>2. d.slots["B"].payload = device.slots["B"].payload
          BY <1>2, <2>4
        <4>3. QED
          BY <2>4, <3>2, <4>1, <4>2 DEF SlotContents
      <3>3. QED
        BY <2>3, <3>1, <3>2
    <2>6. QED
      BY <1>2, <1>5b, <2>4, <2>5
  <1>5c. CASE i = 6
    <2>1. PICK c \in {device.slots["A"].commit, TRUE} :
            d = [device EXCEPT !.slots["A"].commit = c]
      BY <1>5c, StepTable DEF Left, SlotOf, MarkerLeft
    <2>2. c \in BOOLEAN
      BY <1>1, <1>2, <2>1 DEF SlotContents
    <2>3. QED
      BY <1>1, <1>2, <1>3, <1>5c, <2>1, <2>2
  <1>5d. CASE i = 7
    <2>1. PICK c \in {device.slots["B"].commit, TRUE} :
            d = [device EXCEPT !.slots["B"].commit = c]
      BY <1>5d, StepTable DEF Left, SlotOf, MarkerLeft
    <2>2. c \in BOOLEAN
      BY <1>1, <1>2, <2>1 DEF SlotContents
    <2>3. QED
      BY <1>1, <1>2, <1>3, <1>5d, <2>1, <2>2
  <1>7. CASE i = 4
    <2>1. d \in PayloadLeft("B")
      BY <1>7, StepTable DEF Left
    <2>2. QED
      BY <1>2, <1>4, <1>7, <2>1
  <1>8. CASE i = 3
    <2>1. PICK e \in PayloadLeft("A"), prefix \in {device.prefix, Torn, intended.prefix} :
            d = [e EXCEPT !.prefix = prefix]
      BY <1>8, StepTable DEF Left
    <2>2. /\ e \in Device /\ e.slots["B"] = device.slots["B"]
          /\ \A s \in Slot : e.slots[s].commit = device.slots[s].commit
      BY <1>2, <1>4, <2>1
    <2>3. prefix \in Prefix \cup {Torn}
      BY <1>1, <2>1
    <2>4. d = [prefix |-> prefix, slots |-> e.slots]
      BY <2>1, <2>2 DEF Device
    <2>5. d \in Device /\ d.slots = e.slots
      BY <2>2, <2>3, <2>4 DEF Device
    <2>6. QED
      BY <1>8, <2>2, <2>5
  <1>9. QED
    BY <1>5a, <1>5b, <1>5c, <1>5d, <1>7, <1>8, StepTable DEF Reads

----------------------------------------------------------------------------
(***************************************************************************)
(* The inductive invariant.  Old and New are the only two things a cut may *)
(* leave behind: committed slots of the former image, or of the new one.   *)
(* The stages pass from the first to the second through a device with no   *)
(* committed slot at all, and publish only what was read back.             *)
(***************************************************************************)
Old == \A s \in Slot : device.slots[s].commit => device.slots[s] = former.slots[s]
New == \A s \in Slot : device.slots[s].commit => device.slots[s] = intended.slots[s]

StageInv ==
  /\ Old \/ New
  /\ stage \in {1, 2} => Old
  /\ stage = 2 => ~device.slots["A"].commit
  /\ stage \in 3 .. 5 => \A s \in Slot : ~device.slots[s].commit
  /\ stage \in 6 .. 8 => PayloadMatches("A") /\ PayloadMatches("B")

RunInv ==
  /\ stage > 0 => /\ status = "NONE"
                  /\ intended \in Images /\ startup_fram_image_is_valid(intended)
  /\ status = "OK" => /\ device = intended
                      /\ intended \in Images /\ startup_fram_image_is_valid(intended)

ProvInv == TypeOK /\ RunInv /\ StageInv

(* A device of one generation satisfies both media properties. *)
LEMMA GenerationsAreKept == StageInv => CommittedSlotsComplete /\ OneGeneration
  BY DEF StageInv, Old, New, CommittedSlotsComplete, OneGeneration

(* With no committed slot, there is nothing but the former image to load. *)
LEMMA GoneIsOld == (\A s \in Slot : ~device.slots[s].commit) => Old
  BY DEF Old

(* Bodies that match an accepted image can only be published as that image. *)
LEMMA MatchedIsNew ==
  ASSUME TypeOK, startup_fram_image_is_valid(intended), PayloadMatches("A"), PayloadMatches("B")
  PROVE  New
  <1>1. SUFFICES ASSUME NEW s \in Slot, device.slots[s].commit
                 PROVE  device.slots[s] = intended.slots[s]
    BY DEF New
  <1>2. intended.slots[s].commit /\ device.slots[s].payload = intended.slots[s].payload
    BY <1>1 DEF Slot, PayloadMatches, startup_fram_image_is_valid, startup_fram_slot_is_valid
  <1>3. device.slots[s] \in SlotContents /\ intended.slots[s] \in SlotContents
    BY DEF TypeOK, Device
  <1>4. QED
    BY <1>1, <1>2, <1>3 DEF SlotContents

(* The invariant holds of every first media. *)
LEMMA ProvInit == Init => ProvInv
  <1> SUFFICES ASSUME Init PROVE ProvInv
    OBVIOUS
  <1>0. written \in BOOLEAN
    BY DEF Init
  <1>1. TypeOK
    BY <1>0, StepTable, IntendedIsDevice DEF Init, TypeOK, Statuses
  <1>2. RunInv /\ StageInv
    BY DEF Init, RunInv, StageInv, Old
  <1>3. QED
    BY <1>1, <1>2 DEF ProvInv

(* Every action of the tool, and every cut, keeps the invariant. *)
LEMMA ProvNext == ProvInv /\ [Next]_vars => ProvInv'
  <1> SUFFICES ASSUME ProvInv, [Next]_vars PROVE ProvInv'
    OBVIOUS
  <1> USE DEF ProvInv
  <1>0. stage \in 0 .. 8
    BY StepTable DEF TypeOK
  <1>1. ASSUME NEW image \in Images, Reject(image) PROVE ProvInv'
    BY <1>1 DEF Reject, TypeOK, Statuses, RunInv, StageInv, Old, New, PayloadMatches
  <1>2. ASSUME NEW image \in Images, Accept(image) PROVE ProvInv'
    <2>0. written' \in BOOLEAN
      BY <1>2 DEF Accept
    <2>1. TypeOK'
      BY <1>2, <2>0, StepTable, IntendedIsDevice DEF Accept, TypeOK, Statuses
    <2>2. RunInv'
      BY <1>2 DEF Accept, RunInv
    <2>3. StageInv'
      BY <1>2 DEF Accept, StageInv, Old
    <2>4. QED
      BY <2>1, <2>2, <2>3
  <1>3. CASE Write
    <2>1. /\ stage \in 1 .. 8 /\ Steps[stage] \notin Reads
          /\ device' \in Left(Steps[stage])
          /\ UNCHANGED <<intended, former, stage, status>>
      BY <1>0, <1>3 DEF Write
    <2>2. TypeOK'
      BY <1>3, <2>1, LeftType DEF Write, TypeOK
    <2>3. RunInv'
      BY <2>1 DEF RunInv
    <2>4. stage \in {1, 2, 3, 4, 6, 7}
      BY <2>1, StepTable DEF Reads
    <2>5. CASE stage \in {1, 2}
      <3>1. Old /\ (stage = 2 => ~device.slots["A"].commit)
        BY <2>5 DEF StageInv
      <3>2. /\ stage = 1 => /\ device'.slots["B"] = device.slots["B"]
                            /\ device'.slots["A"] = device.slots["A"] \/ ~device'.slots["A"].commit
            /\ stage = 2 => /\ device'.slots["A"] = device.slots["A"]
                            /\ device'.slots["B"] = device.slots["B"] \/ ~device'.slots["B"].commit
        BY <2>1, LeftType
      <3>3. Old'
        BY <2>1, <2>5, <3>1, <3>2 DEF Old, Slot
      <3>4. QED
        BY <2>1, <2>2, <2>3, <2>5, <3>1, <3>2, <3>3 DEF StageInv
    <2>6. CASE stage \in {3, 4}
      <3>1. \A s \in Slot : ~device.slots[s].commit
        BY <2>6 DEF StageInv
      <3>2. \A s \in Slot : device'.slots[s].commit = device.slots[s].commit
        BY <2>1, <2>6, LeftType
      <3>3. \A s \in Slot : ~device'.slots[s].commit
        BY <3>1, <3>2
      <3>4. Old'
        BY <3>3 DEF Old
      <3>5. QED
        BY <2>1, <2>2, <2>3, <2>6, <3>3, <3>4 DEF StageInv
    <2>7. CASE stage \in {6, 7}
      <3>1. \A s \in Slot : device'.slots[s].payload = device.slots[s].payload
        BY <2>1, <2>7, LeftType
      <3>2. PayloadMatches("A")' /\ PayloadMatches("B")'
        BY <2>1, <2>7, <3>1 DEF StageInv, PayloadMatches, Slot
      <3>3. startup_fram_image_is_valid(intended)'
        BY <2>1, <2>7 DEF RunInv
      <3>4. New'
        BY <2>2, <3>2, <3>3, MatchedIsNew, PTL
      <3>5. QED
        BY <2>1, <2>2, <2>3, <2>7, <3>2, <3>4 DEF StageInv
    <2>8. QED
      BY <2>4, <2>5, <2>6, <2>7
  <1>4. CASE Verify
    <2>1. /\ stage \in 1 .. 8 /\ startup_fram_matches(Steps[stage])
          /\ stage' = after
          /\ UNCHANGED <<device, intended, former>>
      BY <1>0, <1>4 DEF Verify
    <2>2. stage' = IF stage < 8 THEN stage + 1 ELSE 0
      BY <2>1, StepTable DEF after
    <2>0. written' \in BOOLEAN
      BY <1>4 DEF Verify
    <2>3. TypeOK'
      BY <1>4, <2>0, <2>1, <2>2, StepTable DEF Verify, TypeOK, Statuses
    <2>4. status' = IF stage' = 0 THEN "OK" ELSE status
      BY <1>4 DEF Verify
    <2>5. intended \in Images /\ startup_fram_image_is_valid(intended) /\ status = "NONE"
      BY <2>1 DEF RunInv
    <2>6. stage = 8 => device = intended
      BY <2>1, StepTable DEF startup_fram_matches
    <2>7. RunInv'
      BY <2>1, <2>2, <2>4, <2>5, <2>6 DEF RunInv, startup_fram_image_is_valid
    <2>8. (Old \/ New)'
      BY <2>1 DEF StageInv, Old, New
    <2>9. stage = 1 => ~device.slots["A"].commit
      BY <2>1, StepTable DEF startup_fram_matches, SlotOf
    <2>10. stage = 2 => ~device.slots["B"].commit
      BY <2>1, StepTable DEF startup_fram_matches, SlotOf
    <2>11. stage = 5 => PayloadMatches("A") /\ PayloadMatches("B")
      BY <2>1, StepTable DEF startup_fram_matches
    <2>12. stage' \in {1, 2} => Old'
      BY <2>1, <2>2 DEF StageInv, Old
    <2>13. stage' \in 3 .. 5 => \A s \in Slot : ~device'.slots[s].commit
      BY <2>1, <2>2, <2>10 DEF StageInv, Slot
    <2>14. stage' \in 6 .. 8 => PayloadMatches("A")' /\ PayloadMatches("B")'
      BY <2>1, <2>2, <2>11 DEF StageInv, PayloadMatches
    <2>15. StageInv'
      BY <2>1, <2>2, <2>8, <2>9, <2>12, <2>13, <2>14 DEF StageInv
    <2>16. QED
      BY <2>3, <2>7, <2>15
  <1>5. CASE StageFails
    <2>1. failure(Steps[stage]) \in Statuses \ {"OK"}
      BY <1>0, <1>5, StepTable DEF StageFails, failure, Statuses
    <2>2. written' \in BOOLEAN
      BY <1>5 DEF StageFails
    <2>3. TypeOK'
      BY <1>5, <2>1, <2>2, StepTable DEF StageFails, TypeOK
    <2>4. QED
      BY <1>5, <2>1, <2>3 DEF StageFails, RunInv, StageInv, Old, New
  <1>6. CASE Cut
    <2>1. written' \in BOOLEAN
      BY <1>6 DEF Cut
    <2>2. TypeOK'
      BY <1>6, <2>1, StepTable DEF Cut, TypeOK, Statuses
    <2>3. QED
      BY <1>6, <2>2 DEF Cut, RunInv, StageInv, Old, New
  <1>7. CASE UNCHANGED vars
    BY <1>7 DEF vars, TypeOK, RunInv, StageInv, Old, New, PayloadMatches
  <1>8. QED
    BY <1>1, <1>2, <1>3, <1>4, <1>5, <1>6, <1>7 DEF Next

(***************************************************************************)
(* The stages keep their invariant, for every image and every first media. *)
(***************************************************************************)
THEOREM StagedInvariance == Spec => []ProvInv
  BY ProvInit, ProvNext, PTL DEF Spec

(* Every state of the tool and of the media it writes is typed. *)
THEOREM ProvisionTypeCorrect == Spec => []TypeOK
  <1>1. ProvInv => TypeOK
    BY DEF ProvInv
  <1>2. QED
    BY <1>1, StagedInvariance, PTL

(***************************************************************************)
(* Wherever startup_fram_provision is cut, each committed slot is the      *)
(* former record or the new one, complete.                                 *)
(***************************************************************************)
THEOREM NoHalfRecord == Spec => []CommittedSlotsComplete
  <1>1. ProvInv => CommittedSlotsComplete
    BY GenerationsAreKept DEF ProvInv
  <1>2. QED
    BY <1>1, StagedInvariance, PTL

(***************************************************************************)
(* Wherever it is cut, committed slots of the former and of the new image  *)
(* are never mixed: the loader compares sequences of one image only.       *)
(***************************************************************************)
THEOREM NoMixedGenerations == Spec => []OneGeneration
  <1>1. ProvInv => OneGeneration
    BY GenerationsAreKept DEF ProvInv
  <1>2. QED
    BY <1>1, StagedInvariance, PTL

(***************************************************************************)
(* STARTUP_FRAM_STATUS_OK means a device the normal firmware boots.        *)
(***************************************************************************)
THEOREM ReportedSuccessBoots == Spec => []OkMeansBootable
  <1>1. ProvInv => OkMeansBootable
    <2>1. SUFFICES ASSUME ProvInv, status = "OK"
                   PROVE  /\ device = intended
                          /\ device.prefix.boot_count < UINT32_MAX
                          /\ Loadable(device.slots)
                          /\ \A s \in Slot : device.slots[selected(device.slots)].payload.sequence
                                               >= intended.slots[s].payload.sequence
      BY DEF OkMeansBootable
    <2>2. device = intended /\ intended \in Images /\ startup_fram_image_is_valid(intended)
      BY <2>1 DEF ProvInv, RunInv
    <2>3. intended.prefix.boot_count < UINT32_MAX
      BY <2>2 DEF startup_fram_image_is_valid
    <2>4. QED
      BY <2>2, <2>3, AcceptedImageBoots
  <1>2. QED
    BY <1>1, StagedInvariance, PTL
=============================================================================
