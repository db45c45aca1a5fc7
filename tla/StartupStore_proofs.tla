------------------------ MODULE StartupStore_proofs ------------------------
(***************************************************************************)
(* The store's safety, for every sequence limit, every request and every   *)
(* image on the device.  The inductive invariant adds to the stated ones   *)
(* what each step of a save has verified before the next one (SaveInv).    *)
(***************************************************************************)
EXTENDS StartupStore, StartupMedia_proofs

(* A save writes to the slot the load did not choose. *)
LEMMA TargetIsOther ==
  ASSUME TypeOK
  PROVE  /\ target \in Slot
         /\ target # s_active.slot
         /\ s_active.slot \in Slot
         /\ \A s \in Slot : s = target \/ s = s_active.slot
  BY DEF TypeOK, target, Slot

(***************************************************************************)
(* What holds at each place of a save: the store is loaded, the request is *)
(* valid and has a sequence, and the earlier steps were verified.          *)
(***************************************************************************)
SaveInv ==
  pc # "idle" =>
    /\ s_active.known
    /\ s_active.sequence # UINT32_MAX
    /\ state # NoRecord
    /\ startup_store_state_is_valid(state)
    /\ result = "NONE"
    /\ pc \in {"payload", "verify_payload", "commit"} => ~slots[target].commit
    /\ pc \in {"commit", "verify_record"} => slots[target].payload = store_encode

IInv == TypeOK /\ SaveInv /\ LoadedSlotIntact /\ AcknowledgedIsDurable

(* The payload a save encodes is typed. *)
LEMMA EncodeType ==
  ASSUME TypeOK, s_active.sequence # UINT32_MAX, state # NoRecord
  PROVE  /\ store_encode \in Payload
         /\ store_encode.sequence = s_active.sequence + 1
         /\ store_encode.state = state
         /\ state \in StartupStoreState
  BY StoreAssumption, MediaAssumption DEF TypeOK, store_encode, Payload

(* Rewriting a marker leaves typed media. *)
LEMMA CommitType ==
  ASSUME TypeOK, NEW b \in BOOLEAN, slots' = [slots EXCEPT ![target].commit = b]
  PROVE  /\ slots' \in [Slot -> SlotContents]
         /\ slots'[target] = [commit |-> b, payload |-> slots[target].payload]
         /\ slots'[s_active.slot] = slots[s_active.slot]
  BY TargetIsOther DEF TypeOK, SlotContents

(* Rewriting a body leaves typed media. *)
LEMMA PayloadType ==
  ASSUME TypeOK, NEW p \in Payload \cup {Torn}, slots' = [slots EXCEPT ![target].payload = p]
  PROVE  /\ slots' \in [Slot -> SlotContents]
         /\ slots'[target] = [commit |-> slots[target].commit, payload |-> p]
         /\ slots'[s_active.slot] = slots[s_active.slot]
  BY TargetIsOther DEF TypeOK, SlotContents

(* The initial states are typed. *)
LEMMA InitTypeOK == Init => TypeOK
  <1> SUFFICES ASSUME Init PROVE TypeOK
    OBVIOUS
  <1>1. slots \in [Slot -> SlotContents]
    BY StoreAssumption, MediaAssumption DEF Init, SlotContents, Payload
  <1>2. s_active \in [known : BOOLEAN, slot : Slot, sequence : 0 .. UINT32_MAX]
    BY MediaAssumption DEF Init, Unknown, Slot
  <1>3. QED
    BY <1>1, <1>2 DEF Init, TypeOK

(* Every step of the store keeps its types. *)
LEMMA NextTypeOK ==
  ASSUME TypeOK, SaveInv, [Next]_vars
  PROVE  TypeOK'
  <1> USE DEF TypeOK
  <1>1. CASE LoadOk
    <2>1. selected(slots) \in Slot
      BY DEF selected, Slot
    <2>2. slots[selected(slots)] \in SlotContents
      BY <2>1
    <2>3. store_decode(slots[selected(slots)])
      BY <1>1 DEF LoadOk, Loadable, selected, Slot
    <2>4. slots[selected(slots)].payload \in Payload
      BY <2>2, <2>3 DEF SlotContents, store_decode
    <2>5. slots[selected(slots)].payload.sequence \in 0 .. UINT32_MAX
      BY <2>4 DEF Payload
    <2>6. /\ s_active' = [known |-> TRUE, slot |-> selected(slots),
                          sequence |-> slots[selected(slots)].payload.sequence]
          /\ state' = NoRecord /\ result' = "OK" /\ slots' = slots /\ pc' = pc
      BY <1>1 DEF LoadOk, LoadReturns
    <2>7. QED
      BY <2>1, <2>5, <2>6
  <1>2. CASE LoadInvalid \/ LoadIO
    <2>1. s_active' = Unknown /\ slots' = slots /\ pc' = pc
      BY <1>2 DEF LoadInvalid, LoadIO, LoadReturns
    <2>2. state' = NoRecord /\ result' \in {"INVALID", "IO"}
      BY <1>2 DEF LoadInvalid, LoadIO, LoadReturns
    <2>3. Unknown \in [known : BOOLEAN, slot : Slot, sequence : 0 .. UINT32_MAX]
      BY MediaAssumption DEF Unknown, Slot
    <2>4. s_active' \in [known : BOOLEAN, slot : Slot, sequence : 0 .. UINT32_MAX]
      BY <2>1, <2>3
    <2>5. result' \in {"NONE", "OK", "INVALID", "IO", "EXHAUSTED"}
      BY <2>2
    <2>6. slots' \in [Slot -> SlotContents] /\ pc' \in Steps \cup {"idle"}
      BY <2>1
    <2>7. QED
      BY <2>2, <2>4, <2>5, <2>6
  <1>3. CASE Save
    BY <1>3 DEF Save, SaveRefused, SaveBegin, Steps
  <1>4. CASE Invalidate \/ Commit
    <2>1. PICK b \in BOOLEAN : slots' = [slots EXCEPT ![target].commit = b]
      BY <1>4, TargetIsOther DEF Invalidate, Commit, SlotContents
    <2>2. slots' \in [Slot -> SlotContents]
      BY <2>1, CommitType
    <2>3. QED
      BY <1>4, <2>2 DEF Invalidate, Commit, GoTo, Steps
  <1>5. CASE WritePayload
    <2>1. PICK p \in Payload \cup {Torn} : slots' = [slots EXCEPT ![target].payload = p]
      BY <1>5, TargetIsOther, EncodeType DEF WritePayload, SlotContents, SaveInv
    <2>2. slots' \in [Slot -> SlotContents]
      BY <2>1, PayloadType
    <2>3. QED
      BY <1>5, <2>2 DEF WritePayload, GoTo, Steps
  <1>6. CASE VerifyInvalid \/ VerifyPayload
    BY <1>6 DEF VerifyInvalid, VerifyPayload, GoTo, Steps
  <1>7. CASE VerifyRecord
    <2>1. s_active.sequence + 1 \in 0 .. UINT32_MAX
      BY <1>7, EncodeType DEF VerifyRecord, SaveInv, Payload
    <2>2. QED
      BY <1>7, <2>1, TargetIsOther DEF VerifyRecord
  <1>8. CASE SaveFails
    BY <1>8 DEF SaveFails
  <1>9. CASE Reset
    BY <1>9, MediaAssumption DEF Reset, Unknown, Slot
  <1>10. CASE UNCHANGED vars
    BY <1>10 DEF vars
  <1>11. QED
    BY <1>1, <1>2, <1>3, <1>4, <1>5, <1>6, <1>7, <1>8, <1>9, <1>10
       DEF Next, Load, Device

----------------------------------------------------------------------------
(* The same, for a loaded store. *)
LEMMA LoadedSelection ==
  ASSUME TypeOK, LoadedSlotIntact, s_active.known
  PROVE  /\ Loadable(slots)
         /\ slots[selected(slots)] =
              IF store_decode(slots[target])
                 /\ slots[target].payload.sequence > s_active.sequence
              THEN slots[target] ELSE slots[s_active.slot]
  <1>1. s_active.sequence \in Nat
    BY MediaAssumption DEF TypeOK
  <1>2. slots \in [Slot -> SlotContents]
    BY DEF TypeOK
  <1>3. store_decode(slots[target]) =>
          \/ slots[target] = slots[s_active.slot]
          \/ slots[target].payload.sequence # slots[s_active.slot].payload.sequence
    BY <1>1 DEF LoadedSlotIntact
  <1>4. QED
    BY <1>2, <1>3, TargetIsOther, Selection DEF LoadedSlotIntact

----------------------------------------------------------------------------
(***************************************************************************)
(* The invariant is inductive.                                             *)
(***************************************************************************)
LEMMA InitIInv == Init => IInv
  <1> SUFFICES ASSUME Init PROVE IInv
    OBVIOUS
  <1>1. TypeOK
    BY InitTypeOK
  <1>2. SaveInv /\ LoadedSlotIntact /\ AcknowledgedIsDurable
    BY DEF Init, Unknown, SaveInv, LoadedSlotIntact, AcknowledgedIsDurable
  <1>3. QED
    BY <1>1, <1>2 DEF IInv

(* Both slots at a write of the save: the target changes, the loaded slot does not. *)
LEMMA SaveInvStep ==
  ASSUME TypeOK, SaveInv, [Next]_vars
  PROVE  SaveInv'
  <1>1. CASE Load
    BY <1>1 DEF Load, LoadOk, LoadInvalid, LoadIO, LoadReturns, SaveInv
  <1>2. CASE Save
    <2>1. PICK request \in Requests : SaveRefused(request) \/ SaveBegin(request)
      BY <1>2 DEF Save
    <2>2. CASE SaveRefused(request)
      BY <2>2 DEF SaveRefused, SaveInv
    <2>3. CASE SaveBegin(request)
      BY <2>3, StoreAssumption DEF SaveBegin, SaveInv
    <2>4. QED
      BY <2>1, <2>2, <2>3
  <1>3. CASE Invalidate
    BY <1>3 DEF Invalidate, GoTo, SaveInv
  <1>4. CASE VerifyInvalid
    BY <1>4 DEF VerifyInvalid, GoTo, SaveInv, target
  <1>5. CASE WritePayload
    <2>1. PICK p \in Payload \cup {Torn} : slots' = [slots EXCEPT ![target].payload = p]
      BY <1>5, TargetIsOther, EncodeType DEF WritePayload, SlotContents, SaveInv, TypeOK
    <2>2. slots'[target].commit = slots[target].commit
      BY <2>1, PayloadType
    <2>3. target' = target
      BY <1>5 DEF WritePayload, GoTo, target
    <2>4. QED
      BY <1>5, <2>2, <2>3 DEF WritePayload, GoTo, SaveInv
  <1>6. CASE VerifyPayload
    BY <1>6 DEF VerifyPayload, GoTo, SaveInv, target, store_encode
  <1>7. CASE Commit
    <2>1. PICK b \in BOOLEAN : slots' = [slots EXCEPT ![target].commit = b]
      BY <1>7, TargetIsOther DEF Commit, SlotContents, TypeOK
    <2>2. slots'[target].payload = slots[target].payload
      BY <2>1, CommitType
    <2>3. target' = target /\ store_encode' = store_encode
      BY <1>7 DEF Commit, GoTo, target, store_encode
    <2>4. QED
      BY <1>7, <2>2, <2>3 DEF Commit, GoTo, SaveInv
  <1>8. CASE VerifyRecord \/ SaveFails \/ Reset
    BY <1>8 DEF VerifyRecord, SaveFails, Reset, SaveInv
  <1>9. CASE UNCHANGED vars
    BY <1>9 DEF vars, SaveInv, target, store_encode
  <1>10. QED
    BY <1>1, <1>2, <1>3, <1>4, <1>5, <1>6, <1>7, <1>8, <1>9 DEF Next, Device

(* Writing to the target: the loaded slot is as it was. *)
LEMMA LoadedSlotStep ==
  ASSUME TypeOK, SaveInv, LoadedSlotIntact, [Next]_vars
  PROVE  LoadedSlotIntact'
  <1> USE DEF LoadedSlotIntact
  <1>1. CASE LoadOk
    <2> DEFINE s == selected(slots)
    <2>1. s \in Slot /\ store_decode(slots[s])
      BY <1>1, SelectedDecodes DEF LoadOk
    <2>2. s_active' = [known |-> TRUE, slot |-> s, sequence |-> slots[s].payload.sequence]
          /\ slots' = slots
      BY <1>1 DEF LoadOk, LoadReturns
    <2>3. target' \in Slot /\ target' # s
      BY <2>1, <2>2 DEF target, Slot
    <2>4. slots[s].payload.sequence \in Nat
      BY <2>1, DecodedPayload DEF TypeOK
    <2>5. ASSUME store_decode(slots[target'])
          PROVE  \/ slots[target'] = slots[s]
                 \/ slots[target'].payload.sequence < slots[s].payload.sequence
      <3>1. slots[target'].payload.sequence \in Nat
        BY <2>3, <2>5, DecodedPayload DEF TypeOK
      <3>2. ~Ambiguous(slots)
        BY <1>1 DEF LoadOk, Loadable
      <3>3. CASE s = "A" /\ target' = "B"
        BY <2>1, <2>4, <2>5, <3>1, <3>2, <3>3 DEF Ambiguous, selected, Slot
      <3>4. CASE s = "B" /\ target' = "A"
        BY <2>1, <2>4, <2>5, <3>1, <3>2, <3>4 DEF Ambiguous, selected, Slot
      <3>5. QED
        BY <2>1, <2>3, <3>3, <3>4 DEF Slot
    <2>6. QED
      BY <2>1, <2>2, <2>5
  <1>2. CASE LoadInvalid \/ LoadIO \/ Reset
    BY <1>2 DEF LoadInvalid, LoadIO, LoadReturns, Reset, Unknown
  <1>3. CASE Save
    BY <1>3 DEF Save, SaveRefused, SaveBegin, target
  <1>4. CASE Invalidate
    <2>1. PICK b \in {slots[target].commit, FALSE} : slots' = [slots EXCEPT ![target].commit = b]
      BY <1>4 DEF Invalidate
    <2>2. b \in BOOLEAN
      BY <2>1, TargetIsOther DEF TypeOK, SlotContents
    <2>3. slots'[target] = [commit |-> b, payload |-> slots[target].payload]
          /\ slots'[s_active.slot] = slots[s_active.slot]
      BY <2>1, <2>2, CommitType
    <2>4. slots[target] = [commit |-> slots[target].commit, payload |-> slots[target].payload]
      BY TargetIsOther DEF TypeOK, SlotContents
    <2>5. b = slots[target].commit \/ ~store_decode(slots'[target])
      <3>1. CASE b = FALSE
        <4>1. slots'[target].commit = FALSE
          BY <2>3, <3>1
        <4>2. QED
          BY <4>1 DEF store_decode
      <3>2. QED
        BY <2>1, <3>1
    <2>6. s_active' = s_active /\ target' = target
      BY <1>4 DEF Invalidate, GoTo, target
    <2>7. QED
      BY <2>3, <2>4, <2>5, <2>6
  <1>5. CASE VerifyInvalid \/ VerifyPayload \/ SaveFails
    BY <1>5 DEF VerifyInvalid, VerifyPayload, SaveFails, GoTo, target
  <1>6. CASE WritePayload
    <2>1. PICK p \in Payload \cup {Torn} : slots' = [slots EXCEPT ![target].payload = p]
      BY <1>6, TargetIsOther, EncodeType DEF WritePayload, SlotContents, SaveInv, TypeOK
    <2>2. ~slots'[target].commit /\ slots'[s_active.slot] = slots[s_active.slot]
      <3>1. ~slots[target].commit
        BY <1>6 DEF WritePayload, SaveInv
      <3>2. slots'[target].commit = slots[target].commit
        BY <2>1, PayloadType
      <3>3. slots'[s_active.slot] = slots[s_active.slot]
        BY <2>1, PayloadType
      <3>4. QED
        BY <3>1, <3>2, <3>3
    <2>3. s_active' = s_active /\ target' = target
      BY <1>6 DEF WritePayload, GoTo, target
    <2>4. QED
      BY <2>2, <2>3 DEF store_decode
  <1>7. CASE Commit
    <2>1. PICK b \in BOOLEAN : slots' = [slots EXCEPT ![target].commit = b]
      BY <1>7, TargetIsOther DEF Commit, SlotContents, TypeOK
    <2>2. slots'[target].payload = store_encode /\ slots'[s_active.slot] = slots[s_active.slot]
      <3>1. slots[target].payload = store_encode
        BY <1>7 DEF Commit, SaveInv
      <3>2. slots'[target].payload = slots[target].payload
        BY <2>1, CommitType
      <3>3. slots'[s_active.slot] = slots[s_active.slot]
        BY <2>1, CommitType
      <3>4. QED
        BY <3>1, <3>2, <3>3
    <2>3. slots'[target].payload.sequence = s_active.sequence + 1
      BY <1>7, <2>2 DEF store_encode
    <2>4. s_active' = s_active /\ target' = target
      BY <1>7 DEF Commit, GoTo, target
    <2>5. QED
      BY <2>2, <2>3, <2>4
  <1>8. CASE VerifyRecord
    <2> DEFINE old == s_active.slot
    <2>1. s_active' = [s_active EXCEPT !.slot = target, !.sequence = @ + 1] /\ slots' = slots
      BY <1>8 DEF VerifyRecord
    <2>2. /\ s_active'.slot = target /\ s_active'.sequence = s_active.sequence + 1
          /\ s_active.sequence \in Nat
      BY <2>1, MediaAssumption DEF TypeOK
    <2>3. target' = old
      BY <2>2, TargetIsOther DEF target, Slot
    <2>4. slots[target] = [commit |-> TRUE, payload |-> store_encode]
      BY <1>8 DEF VerifyRecord
    <2>5. store_decode(slots[target]) /\ slots[target].payload.sequence = s_active.sequence + 1
      <3>1. store_encode \in Payload /\ store_encode.sequence = s_active.sequence + 1
            /\ store_encode.state = state /\ startup_store_state_is_valid(state)
        BY <1>8, EncodeType DEF VerifyRecord, SaveInv
      <3>2. store_encode # Torn /\ store_encode.sequence # 0
        BY <3>1, <2>2, MediaAssumption
      <3>3. QED
        BY <2>4, <3>1, <3>2 DEF store_decode
    <2>6. s_active.known /\ slots[old].payload.sequence = s_active.sequence
      BY <1>8 DEF VerifyRecord, SaveInv
    <2>7. slots'[target'].payload.sequence < s_active'.sequence
      BY <2>1, <2>2, <2>3, <2>6
    <2>8. QED
      BY <2>1, <2>2, <2>5, <2>7
  <1>9. CASE UNCHANGED vars
    BY <1>9 DEF vars, target
  <1>10. QED
    BY <1>1, <1>2, <1>3, <1>4, <1>5, <1>6, <1>7, <1>8, <1>9 DEF Next, Load, Device

(* Every step keeps acknowledged records durable. *)
LEMMA AcknowledgedStep ==
  ASSUME TypeOK, TypeOK', SaveInv, LoadedSlotIntact, LoadedSlotIntact', AcknowledgedIsDurable,
         [Next]_vars
  PROVE  AcknowledgedIsDurable'
  <1>1. CASE LoadOk
    <2>1. /\ s_active'.known /\ s_active'.slot = selected(slots)
          /\ slots' = slots /\ state' = NoRecord /\ Loadable(slots)
      BY <1>1 DEF LoadOk, LoadReturns
    <2>2. QED
      BY <2>1 DEF AcknowledgedIsDurable
  <1>2. CASE LoadInvalid \/ LoadIO
    BY <1>2 DEF LoadInvalid, LoadIO, LoadReturns, AcknowledgedIsDurable
  <1>3. CASE Save
    BY <1>3 DEF Save, SaveRefused, SaveBegin, AcknowledgedIsDurable
  <1>4. CASE Invalidate \/ VerifyInvalid \/ WritePayload \/ VerifyPayload \/ Commit
    BY <1>4 DEF Invalidate, VerifyInvalid, WritePayload, VerifyPayload, Commit, GoTo,
                AcknowledgedIsDurable
  <1>5. CASE SaveFails \/ Reset
    BY <1>5 DEF SaveFails, Reset, AcknowledgedIsDurable
  <1>6. CASE VerifyRecord
    <2>1. /\ s_active' = [s_active EXCEPT !.slot = target, !.sequence = @ + 1]
          /\ slots' = slots /\ state' = state
          /\ slots[target] = [commit |-> TRUE, payload |-> store_encode]
      BY <1>6 DEF VerifyRecord
    <2>2. s_active.known /\ state # NoRecord /\ s_active.sequence # UINT32_MAX
      BY <1>6 DEF VerifyRecord, SaveInv
    <2>3. /\ s_active'.known /\ s_active'.slot = target
          /\ s_active'.sequence = s_active.sequence + 1
          /\ s_active.sequence \in Nat
      BY <2>1, <2>2, MediaAssumption DEF TypeOK
    <2>4. target' = s_active.slot
      BY <2>3, TargetIsOther DEF target, Slot
    <2>5. /\ slots[s_active.slot].payload.sequence = s_active.sequence
          /\ store_decode(slots[s_active.slot])
      BY <2>2 DEF LoadedSlotIntact
    <2>6. /\ store_decode(slots[target])
          /\ slots[target].payload.sequence = s_active.sequence + 1
      BY <2>1, <2>3 DEF LoadedSlotIntact
    <2>7. Loadable(slots) /\ slots[selected(slots)] = slots[target]
      <3>1. slots \in [Slot -> SlotContents]
        BY DEF TypeOK
      <3>2. slots[target].payload.sequence > slots[s_active.slot].payload.sequence
        BY <2>3, <2>5, <2>6
      <3>3. slots[target].payload.sequence # slots[s_active.slot].payload.sequence
        BY <2>3, <2>5, <2>6
      <3>4. QED
        BY <2>5, <2>6, <3>1, <3>2, <3>3, TargetIsOther, Selection
    <2>8. slots[target].payload.state = state
      BY <2>1, <2>2, EncodeType
    <2>9. QED
      BY <2>1, <2>3, <2>7, <2>8 DEF AcknowledgedIsDurable
  <1>7. CASE UNCHANGED vars
    BY <1>7 DEF vars, AcknowledgedIsDurable
  <1>8. QED
    BY <1>1, <1>2, <1>3, <1>4, <1>5, <1>6, <1>7 DEF Next, Load, Device

(* Every step of the store, and every reset, keeps the invariant. *)
LEMMA NextIInv == IInv /\ [Next]_vars => IInv'
  <1> SUFFICES ASSUME IInv, [Next]_vars PROVE IInv'
    OBVIOUS
  <1>1. TypeOK /\ SaveInv /\ LoadedSlotIntact /\ AcknowledgedIsDurable
    BY DEF IInv
  <1>2. TypeOK'
    BY <1>1, NextTypeOK
  <1>3. SaveInv'
    BY <1>1, SaveInvStep
  <1>4. LoadedSlotIntact'
    BY <1>1, LoadedSlotStep
  <1>5. AcknowledgedIsDurable'
    BY <1>1, <1>2, <1>4, AcknowledgedStep
  <1>6. QED
    BY <1>2, <1>3, <1>4, <1>5 DEF IInv

(***************************************************************************)
(* startup_store.c keeps IInv: types, the target of a save in flight, the  *)
(* loaded slot and every acknowledged record, over any faults and resets.  *)
(***************************************************************************)
THEOREM Invariance == Spec => []IInv
  BY InitIInv, NextIInv, PTL DEF Spec

(***************************************************************************)
(* Every value the store holds stays in its type, whatever fails.          *)
(***************************************************************************)
THEOREM TypeCorrect == Spec => []TypeOK
  <1>1. IInv => TypeOK
    BY DEF IInv
  <1>2. QED
    BY <1>1, Invariance, PTL

(***************************************************************************)
(* A save never harms the slot the boot loaded from.                       *)
(***************************************************************************)
THEOREM LoadedSlotIsIntact == Spec => []LoadedSlotIntact
  <1>1. IInv => LoadedSlotIntact
    BY DEF IInv
  <1>2. QED
    BY <1>1, Invariance, PTL

(***************************************************************************)
(* A save or load that returned OK is what the next boot will load.        *)
(***************************************************************************)
THEOREM AcknowledgementIsTrue == Spec => []AcknowledgedIsDurable
  <1>1. IInv => AcknowledgedIsDurable
    BY DEF IInv
  <1>2. QED
    BY <1>1, Invariance, PTL

----------------------------------------------------------------------------
(***************************************************************************)
(* One step of a save, seen from the media: the loaded record, or the new  *)
(* one with the next sequence, is what would be loaded after it.           *)
(***************************************************************************)
LEMMA MediaStep ==
  ASSUME IInv, [Next]_vars, pc # "idle"
  PROVE  /\ Loadable(slots')
         /\ slots'[selected(slots')] =
              IF store_decode(slots'[target])
                 /\ slots'[target].payload.sequence > s_active.sequence
              THEN slots'[target] ELSE slots[s_active.slot]
         /\ store_decode(slots'[target]) =>
              \/ slots'[target] = slots[s_active.slot]
              \/ slots'[target].payload.sequence < s_active.sequence
              \/ slots'[target].payload.sequence = s_active.sequence + 1
  <1> DEFINE a == s_active.slot
             t == target
  <1>1. TypeOK /\ SaveInv /\ LoadedSlotIntact /\ s_active.known
    BY DEF IInv, SaveInv
  <1>2. TypeOK' /\ LoadedSlotIntact'
    BY NextIInv DEF IInv
  <1>3. a \in Slot /\ t \in Slot /\ t # a /\ s_active.sequence \in Nat
    BY <1>1, TargetIsOther, MediaAssumption DEF TypeOK
  <1>4. \/ slots' = slots
        \/ s_active' = s_active
    BY DEF Next, vars, Load, Save, Device, LoadOk, LoadInvalid, LoadIO, LoadReturns, SaveRefused,
           SaveBegin, Invalidate, VerifyInvalid, WritePayload, VerifyPayload, Commit,
           VerifyRecord, SaveFails, Reset, GoTo
  <1>5. /\ store_decode(slots'[a])
        /\ slots'[a].payload.sequence = s_active.sequence
        /\ store_decode(slots'[t]) =>
             \/ slots'[t] = slots'[a]
             \/ slots'[t].payload.sequence < s_active.sequence
             \/ slots'[t].payload.sequence = s_active.sequence + 1
    <2>1. CASE slots' = slots
      BY <1>1, <2>1 DEF LoadedSlotIntact
    <2>2. CASE s_active' = s_active
      BY <1>1, <1>2, <2>2 DEF LoadedSlotIntact, target
    <2>3. QED
      BY <1>4, <2>1, <2>2
  <1>6. slots'[a] = slots[a]
    <2>1. CASE Invalidate \/ Commit
      <3>1. PICK b \in BOOLEAN : slots' = [slots EXCEPT ![target].commit = b]
        BY <1>1, <2>1, TargetIsOther DEF Invalidate, Commit, SlotContents, TypeOK
      <3>2. QED
        BY <1>1, <3>1, CommitType
    <2>2. CASE WritePayload
      <3>1. PICK p \in Payload \cup {Torn} : slots' = [slots EXCEPT ![target].payload = p]
        BY <1>1, <2>2, TargetIsOther, EncodeType DEF WritePayload, SlotContents, SaveInv, TypeOK
      <3>2. QED
        BY <1>1, <3>1, PayloadType
    <2>3. CASE slots' = slots
      BY <2>3
    <2>4. QED
      BY <2>1, <2>2, <2>3
         DEF Next, vars, Load, Save, Device, LoadOk, LoadInvalid, LoadIO, LoadReturns,
             SaveRefused, SaveBegin, VerifyInvalid, VerifyPayload, VerifyRecord, SaveFails, Reset
  <1>7. slots' \in [Slot -> SlotContents]
    BY <1>2 DEF TypeOK
  <1>8. store_decode(slots'[t]) =>
          slots'[t] = slots'[a] \/ slots'[t].payload.sequence # slots'[a].payload.sequence
    BY <1>3, <1>5
  <1>9. Loadable(slots') /\
        slots'[selected(slots')] =
          IF store_decode(slots'[t]) /\ slots'[t].payload.sequence > slots'[a].payload.sequence
          THEN slots'[t] ELSE slots'[a]
    BY <1>3, <1>5, <1>7, <1>8, Selection
  <1>10. QED
    BY <1>5, <1>6, <1>9

(***************************************************************************)
(* Once a device loads, no failure, cut or refused write makes it unable   *)
(* to load.                                                                *)
(***************************************************************************)
THEOREM AlwaysLoadable == Spec => StaysLoadable
  <1>1. IInv /\ [Next]_vars => [Loadable(slots) => Loadable(slots')]_vars
    <2> SUFFICES ASSUME IInv, [Next]_vars, Loadable(slots) PROVE Loadable(slots')
      OBVIOUS
    <2>1. CASE pc # "idle"
      BY <2>1, MediaStep
    <2>2. CASE pc = "idle"
      <3>1. slots' = slots
        BY <2>2 DEF Next, vars, Load, Save, Device, LoadOk, LoadInvalid, LoadIO, LoadReturns,
                    SaveRefused, SaveBegin, Invalidate, VerifyInvalid, WritePayload,
                    VerifyPayload, Commit, VerifyRecord, SaveFails, Reset
      <3>2. QED
        BY <3>1
    <2>3. QED
      BY <2>1, <2>2
  <1>2. QED
    BY <1>1, Invariance, PTL DEF Spec, StaysLoadable

(* An acknowledged save: the target holds the record that was asked for. *)
LEMMA VerifiedRecord ==
  ASSUME IInv, VerifyRecord
  PROVE  /\ slots' = slots
         /\ store_decode(slots[target])
         /\ slots[target].payload.sequence = s_active.sequence + 1
         /\ slots[target].payload.state = state
         /\ s_active'.known /\ s_active'.slot = target
         /\ state \in StartupStoreState
         /\ s_active.sequence \in Nat
  <1>1. TypeOK /\ SaveInv
    BY DEF IInv
  <1>2. /\ s_active.known /\ s_active.sequence # UINT32_MAX /\ state # NoRecord
        /\ startup_store_state_is_valid(state)
    BY <1>1 DEF VerifyRecord, SaveInv
  <1>3. /\ store_encode \in Payload /\ store_encode.sequence = s_active.sequence + 1
        /\ store_encode.state = state /\ state \in StartupStoreState
    BY <1>1, <1>2, EncodeType
  <1>4. s_active.sequence \in Nat
    BY <1>1, MediaAssumption DEF TypeOK
  <1>5. store_encode # Torn /\ store_encode.sequence # 0
    BY <1>3, <1>4, MediaAssumption
  <1>6. slots' = slots /\ slots[target] = [commit |-> TRUE, payload |-> store_encode]
    BY DEF VerifyRecord
  <1>7. store_decode(slots[target])
    BY <1>2, <1>3, <1>5, <1>6 DEF store_decode
  <1>8. s_active'.known /\ s_active'.slot = target
    BY <1>1, <1>2 DEF VerifyRecord, TypeOK
  <1>9. QED
    BY <1>3, <1>4, <1>6, <1>7, <1>8

(***************************************************************************)
(* During a save the durable sequence is the loaded one or the next, and   *)
(* the next when the save returns OK.  A retry may take back a commit that *)
(* was not acknowledged, and repeat it under the same sequence.            *)
(***************************************************************************)
THEOREM SequencesAdvance == Spec => SequenceAdvances
  <1> DEFINE A == pc # "idle" =>
                    /\ durable_sequence(slots') \in {s_active.sequence, s_active.sequence + 1}
                    /\ result' = "OK" => durable_sequence(slots') = s_active.sequence + 1
  <1>1. ASSUME IInv, [Next]_vars, pc # "idle"
        PROVE  /\ durable_sequence(slots') \in {s_active.sequence, s_active.sequence + 1}
               /\ result' = "OK" => durable_sequence(slots') = s_active.sequence + 1
    <2>1. /\ TypeOK /\ SaveInv
          /\ slots[s_active.slot].payload.sequence = s_active.sequence
          /\ s_active.sequence \in Nat
      BY <1>1, MediaAssumption DEF IInv, SaveInv, LoadedSlotIntact, TypeOK
    <2>2. durable_sequence(slots') =
            IF store_decode(slots'[target]) /\ slots'[target].payload.sequence > s_active.sequence
            THEN slots'[target].payload.sequence ELSE s_active.sequence
      BY <1>1, <2>1, MediaStep DEF durable_sequence
    <2>3. store_decode(slots'[target]) =>
              \/ slots'[target].payload.sequence = s_active.sequence
              \/ slots'[target].payload.sequence < s_active.sequence
              \/ slots'[target].payload.sequence = s_active.sequence + 1
      BY <1>1, <2>1, MediaStep
    <2>4. durable_sequence(slots') \in {s_active.sequence, s_active.sequence + 1}
      <3>1. CASE store_decode(slots'[target]) /\ slots'[target].payload.sequence > s_active.sequence
        <4>1. slots'[target] \in SlotContents
          BY <1>1, <2>1, NextIInv, TargetIsOther DEF IInv, TypeOK
        <4>2. slots'[target].payload.sequence \in Nat
          BY <3>1, <4>1, DecodedPayload
        <4>3. QED
          BY <2>1, <2>2, <2>3, <3>1, <4>2
      <3>2. CASE ~(store_decode(slots'[target]) /\ slots'[target].payload.sequence > s_active.sequence)
        BY <2>2, <3>2
      <3>3. QED
        BY <3>1, <3>2
    <2>5. ASSUME result' = "OK" PROVE durable_sequence(slots') = s_active.sequence + 1
      <3>1. VerifyRecord
        BY <1>1, <2>1, <2>5
           DEF Next, vars, Load, Save, Device, LoadOk, LoadInvalid, LoadIO, LoadReturns,
               SaveRefused, SaveBegin, Invalidate, VerifyInvalid, WritePayload,
               VerifyPayload, Commit, SaveFails, Reset, GoTo, SaveInv
      <3>2. slots' = slots /\ store_decode(slots[target])
            /\ slots[target].payload.sequence = s_active.sequence + 1
        BY <1>1, <3>1, VerifiedRecord
      <3>3. QED
        BY <2>1, <2>2, <3>2
    <2>6. QED
      BY <2>4, <2>5
  <1>2. IInv /\ [Next]_vars => [A]_vars
    BY <1>1
  <1>3. QED
    BY <1>2, Invariance, PTL DEF Spec, SequenceAdvances

----------------------------------------------------------------------------
(***************************************************************************)
(* Refinement: every step of the two-slot store is a step of the register  *)
(* or leaves it alone.                                                     *)
(***************************************************************************)
LEMMA DurableType ==
  ASSUME NEW media \in [Slot -> SlotContents]
  PROVE  durable_state(media) \in StartupStoreState \cup {NoRecord}
  <1>1. CASE Loadable(media)
    <2>1. selected(media) \in Slot /\ store_decode(media[selected(media)])
      BY <1>1, SelectedDecodes
    <2>2. media[selected(media)] \in SlotContents
      BY <2>1
    <2>3. QED
      BY <1>1, <2>1, <2>2, DecodedPayload DEF durable_state
  <1>2. CASE ~Loadable(media)
    BY <1>2 DEF durable_state
  <1>3. QED
    BY <1>1, <1>2

(* The first state of the store is one of the register. *)
LEMMA RegisterInit == Init => Register!Init
  <1> SUFFICES ASSUME Init PROVE Register!Init
    OBVIOUS
  <1>1. slots \in [Slot -> SlotContents]
    BY InitTypeOK DEF TypeOK
  <1>2. durable_state(slots) \in StartupStoreState \cup {NoRecord}
    BY <1>1, DurableType
  <1>3. committed_state = NoRecord /\ pending_state = NoRecord
    BY DEF Init, Unknown, committed_state, pending_state
  <1>4. QED
    BY <1>2, <1>3 DEF Register!Init

(* While a store is loaded, what it committed is a record. *)
LEMMA CommittedType ==
  ASSUME IInv, s_active.known
  PROVE  /\ committed_state = slots[s_active.slot].payload.state
         /\ committed_state \in StartupStoreState
         /\ committed_state # NoRecord
  <1>1. TypeOK /\ s_active.slot \in Slot /\ store_decode(slots[s_active.slot])
    BY TargetIsOther DEF IInv, LoadedSlotIntact
  <1>2. slots[s_active.slot] \in SlotContents
    BY <1>1 DEF TypeOK
  <1>3. slots[s_active.slot].payload.state \in StartupStoreState
    BY <1>1, <1>2, DecodedPayload
  <1>4. QED
    BY <1>3, StoreAssumption DEF committed_state

(* During a save, the media holds the committed record or the target's. *)
LEMMA MediaState ==
  ASSUME IInv, [Next]_vars, pc # "idle"
  PROVE  durable_state(slots') =
           IF store_decode(slots'[target]) /\ slots'[target].payload.sequence > s_active.sequence
           THEN slots'[target].payload.state ELSE committed_state
  <1>1. s_active.known
    BY DEF IInv, SaveInv
  <1>2. QED
    BY <1>1, MediaStep DEF durable_state, committed_state

(* A slot without its marker is not decoded. *)
LEMMA Unmarked ==
  ASSUME NEW slot, ~slot.commit
  PROVE  ~store_decode(slot)
  BY DEF store_decode

(* A write to the target leaves what the register holds, or lands the record. *)
LEMMA WriteMaps ==
  ASSUME IInv, [Next]_vars, Invalidate \/ WritePayload \/ Commit
  PROVE  Register!Land \/ UNCHANGED Register!vars
  <1>1. pc # "idle" /\ pc' # "idle" /\ s_active' = s_active /\ state' = state
    BY DEF Invalidate, WritePayload, Commit, GoTo
  <1>2. /\ TypeOK /\ SaveInv /\ s_active.known /\ state # NoRecord
        /\ s_active.sequence # UINT32_MAX
    BY <1>1 DEF IInv, SaveInv
  <1>3. s_active'.known /\ slots'[s_active.slot] = slots[s_active.slot]
    <2>1. CASE Invalidate \/ Commit
      <3>1. PICK b \in BOOLEAN : slots' = [slots EXCEPT ![target].commit = b]
        BY <1>2, <2>1, TargetIsOther DEF Invalidate, Commit, SlotContents, TypeOK
      <3>2. QED
        BY <1>1, <1>2, <3>1, CommitType
    <2>2. CASE WritePayload
      <3>1. PICK p \in Payload \cup {Torn} : slots' = [slots EXCEPT ![target].payload = p]
        BY <1>2, <2>2, TargetIsOther, EncodeType DEF WritePayload, SlotContents, TypeOK
      <3>2. QED
        BY <1>1, <1>2, <3>1, PayloadType
    <2>3. QED
      BY <2>1, <2>2
  <1>4. committed_state' = committed_state
    BY <1>1, <1>2, <1>3 DEF committed_state
  <1>5. pending_state' = pending_state /\ pending_state = state /\ pending_state # NoRecord
    BY <1>1, <1>2 DEF pending_state
  <1>6. durable_state(slots') =
          IF store_decode(slots'[target]) /\ slots'[target].payload.sequence > s_active.sequence
          THEN slots'[target].payload.state ELSE committed_state
    BY <1>1, MediaState
  <1>7. durable_state(slots') \in {durable_state(slots), committed_state, state}
    <2>1. CASE Invalidate
      <3>1. PICK b \in {slots[target].commit, FALSE} :
              slots' = [slots EXCEPT ![target].commit = b]
        BY <2>1 DEF Invalidate
      <3>2. CASE b = FALSE
        <4>1. slots' = [slots EXCEPT ![target].commit = FALSE]
          BY <3>1, <3>2
        <4>2. slots'[target] = [commit |-> FALSE, payload |-> slots[target].payload]
          BY <1>2, <4>1, CommitType
        <4>3. slots'[target].commit = FALSE
          BY <4>2
        <4>4. QED
          BY <1>6, <4>3, Unmarked
      <3>3. CASE b = slots[target].commit
        <4>1. slots' = slots
          BY <1>2, <3>1, <3>3, TargetIsOther DEF TypeOK, SlotContents
        <4>2. QED
          BY <4>1
      <3>4. QED
        BY <3>1, <3>2, <3>3
    <2>2. CASE WritePayload
      <3>1. PICK p \in Payload \cup {Torn} : slots' = [slots EXCEPT ![target].payload = p]
        BY <1>2, <2>2, TargetIsOther, EncodeType DEF WritePayload, SlotContents, TypeOK
      <3>2. ~slots[target].commit
        BY <1>2, <2>2 DEF WritePayload, SaveInv
      <3>3. slots'[target].commit = slots[target].commit
        BY <1>2, <3>1, PayloadType
      <3>4. QED
        BY <1>6, <3>2, <3>3, Unmarked
    <2>3. CASE Commit
      <3>1. PICK b \in BOOLEAN : slots' = [slots EXCEPT ![target].commit = b]
        BY <1>2, <2>3, TargetIsOther DEF Commit, SlotContents, TypeOK
      <3>2. slots'[target].payload = slots[target].payload
        BY <1>2, <3>1, CommitType
      <3>3. slots[target].payload = store_encode
        BY <1>2, <2>3 DEF Commit, SaveInv
      <3>4. slots'[target].payload.state = state
        BY <1>2, <3>2, <3>3, EncodeType
      <3>5. QED
        BY <1>6, <3>4
    <2>4. QED
      BY <2>1, <2>2, <2>3
  <1>8. CASE durable_state(slots') = durable_state(slots)
    BY <1>4, <1>5, <1>8 DEF Register!vars
  <1>9. CASE durable_state(slots') \in {committed_state, state}
    BY <1>4, <1>5, <1>9 DEF Register!Land
  <1>10. QED
    BY <1>7, <1>8, <1>9

(* The end of a save that succeeds is Acknowledge of the register. *)
LEMMA AcknowledgeMaps ==
  ASSUME IInv, VerifyRecord
  PROVE  Register!Acknowledge
  <1>1. pc # "idle" /\ pc' = "idle" /\ [Next]_vars
    BY DEF VerifyRecord, Next, Device
  <1>2. /\ slots' = slots
        /\ store_decode(slots[target])
        /\ slots[target].payload.sequence = s_active.sequence + 1
        /\ slots[target].payload.state = state
        /\ s_active'.known /\ s_active'.slot = target
        /\ state \in StartupStoreState
        /\ s_active.sequence \in Nat
    BY VerifiedRecord
  <1>3. pending_state = state /\ pending_state' = NoRecord /\ state # NoRecord
    BY <1>1, <1>2, StoreAssumption DEF pending_state
  <1>4. durable_state(slots') = state
    BY <1>1, <1>2, MediaState
  <1>5. committed_state' = state
    BY <1>2 DEF committed_state
  <1>6. QED
    BY <1>3, <1>4, <1>5 DEF Register!Acknowledge

(* A load is Load of the register. *)
LEMMA LoadMaps ==
  ASSUME IInv, Load
  PROVE  Register!Load
  <1>1. pc = "idle" /\ pc' = pc /\ slots' = slots
    BY DEF Load, LoadOk, LoadInvalid, LoadIO, LoadReturns
  <1>2. pending_state = NoRecord /\ pending_state' = NoRecord
    BY <1>1 DEF pending_state
  <1>3. committed_state' \in {durable_state(slots), NoRecord}
    <2>1. CASE LoadOk
      <3>1. /\ s_active'.known /\ s_active'.slot = selected(slots) /\ Loadable(slots)
        BY <2>1 DEF LoadOk, LoadReturns
      <3>2. QED
        BY <1>1, <3>1 DEF committed_state, durable_state
    <2>2. CASE LoadInvalid \/ LoadIO
      <3>1. ~s_active'.known
        BY <2>2 DEF LoadInvalid, LoadIO, LoadReturns, Unknown
      <3>2. QED
        BY <3>1 DEF committed_state
    <2>3. QED
      BY <2>1, <2>2 DEF Load
  <1>4. QED
    BY <1>1, <1>2, <1>3 DEF Register!Load

(* The start of a save is Begin of the register, or a stutter. *)
LEMMA SaveMaps ==
  ASSUME IInv, Save
  PROVE  Register!Begin \/ UNCHANGED Register!vars
  <1>1. PICK request \in Requests : SaveRefused(request) \/ SaveBegin(request)
    BY DEF Save
  <1>2. CASE SaveRefused(request)
    <2>1. /\ pc = "idle" /\ pc' = "idle" /\ slots' = slots /\ s_active' = s_active
      BY <1>2 DEF SaveRefused
    <2>2. QED
      BY <2>1 DEF Register!vars, committed_state, pending_state
  <1>3. CASE SaveBegin(request)
    <2>1. /\ pc = "idle" /\ pc' = "invalidate" /\ slots' = slots /\ s_active' = s_active
          /\ state' = request /\ s_active.known
      BY <1>3 DEF SaveBegin
    <2>2. request \in StartupStoreState
      BY StoreAssumption
    <2>3. committed_state # NoRecord
      BY <2>1, CommittedType
    <2>4. pending_state = NoRecord /\ pending_state' = request
      BY <2>1 DEF pending_state
    <2>5. committed_state' = committed_state
      BY <2>1 DEF committed_state
    <2>6. QED
      BY <2>1, <2>2, <2>3, <2>4, <2>5 DEF Register!Begin
  <1>4. QED
    BY <1>1, <1>2, <1>3

(* A save that fails is Abandon, a reset is Reset. *)
LEMMA EndMaps ==
  ASSUME IInv, SaveFails \/ Reset
  PROVE  Register!Abandon \/ Register!Reset
  <1>1. slots' = slots /\ pending_state' = NoRecord
    BY DEF SaveFails, Reset, pending_state
  <1>2. pc # "idle" => pending_state # NoRecord /\ durable_state(slots) # NoRecord
    <2>1. SUFFICES ASSUME pc # "idle"
                   PROVE  pending_state # NoRecord /\ durable_state(slots) # NoRecord
      OBVIOUS
    <2>2. TypeOK /\ LoadedSlotIntact /\ s_active.known /\ state # NoRecord
      BY <2>1 DEF IInv, SaveInv
    <2>3. Loadable(slots)
      BY <2>2, LoadedSelection
    <2>4. selected(slots) \in Slot /\ store_decode(slots[selected(slots)])
      BY <2>3, SelectedDecodes
    <2>5. slots[selected(slots)] \in SlotContents
      BY <2>2, <2>4 DEF TypeOK
    <2>6. durable_state(slots) \in StartupStoreState
      BY <2>3, <2>4, <2>5, DecodedPayload DEF durable_state
    <2>7. QED
      BY <2>1, <2>2, <2>6, StoreAssumption DEF pending_state
  <1>3. CASE SaveFails
    <2>1. pc # "idle" /\ s_active' = s_active
      BY <1>3 DEF SaveFails
    <2>2. committed_state' = committed_state
      BY <1>1, <2>1 DEF committed_state
    <2>3. QED
      BY <1>1, <1>2, <2>1, <2>2 DEF Register!Abandon, Register!OldOrNew
  <1>4. CASE Reset
    <2>1. committed_state' = NoRecord
      BY <1>4 DEF Reset, Unknown, committed_state
    <2>2. pc = "idle" => pending_state = NoRecord
      BY DEF pending_state
    <2>3. QED
      BY <1>1, <1>2, <2>1, <2>2 DEF Register!Reset, Register!OldOrNew
  <1>5. QED
    BY <1>3, <1>4

(* Every step of the store is a step of the register or a stutter. *)
LEMMA RegisterNext ==
  ASSUME IInv, [Next]_vars
  PROVE  [Register!Next]_(Register!vars)
  <1>1. CASE Load
    BY <1>1, LoadMaps DEF Register!Next
  <1>2. CASE Save
    BY <1>2, SaveMaps DEF Register!Next
  <1>3. CASE Invalidate \/ WritePayload \/ Commit
    BY <1>3, WriteMaps DEF Register!Next
  <1>4. CASE VerifyRecord
    BY <1>4, AcknowledgeMaps DEF Register!Next
  <1>5. CASE SaveFails \/ Reset
    BY <1>5, EndMaps DEF Register!Next
  <1>6. CASE VerifyInvalid \/ VerifyPayload
    <2>1. /\ slots' = slots /\ s_active' = s_active /\ state' = state
          /\ pc # "idle" /\ pc' # "idle"
      BY <1>6 DEF VerifyInvalid, VerifyPayload, GoTo
    <2>2. QED
      BY <2>1 DEF Register!vars, committed_state, pending_state
  <1>7. CASE UNCHANGED vars
    BY <1>7 DEF vars, Register!vars, committed_state, pending_state
  <1>8. QED
    BY <1>1, <1>2, <1>3, <1>4, <1>5, <1>6, <1>7 DEF Next, Device

(***************************************************************************)
(* The two-slot store is the register that the Startup sequence relies on: *)
(* old record or new record, never neither, and OK means new.              *)
(***************************************************************************)
THEOREM Refinement == Spec => ImplementsDurableRecord
  <1>1. IInv /\ [Next]_vars => [Register!Next]_(Register!vars)
    BY RegisterNext
  <1>2. QED
    BY <1>1, RegisterInit, Invariance, PTL DEF Spec, ImplementsDurableRecord, Register!Spec
=============================================================================
