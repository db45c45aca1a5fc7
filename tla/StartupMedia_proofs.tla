------------------------ MODULE StartupMedia_proofs ------------------------
(***************************************************************************)
(* What the loader selects, over any media: the facts that the proofs of   *)
(* the store and of the provisioning tool share.                           *)
(***************************************************************************)
EXTENDS StartupMedia, TLAPS

(* A slot the loader decodes holds a typed payload. *)
LEMMA DecodedPayload ==
  ASSUME NEW slot \in SlotContents, store_decode(slot)
  PROVE  /\ slot.commit
         /\ slot.payload \in Payload
         /\ slot.payload.sequence \in Nat
         /\ slot.payload.state \in StartupStoreState
  BY MediaAssumption DEF SlotContents, store_decode, Payload

(* The slot the loader selects is one it decodes. *)
LEMMA SelectedDecodes ==
  ASSUME NEW media, Loadable(media)
  PROVE  selected(media) \in Slot /\ store_decode(media[selected(media)])
  BY DEF Loadable, selected, Slot

(* With slot a decoded and no conflict, the loader takes a unless t is newer. *)
LEMMA Selection ==
  ASSUME NEW media \in [Slot -> SlotContents], NEW a \in Slot, NEW t \in Slot, t # a,
         store_decode(media[a]),
         store_decode(media[t]) => \/ media[t] = media[a]
                                   \/ media[t].payload.sequence # media[a].payload.sequence
  PROVE  /\ Loadable(media)
         /\ media[selected(media)] =
              IF store_decode(media[t]) /\ media[t].payload.sequence > media[a].payload.sequence
              THEN media[t] ELSE media[a]
  <1>1. media[a] \in SlotContents /\ media[t] \in SlotContents
    OBVIOUS
  <1>2. media[a].payload.sequence \in Nat
    BY <1>1, DecodedPayload
  <1>3. store_decode(media[t]) => media[t].payload.sequence \in Nat
    BY <1>1, DecodedPayload
  <1>4. ~Ambiguous(media)
    <2>1. CASE a = "A" /\ t = "B"
      BY <2>1 DEF Ambiguous, Slot
    <2>2. CASE a = "B" /\ t = "A"
      BY <2>2 DEF Ambiguous, Slot
    <2>3. QED
      BY <2>1, <2>2 DEF Slot
  <1>5. Loadable(media)
    BY <1>4 DEF Loadable
  <1>6. CASE a = "A" /\ t = "B"
    BY <1>2, <1>3, <1>5, <1>6 DEF selected
  <1>7. CASE a = "B" /\ t = "A"
    BY <1>2, <1>3, <1>5, <1>7 DEF selected
  <1>8. QED
    BY <1>6, <1>7 DEF Slot
=============================================================================
