--------------------------- MODULE Startup_proofs ---------------------------
(***************************************************************************)
(* Proofs about Startup, for every choice of its intervals and limits: one *)
(* inductive invariant gives the invariants and action properties below,   *)
(* that it uses the store as DurableRecord allows, that it implements      *)
(* Deployment, and that no wait and no burn lasts for ever.                *)
(***************************************************************************)
EXTENDS Startup, SequenceTheorems, TLAPS

-----------------------------------------------------------------------------
Active == {"loop", "gate", "reserved", "burn", "wait", "count", "sleep", "delay", "ops"}
InWait == {"wait", "count", "sleep"}
Deploying(record) == record.resume_state \in {"INITIAL_CHECKS", "WAIT_POWER_ON", "WAITING_FOR_UPLINK"}
Waits(record) == record.resume_state \in {"INITIAL_CHECKS", "WAITING_FOR_UPLINK"}
Slack == STARTUP_CHECKPOINT_MS + Work

IsReservation(record) ==
  /\ record.resume_state = "WAITING_FOR_UPLINK"
  /\ record.attempts_used >= 1
  /\ record.remaining_ms = startup_store_retry_ms(record.attempts_used)

IsUpdate(old, new) ==
  /\ old.armed /\ new.armed
  /\ new.attempts_used >= old.attempts_used
  /\ Stage(new) >= Stage(old)
  /\ old.resume_state # "MAIN_OPS"
  /\ new.resume_state = old.resume_state /\ new.attempts_used = old.attempts_used =>
       \/ new.remaining_ms < old.remaining_ms
       \/ new.remaining_ms = startup_store_retry_ms(STARTUP_ATTEMPT_LIMIT)

IStore ==
  /\ startup_store_state_is_valid(durable)
  /\ pending # NoRecord => startup_store_state_is_valid(pending)
  /\ pc = "saving" <=> pending # NoRecord
  /\ pc \in Active \cup {"saving"} => committed = durable

IAhead ==
  pc \in Active =>
    /\ state.attempts_used = durable.attempts_used
    /\ state.armed /\ durable.armed
    /\ \/ state.resume_state = durable.resume_state
       \/ /\ state.resume_state = "WAIT_POWER_ON"
          /\ durable.resume_state = "WAITING_FOR_UPLINK"
          /\ state.remaining_ms = 0
       \/ /\ state.resume_state \in {"GROUND_TO_SAT_1", "SAT_TO_GROUND_2"}
          /\ durable.resume_state = "SAT_TO_GROUND_1"
    /\ \/ state.remaining_ms = durable.remaining_ms
       \/ state.remaining_ms = 0 /\ durable.remaining_ms <= Slack

ISaving ==
  pc = "saving" =>
    /\ state = pending
    /\ IsUpdate(durable, pending)
    /\ resumeAt = "sleep" => /\ Waits(pending) /\ pending.remaining_ms = remaining
                             /\ lag = 0 /\ owed <= remaining
    /\ resumeAt = "reserved" => IsReservation(pending) /\ owed = 0

IPlace ==
  /\ pc = "gate" => state.resume_state = "WAIT_POWER_ON"
  /\ pc \in {"reserved", "burn"} => state = durable /\ IsReservation(state)
  /\ pc = "reserved" => owed = 0
  /\ pyro => pc = "burn"

IWait ==
  pc \in InWait =>
    /\ Waits(state)
    /\ \/ durable.remaining_ms <= remaining + unsaved
       \/ remaining = 0 /\ durable.remaining_ms <= Slack
    /\ remaining <= state.remaining_ms
    /\ unsaved < STARTUP_CHECKPOINT_MS
    /\ lag + unsaved <= Slack
    /\ pc = "sleep" => lag = 0
    /\ owed <= Less(remaining, lag)

IOwed ==
  /\ Deploying(durable) => owed <= durable.remaining_ms
  /\ pending # NoRecord /\ Deploying(pending) => owed <= pending.remaining_ms
  /\ pc \in Active /\ Deploying(state) => owed <= state.remaining_ms

IHeard ==
  /\ HandshakeCausality
  /\ pending # NoRecord /\ Handshaken(pending) => "START" \in heard
  /\ pending # NoRecord /\ pending.resume_state = "MAIN_OPS" => "ACK" \in heard
  /\ pc \in Active /\ state.resume_state = "SAT_TO_GROUND_2" => "ACK" \in heard

IRest == IStore /\ IAhead /\ ISaving /\ IPlace /\ IWait /\ IOwed /\ IHeard
IInv == TypeOK /\ IRest

-----------------------------------------------------------------------------
\* What the rest of the invariant reads.
core == <<durable, committed, pending, pc, resumeAt, state, waiting, pyro, owed, heard>>

-----------------------------------------------------------------------------
(* Numbers and records.                                                    *)

\* The constants, as numbers.
LEMMA Numbers ==
  /\ STARTUP_INHIBIT_MS \in Nat /\ STARTUP_RETRY_MS \in Nat /\ STARTUP_WEEKLY_MS \in Nat
  /\ STARTUP_ATTEMPT_LIMIT \in Nat /\ STARTUP_ATTEMPT_LIMIT > 1
  /\ STARTUP_BURN_MS \in Nat /\ STARTUP_RESPONSE_MS \in Nat /\ STARTUP_HELLO_RETRY_MS \in Nat
  /\ STARTUP_CHECKPOINT_MS \in Nat /\ STARTUP_CHECKPOINT_MS > 0
  /\ STARTUP_POLL_MS \in Nat /\ Work \in Nat /\ InboxCap \in Nat
  /\ Slack \in Nat /\ Slack = STARTUP_CHECKPOINT_MS + Work
  /\ NoRecord \notin StartupStoreState
  /\ NoState \in StartupStoreState
  /\ \A n \in Nat : startup_store_retry_ms(n) \in Nat
BY IntervalAssumption, TimingAssumption
   DEF Slack, NoState, StartupStoreState, MCUState, startup_store_retry_ms

\* The fields of a typed record.
LEMMA Fields ==
  ASSUME NEW r \in StartupStoreState
  PROVE  /\ r.resume_state \in MCUState /\ r.attempts_used \in Nat /\ r.remaining_ms \in Nat
         /\ r.armed \in BOOLEAN
BY DEF StartupStoreState

\* Time passes.
LEMMA ElapseTypes ==
  ASSUME TypeOK, NEW d \in Nat, Elapse(d)
  PROVE  /\ owed' \in Nat /\ owed' = Less(owed, d) /\ owed' <= owed
         /\ hello' \in 0 .. STARTUP_HELLO_RETRY_MS
<1>1. owed \in Nat /\ hello \in 0 .. STARTUP_HELLO_RETRY_MS
  BY DEF TypeOK
<1>2. owed' = Less(owed, d) /\ hello' = Lesser(hello + d, STARTUP_HELLO_RETRY_MS)
  BY DEF Elapse
<1>3. owed' \in Nat /\ owed' <= owed
  BY <1>1, <1>2 DEF Less
<1>4. hello' \in 0 .. STARTUP_HELLO_RETRY_MS
  BY <1>1, <1>2, Numbers DEF Lesser
<1> QED BY <1>2, <1>3, <1>4

\* A pull leaves a queue of messages that fits.
LEMMA PullTypes ==
  ASSUME TypeOK, NEW message, Pull(message)
  PROVE  inbox' \in Seq(Messages) /\ Len(inbox') <= InboxCap
<1>1. inbox \in Seq(Messages) /\ Len(inbox) <= InboxCap /\ Len(inbox) \in Nat
  BY LenProperties DEF TypeOK
<1>2. inbox # <<>> => Tail(inbox) \in Seq(Messages) /\ Len(Tail(inbox)) = Len(inbox) - 1
  BY <1>1, HeadTailProperties
<1>3. inbox' = inbox \/ (inbox # <<>> /\ inbox' = Tail(inbox))
  BY DEF Pull
<1>4. InboxCap \in Nat
  BY Numbers
<1>5. CASE inbox' = inbox
  BY <1>1, <1>5
<1>6. CASE inbox # <<>> /\ inbox' = Tail(inbox)
  <2>1. Len(inbox') = Len(inbox) - 1
    BY <1>2, <1>6
  <2> QED BY <1>1, <1>2, <1>4, <1>6, <2>1
<1> QED BY <1>3, <1>5, <1>6

\* What was heard is not forgotten, and the token wanted is heard.
LEMMA HearsTypes ==
  ASSUME TypeOK, NEW message, NEW wanted \in {"START", "ACK"}, Hears(message, wanted)
  PROVE  /\ heard' \subseteq {"START", "ACK"} /\ heard \subseteq heard'
         /\ message = wanted => wanted \in heard'
BY DEF TypeOK, Hears

-----------------------------------------------------------------------------
(* Two shapes most steps have.                                             *)

USE DEF Go, store, waiting, outside, history, Active, InWait, Places

\* A step that touches nothing the invariant reads.
LEMMA SameCore == IRest /\ UNCHANGED core => IRest'
BY DEF core, IRest, IStore, IAhead, ISaving, IPlace, IWait, IOwed, IHeard, HandshakeCausality,
       IsUpdate, IsReservation, Stage, Handshaken, Deploying, Waits, Slack, Less,
       startup_store_state_is_valid, startup_store_retry_ms

\* The program goes on without a save.
LEMMA MoveStep ==
  ASSUME IInv, pc \in Active, pc' \in Active, UNCHANGED <<durable, committed, pending>>,
         owed' \in Nat, owed' <= owed, heard \subseteq heard',
         IAhead', IPlace', IWait',
         Deploying(state') => owed' <= state'.remaining_ms,
         state'.resume_state = "SAT_TO_GROUND_2" => "ACK" \in heard'
  PROVE  IRest'
<1>0. durable \in StartupStoreState /\ owed \in Nat
  BY DEF IInv, TypeOK
<1>1. IStore' /\ ISaving'
  BY DEF IInv, IRest, IStore, ISaving, startup_store_state_is_valid, startup_store_retry_ms
<1>2. IOwed'
  <2>1. pending = NoRecord /\ (Deploying(durable) => owed <= durable.remaining_ms)
    BY DEF IInv, IRest, IStore, IOwed
  <2>2. durable.remaining_ms \in Nat
    BY <1>0, Fields
  <2> QED BY <1>0, <2>1, <2>2 DEF IOwed, Deploying
<1>3. IHeard'
  BY DEF IInv, IRest, IStore, IHeard, HandshakeCausality, Handshaken
<1> QED BY <1>1, <1>2, <1>3 DEF IRest

\* The program begins to save a record.
LEMMA SaveStep ==
  ASSUME IInv, pc \in Active, NEW record \in StartupStoreState, NEW next, Save(record, next),
         ~pyro', UNCHANGED owed, heard \subseteq heard',
         startup_store_state_is_valid(record), IsUpdate(durable, record),
         Deploying(record) => owed <= record.remaining_ms,
         Handshaken(record) => "START" \in heard',
         record.resume_state = "MAIN_OPS" => "ACK" \in heard',
         next = "sleep" => /\ Waits(record) /\ record.remaining_ms = remaining'
                           /\ lag' = 0 /\ owed <= remaining',
         next = "reserved" => IsReservation(record) /\ owed = 0
  PROVE  IRest'
<1>1. /\ pending' = record /\ state' = record /\ resumeAt' = next /\ pc' = "saving"
      /\ durable' = durable /\ committed' = committed
  BY DEF Save, Store!Begin
<1>2. IStore'
  BY <1>1, Numbers DEF IInv, IRest, IStore, startup_store_state_is_valid, startup_store_retry_ms
<1>3. ISaving'
  BY <1>1 DEF ISaving, IsUpdate, Stage, Waits, IsReservation, startup_store_retry_ms
<1>4. IAhead' /\ IPlace' /\ IWait'
  BY <1>1 DEF IAhead, IPlace, IWait
<1>5. IOwed'
  BY <1>1 DEF IInv, IRest, IOwed, Deploying
<1>6. IHeard'
  BY <1>1 DEF IInv, IRest, IHeard, HandshakeCausality, Handshaken
<1> QED BY <1>2, <1>3, <1>4, <1>5, <1>6 DEF IRest
-----------------------------------------------------------------------------
(* The steps around the sequence: boot, the end of a save, reset, the rest *)
(* of the world.                                                           *)

LEMMA PowerOnStep == ASSUME IInv, PowerOn PROVE IInv'
<1>1. TypeOK'
  BY DEF IInv, TypeOK, PowerOn
<1>2. IRest'
  BY DEF PowerOn, IInv, IRest, IStore, IAhead, ISaving, IPlace, IWait, IOwed, IHeard,
         HandshakeCausality, Handshaken, Deploying, startup_store_state_is_valid,
         startup_store_retry_ms
<1> QED BY <1>1, <1>2 DEF IInv

LEMMA LoadRecordStep == ASSUME IInv, LoadRecord PROVE IInv'
<1>0. /\ pc = "load" /\ durable' = durable /\ pending' = pending /\ pending = NoRecord
      /\ committed' \in {durable, NoRecord}
      /\ pyro' = pyro /\ owed' = owed /\ heard' = heard
  BY DEF LoadRecord, Store!Load
<1>1. TypeOK'
  BY <1>0 DEF IInv, TypeOK, LoadRecord, after_load
<1>2. pc' \in {"loop", "parked", "fault"}
      /\ (pc' = "loop" => committed' = durable /\ state' = durable /\ durable.armed)
  BY <1>0 DEF LoadRecord, after_load
<1>3. IStore' /\ ISaving' /\ IPlace' /\ IWait'
  BY <1>0, <1>2 DEF IInv, IRest, IStore, ISaving, IPlace, IWait,
                    startup_store_state_is_valid, startup_store_retry_ms
<1>4. IAhead'
  BY <1>0, <1>2 DEF IAhead
<1>5. IOwed'
  BY <1>0, <1>2 DEF IInv, IRest, IOwed, Deploying
<1>6. IHeard'
  <2>1. durable.resume_state # "SAT_TO_GROUND_2"
    BY DEF IInv, IRest, IStore, startup_store_state_is_valid
  <2> QED BY <1>0, <1>2, <2>1 DEF IInv, IRest, IHeard, HandshakeCausality, Handshaken
<1> QED BY <1>1, <1>3, <1>4, <1>5, <1>6 DEF IInv, IRest

LEMMA UnarmedParkStep == ASSUME IInv, UnarmedPark PROVE IInv'
<1>1. PICK d \in Overrun(STARTUP_POLL_MS) : Elapse(d)
  BY DEF UnarmedPark
<1>2. d \in Nat
  BY Numbers DEF Overrun
<1>3. owed' \in Nat /\ owed' <= owed /\ hello' \in 0 .. STARTUP_HELLO_RETRY_MS
  BY <1>1, <1>2, ElapseTypes DEF IInv
<1>4. TypeOK'
  BY <1>3 DEF IInv, TypeOK, UnarmedPark
<1>5. /\ pc = "parked" /\ ~pyro' /\ UNCHANGED <<durable, committed, pending, pc, heard>>
      /\ pending = NoRecord
  BY DEF UnarmedPark, IInv, IRest, IStore
<1>6. IStore' /\ IAhead' /\ ISaving' /\ IPlace' /\ IWait'
  BY <1>5 DEF IInv, IRest, IStore, IAhead, ISaving, IPlace, IWait,
              startup_store_state_is_valid, startup_store_retry_ms
<1>7. IOwed'
  <2>1. durable.remaining_ms \in Nat /\ owed \in Nat
    BY Fields DEF IInv, TypeOK
  <2> QED BY <1>3, <1>5, <2>1 DEF IInv, IRest, IOwed, Deploying
<1>8. IHeard'
  BY <1>5 DEF IInv, IRest, IHeard, HandshakeCausality, Handshaken
<1> QED BY <1>4, <1>6, <1>7, <1>8 DEF IInv, IRest

LEMMA SaveOkStep == ASSUME IInv, SaveOk PROVE IInv'
<1>0. /\ pc = "saving" /\ pending # NoRecord /\ pending \in StartupStoreState
      /\ durable' = pending /\ committed' = pending /\ pending' = NoRecord
      /\ pc' = resumeAt /\ unsaved' = IF resumeAt = "sleep" THEN 0 ELSE unsaved
      /\ UNCHANGED <<resumeAt, state, remaining, lag, timer, hello, pyro, inbox, eligible, calm,
                     owed, heard, queued>>
  BY DEF SaveOk, Store!Acknowledge, IInv, TypeOK
<1>1. TypeOK'
  BY <1>0 DEF IInv, TypeOK
<1>2. /\ state = pending /\ IsUpdate(durable, pending) /\ startup_store_state_is_valid(pending)
      /\ resumeAt = "sleep" => /\ Waits(pending) /\ pending.remaining_ms = remaining
                               /\ lag = 0 /\ owed <= remaining
      /\ resumeAt = "reserved" => IsReservation(pending) /\ owed = 0
      /\ resumeAt \in {"delay", "sleep", "reserved"}
      /\ remaining \in Nat
  BY <1>0 DEF IInv, IRest, ISaving, IStore, TypeOK
<1>3. IStore' /\ ISaving'
  BY <1>0, <1>2 DEF IStore, ISaving, startup_store_state_is_valid, startup_store_retry_ms
<1>4. IAhead'
  BY <1>0, <1>2 DEF IAhead, IsUpdate
<1>5. IPlace'
  BY <1>0, <1>2 DEF IInv, IRest, IPlace, IsReservation, startup_store_retry_ms
<1>6. IWait'
  BY <1>0, <1>2, Numbers DEF IWait, Waits, Less
<1>7. IOwed'
  BY <1>0, <1>2 DEF IInv, IRest, IOwed, Deploying
<1>8. IHeard'
  <2>1. pending.resume_state # "SAT_TO_GROUND_2"
    BY <1>2 DEF startup_store_state_is_valid
  <2> QED BY <1>0, <1>2, <2>1 DEF IInv, IRest, IHeard, HandshakeCausality, Handshaken
<1> QED BY <1>1, <1>3, <1>4, <1>5, <1>6, <1>7, <1>8 DEF IInv, IRest

\* A save that failed, or that a reset cut: the media holds the record or
\* the one before.
LEMMA OldOrNewOutcomes ==
  ASSUME IInv, pending # NoRecord, durable' \in Store!OldOrNew
  PROVE  /\ pc = "saving" /\ IsUpdate(durable, pending)
         /\ durable' \in {durable, pending}
BY DEF IInv, IRest, IStore, ISaving, Store!OldOrNew

\* What either record on the media satisfies.
LEMMA DurableOutcome ==
  ASSUME IInv, durable' = durable \/ (pending # NoRecord /\ durable' = pending),
         UNCHANGED <<owed, heard>>
  PROVE  /\ durable' \in StartupStoreState /\ startup_store_state_is_valid(durable)'
         /\ (Deploying(durable) => owed <= durable.remaining_ms)'
         /\ HandshakeCausality'
<1>1. CASE durable' = durable
  BY <1>1 DEF IInv, IRest, TypeOK, IStore, IOwed, IHeard, HandshakeCausality, Handshaken,
              Deploying, startup_store_state_is_valid, startup_store_retry_ms
<1>2. CASE pending # NoRecord /\ durable' = pending
  BY <1>2 DEF IInv, IRest, TypeOK, IStore, IOwed, IHeard, HandshakeCausality, Handshaken,
              Deploying, startup_store_state_is_valid, startup_store_retry_ms
<1> QED BY <1>1, <1>2

LEMMA SaveFailsStep == ASSUME IInv, SaveFails PROVE IInv'
<1>0. /\ pc = "saving" /\ pending # NoRecord /\ durable' \in Store!OldOrNew
      /\ pending' = NoRecord /\ pc' = "fault"
      /\ UNCHANGED <<committed, resumeAt, state, remaining, unsaved, lag, timer, hello, pyro, inbox,
                     eligible, calm, owed, heard, queued>>
  BY DEF SaveFails, Store!Abandon
<1>1. durable' = durable \/ durable' = pending
  BY <1>0, OldOrNewOutcomes
<1>2. /\ durable' \in StartupStoreState /\ startup_store_state_is_valid(durable)'
      /\ (Deploying(durable) => owed <= durable.remaining_ms)'
      /\ HandshakeCausality'
  BY <1>0, <1>1, DurableOutcome
<1>3. TypeOK'
  BY <1>0, <1>2 DEF IInv, TypeOK
<1>4. ~pyro'
  BY <1>0 DEF IInv, IRest, IPlace
<1> QED BY <1>0, <1>2, <1>3, <1>4
        DEF IInv, IRest, IStore, IAhead, ISaving, IPlace, IWait, IOwed, IHeard

\* Reset and startup_fault: RAM is gone, the record is one of two.
LEMMA ForgetStep ==
  ASSUME IInv, Forget, Store!Reset, UNCHANGED <<calm, owed, heard>>, eligible' \in BOOLEAN,
         inbox' \in Seq(Messages), Len(inbox') <= InboxCap
  PROVE  IInv'
<1>0. /\ pc' = "off" /\ resumeAt' = "delay" /\ state' = NoState /\ pending' = NoRecord
      /\ committed' = NoRecord
      /\ remaining' = 0 /\ unsaved' = 0 /\ lag' = 0 /\ timer' = 0
      /\ hello' = STARTUP_HELLO_RETRY_MS /\ pyro' = FALSE /\ queued' = FALSE
  BY DEF Forget, Store!Reset
<1>1. durable' = durable \/ (pending # NoRecord /\ durable' = pending)
  <2>1. CASE pending = NoRecord
    BY <2>1 DEF Store!Reset
  <2>2. CASE pending # NoRecord
    BY <2>2, OldOrNewOutcomes DEF Store!Reset
  <2> QED BY <2>1, <2>2
<1>2. /\ durable' \in StartupStoreState /\ startup_store_state_is_valid(durable)'
      /\ (Deploying(durable) => owed <= durable.remaining_ms)'
      /\ HandshakeCausality'
  BY <1>1, DurableOutcome
<1>3. STARTUP_HELLO_RETRY_MS \in 0 .. STARTUP_HELLO_RETRY_MS /\ NoState \in StartupStoreState
  BY Numbers
<1>4. TypeOK'
  BY <1>0, <1>2, <1>3 DEF IInv, TypeOK
<1>5. IRest'
  BY <1>0, <1>2 DEF IRest, IStore, IAhead, ISaving, IPlace, IWait, IOwed, IHeard
<1> QED BY <1>4, <1>5 DEF IInv

LEMMA ResetSteps == ASSUME IInv, StartupFault \/ Reset PROVE IInv'
<1>1. inbox \in Seq(Messages) /\ Len(inbox) <= InboxCap /\ eligible \in BOOLEAN
  BY DEF IInv, TypeOK
<1>2. CASE StartupFault
  BY <1>1, <1>2, ForgetStep DEF StartupFault
<1>3. CASE Reset
  <2>1. inbox' \in Seq(Messages) /\ Len(inbox') <= InboxCap
    <3>1. <<>> \in Seq(Messages) /\ Len(<<>>) = 0
      BY EmptySeq
    <3>2. inbox' = inbox \/ inbox' = <<>>
      BY <1>3 DEF Reset
    <3>3. CASE inbox' = <<>>
      BY <3>1, <3>3, Numbers
    <3> QED BY <1>1, <3>2, <3>3
  <2> QED BY <1>1, <1>3, <2>1, ForgetStep DEF Reset
<1> QED BY <1>2, <1>3

LEMMA WorldSteps ==
  ASSUME IInv, Uplink \/ Battery \/ Settle \/ Burning \/ UNCHANGED vars
  PROVE  IInv'
<1>0. UNCHANGED core
  BY DEF Uplink, Battery, Settle, Burning, vars, core
<1>1. IRest'
  BY <1>0, SameCore DEF IInv
<1>2. inbox' \in Seq(Messages) /\ Len(inbox') <= InboxCap
  <2>1. inbox \in Seq(Messages) /\ Len(inbox) <= InboxCap
    BY DEF IInv, TypeOK
  <2>2. CASE Uplink
    <3>1. PICK message \in Messages : inbox' = Append(inbox, message)
      BY <2>2 DEF Uplink
    <3>2. inbox' \in Seq(Messages) /\ Len(inbox') = Len(inbox) + 1 /\ Len(inbox) \in Nat
      BY <2>1, <3>1, AppendProperties, LenProperties
    <3>3. Len(inbox) < InboxCap /\ InboxCap \in Nat
      BY <2>2, Numbers DEF Uplink
    <3> QED BY <3>2, <3>3
  <2>3. CASE Battery \/ Settle \/ Burning \/ UNCHANGED vars
    BY <2>1, <2>3 DEF Battery, Settle, Burning, vars
  <2> QED BY <2>2, <2>3
<1>3. timer' \in Nat
  <2>1. timer \in Nat
    BY DEF IInv, TypeOK
  <2>2. CASE Burning
    <3>1. PICK d \in Overrun(1) : timer' = timer + d
      BY <2>2 DEF Burning
    <3> QED BY <2>1, <3>1, Numbers DEF Overrun
  <2> QED BY <2>1, <2>2 DEF Uplink, Battery, Settle, vars
<1>4. eligible' \in BOOLEAN /\ calm' \in BOOLEAN
  BY Zenon DEF IInv, TypeOK, Uplink, Battery, Settle, Burning, vars, outside
<1>5. hello' = hello /\ queued' = queued
  BY DEF Uplink, Battery, Settle, Burning, vars
<1>6. TypeOK'
  BY <1>0, <1>2, <1>3, <1>4, <1>5 DEF IInv, TypeOK, core
<1> QED BY <1>1, <1>6 DEF IInv
-----------------------------------------------------------------------------
(* The sequence, where it goes on without a save.                          *)

\* What holds of the record in RAM at every place of the sequence.
LEMMA RamFacts ==
  ASSUME IInv, pc \in Active
  PROVE  /\ durable \in StartupStoreState /\ state \in StartupStoreState
         /\ startup_store_state_is_valid(durable)
         /\ committed = durable /\ pending = NoRecord
         /\ state.attempts_used = durable.attempts_used /\ state.armed /\ durable.armed
         /\ Deploying(state) => owed <= state.remaining_ms
         /\ owed \in Nat /\ remaining \in Nat /\ unsaved \in Nat /\ lag \in Nat /\ timer \in Nat
         /\ ~pyro \/ pc = "burn"
BY DEF IInv, IRest, TypeOK, IStore, IAhead, IOwed, IPlace

\* Steps that only move pc between places that ask nothing of their own.
LEMMA PlainSteps ==
  ASSUME IInv, NotEligible \/ HelloPaced \/ HandOff \/ FirstAttempt
  PROVE  IInv'
<1>0. /\ UNCHANGED <<durable, committed, pending, resumeAt, state, remaining, unsaved, lag, timer,
                     hello, pyro, inbox, eligible, calm, owed, heard, queued>>
      /\ \/ pc = "gate" /\ pc' = "delay"
         \/ pc = "loop" /\ pc' \in {"delay", "ops"}
         \/ pc = "loop" /\ pc' = "gate" /\ state.resume_state = "WAIT_POWER_ON"
  BY DEF NotEligible, HelloPaced, HandOff, FirstAttempt, At
<1>1. TypeOK'
  BY <1>0 DEF IInv, TypeOK
<1>2. IAhead'
  BY <1>0 DEF IInv, IRest, IAhead
<1>3. IPlace' /\ IWait'
  BY <1>0 DEF IInv, IRest, IPlace, IWait
<1>4. owed' \in Nat /\ owed' <= owed
  BY <1>0 DEF IInv, TypeOK
<1>5. /\ Deploying(state') => owed' <= state'.remaining_ms
      /\ state'.resume_state = "SAT_TO_GROUND_2" => "ACK" \in heard'
  BY <1>0 DEF IInv, IRest, IOwed, IHeard
<1>6. IRest'
  BY <1>0, <1>2, <1>3, <1>4, <1>5, MoveStep
<1> QED BY <1>1, <1>6 DEF IInv

LEMMA EnterWaitStep == ASSUME IInv, EnterWait PROVE IInv'
<1>0. /\ pc = "loop" /\ pc' = "wait" /\ Waits(state)
      /\ remaining' = state.remaining_ms /\ unsaved' = 0 /\ lag' = 0
      /\ UNCHANGED <<durable, committed, pending, resumeAt, state, timer, hello, pyro, inbox,
                     eligible, calm, owed, heard, queued>>
  BY DEF EnterWait, Waits
<1>1. state.remaining_ms \in Nat /\ durable.remaining_ms \in Nat /\ owed \in Nat
  BY <1>0, RamFacts, Fields
<1>2. TypeOK'
  BY <1>0, <1>1 DEF IInv, TypeOK
<1>3. IAhead' /\ IPlace'
  BY <1>0 DEF IInv, IRest, IAhead, IPlace
<1>4. /\ Deploying(state) => owed <= state.remaining_ms
      /\ state.resume_state = "SAT_TO_GROUND_2" => "ACK" \in heard
  BY <1>0 DEF IInv, IRest, IOwed, IHeard
<1>5. IWait'
  <2>1. \/ state.remaining_ms = durable.remaining_ms
        \/ state.remaining_ms = 0 /\ durable.remaining_ms <= Slack
    BY <1>0 DEF IInv, IRest, IAhead
  <2>2. owed <= state.remaining_ms
    BY <1>0, <1>4 DEF Waits, Deploying
  <2>3. Waits(state')
    BY <1>0 DEF Waits
  <2> QED BY <1>0, <1>1, <2>1, <2>2, <2>3, Numbers DEF IWait, Less
<1>6. IRest'
  BY <1>0, <1>1, <1>3, <1>4, <1>5, MoveStep
<1> QED BY <1>2, <1>6 DEF IInv

LEMMA WaitDeafStep == ASSUME IInv, WaitDeaf PROVE IInv'
<1>0. /\ pc = "wait" /\ pc' = "count"
      /\ UNCHANGED <<durable, committed, pending, resumeAt, state, remaining, unsaved, lag, timer,
                     hello, pyro, inbox, eligible, calm, owed, heard, queued>>
  BY DEF WaitDeaf
<1>1. TypeOK'
  BY <1>0 DEF IInv, TypeOK
<1>2. IAhead' /\ IPlace' /\ IWait'
  BY <1>0 DEF IInv, IRest, IAhead, IPlace, IWait, Waits
<1>3. /\ Deploying(state') => owed' <= state'.remaining_ms
      /\ state'.resume_state = "SAT_TO_GROUND_2" => "ACK" \in heard'
      /\ owed' \in Nat /\ owed' <= owed
  BY <1>0 DEF IInv, IRest, IOwed, IHeard, TypeOK
<1>4. IRest'
  BY <1>0, <1>2, <1>3, MoveStep
<1> QED BY <1>1, <1>4 DEF IInv

LEMMA WaitSleepStep == ASSUME IInv, WaitSleep PROVE IInv'
<1>0. /\ pc = "sleep" /\ pc' = "wait"
      /\ UNCHANGED <<durable, committed, pending, resumeAt, state, remaining, unsaved, timer,
                     pyro, inbox, eligible, calm, heard, queued>>
  BY DEF WaitSleep
<1> DEFINE nap == IF listen THEN Lesser(until_checkpoint, STARTUP_POLL_MS) ELSE until_checkpoint
<1>1. PICK d \in Overrun(nap) : lag' = lag + d /\ Elapse(d)
  BY DEF WaitSleep
<1>2. /\ remaining \in Nat /\ unsaved \in Nat /\ lag = 0 /\ owed \in Nat
      /\ unsaved < STARTUP_CHECKPOINT_MS /\ owed <= remaining
      /\ Waits(state)
  BY <1>0, RamFacts DEF IInv, IRest, IWait, Less
<1>3. nap \in Nat /\ nap + unsaved <= STARTUP_CHECKPOINT_MS
  <2>1. until_checkpoint \in Nat /\ until_checkpoint + unsaved <= STARTUP_CHECKPOINT_MS
    BY <1>2, Numbers DEF until_checkpoint, Lesser
  <2> QED BY <1>2, <2>1, Numbers DEF Lesser
<1> HIDE DEF nap
<1>4. d \in Nat /\ d + unsaved <= Slack
  BY <1>2, <1>3, Numbers DEF Overrun
<1>5. owed' \in Nat /\ owed' = Less(owed, d) /\ owed' <= owed /\ hello' \in 0 .. STARTUP_HELLO_RETRY_MS
  BY <1>1, <1>4, ElapseTypes DEF IInv
<1>6. lag' = d
  BY <1>1, <1>2, <1>4
<1>7. TypeOK'
  BY <1>0, <1>4, <1>5, <1>6 DEF IInv, TypeOK
<1>8. IAhead' /\ IPlace'
  BY <1>0 DEF IInv, IRest, IAhead, IPlace
<1>9. IWait'
  <2>1. owed' <= Less(remaining, d)
    BY <1>2, <1>4, <1>5 DEF Less
  <2> QED BY <1>0, <1>2, <1>4, <1>6, <2>1 DEF IInv, IRest, IWait, Waits, Less
<1>10. /\ Deploying(state') => owed' <= state'.remaining_ms
       /\ state'.resume_state = "SAT_TO_GROUND_2" => "ACK" \in heard'
  <2>1. state.remaining_ms \in Nat /\ (Deploying(state) => owed <= state.remaining_ms)
    BY <1>0, RamFacts, Fields
  <2> QED BY <1>0, <1>2, <1>5, <2>1 DEF IInv, IRest, IHeard
<1>11. IRest'
  BY <1>0, <1>5, <1>8, <1>9, <1>10, MoveStep
<1> QED BY <1>7, <1>11 DEF IInv

LEMMA BurnOverStep == ASSUME IInv, BurnOver PROVE IInv'
<1>0. /\ pc = "burn" /\ pc' = "delay" /\ pyro' = FALSE /\ timer' = 0
      /\ UNCHANGED <<durable, committed, pending, resumeAt, state, remaining, unsaved, lag,
                     hello, inbox, eligible, calm, owed, heard, queued>>
  BY DEF BurnOver
<1>1. TypeOK'
  BY <1>0 DEF IInv, TypeOK
<1>2. IAhead' /\ IPlace' /\ IWait'
  BY <1>0 DEF IInv, IRest, IAhead, IPlace, IWait
<1>3. /\ Deploying(state') => owed' <= state'.remaining_ms
      /\ state'.resume_state = "SAT_TO_GROUND_2" => "ACK" \in heard'
      /\ owed' \in Nat /\ owed' <= owed
  BY <1>0 DEF IInv, IRest, IOwed, IHeard, TypeOK
<1>4. IRest'
  BY <1>0, <1>2, <1>3, MoveStep
<1> QED BY <1>1, <1>4 DEF IInv

LEMMA DelayStep == ASSUME IInv, Delay PROVE IInv'
<1>0. /\ pc = "delay" /\ pc' = "loop" /\ queued' = FALSE
      /\ UNCHANGED <<durable, committed, pending, resumeAt, state, remaining, unsaved, lag,
                     pyro, inbox, eligible, calm, heard>>
  BY DEF Delay
<1>1. PICK d \in Overrun(STARTUP_POLL_MS) :
        /\ Elapse(d)
        /\ timer' = IF state.resume_state = "GROUND_TO_SAT_1"
                     THEN Lesser(timer + d, STARTUP_RESPONSE_MS) ELSE timer
  BY DEF Delay
<1>2. d \in Nat
  BY Numbers DEF Overrun
<1>3. owed' \in Nat /\ owed' <= owed /\ hello' \in 0 .. STARTUP_HELLO_RETRY_MS
  BY <1>1, <1>2, ElapseTypes DEF IInv
<1>4. timer' \in Nat
  BY <1>0, <1>1, <1>2, RamFacts, Numbers DEF Lesser
<1>5. TypeOK'
  BY <1>0, <1>3, <1>4 DEF IInv, TypeOK
<1>6. IAhead' /\ IPlace' /\ IWait'
  BY <1>0 DEF IInv, IRest, IAhead, IPlace, IWait
<1>7. /\ Deploying(state') => owed' <= state'.remaining_ms
      /\ state'.resume_state = "SAT_TO_GROUND_2" => "ACK" \in heard'
  <2>1. state.remaining_ms \in Nat /\ owed \in Nat /\ (Deploying(state) => owed <= state.remaining_ms)
    BY <1>0, RamFacts, Fields
  <2> QED BY <1>0, <1>3, <2>1 DEF IInv, IRest, IHeard
<1>8. IRest'
  BY <1>0, <1>3, <1>6, <1>7, MoveStep
<1> QED BY <1>5, <1>8 DEF IInv

\* HELLO and the wait for its ACK change the resume state in RAM only, among
\* the three states of the handshake.
LEMMA HandshakeMove ==
  ASSUME IInv, pc = "loop", pc' = "delay", NEW m \in MCUState,
         state' = [state EXCEPT !.resume_state = m],
         \/ m = state.resume_state
         \/ /\ m \in {"SAT_TO_GROUND_1", "GROUND_TO_SAT_1", "SAT_TO_GROUND_2"}
            /\ state.resume_state \in {"SAT_TO_GROUND_1", "GROUND_TO_SAT_1"},
         m = "SAT_TO_GROUND_2" => "ACK" \in heard',
         heard \subseteq heard',
         UNCHANGED <<durable, committed, pending, remaining, unsaved, lag, pyro, owed>>
  PROVE  IRest' /\ state' \in StartupStoreState
<1>1. durable \in StartupStoreState /\ state \in StartupStoreState /\ owed \in Nat
  BY RamFacts
<1>2. /\ state' \in StartupStoreState
      /\ state'.resume_state = m /\ state'.remaining_ms = state.remaining_ms
      /\ state'.attempts_used = state.attempts_used /\ state'.armed = state.armed
  BY <1>1 DEF StartupStoreState
<1>3. /\ state.attempts_used = durable.attempts_used /\ state.armed /\ durable.armed
      /\ \/ state.resume_state = durable.resume_state
         \/ /\ state.resume_state = "WAIT_POWER_ON"
            /\ durable.resume_state = "WAITING_FOR_UPLINK"
            /\ state.remaining_ms = 0
         \/ /\ state.resume_state \in {"GROUND_TO_SAT_1", "SAT_TO_GROUND_2"}
            /\ durable.resume_state = "SAT_TO_GROUND_1"
      /\ \/ state.remaining_ms = durable.remaining_ms
         \/ state.remaining_ms = 0 /\ durable.remaining_ms <= Slack
  BY DEF IInv, IRest, IAhead
<1>4. startup_store_state_is_valid(durable)
  BY RamFacts
<1>5. durable.resume_state # "GROUND_TO_SAT_1"
  BY <1>4 DEF startup_store_state_is_valid
<1>6. IAhead'
  BY <1>2, <1>3, <1>5 DEF IAhead
<1>7. IPlace' /\ IWait'
  BY DEF IInv, IRest, IPlace, IWait
<1>8. Deploying(state') => owed' <= state'.remaining_ms
  BY <1>2, RamFacts DEF Deploying
<1>9. IRest'
  BY <1>1, <1>2, <1>6, <1>7, <1>8, MoveStep
<1> QED BY <1>2, <1>9

LEMMA HelloStep == ASSUME IInv, Hello PROVE IInv'
<1>0. /\ pc = "loop" /\ pc' = "delay" /\ state.resume_state = "SAT_TO_GROUND_1" /\ hello' = 0
      /\ UNCHANGED <<durable, committed, pending, resumeAt, remaining, unsaved, lag, pyro, inbox,
                     eligible, calm, owed, heard, queued>>
      /\ \/ state' = [state EXCEPT !.resume_state = "GROUND_TO_SAT_1"] /\ timer' = 0
         \/ state' = state /\ timer' = timer
  BY DEF Hello, At
<1>1. /\ state \in StartupStoreState /\ timer \in Nat
      /\ 0 \in 0 .. STARTUP_HELLO_RETRY_MS
      /\ "GROUND_TO_SAT_1" \in MCUState /\ "SAT_TO_GROUND_1" \in MCUState
  BY <1>0, RamFacts, Numbers DEF MCUState
<1>2. state = [state EXCEPT !.resume_state = "SAT_TO_GROUND_1"]
  BY <1>0, <1>1 DEF StartupStoreState
<1>3. IRest' /\ state' \in StartupStoreState
  BY <1>0, <1>1, <1>2, HandshakeMove
<1>4. TypeOK'
  BY <1>0, <1>1, <1>3 DEF IInv, TypeOK
<1> QED BY <1>3, <1>4 DEF IInv

LEMMA AwaitAckStep == ASSUME IInv, AwaitAck PROVE IInv'
<1>0. /\ pc = "loop" /\ pc' = "delay" /\ state.resume_state = "GROUND_TO_SAT_1"
      /\ UNCHANGED <<durable, committed, pending, resumeAt, remaining, unsaved, lag, timer, hello,
                     pyro, eligible, calm, owed, queued>>
  BY DEF AwaitAck, At
<1>1. PICK message \in Messages \cup {"NONE"} :
        Pull(message) /\ Hears(message, "ACK")
        /\ state' = [state EXCEPT !.resume_state = after_pull(message)]
  BY DEF AwaitAck
<1>2. inbox' \in Seq(Messages) /\ Len(inbox') <= InboxCap
  BY <1>1, PullTypes DEF IInv
<1>3. heard' \subseteq {"START", "ACK"} /\ heard \subseteq heard'
      /\ (message = "ACK" => "ACK" \in heard')
  BY <1>1, HearsTypes DEF IInv
<1>4. /\ after_pull(message) \in {"SAT_TO_GROUND_1", "GROUND_TO_SAT_1", "SAT_TO_GROUND_2"}
      /\ after_pull(message) = "SAT_TO_GROUND_2" => message = "ACK"
      /\ after_pull(message) \in MCUState
  BY DEF after_pull, MCUState
<1>5. IRest' /\ state' \in StartupStoreState
  BY <1>0, <1>1, <1>3, <1>4, HandshakeMove
<1>6. TypeOK'
  BY <1>0, <1>2, <1>3, <1>5 DEF IInv, TypeOK
<1> QED BY <1>5, <1>6 DEF IInv
-----------------------------------------------------------------------------
(* The sequence, where it listens or saves.                                *)

\* What a save of the sequence leaves alone.
LEMMA SaveTypes ==
  ASSUME IInv, NEW record \in StartupStoreState, NEW next \in {"delay", "sleep", "reserved"},
         Save(record, next)
  PROVE  /\ durable' \in StartupStoreState /\ committed' \in StartupStoreState \cup {NoRecord}
         /\ pending' \in StartupStoreState \cup {NoRecord} /\ state' \in StartupStoreState
         /\ pc' \in Places /\ resumeAt' \in {"delay", "sleep", "reserved"}
BY DEF IInv, TypeOK, Save, Store!Begin

\* startup_enter_handshake, wherever a START is heard.
LEMMA EnterHandshake ==
  ASSUME IInv, pc \in Active, pc # "burn", startup_enter_handshake,
         state.resume_state \in {"WAIT_POWER_ON", "WAITING_FOR_UPLINK"},
         "START" \in heard', heard \subseteq heard', ~pyro', UNCHANGED owed
  PROVE  /\ IRest'
         /\ durable' \in StartupStoreState /\ committed' \in StartupStoreState \cup {NoRecord}
         /\ pending' \in StartupStoreState \cup {NoRecord} /\ state' \in StartupStoreState
         /\ pc' \in Places /\ resumeAt' \in {"delay", "sleep", "reserved"}
<1> DEFINE record == [state EXCEPT !.resume_state = "SAT_TO_GROUND_1", !.remaining_ms = 0]
<1>1. Save(record, "delay")
  BY DEF startup_enter_handshake
<1>2. /\ durable \in StartupStoreState /\ state \in StartupStoreState
      /\ startup_store_state_is_valid(durable)
      /\ state.attempts_used = durable.attempts_used /\ state.armed /\ durable.armed
  BY RamFacts
<1>3. "SAT_TO_GROUND_1" \in MCUState
  BY DEF MCUState
<1>4. /\ record \in StartupStoreState
      /\ record.resume_state = "SAT_TO_GROUND_1" /\ record.remaining_ms = 0
      /\ record.attempts_used = state.attempts_used /\ record.armed = state.armed
  BY <1>2, <1>3 DEF StartupStoreState
<1> HIDE DEF record
<1>5. durable.resume_state \in {"WAIT_POWER_ON", "WAITING_FOR_UPLINK"}
  BY DEF IInv, IRest, IAhead
<1>6. durable.attempts_used \in Nat
  BY <1>2, Fields
<1>7. startup_store_state_is_valid(record)
  BY <1>2, <1>4 DEF startup_store_state_is_valid
<1>8. IsUpdate(durable, record)
  <2>1. Stage(record) = 2 /\ Stage(durable) = 1
    BY <1>4, <1>5 DEF Stage
  <2> QED BY <1>2, <1>4, <1>5, <1>6, <2>1 DEF IsUpdate
<1>9. ~Deploying(record) /\ record.resume_state # "MAIN_OPS"
  BY <1>4 DEF Deploying
<1>10. IRest'
  BY <1>1, <1>4, <1>7, <1>8, <1>9, SaveStep
<1> QED BY <1>1, <1>4, <1>10, SaveTypes

LEMMA WaitListenStep == ASSUME IInv, WaitListen PROVE IInv'
<1>0. /\ pc = "wait" /\ state.resume_state = "WAITING_FOR_UPLINK"
      /\ UNCHANGED <<timer, hello, pyro, eligible, calm, owed, queued>>
  BY DEF WaitListen, listen
<1>1. PICK message \in Messages \cup {"NONE"} :
        /\ Pull(message) /\ Hears(message, "START")
        /\ \/ message = "START" /\ startup_enter_handshake /\ LeaveWait
           \/ message # "START" /\ Go("count") /\ UNCHANGED <<state, waiting>>
  BY DEF WaitListen
<1>2. inbox' \in Seq(Messages) /\ Len(inbox') <= InboxCap
  BY <1>1, PullTypes DEF IInv
<1>3. heard' \subseteq {"START", "ACK"} /\ heard \subseteq heard'
      /\ (message = "START" => "START" \in heard')
  BY <1>1, HearsTypes DEF IInv
<1>4. ~pyro
  BY <1>0, RamFacts
<1>5. CASE message = "START"
  <2>1. /\ IRest'
        /\ durable' \in StartupStoreState /\ committed' \in StartupStoreState \cup {NoRecord}
        /\ pending' \in StartupStoreState \cup {NoRecord} /\ state' \in StartupStoreState
        /\ pc' \in Places /\ resumeAt' \in {"delay", "sleep", "reserved"}
    BY <1>0, <1>1, <1>3, <1>4, <1>5, EnterHandshake
  <2>2. remaining' = 0 /\ unsaved' = 0 /\ lag' = 0
    BY <1>1, <1>5 DEF LeaveWait
  <2>3. TypeOK'
    BY <1>0, <1>2, <1>3, <2>1, <2>2 DEF IInv, TypeOK
  <2> QED BY <2>1, <2>3 DEF IInv
<1>6. CASE message # "START"
  <2>1. /\ pc' = "count"
        /\ UNCHANGED <<durable, committed, pending, resumeAt, state, remaining, unsaved, lag>>
    BY <1>1, <1>6
  <2>2. TypeOK'
    BY <1>0, <1>2, <1>3, <2>1 DEF IInv, TypeOK
  <2>3. IAhead' /\ IPlace' /\ IWait'
    BY <1>0, <1>4, <2>1 DEF IInv, IRest, IAhead, IPlace, IWait, Waits
  <2>4. /\ Deploying(state') => owed' <= state'.remaining_ms
        /\ state'.resume_state # "SAT_TO_GROUND_2"
        /\ owed' \in Nat /\ owed' <= owed
    BY <1>0, <2>1 DEF IInv, IRest, IOwed, TypeOK
  <2>5. IRest'
    BY <1>0, <1>3, <2>1, <2>3, <2>4, MoveStep
  <2> QED BY <2>2, <2>5 DEF IInv
<1> QED BY <1>5, <1>6

LEMMA RetryListensStep == ASSUME IInv, RetryListens PROVE IInv'
<1>0. /\ pc = "loop" /\ state.resume_state = "WAIT_POWER_ON"
      /\ queued' = (calm /\ \E i \in 1 .. Len(inbox) : inbox[i] = "START")
      /\ UNCHANGED <<remaining, unsaved, lag, timer, hello, pyro, eligible, calm, owed>>
  BY DEF RetryListens, At
<1>1. PICK message \in Messages \cup {"NONE"} :
        /\ Pull(message) /\ Hears(message, "START")
        /\ \/ message = "START" /\ startup_enter_handshake
           \/ message # "START" /\ Go("gate") /\ UNCHANGED state
  BY DEF RetryListens
<1>2. inbox' \in Seq(Messages) /\ Len(inbox') <= InboxCap
  BY <1>1, PullTypes DEF IInv
<1>3. heard' \subseteq {"START", "ACK"} /\ heard \subseteq heard'
      /\ (message = "START" => "START" \in heard')
  BY <1>1, HearsTypes DEF IInv
<1>4. ~pyro /\ queued' \in BOOLEAN
  <2>1. queued' \in BOOLEAN
    BY <1>0, Zenon
  <2> QED BY <1>0, <2>1, RamFacts
<1>5. CASE message = "START"
  <2>1. /\ IRest'
        /\ durable' \in StartupStoreState /\ committed' \in StartupStoreState \cup {NoRecord}
        /\ pending' \in StartupStoreState \cup {NoRecord} /\ state' \in StartupStoreState
        /\ pc' \in Places /\ resumeAt' \in {"delay", "sleep", "reserved"}
    BY <1>0, <1>1, <1>3, <1>4, <1>5, EnterHandshake
  <2>2. TypeOK'
    BY <1>0, <1>2, <1>3, <1>4, <2>1 DEF IInv, TypeOK
  <2> QED BY <2>1, <2>2 DEF IInv
<1>6. CASE message # "START"
  <2>1. /\ pc' = "gate"
        /\ UNCHANGED <<durable, committed, pending, resumeAt, state>>
    BY <1>1, <1>6
  <2>2. TypeOK'
    BY <1>0, <1>2, <1>3, <1>4, <2>1 DEF IInv, TypeOK
  <2>3. IAhead' /\ IPlace' /\ IWait'
    BY <1>0, <1>4, <2>1 DEF IInv, IRest, IAhead, IPlace, IWait
  <2>4. /\ Deploying(state') => owed' <= state'.remaining_ms
        /\ state'.resume_state # "SAT_TO_GROUND_2"
        /\ owed' \in Nat /\ owed' <= owed
    BY <1>0, <2>1 DEF IInv, IRest, IOwed, TypeOK
  <2>5. IRest'
    BY <1>0, <1>3, <2>1, <2>3, <2>4, MoveStep
  <2> QED BY <2>2, <2>5 DEF IInv
<1> QED BY <1>5, <1>6

\* The reservation of the attempt that is due.
LEMMA Reservation ==
  ASSUME IInv, pc = "gate"
  PROVE  /\ reservation \in StartupStoreState /\ startup_store_state_is_valid(reservation)
         /\ IsUpdate(durable, reservation) /\ IsReservation(reservation)
         /\ owed = 0 /\ ~Handshaken(reservation)
<1>1. /\ durable \in StartupStoreState /\ state \in StartupStoreState
      /\ startup_store_state_is_valid(durable)
      /\ state.attempts_used = durable.attempts_used /\ state.armed /\ durable.armed
      /\ Deploying(state) => owed <= state.remaining_ms
      /\ owed \in Nat
  BY RamFacts
<1>2. durable.attempts_used \in Nat /\ durable.attempts_used <= STARTUP_ATTEMPT_LIMIT
  BY <1>1, Fields DEF startup_store_state_is_valid
<1>3. /\ attempts \in Nat /\ attempts >= 1 /\ attempts <= STARTUP_ATTEMPT_LIMIT
      /\ attempts >= durable.attempts_used
      /\ attempts = durable.attempts_used => attempts = STARTUP_ATTEMPT_LIMIT
      /\ startup_store_retry_ms(attempts) \in Nat
  BY <1>1, <1>2, Numbers DEF attempts, Lesser
<1>4. /\ reservation.resume_state = "WAITING_FOR_UPLINK"
      /\ reservation.attempts_used = attempts
      /\ reservation.remaining_ms = startup_store_retry_ms(attempts)
      /\ reservation.armed = state.armed
  BY <1>1 DEF StartupStoreState, reservation
<1>5. reservation \in StartupStoreState
  BY <1>1, <1>3 DEF StartupStoreState, reservation, MCUState
<1>6. startup_store_state_is_valid(reservation)
  BY <1>1, <1>3, <1>4 DEF startup_store_state_is_valid
<1>7. state.resume_state = "WAIT_POWER_ON"
      /\ durable.resume_state \in {"WAIT_POWER_ON", "WAITING_FOR_UPLINK"}
  BY DEF IInv, IRest, IAhead, IPlace
<1>8. IsUpdate(durable, reservation)
  <2>1. Stage(reservation) = 1 /\ Stage(durable) = 1
    BY <1>4, <1>7 DEF Stage
  <2> QED BY <1>1, <1>3, <1>4, <1>7, <2>1 DEF IsUpdate
<1>9. state.remaining_ms = 0
  BY <1>1, <1>7 DEF IInv, IRest, IAhead, startup_store_state_is_valid
<1>10. owed = 0
  BY <1>1, <1>7, <1>9 DEF Deploying
<1>11. IsReservation(reservation) /\ ~Handshaken(reservation)
  BY <1>3, <1>4 DEF IsReservation, Handshaken
<1> QED BY <1>5, <1>6, <1>8, <1>10, <1>11

LEMMA ReserveStep == ASSUME IInv, Reserve PROVE IInv'
<1>0. /\ pc = "gate" /\ Save(reservation, "reserved")
      /\ UNCHANGED <<remaining, unsaved, lag, timer, hello, pyro, inbox, eligible, calm,
                     owed, heard, queued>>
  BY DEF Reserve
<1>1. /\ reservation \in StartupStoreState /\ startup_store_state_is_valid(reservation)
      /\ IsUpdate(durable, reservation) /\ IsReservation(reservation)
      /\ owed = 0 /\ ~Handshaken(reservation)
  BY <1>0, Reservation
<1>2. reservation.remaining_ms \in Nat
  BY <1>1, Fields
<1>3. ~pyro'
  BY <1>0, RamFacts
<1>4. IRest'
  BY <1>0, <1>1, <1>2, <1>3, SaveStep DEF Handshaken
<1>5. /\ durable' \in StartupStoreState /\ committed' \in StartupStoreState \cup {NoRecord}
      /\ pending' \in StartupStoreState \cup {NoRecord} /\ state' \in StartupStoreState
      /\ pc' \in Places /\ resumeAt' \in {"delay", "sleep", "reserved"}
  BY <1>0, <1>1, SaveTypes
<1>6. TypeOK'
  BY <1>0, <1>5 DEF IInv, TypeOK
<1> QED BY <1>4, <1>6 DEF IInv

\* The wire goes ON.
LEMMA PyroOnStep ==
  ASSUME IInv, pc = "reserved", PyroOn, heard \subseteq heard',
         heard' \subseteq {"START", "ACK"}, inbox' \in Seq(Messages), Len(inbox') <= InboxCap,
         UNCHANGED <<waiting, hello, eligible, calm, queued>>
  PROVE  IInv'
<1>0. /\ pc' = "burn" /\ pyro' = TRUE /\ timer' = 0
      /\ owed' = startup_store_retry_ms(state.attempts_used)
      /\ UNCHANGED <<durable, committed, pending, resumeAt, state>>
  BY DEF PyroOn
<1>1. /\ state \in StartupStoreState /\ state = durable /\ IsReservation(state)
      /\ durable \in StartupStoreState
  BY RamFacts DEF IInv, IRest, IPlace
<1>2. owed' \in Nat /\ owed' = state.remaining_ms
  BY <1>0, <1>1, Numbers, Fields DEF IsReservation
<1>3. TypeOK'
  BY <1>0, <1>2 DEF IInv, TypeOK
<1>4. IStore' /\ ISaving'
  BY <1>0 DEF IInv, IRest, IStore, ISaving, startup_store_state_is_valid, startup_store_retry_ms
<1>5. IAhead' /\ IWait'
  BY <1>0 DEF IInv, IRest, IAhead, IWait
<1>6. IPlace'
  BY <1>0, <1>1 DEF IPlace, IsReservation, startup_store_retry_ms
<1>7. IOwed'
  <2>1. pending = NoRecord /\ state.remaining_ms \in Nat
    BY <1>1, RamFacts, Fields
  <2> QED BY <1>0, <1>1, <1>2, <2>1 DEF IOwed
<1>8. IHeard'
  BY <1>0 DEF IInv, IRest, IHeard, HandshakeCausality, Handshaken
<1> QED BY <1>3, <1>4, <1>5, <1>6, <1>7, <1>8 DEF IInv, IRest

LEMMA BurnFirstStep == ASSUME IInv, BurnFirst PROVE IInv'
<1>1. heard \subseteq {"START", "ACK"} /\ inbox \in Seq(Messages) /\ Len(inbox) <= InboxCap
  BY DEF IInv, TypeOK
<1>2. heard' = heard /\ inbox' = inbox
  BY DEF BurnFirst
<1> QED BY <1>1, <1>2, PyroOnStep DEF BurnFirst

LEMMA BurnRetryStep == ASSUME IInv, BurnRetry PROVE IInv'
<1>0. pc = "reserved" /\ UNCHANGED <<waiting, hello, eligible, calm, queued>>
  BY DEF BurnRetry
<1>1. PICK message \in Messages \cup {"NONE"} :
        /\ Pull(message) /\ Hears(message, "START")
        /\ \/ message # "START" /\ PyroOn
           \/ /\ message = "START" /\ pyro' = FALSE /\ startup_enter_handshake
              /\ UNCHANGED <<timer, owed>>
  BY DEF BurnRetry
<1>2. inbox' \in Seq(Messages) /\ Len(inbox') <= InboxCap
  BY <1>1, PullTypes DEF IInv
<1>3. heard' \subseteq {"START", "ACK"} /\ heard \subseteq heard'
      /\ (message = "START" => "START" \in heard')
  BY <1>1, HearsTypes DEF IInv
<1>4. CASE message = "START"
  <2>1. state.resume_state = "WAITING_FOR_UPLINK"
    BY <1>0 DEF IInv, IRest, IPlace, IsReservation
  <2>2. /\ IRest'
        /\ durable' \in StartupStoreState /\ committed' \in StartupStoreState \cup {NoRecord}
        /\ pending' \in StartupStoreState \cup {NoRecord} /\ state' \in StartupStoreState
        /\ pc' \in Places /\ resumeAt' \in {"delay", "sleep", "reserved"}
    BY <1>0, <1>1, <1>3, <1>4, <2>1, EnterHandshake
  <2>3. TypeOK'
    BY <1>0, <1>1, <1>2, <1>3, <1>4, <2>2 DEF IInv, TypeOK
  <2> QED BY <2>2, <2>3 DEF IInv
<1>5. CASE message # "START"
  BY <1>0, <1>1, <1>2, <1>3, <1>5, PyroOnStep
<1> QED BY <1>4, <1>5
\* Where a wait stands when the elapsed time is looked at.
LEMMA CountFacts ==
  ASSUME IInv, pc = "count"
  PROVE  /\ durable \in StartupStoreState /\ state \in StartupStoreState
         /\ startup_store_state_is_valid(durable)
         /\ state.attempts_used = durable.attempts_used /\ state.armed /\ durable.armed
         /\ state.resume_state = durable.resume_state /\ Waits(state) /\ ~pyro
         /\ \/ state.remaining_ms = durable.remaining_ms
            \/ state.remaining_ms = 0 /\ durable.remaining_ms <= Slack
         /\ \/ durable.remaining_ms <= remaining + unsaved
            \/ remaining = 0 /\ durable.remaining_ms <= Slack
         /\ remaining <= state.remaining_ms
         /\ unsaved < STARTUP_CHECKPOINT_MS /\ lag + unsaved <= Slack
         /\ owed <= Less(remaining, lag)
         /\ owed \in Nat /\ remaining \in Nat /\ unsaved \in Nat /\ lag \in Nat
         /\ state.remaining_ms \in Nat /\ durable.remaining_ms \in Nat
         /\ durable.attempts_used \in Nat
         /\ step \in Nat /\ step <= lag /\ step <= remaining /\ (step = lag \/ step = remaining)
<1>1. /\ durable \in StartupStoreState /\ state \in StartupStoreState
      /\ startup_store_state_is_valid(durable)
      /\ state.attempts_used = durable.attempts_used /\ state.armed /\ durable.armed /\ ~pyro
      /\ owed \in Nat /\ remaining \in Nat /\ unsaved \in Nat /\ lag \in Nat
  BY RamFacts
<1>2. /\ state.remaining_ms \in Nat /\ durable.remaining_ms \in Nat
      /\ durable.attempts_used \in Nat
  BY <1>1, Fields
<1>3. step \in Nat /\ step <= lag /\ step <= remaining /\ (step = lag \/ step = remaining)
  BY <1>1 DEF step, Lesser
<1>4. state.resume_state = durable.resume_state /\ Waits(state)
  BY DEF IInv, IRest, IWait, IAhead, Waits
<1>5. /\ \/ state.remaining_ms = durable.remaining_ms
         \/ state.remaining_ms = 0 /\ durable.remaining_ms <= Slack
      /\ \/ durable.remaining_ms <= remaining + unsaved
         \/ remaining = 0 /\ durable.remaining_ms <= Slack
      /\ remaining <= state.remaining_ms
      /\ unsaved < STARTUP_CHECKPOINT_MS /\ lag + unsaved <= Slack
      /\ owed <= Less(remaining, lag)
  BY DEF IInv, IRest, IWait, IAhead
<1> QED BY <1>1, <1>2, <1>3, <1>4, <1>5

LEMMA WaitOverStep == ASSUME IInv, WaitOver PROVE IInv'
<1>0. /\ pc = "count" /\ remaining = step /\ remaining' = 0 /\ unsaved' = 0 /\ lag' = 0
      /\ UNCHANGED <<timer, hello, pyro, inbox, eligible, calm, owed, heard, queued>>
  BY DEF WaitOver, LeaveWait
<1>1. /\ durable \in StartupStoreState /\ state \in StartupStoreState
      /\ startup_store_state_is_valid(durable)
      /\ state.attempts_used = durable.attempts_used /\ state.armed /\ durable.armed
      /\ state.resume_state = durable.resume_state /\ Waits(state) /\ ~pyro
      /\ durable.attempts_used \in Nat
  BY <1>0, CountFacts
<1>2. owed = 0 /\ durable.remaining_ms <= Slack
  BY <1>0, CountFacts, Numbers DEF Less
<1>3. CASE listen
  <2>1. /\ pc' = "delay" /\ UNCHANGED <<durable, committed, pending, resumeAt>>
        /\ state' = [state EXCEPT !.remaining_ms = 0, !.resume_state = due_retry]
    BY <1>3 DEF WaitOver
  <2>2. due_retry \in {"WAIT_POWER_ON", "WAITING_FOR_UPLINK"} /\ due_retry \in MCUState
    BY DEF due_retry, MCUState
  <2>3. /\ state' \in StartupStoreState
        /\ state'.resume_state = due_retry /\ state'.remaining_ms = 0
        /\ state'.attempts_used = state.attempts_used /\ state'.armed = state.armed
    BY <1>1, <2>1, <2>2 DEF StartupStoreState
  <2>4. TypeOK'
    BY <1>0, <2>1, <2>3 DEF IInv, TypeOK
  <2>5. IAhead'
    BY <1>1, <1>2, <1>3, <2>1, <2>2, <2>3 DEF IAhead, listen
  <2>6. IPlace' /\ IWait'
    BY <1>0, <1>1, <2>1 DEF IPlace, IWait
  <2>7. /\ owed' \in Nat /\ owed' <= owed /\ owed' <= state'.remaining_ms
        /\ state'.resume_state # "SAT_TO_GROUND_2"
    BY <1>0, <1>2, <2>2, <2>3
  <2>8. IRest'
    BY <1>0, <2>1, <2>5, <2>6, <2>7, MoveStep
  <2> QED BY <2>4, <2>8 DEF IInv
<1>4. CASE ~listen
  <2> DEFINE record == [state EXCEPT !.resume_state = "WAIT_POWER_ON", !.remaining_ms = 0]
  <2>1. Save(record, "delay")
    BY <1>4 DEF WaitOver
  <2>2. /\ record \in StartupStoreState
        /\ record.resume_state = "WAIT_POWER_ON" /\ record.remaining_ms = 0
        /\ record.attempts_used = state.attempts_used /\ record.armed = state.armed
    BY <1>1 DEF StartupStoreState, MCUState
  <2> HIDE DEF record
  <2>3. durable.resume_state = "INITIAL_CHECKS"
    BY <1>1, <1>4 DEF Waits, listen
  <2>4. startup_store_state_is_valid(record)
    BY <1>1, <2>2 DEF startup_store_state_is_valid
  <2>5. IsUpdate(durable, record)
    <3>1. Stage(record) = 1 /\ Stage(durable) = 0
      BY <2>2, <2>3 DEF Stage
    <3> QED BY <1>1, <2>2, <2>3, <3>1 DEF IsUpdate
  <2>6. ~Handshaken(record) /\ record.resume_state # "MAIN_OPS" /\ owed <= record.remaining_ms
    BY <1>2, <2>2 DEF Handshaken
  <2>7. IRest'
    BY <1>0, <1>1, <2>1, <2>2, <2>4, <2>5, <2>6, SaveStep
  <2>8. /\ durable' \in StartupStoreState /\ committed' \in StartupStoreState \cup {NoRecord}
        /\ pending' \in StartupStoreState \cup {NoRecord} /\ state' \in StartupStoreState
        /\ pc' \in Places /\ resumeAt' \in {"delay", "sleep", "reserved"}
    BY <2>1, <2>2, SaveTypes
  <2>9. TypeOK'
    BY <1>0, <2>8 DEF IInv, TypeOK
  <2> QED BY <2>7, <2>9 DEF IInv
<1> QED BY <1>3, <1>4

\* Less of the same wait is a valid record and an update of the former one.
LEMMA CountedRecord ==
  ASSUME NEW old \in StartupStoreState, NEW new \in StartupStoreState,
         startup_store_state_is_valid(old), Waits(old), old.armed, new.armed,
         new.resume_state = old.resume_state, new.attempts_used = old.attempts_used,
         new.remaining_ms < old.remaining_ms
  PROVE  startup_store_state_is_valid(new) /\ IsUpdate(old, new)
<1>1. /\ old.attempts_used \in Nat /\ old.remaining_ms \in Nat /\ new.remaining_ms \in Nat
      /\ startup_store_retry_ms(old.attempts_used) \in Nat
  BY Fields, Numbers
<1>2. ASSUME old.resume_state = "INITIAL_CHECKS" PROVE startup_store_state_is_valid(new)
  <2>1. old.attempts_used = 0 /\ old.remaining_ms <= STARTUP_INHIBIT_MS
    BY <1>2 DEF startup_store_state_is_valid
  <2>2. new.remaining_ms <= STARTUP_INHIBIT_MS
    BY <1>1, <2>1, Numbers
  <2>3. new.attempts_used <= STARTUP_ATTEMPT_LIMIT /\ new.attempts_used = 0
    BY <2>1, Numbers
  <2>4. new.resume_state = "INITIAL_CHECKS" /\ new.armed
    BY <1>2
  <2> QED BY <2>2, <2>3, <2>4, Zenon DEF startup_store_state_is_valid
<1>3. ASSUME old.resume_state = "WAITING_FOR_UPLINK" PROVE startup_store_state_is_valid(new)
  <2>1. /\ old.attempts_used >= 1 /\ old.attempts_used <= STARTUP_ATTEMPT_LIMIT
        /\ old.remaining_ms <= startup_store_retry_ms(old.attempts_used)
    BY <1>3 DEF startup_store_state_is_valid
  <2>2. new.remaining_ms <= startup_store_retry_ms(new.attempts_used)
    BY <1>1, <2>1
  <2>3. new.attempts_used >= 1 /\ new.attempts_used <= STARTUP_ATTEMPT_LIMIT
    BY <2>1
  <2>4. new.resume_state = "WAITING_FOR_UPLINK" /\ new.armed
    BY <1>3
  <2> QED BY <2>2, <2>3, <2>4, Zenon DEF startup_store_state_is_valid
<1>4. startup_store_state_is_valid(new)
  BY <1>2, <1>3 DEF Waits
<1>5. Stage(new) = Stage(old) /\ Stage(new) \in {0, 1} /\ old.resume_state # "MAIN_OPS"
  BY DEF Stage, Waits
<1>6. new.attempts_used >= old.attempts_used /\ Stage(new) >= Stage(old)
  BY <1>1, <1>5
<1> QED BY <1>4, <1>5, <1>6 DEF IsUpdate

LEMMA WaitCountStep == ASSUME IInv, WaitCount PROVE IInv'
<1>0. /\ pc = "count" /\ remaining > step
      /\ lag' = uncounted /\ remaining' = remaining - step /\ unsaved' = unsaved + step
      /\ UNCHANGED <<timer, hello, pyro, inbox, eligible, calm, owed, heard, queued>>
  BY DEF WaitCount
<1>1. /\ durable \in StartupStoreState /\ state \in StartupStoreState
      /\ startup_store_state_is_valid(durable)
      /\ state.attempts_used = durable.attempts_used /\ state.armed /\ durable.armed
      /\ state.resume_state = durable.resume_state /\ Waits(state) /\ ~pyro
      /\ durable.attempts_used \in Nat /\ durable.remaining_ms \in Nat /\ owed \in Nat
  BY <1>0, CountFacts
<1>2. /\ lag' = 0 /\ remaining' = remaining - lag /\ unsaved' = unsaved + lag
      /\ remaining' \in Nat /\ unsaved' \in Nat
  BY <1>0, CountFacts DEF uncounted
<1>3. /\ owed <= remaining' /\ remaining' <= state.remaining_ms
      /\ durable.remaining_ms <= remaining' + unsaved'
      /\ unsaved' <= Slack
      /\ state.remaining_ms = durable.remaining_ms
      /\ unsaved' >= STARTUP_CHECKPOINT_MS => remaining' < durable.remaining_ms
  BY <1>0, <1>2, CountFacts, Numbers DEF Less
<1>4. CASE unsaved' < STARTUP_CHECKPOINT_MS
  <2>1. pc' = "sleep" /\ UNCHANGED <<durable, committed, pending, resumeAt, state>>
    BY <1>2, <1>4, Numbers DEF WaitCount
  <2>2. TypeOK'
    BY <1>0, <1>2, <2>1 DEF IInv, TypeOK
  <2>3. IAhead' /\ IPlace'
    BY <1>0, <2>1 DEF IInv, IRest, IAhead, IPlace
  <2>4. IWait'
    BY <1>0, <1>1, <1>2, <1>3, <1>4, <2>1, Numbers DEF IWait, Waits, Less
  <2>5. /\ Deploying(state') => owed' <= state'.remaining_ms
        /\ state'.resume_state # "SAT_TO_GROUND_2"
        /\ owed' \in Nat /\ owed' <= owed
    BY <1>0, <1>1, <2>1 DEF IInv, IRest, IOwed, Waits
  <2>6. IRest'
    BY <1>0, <2>1, <2>3, <2>4, <2>5, MoveStep
  <2> QED BY <2>2, <2>6 DEF IInv
<1>5. CASE unsaved' >= STARTUP_CHECKPOINT_MS
  <2> DEFINE record == [state EXCEPT !.remaining_ms = remaining']
  <2>1. Save(record, "sleep")
    BY <1>2, <1>5, Numbers DEF WaitCount
  <2>2. PICK n \in Nat : n = remaining'
    BY <1>2
  <2>3. /\ record \in StartupStoreState
        /\ record.resume_state = state.resume_state /\ record.remaining_ms = remaining'
        /\ record.attempts_used = state.attempts_used /\ record.armed = state.armed
    BY <1>1, <2>2 DEF StartupStoreState
  <2>4. PICK r \in StartupStoreState : r = record
    BY <2>3
  <2> HIDE DEF record
  <2>5. r.remaining_ms < durable.remaining_ms
    BY <1>3, <1>5, <2>3, <2>4
  <2>6. startup_store_state_is_valid(r) /\ IsUpdate(durable, r)
    <3>1. /\ r.resume_state = durable.resume_state /\ r.attempts_used = durable.attempts_used
          /\ r.armed /\ Waits(durable)
      BY <1>1, <2>3, <2>4 DEF Waits
    <3>2. durable \in StartupStoreState /\ startup_store_state_is_valid(durable) /\ durable.armed
      BY <1>1
    <3> QED BY <2>5, <3>1, <3>2, CountedRecord
  <2>7. /\ ~Handshaken(r) /\ r.resume_state # "MAIN_OPS" /\ owed <= r.remaining_ms
        /\ Waits(r) /\ r.remaining_ms = remaining'
    BY <1>1, <1>3, <2>3, <2>4 DEF Handshaken, Waits
  <2>8. Save(r, "sleep")
    BY <2>1, <2>4
  <2>9. IRest'
    BY <1>0, <1>1, <1>2, <1>3, <2>6, <2>7, <2>8, SaveStep
  <2>10. /\ durable' \in StartupStoreState /\ committed' \in StartupStoreState \cup {NoRecord}
         /\ pending' \in StartupStoreState \cup {NoRecord} /\ state' \in StartupStoreState
         /\ pc' \in Places /\ resumeAt' \in {"delay", "sleep", "reserved"}
    BY <2>8, SaveTypes
  <2>11. TypeOK'
    BY <1>0, <1>2, <2>10 DEF IInv, TypeOK
  <2> QED BY <2>9, <2>11 DEF IInv
<1>6. unsaved' < STARTUP_CHECKPOINT_MS \/ unsaved' >= STARTUP_CHECKPOINT_MS
  BY <1>2, Numbers
<1> QED BY <1>4, <1>5, <1>6

LEMMA ReadyStep == ASSUME IInv, Ready PROVE IInv'
<1> DEFINE record == [state EXCEPT !.resume_state = "MAIN_OPS", !.remaining_ms = 0]
<1>0. /\ pc = "loop" /\ state.resume_state = "SAT_TO_GROUND_2" /\ Save(record, "delay")
      /\ UNCHANGED <<remaining, unsaved, lag, timer, hello, pyro, inbox, eligible, calm,
                     owed, heard, queued>>
  BY DEF Ready, At
<1>1. /\ durable \in StartupStoreState /\ state \in StartupStoreState
      /\ startup_store_state_is_valid(durable)
      /\ state.attempts_used = durable.attempts_used /\ state.armed /\ durable.armed
      /\ ~pyro
  BY <1>0, RamFacts
<1>2. /\ record \in StartupStoreState
      /\ record.resume_state = "MAIN_OPS" /\ record.remaining_ms = 0
      /\ record.attempts_used = state.attempts_used /\ record.armed = state.armed
  BY <1>1 DEF StartupStoreState, MCUState
<1> HIDE DEF record
<1>3. durable.resume_state = "SAT_TO_GROUND_1" /\ "ACK" \in heard /\ "START" \in heard
  <2>1. durable.resume_state # "SAT_TO_GROUND_2"
    BY <1>1 DEF startup_store_state_is_valid
  <2>2. durable.resume_state = "SAT_TO_GROUND_1" /\ "ACK" \in heard
    BY <1>0, <2>1 DEF IInv, IRest, IAhead, IHeard
  <2> QED BY <2>2 DEF IInv, IRest, IHeard, HandshakeCausality, Handshaken
<1>4. startup_store_state_is_valid(record)
  BY <1>1, <1>2 DEF startup_store_state_is_valid
<1>5. IsUpdate(durable, record)
  <2>1. Stage(record) = 3 /\ Stage(durable) = 2 /\ durable.attempts_used \in Nat
    BY <1>1, <1>2, <1>3, Fields DEF Stage
  <2> QED BY <1>1, <1>2, <1>3, <2>1 DEF IsUpdate
<1>6. ~Deploying(record)
  BY <1>2 DEF Deploying
<1>7. IRest'
  BY <1>0, <1>1, <1>2, <1>3, <1>4, <1>5, <1>6, SaveStep
<1>8. /\ durable' \in StartupStoreState /\ committed' \in StartupStoreState \cup {NoRecord}
      /\ pending' \in StartupStoreState \cup {NoRecord} /\ state' \in StartupStoreState
      /\ pc' \in Places /\ resumeAt' \in {"delay", "sleep", "reserved"}
  BY <1>0, <1>2, SaveTypes
<1>9. TypeOK'
  BY <1>0, <1>8 DEF IInv, TypeOK
<1> QED BY <1>7, <1>9 DEF IInv

-----------------------------------------------------------------------------
(* The invariant, and what follows from it.                                *)

LEMMA InvInit == Init => IInv
<1> SUFFICES ASSUME Init PROVE IInv
  OBVIOUS
<1>1. durable \in StartupStoreState /\ startup_store_state_is_valid(durable)
  <2>1. 0 .. STARTUP_ATTEMPT_LIMIT \subseteq Nat
    BY Numbers
  <2>2. 0 .. (STARTUP_INHIBIT_MS + STARTUP_RETRY_MS + STARTUP_WEEKLY_MS) \subseteq Nat
    BY Numbers
  <2> QED BY <2>1, <2>2 DEF Init, StartupStoreState
<1>2. durable.remaining_ms \in Nat
  BY <1>1, Fields
<1>3. inbox \in Seq(Messages) /\ Len(inbox) <= InboxCap
  BY EmptySeq, Numbers DEF Init
<1>4. STARTUP_HELLO_RETRY_MS \in 0 .. STARTUP_HELLO_RETRY_MS /\ NoState \in StartupStoreState
  BY Numbers
<1>5. heard \subseteq {"START", "ACK"}
      /\ (Handshaken(durable) => "START" \in heard)
      /\ (durable.resume_state = "MAIN_OPS" => "ACK" \in heard)
  BY DEF Init, Handshaken
<1>6. TypeOK
  BY <1>1, <1>2, <1>3, <1>4, <1>5 DEF Init, TypeOK
<1>7. IRest
  BY <1>1, <1>2, <1>5 DEF Init, IRest, IStore, IAhead, ISaving, IPlace, IWait, IOwed, IHeard,
                          HandshakeCausality
<1> QED BY <1>6, <1>7 DEF IInv

LEMMA InvStep == IInv /\ [Next]_vars => IInv'
BY PowerOnStep, LoadRecordStep, UnarmedParkStep, EnterWaitStep, WaitDeafStep, WaitListenStep,
   WaitOverStep, WaitCountStep, WaitSleepStep, SaveOkStep, SaveFailsStep, PlainSteps,
   RetryListensStep, ReserveStep, BurnFirstStep, BurnRetryStep, BurnOverStep, HelloStep,
   AwaitAckStep, ReadyStep, DelayStep, ResetSteps, WorldSteps
   DEF Next, Program, Environment

LEMMA Invariant == Spec => []IInv
BY InvInit, InvStep, PTL DEF Spec

\* Every value of the sequence's state stays in its type.
THEOREM StartupTypeCorrect == Spec => []TypeOK
<1>1. IInv => TypeOK
  BY DEF IInv
<1> QED BY Invariant, <1>1, PTL

\* The wire is ON only over the verified reservation of its attempt.
THEOREM StartupOnImpliesReserved == Spec => []OnImpliesReserved
<1>1. IInv => OnImpliesReserved
  BY DEF IInv, IRest, IPlace, IStore, OnImpliesReserved, IsReservation
<1> QED BY Invariant, <1>1, PTL

\* No handshake without its START, no MAIN_OPS without its ACK.
THEOREM StartupHandshakeCausality == Spec => []HandshakeCausality
<1>1. IInv => HandshakeCausality
  BY DEF IInv, IRest, IHeard
<1> QED BY Invariant, <1>1, PTL

\* RAM is ahead of the media only in what a reset may undo.
THEOREM StartupRamAheadOfMedia == Spec => []RamAheadOfMedia
<1>1. IInv => RamAheadOfMedia
  <2> SUFFICES ASSUME IInv, pc \in Active
               PROVE  /\ committed = durable
                      /\ state.attempts_used = durable.attempts_used /\ state.armed = durable.armed
                      /\ \/ state.resume_state = durable.resume_state
                         \/ /\ state.resume_state = "WAIT_POWER_ON"
                            /\ durable.resume_state = "WAITING_FOR_UPLINK"
                         \/ /\ state.resume_state \in {"GROUND_TO_SAT_1", "SAT_TO_GROUND_2"}
                            /\ durable.resume_state = "SAT_TO_GROUND_1"
                      /\ state.remaining_ms <= durable.remaining_ms
    BY DEF RamAheadOfMedia
  <2>1. /\ durable \in StartupStoreState /\ state \in StartupStoreState /\ committed = durable
        /\ state.attempts_used = durable.attempts_used /\ state.armed /\ durable.armed
    BY RamFacts
  <2>2. state.armed = durable.armed
    <3>1. state.armed \in BOOLEAN /\ durable.armed \in BOOLEAN
      BY <2>1, Fields
    <3> QED BY <2>1, <3>1, Zenon
  <2>3. durable.remaining_ms \in Nat
    BY <2>1, Fields
  <2>4. \/ state.resume_state = durable.resume_state
        \/ /\ state.resume_state = "WAIT_POWER_ON"
           /\ durable.resume_state = "WAITING_FOR_UPLINK"
        \/ /\ state.resume_state \in {"GROUND_TO_SAT_1", "SAT_TO_GROUND_2"}
           /\ durable.resume_state = "SAT_TO_GROUND_1"
    BY DEF IInv, IRest, IAhead
  <2>5. state.remaining_ms <= durable.remaining_ms
    BY <2>3 DEF IInv, IRest, IAhead
  <2> QED BY <2>1, <2>2, <2>4, <2>5
<1> QED BY Invariant, <1>1, PTL

\* The store is never given a record it would refuse.
THEOREM StartupSavesAreValid == Spec => []SavesAreValid
<1>1. IInv => SavesAreValid
  BY DEF IInv, IRest, IStore, SavesAreValid
<1> QED BY Invariant, <1>1, PTL

\* A reset costs at most a checkpoint interval of counted time, plus the
\* work of one iteration.
THEOREM StartupProgressLossBounded == Spec => []ProgressLossBounded
<1>1. IInv => ProgressLossBounded
  <2> SUFFICES ASSUME IInv, pc \in InWait
               PROVE  durable.remaining_ms <= Less(remaining, lag) + STARTUP_CHECKPOINT_MS + Work
    BY DEF ProgressLossBounded
  <2>1. /\ \/ durable.remaining_ms <= remaining + unsaved
           \/ remaining = 0 /\ durable.remaining_ms <= Slack
        /\ lag + unsaved <= Slack
    BY DEF IInv, IRest, IWait
  <2>2. /\ durable.remaining_ms \in Nat /\ remaining \in Nat /\ unsaved \in Nat /\ lag \in Nat
        /\ Work \in Nat /\ STARTUP_CHECKPOINT_MS \in Nat /\ Slack = STARTUP_CHECKPOINT_MS + Work
    BY RamFacts, Fields, Numbers
  <2>3. Less(remaining, lag) = IF remaining > lag THEN remaining - lag ELSE 0
    BY DEF Less
  <2> QED BY <2>1, <2>2, <2>3
<1> QED BY Invariant, <1>1, PTL

\* Only the end of a reservation turns the wire ON.
LEMMA OnFromReserved == IInv /\ [Next]_vars /\ pyro' /\ ~pyro => pc = "reserved"
BY DEF Next, Program, Environment, PowerOn, LoadRecord, UnarmedPark, EnterWait, WaitDeaf,
       WaitListen, WaitOver, WaitCount, WaitSleep, SaveOk, SaveFails, FirstAttempt, RetryListens,
       NotEligible, Reserve, BurnFirst, BurnRetry, Burning, BurnOver, HelloPaced, Hello, AwaitAck,
       Ready, HandOff, Delay, StartupFault, Reset, Forget, Uplink, Battery, Settle, vars

\* Only the outcome of a save changes the record on the media.
LEMMA DurableChanges ==
  ASSUME IInv, [Next]_vars, durable' # durable
  PROVE  durable' = pending /\ IsUpdate(durable, pending)
         /\ startup_store_state_is_valid(pending)
<1>1. SaveOk \/ SaveFails \/ StartupFault \/ Reset
  BY DEF Next, Program, Environment, PowerOn, LoadRecord, Store!Load, UnarmedPark, EnterWait,
         WaitDeaf, WaitListen, WaitOver, WaitCount, WaitSleep, FirstAttempt, RetryListens,
         NotEligible, Reserve, BurnFirst, BurnRetry, PyroOn, Burning, BurnOver, HelloPaced, Hello,
         AwaitAck, Ready, HandOff, Delay, Uplink, Battery, Settle, vars,
         startup_enter_handshake, Save, Store!Begin
<1>2. pending # NoRecord
  BY <1>1 DEF SaveOk, Store!Acknowledge, SaveFails, Store!Abandon, StartupFault, Reset, Store!Reset
<1>3. IsUpdate(durable, pending) /\ startup_store_state_is_valid(pending)
  BY <1>2 DEF IInv, IRest, IStore, ISaving
<1>4. durable' = pending
  <2>1. CASE SaveOk
    BY <2>1 DEF SaveOk, Store!Acknowledge
  <2>2. CASE SaveFails
    BY <1>2, <2>2, OldOrNewOutcomes DEF SaveFails, Store!Abandon
  <2>3. CASE StartupFault \/ Reset
    BY <1>2, <2>3, OldOrNewOutcomes DEF StartupFault, Reset, Store!Reset
  <2> QED BY <1>1, <2>1, <2>2, <2>3
<1> QED BY <1>3, <1>4

\* Nothing is burned before the powered time owed has passed.
THEOREM StartupBurnSpacing == Spec => BurnSpacing
<1>1. IInv /\ [Next]_vars => [pyro' /\ ~pyro => owed = 0]_vars
  BY OnFromReserved DEF IInv, IRest, IPlace
<1> QED BY Invariant, <1>1, PTL DEF Spec, BurnSpacing

\* No later boot returns from a durable handshake.
THEOREM StartupHandshakeIsFinal == Spec => HandshakeIsFinal
<1> DEFINE A == Handshaken(durable) => Handshaken(durable') /\ ~pyro'
                  /\ (durable.resume_state = "MAIN_OPS" => durable' = durable)
<1>1. IInv /\ [Next]_vars => A
  <2> SUFFICES ASSUME IInv, [Next]_vars, Handshaken(durable)
               PROVE  Handshaken(durable') /\ ~pyro'
                      /\ (durable.resume_state = "MAIN_OPS" => durable' = durable)
    OBVIOUS
  <2>1. ~pyro'
    <3>1. pyro' => pc \in {"reserved", "burn"}
      BY OnFromReserved DEF IInv, IRest, IPlace
    <3>2. pc \notin {"reserved", "burn"}
      BY DEF IInv, IRest, IPlace, IsReservation, Handshaken
    <3> QED BY <3>1, <3>2
  <2>2. CASE durable' = durable
    BY <2>1, <2>2 DEF Handshaken
  <2>3. CASE durable' # durable
    <3>1. durable' = pending /\ IsUpdate(durable, pending) /\ startup_store_state_is_valid(pending)
      BY <2>3, DurableChanges
    <3>2. Stage(durable) = 2 /\ durable.resume_state # "MAIN_OPS"
      BY <3>1 DEF IsUpdate, Handshaken, Stage
    <3>3. Handshaken(pending)
      BY <3>1, <3>2 DEF IsUpdate, Stage, startup_store_state_is_valid, Handshaken
    <3> QED BY <2>1, <3>1, <3>2, <3>3
  <2> QED BY <2>2, <2>3
<1>2. IInv /\ [Next]_vars => [A]_vars
  BY <1>1
<1> QED BY Invariant, <1>2, PTL DEF Spec, HandshakeIsFinal

\* The durable record moves one way over all boots.
THEOREM StartupDurableProgress == Spec => DurableProgress
<1> DEFINE A == durable' # durable =>
                  /\ durable.armed
                  /\ durable'.attempts_used >= durable.attempts_used
                  /\ Stage(durable') >= Stage(durable)
                  /\ durable'.resume_state = durable.resume_state
                     /\ durable'.attempts_used = durable.attempts_used =>
                        \/ durable'.remaining_ms < durable.remaining_ms
                        \/ durable'.remaining_ms = startup_store_retry_ms(STARTUP_ATTEMPT_LIMIT)
<1>1. IInv /\ [Next]_vars => A
  <2> SUFFICES ASSUME IInv, [Next]_vars, durable' # durable PROVE A
    OBVIOUS
  <2>1. durable' = pending /\ IsUpdate(durable, pending)
    BY DurableChanges
  <2> QED BY <2>1 DEF IsUpdate
<1>2. IInv /\ [Next]_vars => [A]_vars
  BY <1>1
<1> QED BY Invariant, <1>2, PTL DEF Spec, DurableProgress

-----------------------------------------------------------------------------
(* Startup implements Deployment.  The record being saved is one step of   *)
(* the deployment ahead of the record on the media, so that whichever of   *)
(* the two a reset leaves, the deployment has taken that step or none.     *)

IsSuccessor(old, new, reserves) ==
  /\ old.armed /\ new.armed
  /\ reserves =>
       /\ Stage(old) = 1 /\ Stage(new) = 1
       /\ new.attempts_used = Lesser(old.attempts_used + 1, STARTUP_ATTEMPT_LIMIT)
  /\ ~reserves =>
       /\ new.attempts_used = old.attempts_used
       /\ \/ Stage(new) = Stage(old)
          \/ Stage(old) = 0 /\ new.resume_state = "WAIT_POWER_ON"
          \/ Stage(old) = 1 /\ new.resume_state = "SAT_TO_GROUND_1"
          \/ Stage(old) = 2 /\ new.resume_state = "MAIN_OPS"

ISuccessor == pc = "saving" => IsSuccessor(durable, pending, resumeAt = "reserved")

LEMMA HandshakeSucceeds ==
  ASSUME IInv, pc \in Active, startup_enter_handshake,
         state.resume_state \in {"WAIT_POWER_ON", "WAITING_FOR_UPLINK"}
  PROVE  ISuccessor'
<1> DEFINE record == [state EXCEPT !.resume_state = "SAT_TO_GROUND_1", !.remaining_ms = 0]
<1>1. Save(record, "delay")
  BY DEF startup_enter_handshake
<1>2. /\ durable \in StartupStoreState /\ state \in StartupStoreState
      /\ state.attempts_used = durable.attempts_used /\ state.armed /\ durable.armed
  BY RamFacts
<1>3. record.resume_state = "SAT_TO_GROUND_1" /\ record.attempts_used = state.attempts_used
      /\ record.armed
  BY <1>2 DEF StartupStoreState
<1> HIDE DEF record
<1>4. durable.resume_state \in {"WAIT_POWER_ON", "WAITING_FOR_UPLINK"}
  BY DEF IInv, IRest, IAhead
<1>5. Stage(durable) = 1
  BY <1>4 DEF Stage
<1>6. IsSuccessor(durable, record, FALSE)
  BY <1>2, <1>3, <1>5 DEF IsSuccessor
<1>7. pending' = record /\ durable' = durable /\ resumeAt' = "delay"
  BY <1>1 DEF Save, Store!Begin
<1> QED BY <1>6, <1>7 DEF ISuccessor, IsSuccessor, Stage

LEMMA InhibitSucceeds == ASSUME IInv, WaitOver PROVE ISuccessor'
<1> DEFINE record == [state EXCEPT !.resume_state = "WAIT_POWER_ON", !.remaining_ms = 0]
<1>1. CASE listen
  BY <1>1 DEF WaitOver, ISuccessor
<1>2. CASE ~listen
  <2>1. Save(record, "delay") /\ pc = "count"
    BY <1>2 DEF WaitOver
  <2>2. /\ durable \in StartupStoreState /\ state \in StartupStoreState
        /\ state.attempts_used = durable.attempts_used /\ state.armed /\ durable.armed
        /\ state.resume_state = durable.resume_state /\ Waits(state)
    BY <2>1, CountFacts
  <2>3. record.resume_state = "WAIT_POWER_ON" /\ record.attempts_used = state.attempts_used
        /\ record.armed
    BY <2>2 DEF StartupStoreState
  <2> HIDE DEF record
  <2>4. Stage(durable) = 0
    BY <1>2, <2>2 DEF Stage, Waits, listen
  <2>5. IsSuccessor(durable, record, FALSE)
    BY <2>2, <2>3, <2>4 DEF IsSuccessor
  <2>6. pending' = record /\ durable' = durable /\ resumeAt' = "delay"
    BY <2>1 DEF Save, Store!Begin
  <2> QED BY <2>5, <2>6 DEF ISuccessor, IsSuccessor, Stage
<1> QED BY <1>1, <1>2

LEMMA CheckpointSucceeds == ASSUME IInv, WaitCount PROVE ISuccessor'
<1> DEFINE record == [state EXCEPT !.remaining_ms = remaining']
<1>1. CASE pc' # "saving"
  BY <1>1 DEF ISuccessor
<1>2. CASE pc' = "saving"
  <2>1. Save(record, "sleep") /\ pc = "count"
    BY <1>2 DEF WaitCount
  <2>2. /\ durable \in StartupStoreState /\ state \in StartupStoreState
        /\ state.attempts_used = durable.attempts_used /\ state.armed /\ durable.armed
        /\ state.resume_state = durable.resume_state
    BY <2>1, CountFacts
  <2>3. record.resume_state = state.resume_state /\ record.attempts_used = state.attempts_used
        /\ record.armed
    BY <2>2 DEF StartupStoreState
  <2> HIDE DEF record
  <2>4. Stage(record) = Stage(durable)
    BY <2>2, <2>3 DEF Stage
  <2>5. IsSuccessor(durable, record, FALSE)
    BY <2>2, <2>3, <2>4 DEF IsSuccessor
  <2>6. pending' = record /\ durable' = durable /\ resumeAt' = "sleep"
    BY <2>1 DEF Save, Store!Begin
  <2> QED BY <2>5, <2>6 DEF ISuccessor, IsSuccessor, Stage
<1> QED BY <1>1, <1>2

LEMMA ReserveSucceeds == ASSUME IInv, Reserve PROVE ISuccessor'
<1>1. pc = "gate" /\ Save(reservation, "reserved")
  BY DEF Reserve
<1>2. /\ durable \in StartupStoreState /\ state \in StartupStoreState
      /\ state.attempts_used = durable.attempts_used /\ state.armed /\ durable.armed
  BY <1>1, RamFacts
<1>3. /\ reservation.resume_state = "WAITING_FOR_UPLINK" /\ reservation.armed
      /\ reservation.attempts_used = Lesser(durable.attempts_used + 1, STARTUP_ATTEMPT_LIMIT)
  BY <1>2 DEF StartupStoreState, reservation, attempts
<1>4. durable.resume_state \in {"WAIT_POWER_ON", "WAITING_FOR_UPLINK"}
  BY <1>1 DEF IInv, IRest, IAhead, IPlace
<1>5. Stage(durable) = 1 /\ Stage(reservation) = 1
  BY <1>3, <1>4 DEF Stage
<1>6. IsSuccessor(durable, reservation, TRUE)
  BY <1>2, <1>3, <1>5 DEF IsSuccessor
<1>7. pending' = reservation /\ durable' = durable /\ resumeAt' = "reserved"
  BY <1>1 DEF Save, Store!Begin
<1> QED BY <1>6, <1>7 DEF ISuccessor, IsSuccessor, Stage, Lesser

LEMMA ReadySucceeds == ASSUME IInv, Ready PROVE ISuccessor'
<1> DEFINE record == [state EXCEPT !.resume_state = "MAIN_OPS", !.remaining_ms = 0]
<1>1. pc = "loop" /\ state.resume_state = "SAT_TO_GROUND_2" /\ Save(record, "delay")
  BY DEF Ready, At
<1>2. /\ durable \in StartupStoreState /\ state \in StartupStoreState
      /\ startup_store_state_is_valid(durable)
      /\ state.attempts_used = durable.attempts_used /\ state.armed /\ durable.armed
  BY <1>1, RamFacts
<1>3. record.resume_state = "MAIN_OPS" /\ record.attempts_used = state.attempts_used
      /\ record.armed
  BY <1>2 DEF StartupStoreState
<1> HIDE DEF record
<1>4. durable.resume_state = "SAT_TO_GROUND_1"
  <2>1. durable.resume_state # "SAT_TO_GROUND_2"
    BY <1>2 DEF startup_store_state_is_valid
  <2> QED BY <1>1, <2>1 DEF IInv, IRest, IAhead
<1>5. Stage(durable) = 2
  BY <1>4 DEF Stage
<1>6. IsSuccessor(durable, record, FALSE)
  BY <1>2, <1>3, <1>5 DEF IsSuccessor
<1>7. pending' = record /\ durable' = durable /\ resumeAt' = "delay"
  BY <1>1 DEF Save, Store!Begin
<1> QED BY <1>6, <1>7 DEF ISuccessor, IsSuccessor, Stage

LEMMA SuccessorStep == IInv /\ ISuccessor /\ [Next]_vars => ISuccessor'
<1> SUFFICES ASSUME IInv, ISuccessor, [Next]_vars, pc' = "saving" PROVE ISuccessor'
  BY DEF ISuccessor
<1>1. CASE WaitListen \/ RetryListens \/ BurnRetry
  <2>1. startup_enter_handshake
    BY <1>1 DEF WaitListen, RetryListens, BurnRetry, PyroOn
  <2>2. pc \in Active /\ state.resume_state \in {"WAIT_POWER_ON", "WAITING_FOR_UPLINK"}
    BY <1>1 DEF WaitListen, RetryListens, BurnRetry, At, listen, IInv, IRest, IPlace,
                IsReservation
  <2> QED BY <2>1, <2>2, HandshakeSucceeds
<1>2. CASE WaitOver \/ WaitCount \/ Reserve \/ Ready
  BY <1>2, InhibitSucceeds, CheckpointSucceeds, ReserveSucceeds, ReadySucceeds
<1>3. CASE Uplink \/ Battery \/ Settle \/ UNCHANGED vars
  BY <1>3 DEF Uplink, Battery, Settle, vars, ISuccessor, IsSuccessor, Stage, Lesser
<1>4. ~(\/ PowerOn \/ LoadRecord \/ UnarmedPark \/ EnterWait \/ WaitDeaf \/ WaitSleep
        \/ SaveOk \/ SaveFails \/ FirstAttempt \/ NotEligible \/ BurnFirst \/ Burning
        \/ BurnOver \/ HelloPaced \/ Hello \/ AwaitAck \/ HandOff \/ Delay \/ StartupFault
        \/ Reset)
  BY DEF PowerOn, LoadRecord, after_load, UnarmedPark, EnterWait, WaitDeaf, WaitSleep, SaveOk,
         SaveFails, FirstAttempt, NotEligible, BurnFirst, PyroOn, Burning, BurnOver, HelloPaced,
         Hello, AwaitAck, HandOff, Delay, StartupFault, Reset, Forget, IInv, TypeOK
<1> QED BY <1>1, <1>2, <1>3, <1>4 DEF Next, Program, Environment

\* What the deployment is told of: the record on the media, the wire, the history.
LEMMA NothingMaps == UNCHANGED <<durable, wire, owed, heard>> => UNCHANGED Promise!vars
BY DEF Promise!vars, DeploymentStage, Stage

LEMMA QuietMaps ==
  ASSUME IInv,
         \/ PowerOn \/ LoadRecord \/ EnterWait \/ WaitDeaf \/ WaitOver \/ WaitCount
         \/ FirstAttempt \/ NotEligible \/ Reserve \/ Burning \/ HelloPaced \/ Hello \/ Ready
         \/ HandOff \/ Uplink \/ Battery \/ Settle \/ UNCHANGED vars
  PROVE  UNCHANGED Promise!vars
<1>1. /\ durable' = durable /\ owed' = owed /\ heard' = heard
      /\ pc # "off" => pyro' = pyro
      /\ pc = "off" => (pyro' = pyro \/ pyro' = FALSE)
      /\ pc' = "reserved" <=> pc = "reserved"
  BY DEF PowerOn, LoadRecord, after_load, Store!Load, EnterWait, WaitDeaf, WaitOver, WaitCount,
         FirstAttempt, NotEligible, Reserve, Burning, HelloPaced, Hello, Ready, HandOff, Uplink,
         Battery, Settle, vars, At, Save, Store!Begin
<1>2. pc = "off" => pyro = FALSE
  BY DEF IInv, IRest, IPlace, TypeOK
<1>3. wire' = wire
  BY <1>1, <1>2 DEF wire
<1> QED BY <1>1, <1>3, NothingMaps

LEMMA PassMaps ==
  ASSUME IInv, UnarmedPark \/ WaitSleep \/ Delay
  PROVE  Promise!Pass
<1>1. PICK d \in Nat : Elapse(d)
  <2>1. STARTUP_POLL_MS \in Nat /\ Overrun(STARTUP_POLL_MS) \subseteq Nat
    BY Numbers DEF Overrun
  <2>2. CASE UnarmedPark \/ Delay
    BY <2>1, <2>2 DEF UnarmedPark, Delay
  <2>3. CASE WaitSleep
    <3> DEFINE nap == IF listen THEN Lesser(until_checkpoint, STARTUP_POLL_MS) ELSE until_checkpoint
    <3>1. PICK d \in Overrun(nap) : Elapse(d)
      BY <2>3 DEF WaitSleep
    <3>2. remaining \in Nat /\ unsaved \in Nat /\ unsaved < STARTUP_CHECKPOINT_MS
      BY <2>3, RamFacts DEF WaitSleep, IInv, IRest, IWait
    <3>3. nap \in Nat
      BY <2>1, <3>2, Numbers DEF until_checkpoint, Lesser
    <3> HIDE DEF nap
    <3>4. d \in Nat
      BY <3>1, <3>3, Numbers DEF Overrun
    <3> QED BY <3>1, <3>4
  <2> QED BY <2>2, <2>3
<1>2. owed \in Nat /\ owed' \in Nat /\ owed' <= owed
  BY <1>1, ElapseTypes DEF IInv, TypeOK
<1>3. /\ durable' = durable /\ heard' = heard
      /\ pc # "reserved" /\ pc' # "reserved" /\ pc # "burn" /\ pc' # "burn"
      /\ pyro' = pyro \/ pyro' = FALSE
  BY DEF UnarmedPark, WaitSleep, Delay
<1>4. wire = "off" /\ wire' = "off"
  BY <1>3 DEF wire, IInv, IRest, IPlace
<1> QED BY <1>2, <1>3, <1>4 DEF Promise!Pass, DeploymentStage, Stage

\* The stages at which a START or an ACK is looked for.
LEMMA DeployingStage ==
  ASSUME durable.armed, durable.resume_state \in {"WAIT_POWER_ON", "WAITING_FOR_UPLINK"}
  PROVE  DeploymentStage(durable) = "deploying"
BY DEF DeploymentStage, Stage

LEMMA TalkingStage ==
  ASSUME durable.armed, durable.resume_state = "SAT_TO_GROUND_1"
  PROVE  DeploymentStage(durable) = "talking"
BY DEF DeploymentStage, Stage

LEMMA SameStage == durable' = durable => DeploymentStage(durable)' = DeploymentStage(durable)
BY DEF DeploymentStage, Stage

LEMMA StartMaps ==
  ASSUME IInv, WaitListen \/ RetryListens
  PROVE  Promise!HearStart \/ UNCHANGED Promise!vars
<1>1. PICK message \in Messages \cup {"NONE"} : Hears(message, "START")
  BY DEF WaitListen, RetryListens
<1>2. /\ pc \in {"wait", "loop"} /\ pc' \in {"saving", "count", "gate"}
      /\ state.resume_state \in {"WAIT_POWER_ON", "WAITING_FOR_UPLINK"}
      /\ durable' = durable /\ owed' = owed /\ pyro' = pyro
  BY DEF WaitListen, RetryListens, At, listen, startup_enter_handshake, Save, Store!Begin
<1>3. durable.armed /\ durable.resume_state \in {"WAIT_POWER_ON", "WAITING_FOR_UPLINK"}
  BY <1>2 DEF IInv, IRest, IAhead
<1>4. wire = "off" /\ wire' = "off"
  BY <1>2 DEF wire, IInv, IRest, IPlace
<1>5. CASE message = "START"
  BY <1>1, <1>2, <1>3, <1>4, <1>5, DeployingStage, SameStage DEF Hears, Promise!HearStart
<1>6. CASE message # "START"
  <2>1. heard' = heard
    BY <1>1, <1>6 DEF Hears
  <2> QED BY <1>2, <1>4, <2>1, NothingMaps
<1> QED BY <1>5, <1>6

LEMMA AckMaps ==
  ASSUME IInv, AwaitAck
  PROVE  Promise!HearAck \/ UNCHANGED Promise!vars
<1>1. PICK message \in Messages \cup {"NONE"} : Hears(message, "ACK")
  BY DEF AwaitAck
<1>2. /\ pc = "loop" /\ pc' = "delay" /\ state.resume_state = "GROUND_TO_SAT_1"
      /\ durable' = durable /\ owed' = owed /\ pyro' = pyro
  BY DEF AwaitAck, At
<1>3. durable.armed /\ durable.resume_state = "SAT_TO_GROUND_1"
  BY <1>2, RamFacts DEF IInv, IRest, IAhead, startup_store_state_is_valid
<1>4. wire = "off" /\ wire' = "off"
  BY <1>2 DEF wire, IInv, IRest, IPlace
<1>5. CASE message = "ACK"
  BY <1>1, <1>2, <1>3, <1>4, <1>5, TalkingStage, SameStage DEF Hears, Promise!HearAck
<1>6. CASE message # "ACK"
  <2>1. heard' = heard
    BY <1>1, <1>6 DEF Hears
  <2> QED BY <1>2, <1>4, <2>1, NothingMaps
<1> QED BY <1>5, <1>6

LEMMA BurnMaps ==
  ASSUME IInv, BurnFirst \/ BurnRetry
  PROVE  Promise!Burn \/ Promise!HearStart
<1>1. /\ pc = "reserved" /\ state = durable /\ IsReservation(durable) /\ owed = 0 /\ ~pyro
      /\ durable.armed /\ startup_store_state_is_valid(durable) /\ durable \in StartupStoreState
  BY RamFacts DEF BurnFirst, BurnRetry, IInv, IRest, IPlace
<1>2. DeploymentStage(durable) = "deploying" /\ wire = "reserved"
  BY <1>1, DeployingStage DEF IsReservation, wire
<1>3. durable.attempts_used \in 0 .. STARTUP_ATTEMPT_LIMIT
  BY <1>1, Fields, Numbers DEF startup_store_state_is_valid
<1>4. \/ PyroOn /\ heard' = heard
      \/ /\ pyro' = FALSE /\ startup_enter_handshake /\ owed' = owed
         /\ heard' = heard \cup {"START"}
  BY DEF BurnFirst, BurnRetry, Hears
<1>5. CASE PyroOn /\ heard' = heard
  <2>1. /\ durable' = durable /\ pyro' = TRUE
        /\ owed' = startup_store_retry_ms(durable.attempts_used)
    BY <1>1, <1>5 DEF PyroOn
  <2>2. wire' = "on"
    BY <2>1 DEF wire
  <2> DEFINE interval == [n \in 0 .. STARTUP_ATTEMPT_LIMIT |-> startup_store_retry_ms(n)]
  <2>3. interval[durable.attempts_used] = startup_store_retry_ms(durable.attempts_used)
    BY <1>3
  <2> QED BY <1>1, <1>2, <1>5, <2>1, <2>2, <2>3, SameStage DEF Promise!Burn
<1>6. CASE /\ pyro' = FALSE /\ startup_enter_handshake /\ owed' = owed
           /\ heard' = heard \cup {"START"}
  <2>1. durable' = durable /\ pc' = "saving"
    BY <1>6 DEF startup_enter_handshake, Save, Store!Begin
  <2>2. wire' = "off"
    BY <1>6, <2>1 DEF wire
  <2> QED BY <1>2, <1>6, <2>1, <2>2, SameStage DEF Promise!HearStart
<1> QED BY <1>4, <1>5, <1>6

\* The record being saved becomes the one on the media.
LEMMA SuccessorMaps ==
  ASSUME IInv, ISuccessor, pc = "saving", durable' = pending, UNCHANGED <<owed, heard>>, ~pyro',
         pc' = "reserved" => resumeAt = "reserved"
  PROVE  Promise!Next \/ UNCHANGED Promise!vars
<1>1. /\ IsSuccessor(durable, pending, resumeAt = "reserved")
      /\ durable \in StartupStoreState /\ pending \in StartupStoreState
      /\ startup_store_state_is_valid(pending) /\ startup_store_state_is_valid(durable)
      /\ durable.attempts_used \in Nat /\ owed \in Nat
  BY Fields DEF ISuccessor, IInv, IRest, IStore, TypeOK
<1>2. wire = "off" /\ wire' \in {"off", "reserved"} /\ (resumeAt # "reserved" => wire' = "off")
  BY DEF wire, IInv, IRest, IPlace
<1>3. DeploymentStage(durable)' = DeploymentStage(pending)
  BY DEF DeploymentStage, Stage
<1>4. CASE resumeAt = "reserved"
  <2>1. /\ durable.armed /\ pending.armed /\ Stage(durable) = 1 /\ Stage(pending) = 1
        /\ pending.attempts_used = Lesser(durable.attempts_used + 1, STARTUP_ATTEMPT_LIMIT)
    BY <1>1, <1>4 DEF IsSuccessor
  <2>2. owed = 0
    BY <1>4 DEF IInv, IRest, ISaving
  <2>3. DeploymentStage(durable) = "deploying" /\ DeploymentStage(pending) = "deploying"
    BY <2>1 DEF DeploymentStage
  <2>4. pending.attempts_used = IF durable.attempts_used < STARTUP_ATTEMPT_LIMIT
                                 THEN durable.attempts_used + 1 ELSE STARTUP_ATTEMPT_LIMIT
    BY <1>1, <2>1, Numbers DEF Lesser
  <2>5. Promise!Reserve
    BY <1>2, <1>3, <2>2, <2>3, <2>4 DEF Promise!Reserve
  <2> QED BY <2>5 DEF Promise!Next
<1>5. CASE resumeAt # "reserved"
  <2>1. /\ durable.armed /\ pending.armed /\ pending.attempts_used = durable.attempts_used
        /\ \/ Stage(pending) = Stage(durable)
           \/ Stage(durable) = 0 /\ pending.resume_state = "WAIT_POWER_ON"
           \/ Stage(durable) = 1 /\ pending.resume_state = "SAT_TO_GROUND_1"
           \/ Stage(durable) = 2 /\ pending.resume_state = "MAIN_OPS"
    BY <1>1, <1>5 DEF IsSuccessor
  <2>2. wire' = "off"
    BY <1>2, <1>5
  <2>3. CASE Stage(pending) = Stage(durable)
    <3>1. DeploymentStage(pending) = DeploymentStage(durable)
      BY <2>1, <2>3 DEF DeploymentStage
    <3> QED BY <1>2, <1>3, <2>1, <2>2, <3>1 DEF Promise!vars
  <2>4. CASE Stage(durable) = 0 /\ pending.resume_state = "WAIT_POWER_ON"
    <3>1. DeploymentStage(durable) = "inhibited" /\ DeploymentStage(pending) = "deploying"
      BY <2>1, <2>4 DEF DeploymentStage, Stage
    <3>2. owed <= pending.remaining_ms /\ pending.remaining_ms = 0
      BY <1>1, <2>4, Numbers DEF IInv, IRest, IOwed, Deploying, startup_store_state_is_valid
    <3>3. Promise!EndInhibit
      BY <1>1, <1>2, <1>3, <2>1, <2>2, <3>1, <3>2 DEF Promise!EndInhibit
    <3> QED BY <3>3 DEF Promise!Next
  <2>5. CASE Stage(durable) = 1 /\ pending.resume_state = "SAT_TO_GROUND_1"
    <3>1. DeploymentStage(durable) = "deploying" /\ DeploymentStage(pending) = "talking"
      BY <2>1, <2>5 DEF DeploymentStage, Stage
    <3>2. "START" \in heard
      BY <1>1, <2>5, Numbers DEF IInv, IRest, IHeard, Handshaken
    <3>3. Promise!Talk
      BY <1>2, <1>3, <2>1, <2>2, <3>1, <3>2 DEF Promise!Talk
    <3> QED BY <3>3 DEF Promise!Next
  <2>6. CASE Stage(durable) = 2 /\ pending.resume_state = "MAIN_OPS"
    <3>1. DeploymentStage(durable) = "talking" /\ DeploymentStage(pending) = "done"
      BY <2>1, <2>6 DEF DeploymentStage, Stage
    <3>2. "ACK" \in heard
      BY <1>1, <2>6, Numbers DEF IInv, IRest, IHeard
    <3>3. Promise!Finish
      BY <1>2, <1>3, <2>1, <2>2, <3>1, <3>2 DEF Promise!Finish
    <3> QED BY <3>3 DEF Promise!Next
  <2> QED BY <2>1, <2>3, <2>4, <2>5, <2>6
<1> QED BY <1>4, <1>5

\* A burn ends, or a reset cuts whatever was going on.
LEMMA OffMaps ==
  ASSUME durable' = durable, ~pyro', pc' # "reserved", UNCHANGED <<owed, heard>>
  PROVE  Promise!Next
BY SameStage DEF Promise!Next, Promise!Off, wire

LEMMA EndMaps ==
  ASSUME IInv, ISuccessor, BurnOver \/ SaveOk \/ SaveFails \/ StartupFault \/ Reset
  PROVE  Promise!Next \/ UNCHANGED Promise!vars
<1>1. CASE BurnOver
  BY <1>1, OffMaps DEF BurnOver
<1>2. CASE SaveOk
  <2>1. pc = "saving" /\ durable' = pending /\ pc' = resumeAt /\ pyro' = pyro
        /\ UNCHANGED <<owed, heard>>
    BY <1>2 DEF SaveOk, Store!Acknowledge
  <2>2. ~pyro'
    BY <2>1 DEF IInv, IRest, IPlace
  <2> QED BY <2>1, <2>2, SuccessorMaps
<1>3. CASE SaveFails \/ StartupFault \/ Reset
  <2>1. ~pyro' /\ pc' # "reserved" /\ UNCHANGED <<owed, heard>>
    BY <1>3 DEF SaveFails, StartupFault, Reset, Forget, IInv, IRest, IPlace
  <2>2. durable' = durable \/ (pc = "saving" /\ durable' = pending)
    <3>1. CASE pending = NoRecord
      BY <1>3, <3>1 DEF SaveFails, Store!Abandon, StartupFault, Reset, Store!Reset
    <3>2. CASE pending # NoRecord
      BY <1>3, <3>2, OldOrNewOutcomes
         DEF SaveFails, Store!Abandon, StartupFault, Reset, Store!Reset
    <3> QED BY <3>1, <3>2
  <2> QED BY <2>1, <2>2, OffMaps, SuccessorMaps
<1> QED BY <1>1, <1>2, <1>3

LEMMA DeploymentNext ==
  IInv /\ ISuccessor /\ [Next]_vars => [Promise!Next]_(Promise!vars)
BY QuietMaps, PassMaps, StartMaps, AckMaps, BurnMaps, EndMaps
   DEF Next, Program, Environment, Promise!Next

LEMMA DeploymentInit == Init => Promise!Init
<1> SUFFICES ASSUME Init PROVE Promise!Init
  OBVIOUS
<1>1. durable.attempts_used \in 0 .. STARTUP_ATTEMPT_LIMIT /\ wire = "off"
  BY DEF Init, wire
<1>2. owed \in Nat /\ heard \subseteq {"START", "ACK"}
  BY InvInit DEF IInv, TypeOK
<1>3. DeploymentStage(durable) \in {"unarmed", "inhibited", "deploying", "talking", "done"}
  BY DEF DeploymentStage
<1> QED BY <1>1, <1>2, <1>3 DEF Promise!Init, Promise!Stages

\* Over any number of boots, resets and saves cut short the sequence is the
\* deployment of module Deployment.
THEOREM StartupImplementsDeployment == Spec => ImplementsDeployment
<1>1. Init => ISuccessor
  BY DEF Init, ISuccessor
<1> QED BY Invariant, <1>1, SuccessorStep, DeploymentInit, DeploymentNext, PTL
        DEF Spec, ImplementsDeployment, Promise!Spec

-----------------------------------------------------------------------------
(* Startup and the store: the sequence uses the register of DurableRecord, *)
(* which StartupStore implements, as its caller may: it saves only what it *)
(* has loaded a record before, one save at a time, and waits for the end   *)
(* of each.  The guards of the register never hold the sequence up.        *)
StoreReady ==
  /\ pc = "load" => pending = NoRecord
  /\ pc \in Active => committed \in StartupStoreState /\ pending = NoRecord
  /\ pc = "saving" => committed \in StartupStoreState /\ pending \in StartupStoreState

LEMMA StoreSteps == [Next]_vars => [Store!Next]_(Store!vars)
<1> SUFFICES ASSUME [Next]_vars PROVE [Store!Next]_(Store!vars)
  OBVIOUS
<1>1. CASE LoadRecord
  BY <1>1 DEF LoadRecord, Store!Next
<1>2. CASE WaitListen \/ WaitOver \/ WaitCount \/ RetryListens \/ Reserve \/ BurnRetry \/ Ready
  BY <1>2 DEF WaitListen, WaitOver, WaitCount, RetryListens, Reserve, BurnRetry, PyroOn, Ready,
              startup_enter_handshake, Save, Store!Next, Store!vars
<1>3. CASE SaveOk \/ SaveFails \/ StartupFault \/ Reset
  BY <1>3 DEF SaveOk, SaveFails, StartupFault, Reset, Store!Next
<1>4. CASE \/ PowerOn \/ UnarmedPark \/ EnterWait \/ WaitDeaf \/ WaitSleep \/ FirstAttempt
           \/ NotEligible \/ BurnFirst \/ Burning \/ BurnOver \/ HelloPaced \/ Hello \/ AwaitAck
           \/ HandOff \/ Delay \/ Uplink \/ Battery \/ Settle \/ UNCHANGED vars
  BY <1>4 DEF PowerOn, UnarmedPark, EnterWait, WaitDeaf, WaitSleep, FirstAttempt, NotEligible,
              BurnFirst, PyroOn, Burning, BurnOver, HelloPaced, Hello, AwaitAck, HandOff, Delay,
              Uplink, Battery, Settle, vars, Store!vars
<1> QED BY <1>1, <1>2, <1>3, <1>4 DEF Next, Program, Environment

\* The sequence and the store meet at DurableRecord.
THEOREM StartupUsesStore == Spec => Store!Spec /\ []StoreReady
<1>1. IInv => StoreReady
  BY DEF IInv, IRest, IStore, TypeOK, StoreReady
<1>2. Init => Store!Init
  BY InvInit DEF Init, IInv, TypeOK, Store!Init
<1> QED BY Invariant, StoreSteps, <1>1, <1>2, PTL DEF Spec, Store!Spec

-----------------------------------------------------------------------------
(* Waits and burns come to an end: what decreases with every step.         *)

\* Within startup_wait, the save of a checkpoint included.
Waiting == pc \in InWait \/ (pc = "saving" /\ resumeAt = "sleep")

\* The time that is left to count, and the place in the iteration.
Place == CASE pc = "wait" -> 4 [] pc = "count" -> 3 [] pc = "saving" -> 2 [] OTHER -> 1
WaitLeft == 4 * Less(remaining, lag) + Place

WaitAdvances ==
  [][Waiting /\ Waiting' => WaitLeft' <= WaitLeft /\ (Program => WaitLeft' < WaitLeft)]_vars

BurnAdvances ==
  [][pyro /\ pyro' => timer' <= STARTUP_BURN_MS + Work /\ (Program => timer' > timer)]_vars

\* A wait sleeps only when there is time left, and a burn has begun before its time is over.
ILeft ==
  /\ pc = "sleep" \/ (pc = "saving" /\ resumeAt = "sleep") => remaining > 0
  /\ pyro => timer <= STARTUP_BURN_MS + Work

\* Steps of a wait, one by one.
LEMMA DeafAdvances ==
  ASSUME IInv, WaitDeaf \/ (WaitListen /\ Waiting')
  PROVE  pc = "wait" /\ pc' = "count" /\ UNCHANGED <<remaining, lag, pyro>>
BY DEF WaitDeaf, WaitListen, Waiting, startup_enter_handshake, Save

LEMMA CountAdvances ==
  ASSUME IInv, WaitCount
  PROVE  /\ pc = "count" /\ (pc' = "sleep" \/ (pc' = "saving" /\ resumeAt' = "sleep"))
         /\ remaining \in Nat /\ lag \in Nat /\ remaining > lag
         /\ remaining' = remaining - lag /\ lag' = 0 /\ pyro' = pyro
<1>1. /\ pc = "count" /\ remaining > step /\ pyro' = pyro
      /\ lag' = lag - step /\ remaining' = remaining - step
      /\ pc' = "sleep" \/ (pc' = "saving" /\ resumeAt' = "sleep")
  BY DEF WaitCount, uncounted, Save
<1>2. remaining \in Nat /\ lag \in Nat /\ step = Lesser(lag, remaining)
  BY DEF IInv, TypeOK, step
<1>3. step = lag /\ remaining > lag
  BY <1>1, <1>2 DEF Lesser
<1> QED BY <1>1, <1>2, <1>3

LEMMA SleepAdvances ==
  ASSUME IInv, ILeft, WaitSleep
  PROVE  /\ pc = "sleep" /\ pc' = "wait" /\ UNCHANGED <<remaining, pyro>>
         /\ remaining \in Nat /\ remaining > 0 /\ lag = 0 /\ lag' \in Nat /\ lag' > 0
<1>1. /\ pc = "sleep" /\ pc' = "wait" /\ UNCHANGED <<remaining, pyro>>
  BY DEF WaitSleep
<1> DEFINE nap == IF listen THEN Lesser(until_checkpoint, STARTUP_POLL_MS) ELSE until_checkpoint
<1>2. PICK d \in Overrun(nap) : lag' = lag + d
  BY DEF WaitSleep
<1>3. /\ remaining \in Nat /\ remaining > 0 /\ unsaved \in Nat /\ lag = 0
      /\ unsaved < STARTUP_CHECKPOINT_MS
  BY <1>1 DEF IInv, TypeOK, IRest, IWait, ILeft
<1>4. nap \in Nat /\ nap > 0
  <2>1. STARTUP_POLL_MS \in Nat /\ STARTUP_POLL_MS > 0
    BY TimingAssumption
  <2>2. until_checkpoint \in Nat /\ until_checkpoint > 0
    BY <1>3, Numbers DEF until_checkpoint, Lesser
  <2> QED BY <2>1, <2>2 DEF Lesser
<1> HIDE DEF nap
<1>5. d \in Nat /\ d > 0
  BY <1>4, Numbers DEF Overrun
<1> QED BY <1>1, <1>2, <1>3, <1>5

LEMMA BurningAdvances ==
  ASSUME IInv, Burning
  PROVE  /\ pc = "burn" /\ pc' = "burn" /\ pyro' = pyro /\ timer \in Nat /\ timer' \in Nat
         /\ timer' > timer /\ timer' <= STARTUP_BURN_MS + Work
<1>1. pc = "burn" /\ pc' = "burn" /\ pyro' = pyro /\ timer < STARTUP_BURN_MS
  BY DEF Burning
<1>2. PICK d \in Overrun(1) : timer' = timer + d
  BY DEF Burning
<1>3. timer \in Nat /\ d \in Nat /\ d > 0 /\ d <= 1 + Work
  BY <1>2, Numbers DEF IInv, TypeOK, Overrun
<1> QED BY <1>1, <1>2, <1>3, Numbers

\* Of the other steps of the program none stays in a wait or keeps the wire on.
LEMMA OtherSteps ==
  ASSUME IInv, Program, ~WaitDeaf, ~(WaitListen /\ Waiting'), ~WaitCount, ~WaitSleep, ~Burning
  PROVE  /\ Waiting /\ Waiting' => SaveOk /\ resumeAt = "sleep"
         /\ pyro /\ pyro' => FALSE
         /\ pyro' => timer' = 0
         /\ pc' = "sleep" \/ (pc' = "saving" /\ resumeAt' = "sleep") => SaveOk /\ resumeAt = "sleep"
<1>1. pyro => pc = "burn"
  BY DEF IInv, IRest, IPlace
<1>2. CASE PowerOn \/ LoadRecord \/ UnarmedPark \/ EnterWait \/ SaveFails \/ StartupFault
  BY <1>1, <1>2 DEF PowerOn, LoadRecord, after_load, UnarmedPark, EnterWait, SaveFails, StartupFault,
                    Forget, Waiting
<1>3. CASE WaitListen \/ WaitOver
  <2>1. pc \in {"wait", "count"} /\ pyro' = pyro
    BY <1>3 DEF WaitListen, WaitOver
  <2>2. CASE WaitListen
    <3>1. ~Waiting' /\ pc' \in {"count", "saving"}
      BY <2>2 DEF WaitListen, startup_enter_handshake, Save
    <3> QED BY <1>1, <2>1, <3>1 DEF Waiting
  <2>3. CASE WaitOver
    <3>1. pc' = "delay" \/ (pc' = "saving" /\ resumeAt' = "delay")
      BY <2>3 DEF WaitOver, Save
    <3> QED BY <1>1, <2>1, <3>1 DEF Waiting
  <2> QED BY <1>3, <2>2, <2>3
<1>4. CASE SaveOk
  BY <1>1, <1>4 DEF SaveOk, Waiting
<1>5. CASE FirstAttempt \/ NotEligible \/ HelloPaced \/ Hello \/ AwaitAck \/ HandOff \/ Delay \/ BurnOver
  BY <1>1, <1>5 DEF FirstAttempt, NotEligible, HelloPaced, Hello, AwaitAck, HandOff, Delay, BurnOver,
                    At, Waiting
<1>6. CASE RetryListens \/ Reserve \/ BurnFirst \/ BurnRetry \/ Ready
  BY <1>1, <1>6 DEF RetryListens, Reserve, BurnFirst, BurnRetry, Ready, PyroOn,
                    startup_enter_handshake, Save, At, Waiting
<1> QED BY <1>2, <1>3, <1>4, <1>5, <1>6 DEF Program

\* The environment takes nothing from a wait and adds nothing to a burn; a reset ends both.
LEMMA WorldAdvances ==
  ASSUME Environment \/ UNCHANGED vars
  PROVE  \/ UNCHANGED <<pc, resumeAt, remaining, lag, timer, pyro>>
         \/ pc' = "off" /\ ~pyro'
BY DEF Environment, Reset, Uplink, Battery, Settle, Forget, vars

LEMMA LeftInit == Init => ILeft
BY DEF Init, ILeft

LEMMA LeftStep ==
  ASSUME IInv, ILeft, [Next]_vars
  PROVE  ILeft'
<1>1. CASE Environment \/ UNCHANGED vars
  BY <1>1, WorldAdvances DEF ILeft
<1>2. CASE WaitDeaf \/ (WaitListen /\ Waiting')
  <2>1. pyro => pc = "burn"
    BY DEF IInv, IRest, IPlace
  <2> QED BY <1>2, <2>1, DeafAdvances DEF ILeft
<1>3. CASE WaitCount
  <2>1. pyro => pc = "burn"
    BY DEF IInv, IRest, IPlace
  <2> QED BY <1>3, <2>1, CountAdvances DEF ILeft
<1>4. CASE WaitSleep
  <2>1. pyro => pc = "burn"
    BY DEF IInv, IRest, IPlace
  <2> QED BY <1>4, <2>1, SleepAdvances DEF ILeft
<1>5. CASE Burning
  BY <1>5, BurningAdvances DEF ILeft
<1>6. CASE /\ Program /\ ~WaitDeaf /\ ~(WaitListen /\ Waiting') /\ ~WaitCount /\ ~WaitSleep
           /\ ~Burning
  <2>1. /\ pyro' => timer' = 0
        /\ pc' = "sleep" \/ (pc' = "saving" /\ resumeAt' = "sleep") => SaveOk /\ resumeAt = "sleep"
    BY <1>6, OtherSteps
  <2>2. SaveOk => pc = "saving" /\ remaining' = remaining
    BY DEF SaveOk
  <2> QED BY <2>1, <2>2, Numbers DEF ILeft
<1> QED BY <1>1, <1>2, <1>3, <1>4, <1>5, <1>6 DEF Next

\* What is left of a wait is a number, before a step and after it.
LEMMA LeftIsNat ==
  ASSUME IInv, IInv'
  PROVE  /\ remaining \in Nat /\ lag \in Nat /\ Place \in Nat /\ Place' \in Nat
         /\ Less(remaining, lag) \in Nat /\ Less(remaining, lag)' \in Nat
         /\ WaitLeft \in Nat /\ WaitLeft' \in Nat
<1>1. /\ remaining \in Nat /\ lag \in Nat /\ Place \in Nat
      /\ remaining' \in Nat /\ lag' \in Nat /\ Place' \in Nat
  BY DEF IInv, TypeOK, Place
<1>2. \A a, b \in Nat : Less(a, b) \in Nat
  BY DEF Less
<1>3. Less(remaining, lag) \in Nat /\ Less(remaining', lag') \in Nat
  BY <1>1, <1>2
<1> QED BY <1>1, <1>3 DEF WaitLeft

LEMMA ProgramAdvances ==
  ASSUME IInv, IInv', ILeft, Program
  PROVE  /\ Waiting /\ Waiting' => WaitLeft' < WaitLeft
         /\ pyro /\ pyro' => timer' > timer
<1>0. /\ remaining \in Nat /\ lag \in Nat /\ Place \in Nat /\ Less(remaining, lag) \in Nat
      /\ Place' \in Nat /\ Less(remaining, lag)' \in Nat
  BY LeftIsNat
<1>1. pyro => pc = "burn"
  BY DEF IInv, IRest, IPlace
<1>2. CASE WaitDeaf \/ (WaitListen /\ Waiting')
  <2>1. pc = "wait" /\ pc' = "count" /\ remaining' = remaining /\ lag' = lag
    BY <1>2, DeafAdvances
  <2>2. Less(remaining, lag)' = Less(remaining, lag) /\ Place = 4 /\ Place' = 3
    BY <2>1 DEF Place
  <2> QED BY <1>0, <1>1, <2>1, <2>2 DEF WaitLeft
<1>3. CASE WaitCount
  <2>1. /\ pc = "count" /\ pc' \in {"sleep", "saving"}
        /\ remaining > lag /\ remaining' = remaining - lag /\ lag' = 0
    BY <1>3, CountAdvances
  <2>2. Less(remaining, lag)' = Less(remaining, lag)
    BY <1>0, <2>1 DEF Less
  <2>3. Place = 3 /\ Place' \in {1, 2}
    BY <2>1 DEF Place
  <2> QED BY <1>0, <1>1, <2>1, <2>2, <2>3 DEF WaitLeft
<1>4. CASE WaitSleep
  <2>1. /\ pc = "sleep" /\ pc' = "wait" /\ remaining' = remaining
        /\ remaining > 0 /\ lag = 0 /\ lag' \in Nat /\ lag' > 0
    BY <1>4, SleepAdvances
  <2>2. Less(remaining, lag)' <= Less(remaining, lag) - 1
    <3>1. Less(remaining, lag) = remaining
      BY <1>0, <2>1 DEF Less
    <3>2. Less(remaining, lag)' = IF remaining > lag' THEN remaining - lag' ELSE 0
      BY <2>1 DEF Less
    <3> QED BY <1>0, <2>1, <3>1, <3>2
  <2>3. Place = 1 /\ Place' = 4
    BY <2>1 DEF Place
  <2> QED BY <1>0, <1>1, <2>1, <2>2, <2>3 DEF WaitLeft
<1>5. CASE Burning
  <2>1. pc = "burn" /\ timer' > timer
    BY <1>5, BurningAdvances
  <2> QED BY <2>1 DEF Waiting
<1>6. CASE ~WaitDeaf /\ ~(WaitListen /\ Waiting') /\ ~WaitCount /\ ~WaitSleep /\ ~Burning
  <2>1. /\ Waiting /\ Waiting' => SaveOk /\ resumeAt = "sleep"
        /\ ~(pyro /\ pyro')
    BY <1>6, OtherSteps
  <2>2. CASE SaveOk /\ resumeAt = "sleep"
    <3>1. pc = "saving" /\ pc' = "sleep" /\ remaining' = remaining /\ lag' = lag
      BY <2>2 DEF SaveOk
    <3>2. Less(remaining, lag)' = Less(remaining, lag) /\ Place = 2 /\ Place' = 1
      BY <3>1 DEF Place
    <3> QED BY <1>0, <2>1, <3>2 DEF WaitLeft
  <2> QED BY <2>1, <2>2
<1> QED BY <1>2, <1>3, <1>4, <1>5, <1>6

(* Every step that startup_wait takes, a checkpoint's save included, leaves *)
(* less of it: time counted or slept through is taken off what remains, or *)
(* the iteration is a step further, and no sleep is empty.  A wait thus    *)
(* ends within four steps for each millisecond it began with and four      *)
(* more, whatever the radio delivers meanwhile.                            *)
THEOREM StartupWaitAdvances == Spec => WaitAdvances
<1>1. IInv /\ ILeft /\ [Next]_vars =>
        [Waiting /\ Waiting' => WaitLeft' <= WaitLeft /\ (Program => WaitLeft' < WaitLeft)]_vars
  <2> SUFFICES ASSUME IInv, ILeft, [Next]_vars, Waiting, Waiting'
               PROVE  WaitLeft' <= WaitLeft /\ (Program => WaitLeft' < WaitLeft)
    OBVIOUS
  <2>1. IInv'
    BY InvStep
  <2>2. WaitLeft \in Nat /\ WaitLeft' \in Nat
    BY <2>1, LeftIsNat
  <2>3. CASE Program
    BY <2>1, <2>2, <2>3, ProgramAdvances
  <2>4. CASE ~Program
    <3>1. UNCHANGED <<pc, resumeAt, remaining, lag>>
      BY <2>4, WorldAdvances DEF Next, Waiting
    <3>2. WaitLeft' = WaitLeft
      BY <3>1 DEF WaitLeft, Less, Place
    <3> QED BY <2>2, <2>4, <3>2
  <2> QED BY <2>3, <2>4
<1> QED BY Invariant, LeftInit, LeftStep, <1>1, PTL DEF Spec, WaitAdvances

(* The burn counts on with every step the program takes while the wire is  *)
(* ON, and is over one tick and one overrun after STARTUP_BURN_MS at the   *)
(* latest; nothing else is done while it lasts.                            *)
THEOREM StartupBurnAdvances == Spec => BurnAdvances
<1>1. IInv /\ ILeft /\ [Next]_vars =>
        [pyro /\ pyro' => timer' <= STARTUP_BURN_MS + Work /\ (Program => timer' > timer)]_vars
  <2> SUFFICES ASSUME IInv, ILeft, [Next]_vars, pyro, pyro'
               PROVE  timer' <= STARTUP_BURN_MS + Work /\ (Program => timer' > timer)
    OBVIOUS
  <2>1. IInv' /\ ILeft'
    BY InvStep, LeftStep
  <2> QED BY <2>1, ProgramAdvances DEF ILeft
<1> QED BY Invariant, LeftInit, LeftStep, <1>1, PTL DEF Spec, BurnAdvances
=============================================================================
