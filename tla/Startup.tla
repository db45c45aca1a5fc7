------------------------------ MODULE Startup ------------------------------
(***************************************************************************)
(* startup.h: the deployment sequence from power-up to the scheduler,      *)
(* over the record store, the pyro output, the radio and the boot clock.   *)
(*                                                                         *)
(* The program is one thread: pc names the place it has reached.  A reset  *)
(* (power cut, watchdog, requested) may come at any place; what survives   *)
(* is the record, through the register of DurableRecord, and what the      *)
(* ground has queued in the radio.  Time advances only where the program   *)
(* waits; the work of an iteration costs up to Work ticks more.            *)
(***************************************************************************)
EXTENDS StartupRecord, Sequences

CONSTANTS
  STARTUP_BURN_MS, STARTUP_RESPONSE_MS, STARTUP_HELLO_RETRY_MS,
  STARTUP_CHECKPOINT_MS, STARTUP_POLL_MS,
  Work,       \* what radio and FRAM work may add to one wait (a bound)
  InboxCap,   \* messages the radio can hold (a bound)
  NoRecord

ASSUME TimingAssumption ==
  /\ STARTUP_BURN_MS \in Nat \ {0}
  /\ STARTUP_RESPONSE_MS \in Nat \ {0}
  /\ STARTUP_HELLO_RETRY_MS \in Nat \ {0}
  /\ STARTUP_CHECKPOINT_MS \in Nat \ {0}
  /\ STARTUP_POLL_MS \in Nat \ {0}
  /\ Work \in Nat
  /\ InboxCap \in Nat
  /\ NoRecord \notin StartupStoreState
  /\ STARTUP_ATTEMPT_LIMIT > 1

VARIABLES
  durable, committed, pending,  \* the store, see DurableRecord
  pc,          \* where the program is
  resumeAt,    \* where it goes on after the save it is in
  state,       \* StartupStoreState in RAM
  remaining, unsaved, lag,      \* locals of startup_wait; lag = getSysTime() - reference
  timer,       \* time since burn_start or response_start_ms
  hello,       \* time since hello_attempt_ms, STARTUP_HELLO_RETRY_MS once it no longer paces
  pyro,        \* the burn wire output
  inbox,       \* messages queued in the radio
  eligible,    \* what STARTUP_BATTERY_ELIGIBLE() answers
  calm,        \* no fault from here on, and power stays eligible
  owed,        \* history: powered time still owed before the wire may be ON
  heard,       \* history: the tokens received where the program looks for them
  queued       \* history: a START was in the radio when the retry found itself due

store == <<durable, committed, pending>>
waiting == <<remaining, unsaved, lag>>
outside == <<inbox, eligible, calm>>
history == <<owed, heard, queued>>
vars == <<store, pc, resumeAt, state, waiting, timer, hello, pyro, outside, history>>

Store == INSTANCE DurableRecord WITH Record <- StartupStoreState

Places == {"off", "load", "parked", "loop", "gate", "reserved", "burn", "wait", "count",
           "sleep", "saving", "delay", "fault", "ops"}
Messages == {"START", "ACK", "OTHER"}
NoState == [resume_state |-> "INITIAL_CHECKS", attempts_used |-> 0, armed |-> FALSE,
            remaining_ms |-> 0]

Lesser(a, b) == IF a < b THEN a ELSE b
Less(a, b) == IF a > b THEN a - b ELSE 0

TypeOK ==
  /\ durable \in StartupStoreState
  /\ committed \in StartupStoreState \cup {NoRecord}
  /\ pending \in StartupStoreState \cup {NoRecord}
  /\ pc \in Places
  /\ resumeAt \in {"delay", "sleep", "reserved"}
  /\ state \in StartupStoreState
  /\ remaining \in Nat /\ unsaved \in Nat /\ lag \in Nat /\ timer \in Nat
  /\ hello \in 0 .. STARTUP_HELLO_RETRY_MS
  /\ pyro \in BOOLEAN /\ eligible \in BOOLEAN /\ calm \in BOOLEAN
  /\ inbox \in Seq(Messages) /\ Len(inbox) <= InboxCap
  /\ owed \in Nat
  /\ heard \subseteq {"START", "ACK"}
  /\ queued \in BOOLEAN

----------------------------------------------------------------------------
(***************************************************************************)
(* Helpers: time, the radio, a save.                                       *)
(***************************************************************************)
Overrun(ms) == ms .. ms + Work

(* d ticks of powered time, the wire OFF *)
Elapse(d) ==
  /\ owed' = Less(owed, d)
  /\ hello' = Lesser(hello + d, STARTUP_HELLO_RETRY_MS)

(* radio_force_pull: one queued message, or none when the queue is empty or the link fails *)
Pull(message) ==
  \/ inbox = <<>> /\ message = "NONE" /\ UNCHANGED inbox
  \/ inbox # <<>> /\ message = Head(inbox) /\ inbox' = Tail(inbox)
  \/ inbox # <<>> /\ ~calm /\ message = "NONE" /\ inbox' \in {inbox, Tail(inbox)}

Hears(message, wanted) == heard' = heard \cup ({message} \cap {wanted})

(* startup_store_save(record), to go on at next when it returns OK *)
Save(record, next) ==
  /\ pending' = record
  /\ Store!Begin
  /\ state' = record
  /\ resumeAt' = next
  /\ pc' = "saving"

Go(next) == pc' = next /\ UNCHANGED <<store, resumeAt>>

(* mutant: the handshake entry is not saved *)
startup_enter_handshake_Unsaved ==
  /\ state' = [state EXCEPT !.resume_state = "SAT_TO_GROUND_1", !.remaining_ms = 0]
  /\ Go("delay")

startup_enter_handshake ==
  Save([state EXCEPT !.resume_state = "SAT_TO_GROUND_1", !.remaining_ms = 0], "delay")

At(place, resume_state) == pc = place /\ state.resume_state = resume_state

(* What a reset leaves: RAM gone, output latch low. *)
Forget ==
  /\ pc' = "off"
  /\ resumeAt' = "delay"
  /\ state' = NoState
  /\ remaining' = 0 /\ unsaved' = 0 /\ lag' = 0 /\ timer' = 0
  /\ hello' = STARTUP_HELLO_RETRY_MS
  /\ pyro' = FALSE
  /\ queued' = FALSE

----------------------------------------------------------------------------
(***************************************************************************)
(* A provisioned device, in any durable state, about to boot.              *)
(***************************************************************************)
Init ==
  /\ durable \in {r \in [resume_state : MCUState, attempts_used : 0 .. STARTUP_ATTEMPT_LIMIT,
                         armed : BOOLEAN,
                         remaining_ms : 0 .. (STARTUP_INHIBIT_MS + STARTUP_RETRY_MS
                                               + STARTUP_WEEKLY_MS)] :
                    startup_store_state_is_valid(r)}
  /\ committed = NoRecord /\ pending = NoRecord
  /\ pc = "off" /\ resumeAt = "delay" /\ state = NoState
  /\ remaining = 0 /\ unsaved = 0 /\ lag = 0 /\ timer = 0
  /\ hello = STARTUP_HELLO_RETRY_MS
  /\ pyro = FALSE
  /\ inbox = <<>> /\ eligible \in BOOLEAN /\ calm = FALSE
  /\ owed = durable.remaining_ms
  /\ heard = CASE durable.resume_state = "MAIN_OPS" -> {"START", "ACK"}
               [] durable.resume_state = "SAT_TO_GROUND_1" -> {"START"}
               [] OTHER -> {}
  /\ queued = FALSE

(* main: pyro OFF, then the checked boot counter decides between Startup and startup_fault *)
PowerOn ==
  /\ pc = "off"
  /\ pyro' = FALSE
  /\ \/ Go("load")
     \/ ~calm /\ Go("fault")
  /\ UNCHANGED <<state, waiting, timer, hello, outside, history>>

(* mutant: the armed flag is not looked at *)
after_load_IgnoresArmed == "loop"

after_load == IF durable.armed THEN "loop" ELSE "parked"

LoadRecord ==
  /\ pc = "load"
  /\ Store!Load
  /\ \/ /\ committed' # NoRecord
        /\ state' = durable
        /\ pc' = after_load
     \/ /\ ~calm
        /\ committed' = NoRecord
        /\ pc' = "fault"
        /\ UNCHANGED state
  /\ UNCHANGED <<resumeAt, waiting, timer, hello, pyro, outside, history>>

(* startup_unarmed_park never returns *)
UnarmedPark ==
  /\ pc = "parked"
  /\ pyro' = FALSE
  /\ \E d \in Overrun(STARTUP_POLL_MS) : Elapse(d)
  /\ UNCHANGED <<store, pc, resumeAt, state, waiting, timer, outside, heard, queued>>

----------------------------------------------------------------------------
(***************************************************************************)
(* startup_wait, entered for INITIAL_CHECKS (deaf) and for                 *)
(* WAITING_FOR_UPLINK (listening).                                         *)
(***************************************************************************)
EnterWait ==
  /\ pc = "loop"
  /\ state.resume_state \in {"INITIAL_CHECKS", "WAITING_FOR_UPLINK"}
  /\ remaining' = state.remaining_ms /\ unsaved' = 0 /\ lag' = 0
  /\ Go("wait")
  /\ UNCHANGED <<state, timer, hello, pyro, outside, history>>

listen == state.resume_state = "WAITING_FOR_UPLINK"

WaitDeaf ==
  /\ pc = "wait" /\ ~listen
  /\ Go("count")
  /\ UNCHANGED <<state, waiting, timer, hello, pyro, outside, history>>

(* the locals of a wait that has returned are dead *)
LeaveWait == remaining' = 0 /\ unsaved' = 0 /\ lag' = 0

WaitListen ==
  /\ pc = "wait" /\ listen
  /\ \E message \in Messages \cup {"NONE"} :
       /\ Pull(message)
       /\ Hears(message, "START")
       /\ \/ /\ message = "START"
             /\ startup_enter_handshake
             /\ LeaveWait
          \/ /\ message # "START"
             /\ Go("count")
             /\ UNCHANGED <<state, waiting>>
  /\ UNCHANGED <<timer, hello, pyro, eligible, calm, owed, queued>>

step == Lesser(lag, remaining)

(* mutant: the reference is not advanced, so elapsed time is subtracted again *)
uncounted_Twice == lag

uncounted == lag - step

(* mutant: a due retry keeps listening although power is eligible *)
due_retry_Listens == "WAITING_FOR_UPLINK"

due_retry == IF eligible THEN "WAIT_POWER_ON" ELSE "WAITING_FOR_UPLINK"

(* the wait is over, found before or after counting the elapsed time *)
WaitOver ==
  /\ pc = "count"
  /\ remaining = step
  /\ LeaveWait
  /\ \/ /\ ~listen
        /\ Save([state EXCEPT !.resume_state = "WAIT_POWER_ON", !.remaining_ms = 0], "delay")
     \/ /\ listen
        /\ state' = [state EXCEPT !.remaining_ms = 0, !.resume_state = due_retry]
        /\ Go("delay")
  /\ UNCHANGED <<timer, hello, pyro, outside, history>>

WaitCount ==
  /\ pc = "count"
  /\ remaining > step
  /\ lag' = uncounted /\ remaining' = remaining - step /\ unsaved' = unsaved + step
  /\ \/ /\ unsaved' < STARTUP_CHECKPOINT_MS
        /\ Go("sleep")
        /\ UNCHANGED state
     \/ /\ unsaved' >= STARTUP_CHECKPOINT_MS
        /\ Save([state EXCEPT !.remaining_ms = remaining'], "sleep")
  /\ UNCHANGED <<timer, hello, pyro, outside, history>>

(* mutant: the sleep is not cut at the next checkpoint *)
until_checkpoint_Uncut == remaining

until_checkpoint == Lesser(remaining, STARTUP_CHECKPOINT_MS - unsaved)

WaitSleep ==
  /\ pc = "sleep"
  /\ \E d \in Overrun(IF listen THEN Lesser(until_checkpoint, STARTUP_POLL_MS)
                       ELSE until_checkpoint) :
        lag' = lag + d /\ Elapse(d)
  /\ Go("wait")
  /\ UNCHANGED <<state, remaining, unsaved, timer, pyro, outside, heard, queued>>

----------------------------------------------------------------------------
(***************************************************************************)
(* A save returns.                                                         *)
(***************************************************************************)
(* mutant: a checkpoint does not reset unsaved *)
SaveOk_KeepsUnsaved ==
  /\ pc = "saving"
  /\ Store!Acknowledge
  /\ pc' = resumeAt
  /\ UNCHANGED <<resumeAt, state, waiting, timer, hello, pyro, outside, history>>

SaveOk ==
  /\ pc = "saving"
  /\ Store!Acknowledge
  /\ pc' = resumeAt
  /\ unsaved' = IF resumeAt = "sleep" THEN 0 ELSE unsaved
  /\ UNCHANGED <<resumeAt, state, remaining, lag, timer, hello, pyro, outside, history>>

SaveFails ==
  /\ pc = "saving" /\ ~calm
  /\ Store!Abandon
  /\ pc' = "fault"
  /\ UNCHANGED <<resumeAt, state, waiting, timer, hello, pyro, outside, history>>

----------------------------------------------------------------------------
(***************************************************************************)
(* WAIT_POWER_ON: listen once (a retry only), reserve the attempt, listen  *)
(* once more, burn.                                                        *)
(***************************************************************************)
FirstAttempt ==
  /\ At("loop", "WAIT_POWER_ON") /\ state.attempts_used = 0
  /\ Go("gate")
  /\ UNCHANGED <<state, waiting, timer, hello, pyro, outside, history>>

RetryListens ==
  /\ At("loop", "WAIT_POWER_ON") /\ state.attempts_used > 0
  /\ queued' = (calm /\ \E i \in 1 .. Len(inbox) : inbox[i] = "START")
  /\ \E message \in Messages \cup {"NONE"} :
       /\ Pull(message)
       /\ Hears(message, "START")
       /\ \/ message = "START" /\ startup_enter_handshake
          \/ message # "START" /\ Go("gate") /\ UNCHANGED state
  /\ UNCHANGED <<waiting, timer, hello, pyro, eligible, calm, owed>>

NotEligible ==
  /\ pc = "gate" /\ ~eligible
  /\ Go("delay")
  /\ UNCHANGED <<state, waiting, timer, hello, pyro, outside, history>>

(* mutants: the attempts do not saturate; a retry consumes none *)
attempts_Unbounded == state.attempts_used + 1
attempts_NotConsumed == IF state.attempts_used = 0 THEN 1 ELSE state.attempts_used

attempts == Lesser(state.attempts_used + 1, STARTUP_ATTEMPT_LIMIT)

(* mutant: the retry interval is not part of the reservation *)
reservation_NoInterval ==
  [state EXCEPT !.attempts_used = attempts, !.resume_state = "WAITING_FOR_UPLINK"]

reservation ==
  [state EXCEPT !.attempts_used = attempts,
                !.resume_state = "WAITING_FOR_UPLINK",
                !.remaining_ms = startup_store_retry_ms(attempts)]

Reserve ==
  /\ pc = "gate" /\ eligible
  /\ Save(reservation, "reserved")
  /\ UNCHANGED <<waiting, timer, hello, pyro, outside, history>>

PyroOn ==
  /\ pyro' = TRUE
  /\ timer' = 0
  /\ owed' = startup_store_retry_ms(state.attempts_used)
  /\ Go("burn")
  /\ UNCHANGED state

(* the limit exceeds one, so the reservation of a retry has consumed at least two attempts *)
BurnFirst ==
  /\ pc = "reserved" /\ state.attempts_used = 1
  /\ PyroOn
  /\ UNCHANGED <<waiting, hello, outside, heard, queued>>

(* mutant: what the last poll before ON receives is not looked at *)
BurnRetry_IgnoresStart ==
  /\ pc = "reserved" /\ state.attempts_used > 1
  /\ \E message \in Messages \cup {"NONE"} : Pull(message) /\ Hears(message, "START")
  /\ PyroOn
  /\ UNCHANGED <<waiting, hello, eligible, calm, queued>>

BurnRetry ==
  /\ pc = "reserved" /\ state.attempts_used > 1
  /\ \E message \in Messages \cup {"NONE"} :
       /\ Pull(message)
       /\ Hears(message, "START")
       /\ \/ message # "START" /\ PyroOn
          \/ /\ message = "START"
             /\ pyro' = FALSE
             /\ startup_enter_handshake
             /\ UNCHANGED <<timer, owed>>
  /\ UNCHANGED <<waiting, hello, eligible, calm, queued>>

Burning ==
  /\ pc = "burn" /\ timer < STARTUP_BURN_MS
  /\ \E d \in Overrun(1) : timer' = timer + d
  /\ UNCHANGED <<store, pc, resumeAt, state, waiting, hello, pyro, outside, history>>

(* mutant: OFF is not commanded *)
BurnOver_StaysOn ==
  /\ pc = "burn" /\ timer >= STARTUP_BURN_MS
  /\ timer' = 0
  /\ Go("delay")
  /\ UNCHANGED <<state, waiting, hello, pyro, outside, history>>

BurnOver ==
  /\ pc = "burn" /\ timer >= STARTUP_BURN_MS
  /\ pyro' = FALSE
  /\ timer' = 0
  /\ Go("delay")
  /\ UNCHANGED <<state, waiting, hello, outside, history>>

----------------------------------------------------------------------------
(***************************************************************************)
(* The handshake.  Only its entry and its end are durable.                 *)
(***************************************************************************)
HelloPaced ==
  /\ At("loop", "SAT_TO_GROUND_1") /\ hello < STARTUP_HELLO_RETRY_MS
  /\ Go("delay")
  /\ UNCHANGED <<state, waiting, timer, hello, pyro, outside, history>>

Hello ==
  /\ At("loop", "SAT_TO_GROUND_1") /\ hello >= STARTUP_HELLO_RETRY_MS
  /\ hello' = 0
  /\ \/ state' = [state EXCEPT !.resume_state = "GROUND_TO_SAT_1"] /\ timer' = 0
     \/ UNCHANGED <<state, timer>>
  /\ Go("delay")
  /\ UNCHANGED <<waiting, pyro, outside, history>>

(* mutants: any message counts; a missing ACK goes back to the retries; it is waited for *)
after_pull_AnyMessage(message) ==
  CASE message # "NONE" -> "SAT_TO_GROUND_2"
    [] message = "NONE" /\ timer >= STARTUP_RESPONSE_MS -> "SAT_TO_GROUND_1"
    [] OTHER -> "GROUND_TO_SAT_1"
after_pull_Redeploys(message) ==
  CASE message = "ACK" -> "SAT_TO_GROUND_2"
    [] message # "ACK" /\ timer >= STARTUP_RESPONSE_MS -> "WAIT_POWER_ON"
    [] OTHER -> "GROUND_TO_SAT_1"
after_pull_NoTimeout(message) == IF message = "ACK" THEN "SAT_TO_GROUND_2" ELSE "GROUND_TO_SAT_1"

after_pull(message) ==
  CASE message = "ACK" -> "SAT_TO_GROUND_2"
    [] message # "ACK" /\ timer >= STARTUP_RESPONSE_MS -> "SAT_TO_GROUND_1"
    [] OTHER -> "GROUND_TO_SAT_1"

AwaitAck ==
  /\ At("loop", "GROUND_TO_SAT_1")
  /\ \E message \in Messages \cup {"NONE"} :
       /\ Pull(message)
       /\ Hears(message, "ACK")
       /\ state' = [state EXCEPT !.resume_state = after_pull(message)]
  /\ Go("delay")
  /\ UNCHANGED <<waiting, timer, hello, pyro, eligible, calm, owed, queued>>

(* READY is best effort: its outcome changes nothing *)
Ready ==
  /\ At("loop", "SAT_TO_GROUND_2")
  /\ Save([state EXCEPT !.resume_state = "MAIN_OPS", !.remaining_ms = 0], "delay")
  /\ UNCHANGED <<waiting, timer, hello, pyro, outside, history>>

HandOff ==
  /\ At("loop", "MAIN_OPS")
  /\ Go("ops")
  /\ UNCHANGED <<state, waiting, timer, hello, pyro, outside, history>>

Delay ==
  /\ pc = "delay"
  /\ \E d \in Overrun(STARTUP_POLL_MS) :
        /\ Elapse(d)
        /\ timer' = IF state.resume_state = "GROUND_TO_SAT_1"
                     THEN Lesser(timer + d, STARTUP_RESPONSE_MS) ELSE timer
  /\ Go("loop")
  /\ queued' = FALSE
  /\ UNCHANGED <<state, waiting, pyro, outside, heard>>

----------------------------------------------------------------------------
(***************************************************************************)
(* startup_fault, and the environment: resets, the ground, the battery.    *)
(***************************************************************************)
StartupFault ==
  /\ pc = "fault"
  /\ Forget
  /\ Store!Reset
  /\ UNCHANGED <<outside, owed, heard>>

Reset ==
  /\ ~calm
  /\ Forget
  /\ Store!Reset
  /\ inbox' \in {inbox, <<>>}
  /\ UNCHANGED <<eligible, calm, owed, heard>>

Uplink ==
  /\ Len(inbox) < InboxCap
  /\ \E message \in Messages : inbox' = Append(inbox, message)
  /\ UNCHANGED <<store, pc, resumeAt, state, waiting, timer, hello, pyro, eligible, calm, history>>

Battery ==
  /\ ~calm
  /\ eligible' = ~eligible
  /\ UNCHANGED <<store, pc, resumeAt, state, waiting, timer, hello, pyro, inbox, calm, history>>

Settle ==
  /\ ~calm /\ calm' = TRUE /\ eligible' = TRUE
  /\ UNCHANGED <<store, pc, resumeAt, state, waiting, timer, hello, pyro, inbox, history>>

Program ==
  \/ PowerOn \/ LoadRecord \/ UnarmedPark
  \/ EnterWait \/ WaitDeaf \/ WaitListen \/ WaitOver \/ WaitCount \/ WaitSleep
  \/ SaveOk \/ SaveFails
  \/ FirstAttempt \/ RetryListens \/ NotEligible \/ Reserve
  \/ BurnFirst \/ BurnRetry \/ Burning \/ BurnOver
  \/ HelloPaced \/ Hello \/ AwaitAck \/ Ready \/ HandOff \/ Delay
  \/ StartupFault

Environment == Reset \/ Uplink \/ Battery \/ Settle

Next == Program \/ Environment

Spec == Init /\ [][Next]_vars
FairSpec == Spec /\ WF_vars(Program)
----------------------------------------------------------------------------
(***************************************************************************)
(* Safety.                                                                 *)
(***************************************************************************)
(* The wire is ON only while the durable record is the reservation of this *)
(* attempt: WAITING_FOR_UPLINK, an attempt consumed, a full retry interval *)
(* ("The consumed attempt and a full retry interval must be durable before *)
(* ON", startup.h).                                                        *)
OnImpliesReserved ==
  pyro =>
    /\ durable = state /\ pending = NoRecord
    /\ durable.resume_state = "WAITING_FOR_UPLINK"
    /\ durable.attempts_used >= 1
    /\ durable.remaining_ms = startup_store_retry_ms(durable.attempts_used)

(* Powered time owed since provisioning (the inhibit) or since the last    *)
(* burn (the full retry interval, counted from its OFF) has passed in full *)
(* before the wire goes ON, whatever resets, lost checkpoints and failed   *)
(* saves come between: time off is never credited, an interval is never    *)
(* counted twice and no burn is replayed.                                  *)
BurnSpacing == [][pyro' /\ ~pyro => owed = 0]_vars

(* Once the handshake entry is durable no later boot goes back to          *)
(* deployment: the record stays in the handshake or MAIN_OPS and the wire  *)
(* stays OFF.                                                              *)
Handshaken(record) == record.resume_state \in {"SAT_TO_GROUND_1", "MAIN_OPS"}
HandshakeIsFinal ==
  [][Handshaken(durable) => Handshaken(durable') /\ ~pyro'
       /\ (durable.resume_state = "MAIN_OPS" => durable' = durable)]_vars

(* The handshake is entered only after a START was received and MAIN_OPS   *)
(* only after an ACK was, over any number of boots.                        *)
HandshakeCausality ==
  /\ Handshaken(durable) => "START" \in heard
  /\ durable.resume_state = "MAIN_OPS" => "ACK" \in heard

(* What the program believes in RAM, between saves, is ahead of the media  *)
(* only in the three places a reset may undo: a retry that became due, the *)
(* handshake in progress, the wait being counted.  In particular HELLO and *)
(* READY are sent and the scheduler is entered with their entry durable.   *)
RamAheadOfMedia ==
  pc \in {"loop", "gate", "reserved", "burn", "wait", "count", "sleep", "delay", "ops"} =>
    /\ committed = durable
    /\ state.attempts_used = durable.attempts_used /\ state.armed = durable.armed
    /\ \/ state.resume_state = durable.resume_state
       \/ /\ state.resume_state = "WAIT_POWER_ON"
          /\ durable.resume_state = "WAITING_FOR_UPLINK"
       \/ /\ state.resume_state \in {"GROUND_TO_SAT_1", "SAT_TO_GROUND_2"}
          /\ durable.resume_state = "SAT_TO_GROUND_1"
    /\ state.remaining_ms <= durable.remaining_ms

(* The store never sees a record it would refuse: the program cannot fall  *)
(* into the reset loop by its own hand.                                    *)
SavesAreValid ==
  pending # NoRecord => startup_store_state_is_valid(pending)

(* A reset during a wait loses at most a checkpoint interval of counted    *)
(* time, plus the work one iteration added to it.                          *)
ProgressLossBounded ==
  pc \in {"wait", "count", "sleep"} =>
    durable.remaining_ms <= Less(remaining, lag) + STARTUP_CHECKPOINT_MS + Work

(* The durable record moves one way over all boots: attempts never fall,   *)
(* an interval only shortens until its attempt is consumed, and the stages *)
(* follow each other.  A record provisioned unarmed never changes.          *)
Stage(record) ==
  CASE record.resume_state = "INITIAL_CHECKS" -> 0
    [] record.resume_state \in {"WAIT_POWER_ON", "WAITING_FOR_UPLINK"} -> 1
    [] record.resume_state = "SAT_TO_GROUND_1" -> 2
    [] OTHER -> 3

DurableProgress ==
  [][durable' # durable =>
       /\ durable.armed
       /\ durable'.attempts_used >= durable.attempts_used
       /\ Stage(durable') >= Stage(durable)
       /\ durable'.resume_state = durable.resume_state
          /\ durable'.attempts_used = durable.attempts_used =>
             \/ durable'.remaining_ms < durable.remaining_ms
             \/ durable'.remaining_ms = startup_store_retry_ms(STARTUP_ATTEMPT_LIMIT)]_vars

(* What all of this is for: over any number of boots, resets and saves cut *)
(* short, the sequence is the deployment of module Deployment.  An unarmed *)
(* device does nothing; a burn follows the reservation of its attempt, the *)
(* powered time owed and no START in its last poll; the handshake and its  *)
(* end are for good.                                                       *)
DeploymentStage(record) ==
  CASE ~record.armed -> "unarmed"
    [] record.armed /\ Stage(record) = 0 -> "inhibited"
    [] record.armed /\ Stage(record) = 1 -> "deploying"
    [] record.armed /\ Stage(record) = 2 -> "talking"
    [] OTHER -> "done"

wire == IF pyro THEN "on" ELSE IF pc = "reserved" THEN "reserved" ELSE "off"

Promise == INSTANCE Deployment WITH
  Limit <- STARTUP_ATTEMPT_LIMIT,
  Interval <- [n \in 0 .. STARTUP_ATTEMPT_LIMIT |-> startup_store_retry_ms(n)],
  stage <- DeploymentStage(durable),
  attempts <- durable.attempts_used

ImplementsDeployment == Promise!Spec

(* "A queued START wins over a due retry" (startup.h): when a retry becomes *)
(* due with a START already in the radio, and the link works, it does not  *)
(* burn.                                                                   *)
QueuedStartWins == [][pyro' /\ ~pyro => ~queued]_vars

----------------------------------------------------------------------------
(***************************************************************************)
(* Liveness, once faults cease and power stays eligible.                   *)
(***************************************************************************)
(* An armed device that is not told to stop burns, and burns again after   *)
(* every retry interval, for ever: it never parks, starves in its waits or *)
(* falls into a reset loop, and every burn ends.                            *)
KeepsTrying ==
  /\ calm /\ durable.armed ~> (pyro \/ Handshaken(durable) \/ Handshaken(state))
  /\ pyro ~> ~pyro

(* The handshake is repeated until the ground answers.                     *)
HelloRepeats ==
  calm /\ durable.resume_state = "SAT_TO_GROUND_1" /\ hello > 0 ~> (hello = 0 \/ pc = "ops")
=============================================================================
