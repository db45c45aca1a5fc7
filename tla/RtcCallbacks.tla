---------------------------- MODULE RtcCallbacks ----------------------------
(***************************************************************************)
(* rtc.c: the table of scheduled callbacks, shared without any lock by the *)
(* main thread (rtc_scheduleCallback, rtc_deleteEntry and                  *)
(* rtc_deleteAllEntries) and the interrupt of RTC alarm A, which runs the  *)
(* callbacks.                                                              *)
(*                                                                         *)
(* The interrupt preempts the main thread anywhere; the main thread does   *)
(* not run until it returns.  It may find a new entry half copied, the     *)
(* sort between two exchanges of entries, or two entries half exchanged    *)
(* (Cut), and between any two steps of the main thread.  The searches,     *)
(* setAlarm and the loop that erases all are one step each, as is what the *)
(* interrupt itself does in a call.  A tick is one second and may pass     *)
(* anywhere, also inside the interrupt.                                    *)
(***************************************************************************)
EXTENDS Naturals, FiniteSets, FiniteSetsExt, Functions

CONSTANTS
  TIMER_CALLBACK_ARRAY_SIZE,
  UINT32_MAX,    \* NULL_ID and NULL_UNIX_TIME
  Day,           \* seconds in a day
  Requests,      \* bound: calls of rtc_scheduleCallback
  Deletes,       \* bound: calls of rtc_deleteEntry and rtc_deleteAllEntries
  Asked,         \* what callers ask for: [delta, continuous, kills]
  Cuts,          \* bound: how often a copy or a sort is cut
  CutWords       \* bound: after how many words of an entry a copy or an exchange is cut

ASSUME CallbacksAssumption ==
  /\ {TIMER_CALLBACK_ARRAY_SIZE, UINT32_MAX, Day, Requests} \subseteq Nat \ {0}
  /\ 2 * Day < UINT32_MAX
  /\ {Deletes, Cuts} \subseteq Nat
  /\ Asked \subseteq [delta : 1 .. Day, continuous : BOOLEAN, kills : BOOLEAN]
  /\ CutWords \subseteq 1 .. 3

VARIABLES
  clock,        \* the RTC's time of day
  callbacks,    \* the table
  id_counter,
  main,         \* the operation of the main thread
  cut,          \* where in it the interrupt came
  cuts,         \* how often it came within a copy or a sort
  isr,          \* RTC_ALARM_IRQHandler
  alarm,        \* the alarm register, UINT32_MAX before it is first set
  enabled,      \* the alarm's interrupt is enabled
  pending,      \* the alarm matched and its interrupt flag was not cleared since
  deletes,      \* deletions asked for so far
  asked,        \* history: what became of each request
  wrongs,       \* history: how calls went wrong
  interrupted,  \* history: the interrupt was taken in the middle of an operation of the main thread
  torn,         \* history: it came in the middle of an entry that was copied or exchanged
  overtaken     \* history: the alarm matched where its interrupt could not be taken for its entry

cuttings == <<cuts, interrupted, torn, overtaken>>
history == <<deletes, asked, wrongs, cuttings>>
table == <<callbacks, id_counter>>
thread == <<main, cut>>
hardware == <<alarm, enabled, pending>>
vars == <<clock, table, thread, isr, hardware, history>>

NULL_ID == UINT32_MAX
NULL_UNIX_TIME == UINT32_MAX
Index == 1 .. TIMER_CALLBACK_ARRAY_SIZE
Request == 1 .. Requests

CallbackEntry ==
  [id : 0 .. UINT32_MAX, unix_time : 0 .. UINT32_MAX, next_time : 0 .. Day,
   callback : 0 .. Requests]
Dummy == [id |-> NULL_ID, unix_time |-> NULL_UNIX_TIME, next_time |-> 0, callback |-> 0]
Resting == [pc |-> "idle", index |-> 1, entry |-> Dummy]
NoCut == [pc |-> "none", words |-> 0, one |-> 1, other |-> 1]
Outside == [pc |-> "out", entry |-> Dummy, now |-> 0, first |-> TRUE]

TypeOK ==
  /\ clock \in 0 .. Day - 1
  /\ callbacks \in [Index -> CallbackEntry]
  /\ id_counter \in 0 .. UINT32_MAX - 1
  /\ main \in [pc : {"idle", "store", "sort", "count", "clear", "clear_time", "resort", "disarm"},
               index : Index, entry : CallbackEntry]
  /\ cut \in [pc : {"none", "copying", "sorting", "swapping"}, words : 0 .. 3,
              one : Index, other : Index]
  /\ cuts \in 0 .. Cuts
  /\ isr \in [pc : {"out", "run", "remove", "again", "sample", "loop"},
              entry : CallbackEntry, now : 0 .. Day - 1, first : BOOLEAN]
  /\ alarm \in 0 .. UINT32_MAX
  /\ enabled \in BOOLEAN /\ pending \in BOOLEAN
  /\ deletes \in 0 .. Deletes
  /\ asked \in [Request -> [state : {"none", "waiting", "over"}, id : 0 .. UINT32_MAX,
                            left : 0 .. Day, today : BOOLEAN, kills : BOOLEAN, runs : 0 .. 1]]
  /\ wrongs \subseteq {"early", "deleted", "twice"}
  /\ interrupted \in BOOLEAN /\ torn \in BOOLEAN /\ overtaken \in BOOLEAN

Init ==
  /\ clock \in 0 .. Day - 1
  /\ callbacks = [i \in Index |-> Dummy]
  /\ id_counter = 0
  /\ main = Resting /\ cut = NoCut /\ cuts = 0 /\ isr = Outside
  /\ alarm = UINT32_MAX /\ enabled = FALSE /\ pending = FALSE
  /\ deletes = 0
  /\ asked = [r \in Request |-> [state |-> "none", id |-> NULL_ID, left |-> 0, today |-> FALSE,
                                 kills |-> FALSE, runs |-> 0]]
  /\ wrongs = {} /\ interrupted = FALSE /\ torn = FALSE /\ overtaken = FALSE

----------------------------------------------------------------------------
(***************************************************************************)
(* Helpers: the searches, the sort, the alarm.                             *)
(***************************************************************************)
Holding(id) == {i \in Index : callbacks[i].id = id}

Orders(entries) == {[i \in Index |-> entries[p[i]]] : p \in Bijection(Index, Index)}

(* qsort is not stable: entries due together come in any order *)
qsort(entries) ==
  {[i \in Index |-> entries[p[i]]] :
     p \in {q \in Bijection(Index, Index) :
              \A i, j \in Index : i < j => entries[q[i]].unix_time <= entries[q[j]].unix_time}}

(* mutant: the alarm is only set when the interrupt was off *)
setAlarm_Once(head) ==
  /\ enabled' = (head.id # NULL_ID)
  /\ alarm' = IF head.id = NULL_ID \/ enabled THEN alarm ELSE head.unix_time

setAlarm(head) ==
  /\ enabled' = (head.id # NULL_ID)
  /\ alarm' = IF head.id = NULL_ID THEN alarm ELSE head.unix_time

SortAndSetAlarm(entries) ==
  /\ callbacks' \in qsort(entries)
  /\ setAlarm(callbacks'[1])

Insert(index, entry) ==
  SortAndSetAlarm([callbacks EXCEPT ![index] = [entry EXCEPT !.id = id_counter]])

Erased(entry) == [entry EXCEPT !.id = NULL_ID, !.unix_time = NULL_UNIX_TIME]

AllErased == [i \in Index |-> Erased(callbacks[i])]

(* the first words of an entry, and the other words of another *)
Words(words, first, rest) ==
  [callback |-> IF words > 0 THEN first.callback ELSE rest.callback,
   id |-> IF words > 1 THEN first.id ELSE rest.id,
   unix_time |-> IF words > 2 THEN first.unix_time ELSE rest.unix_time,
   next_time |-> rest.next_time]

(* every request that was waiting when rtc_deleteAllEntries ran *)
AllOver(requests) ==
  [r \in Request |-> IF requests[r].state = "waiting" THEN [requests[r] EXCEPT !.state = "over"]
                     ELSE requests[r]]

----------------------------------------------------------------------------
(***************************************************************************)
(* The main thread.                                                        *)
(***************************************************************************)
MainRuns == isr.pc = "out" /\ ~(pending /\ enabled)

(* mutant: the period is the time of day it is first due *)
next_time_Absolute(request) == IF request.continuous THEN clock + request.delta ELSE 0

next_time(request) == IF request.continuous THEN request.delta ELSE 0

(* rtc_scheduleCallback reads the clock and rtc_insertEntry finds a free slot; when it finds *)
(* none it returns NULL_ID and changes nothing, which is no step                              *)
Schedule(request) ==
  /\ MainRuns /\ main.pc = "idle"
  /\ \E r \in Request :
       /\ asked[r].state = "none" /\ \A q \in 1 .. r - 1 : asked[q].state # "none"
       /\ Holding(NULL_ID) # {}
       /\ main' = [pc |-> "store", index |-> Min(Holding(NULL_ID)),
                   entry |-> [id |-> NULL_ID, unix_time |-> clock + request.delta,
                              next_time |-> next_time(request),
                              callback |-> r]]
       /\ asked' = [asked EXCEPT ![r] = [@ EXCEPT !.state = "waiting", !.left = request.delta,
                                           !.today = clock + request.delta < Day,
                                           !.kills = request.kills]]
  /\ UNCHANGED <<clock, table, cut, isr, hardware, deletes, wrongs, cuttings>>

(* entry.id = id_counter, once *)
Numbered == IF cut.pc = "copying" THEN main.entry ELSE [main.entry EXCEPT !.id = id_counter]

StoreEntry ==
  /\ MainRuns /\ main.pc = "store"
  /\ main' = [main EXCEPT !.pc = "sort", !.index = 1, !.entry = Numbered]
  /\ callbacks' = [callbacks EXCEPT ![main.index] = Words(cut.words, @, Numbered)]
  /\ cut' = NoCut
  /\ UNCHANGED <<clock, id_counter, isr, hardware, history>>

(* the rest of a qsort that was cut may leave any order: what it compared has moved *)
FinishSort ==
  /\ cut.pc # "swapping" /\ cut' = NoCut
  /\ \/ cut.pc = "none" /\ SortAndSetAlarm(callbacks)
     \/ /\ cut.pc = "sorting"
        /\ callbacks' \in Orders(callbacks) /\ setAlarm(callbacks'[1])

SortStored ==
  /\ MainRuns /\ main.pc = "sort"
  /\ FinishSort
  /\ main' = [main EXCEPT !.pc = "count"]
  /\ UNCHANGED <<clock, id_counter, isr, pending, history>>

(* an exchange that was cut goes on with the other words, of what the two slots hold now *)
Swap ==
  /\ MainRuns /\ cut.pc = "swapping"
  /\ callbacks' = [callbacks EXCEPT
                     ![cut.one] = Words(cut.words, callbacks[cut.one], callbacks[cut.other]),
                     ![cut.other] = Words(cut.words, callbacks[cut.other], callbacks[cut.one])]
  /\ cut' = [NoCut EXCEPT !.pc = "sorting"]
  /\ UNCHANGED <<clock, id_counter, main, isr, hardware, history>>

(* mutant: the counter is left alone *)
next_id_Same == id_counter

next_id == id_counter + 1

CountId ==
  /\ MainRuns /\ main.pc = "count"
  /\ id_counter' = next_id
  /\ asked' = [asked EXCEPT ![main.entry.callback].id = main.entry.id]
  /\ main' = Resting
  /\ UNCHANGED <<clock, callbacks, cut, isr, hardware, deletes, wrongs, cuttings>>

(* rtc_deleteEntry with an id that rtc_scheduleCallback returned *)
Delete(id) ==
  /\ MainRuns /\ main.pc = "idle"
  /\ deletes < Deletes /\ deletes' = deletes + 1
  /\ id # NULL_ID
  /\ \/ /\ Holding(id) # {}
        /\ main' = [pc |-> "clear", index |-> Min(Holding(id)), entry |-> Dummy]
     \/ Holding(id) = {} /\ UNCHANGED main
  /\ UNCHANGED <<clock, table, cut, isr, hardware, asked, wrongs, cuttings>>

ClearId ==
  /\ MainRuns /\ main.pc = "clear"
  /\ main' = [main EXCEPT !.pc = "clear_time", !.entry = callbacks[main.index]]
  /\ callbacks' = [callbacks EXCEPT ![main.index].id = NULL_ID]
  /\ UNCHANGED <<clock, id_counter, cut, isr, hardware, history>>

ClearTime ==
  /\ MainRuns /\ main.pc = "clear_time"
  /\ main' = [main EXCEPT !.pc = "resort", !.index = 1]
  /\ callbacks' = [callbacks EXCEPT ![main.index].unix_time = NULL_UNIX_TIME]
  /\ UNCHANGED <<clock, id_counter, cut, isr, hardware, history>>

SortErased ==
  /\ MainRuns /\ main.pc = "resort"
  /\ FinishSort
  /\ asked' = IF main.entry.callback = 0 THEN asked
              ELSE [asked EXCEPT ![main.entry.callback].state = "over"]
  /\ main' = Resting
  /\ UNCHANGED <<clock, id_counter, isr, pending, deletes, wrongs, cuttings>>

DeleteAll ==
  /\ MainRuns /\ main.pc = "idle"
  /\ deletes < Deletes /\ deletes' = deletes + 1
  /\ callbacks' = AllErased
  /\ main' = [Resting EXCEPT !.pc = "disarm"]
  /\ UNCHANGED <<clock, id_counter, cut, isr, hardware, asked, wrongs, cuttings>>

Disarm ==
  /\ MainRuns /\ main.pc = "disarm"
  /\ setAlarm(callbacks[1])
  /\ asked' = AllOver(asked)
  /\ main' = Resting
  /\ UNCHANGED <<clock, table, cut, isr, pending, deletes, wrongs, cuttings>>

----------------------------------------------------------------------------
(***************************************************************************)
(* The interrupt.                                                          *)
(***************************************************************************)
(* the entry has its id, and none or some of its words are copied *)
CutCopy ==
  /\ main.pc = "store" /\ cut.words = 0
  /\ \E words \in {0} \cup CutWords :
       /\ cut' = [NoCut EXCEPT !.pc = "copying", !.words = words]
       /\ callbacks' = [callbacks EXCEPT ![main.index] = Words(words, Numbered, @)]
  /\ main' = [main EXCEPT !.entry = Numbered]

(* qsort has brought the entries in some order *)
CutSort ==
  /\ main.pc \in {"sort", "resort"} /\ cut.pc # "swapping"
  /\ cut' = [NoCut EXCEPT !.pc = "sorting"]
  /\ callbacks' \in Orders(callbacks)
  /\ UNCHANGED main

(* and exchanged some of the words of two *)
CutSwap ==
  /\ main.pc \in {"sort", "resort"} /\ cut.pc # "swapping"
  /\ \E entries \in Orders(callbacks), i, j \in Index, words \in CutWords :
       /\ i < j
       /\ cut' = [pc |-> "swapping", words |-> words, one |-> i, other |-> j]
       /\ callbacks' = [entries EXCEPT ![i] = Words(words, entries[j], entries[i]),
                                        ![j] = Words(words, entries[i], entries[j])]
  /\ UNCHANGED main

Cut ==
  \/ UNCHANGED <<callbacks, main, cut, cuts>>
  \/ /\ cuts < Cuts /\ cuts' = cuts + 1
     /\ CutCopy \/ CutSort \/ CutSwap

Take(entry) == isr' = [isr EXCEPT !.pc = "run", !.entry = entry]

(* the first slot is free, or is at some point of what the main thread does *)
FirstFree ==
  \/ callbacks[1].id = NULL_ID
  \/ main.pc \in {"sort", "resort"} /\ Holding(NULL_ID) # {}

Enter ==
  /\ isr.pc = "out" /\ pending /\ enabled
  /\ pending' = FALSE
  /\ \/ /\ FirstFree
        /\ UNCHANGED <<callbacks, thread, isr, cuts, torn>>
     \/ /\ Cut
        /\ callbacks'[1].id # NULL_ID
        /\ Take(callbacks'[1])
        /\ torn' = (torn \/ cut'.words > 0)
  /\ interrupted' = (interrupted \/ main.pc # "idle")
  /\ UNCHANGED <<clock, id_counter, alarm, enabled, deletes, asked, wrongs, overtaken>>

(* the callback; one that kills calls rtc_deleteAllEntries.  A slot that never had an entry *)
(* has none to call, and nothing follows.                                                   *)
RunCallback ==
  /\ isr.pc = "run" /\ isr.entry.callback # 0
  /\ isr' = [isr EXCEPT !.pc = "remove"]
  /\ LET r == isr.entry.callback
         ran == [asked EXCEPT ![r].runs = 1,
                              ![r].state = IF isr.entry.next_time = 0 THEN "over" ELSE @]
     IN /\ wrongs' = wrongs \cup {w \in {"early", "deleted", "twice"} :
               \/ w = "early" /\ asked[r].left > 0 /\ asked[r].runs = 0
               \/ w = "deleted" /\ asked[r].state = "over" /\ asked[r].runs = 0
               \/ w = "twice" /\ isr.entry.next_time = 0 /\ asked[r].runs > 0}
        /\ \/ /\ asked[r].kills
              /\ callbacks' = AllErased /\ setAlarm(callbacks'[1])
              /\ asked' = AllOver(ran)
           \/ /\ ~asked[r].kills
              /\ asked' = ran
              /\ UNCHANGED <<callbacks, alarm, enabled>>
  /\ UNCHANGED <<clock, id_counter, thread, pending, deletes, cuttings>>

Continue == [isr EXCEPT !.pc = IF isr.first THEN "sample" ELSE "loop", !.entry = Dummy]

(* mutant: the entry that ran stays in the table *)
Remove_Keeps ==
  /\ isr.pc = "remove"
  /\ isr' = IF isr.entry.next_time # 0 THEN [isr EXCEPT !.pc = "again"] ELSE Continue
  /\ UNCHANGED <<callbacks, clock, id_counter, thread, hardware, history>>

(* rtc_deleteEntry of the entry that ran *)
Remove ==
  /\ isr.pc = "remove"
  /\ isr' = IF isr.entry.next_time # 0 THEN [isr EXCEPT !.pc = "again"] ELSE Continue
  /\ \/ /\ Holding(isr.entry.id) # {}
        /\ SortAndSetAlarm([callbacks EXCEPT ![Min(Holding(isr.entry.id))] = Erased(@)])
     \/ /\ Holding(isr.entry.id) = {}
        /\ UNCHANGED <<callbacks, alarm, enabled>>
  /\ UNCHANGED <<clock, id_counter, thread, pending, history>>

(* a continuous entry goes back under a new id *)
Again ==
  /\ isr.pc = "again"
  /\ isr' = Continue
  /\ \/ /\ Holding(NULL_ID) # {}
        /\ Insert(Min(Holding(NULL_ID)), [isr.entry EXCEPT !.unix_time = @ + isr.entry.next_time])
        /\ id_counter' = next_id
     \/ /\ Holding(NULL_ID) = {}
        /\ UNCHANGED <<table, alarm, enabled>>
  /\ UNCHANGED <<clock, thread, pending, history>>

Sample ==
  /\ isr.pc = "sample"
  /\ isr' = [isr EXCEPT !.pc = "loop", !.first = FALSE, !.now = clock]
  /\ UNCHANGED <<clock, table, thread, hardware, history>>

(* mutant: the entry after the due ones runs too *)
due_Next(entry) == entry.unix_time <= isr.now + 1

due(entry) == entry.unix_time <= isr.now

Loop ==
  /\ isr.pc = "loop" /\ due(callbacks[1])
  /\ Take(callbacks[1])
  /\ UNCHANGED <<clock, table, thread, hardware, history>>

(* nothing more is due, or the loop has taken DEFAULT_TIMEOUT_MS *)
Leave ==
  /\ isr.pc = "loop"
  /\ isr' = Outside
  /\ UNCHANGED <<clock, table, thread, hardware, history>>

----------------------------------------------------------------------------
(* A second passes; an armed alarm matches the time of day. *)
Tick ==
  /\ ~(isr.pc = "out" /\ pending /\ enabled)
  /\ clock' = (clock + 1) % Day
  /\ pending' = (pending \/ alarm = clock')
  /\ overtaken' = (overtaken \/ (alarm = clock' /\ ~(enabled /\ isr.pc = "out" /\ main.pc = "idle")))
  /\ asked' = [r \in Request |-> [asked[r] EXCEPT !.left = IF @ = 0 THEN 0 ELSE @ - 1]]
  /\ UNCHANGED <<table, thread, isr, alarm, enabled, deletes, wrongs, cuts, interrupted, torn>>

Main ==
  \/ StoreEntry \/ SortStored \/ Swap \/ CountId
  \/ ClearId \/ ClearTime \/ SortErased \/ Disarm

Interrupt == Enter \/ RunCallback \/ Remove \/ Again \/ Sample \/ Loop \/ Leave

Caller ==
  \/ \E request \in Asked : Schedule(request)
  \/ \E r \in Request : Delete(asked[r].id)
  \/ DeleteAll

Next == Caller \/ Main \/ Interrupt \/ Tick

Spec == Init /\ [][Next]_vars

(* An operation of the main thread ends, the interrupt returns, time passes. *)
FairSpec == Spec /\ SF_vars(Main) /\ WF_vars(Interrupt) /\ WF_vars(Tick)

----------------------------------------------------------------------------
AtRest == main.pc = "idle" /\ isr.pc = "out"
Active == {i \in Index : callbacks[i].id # NULL_ID}

(* As long as the interrupt never came in the middle of an operation of the *)
(* main thread (~interrupted): between operations the table holds every     *)
(* waiting request exactly once, nothing else, and no two under one id; and *)
(* the alarm is set, and its interrupt enabled, for the entry due first.    *)
TableIsExact ==
  AtRest /\ ~interrupted =>
    /\ {callbacks[i].callback : i \in Active} = {r \in Request : asked[r].state = "waiting"}
    /\ Cardinality({callbacks[i].callback : i \in Active}) = Cardinality(Active)
    /\ Cardinality({callbacks[i].id : i \in Active}) = Cardinality(Active)
    /\ Active # {} =>
         /\ enabled
         /\ \A i \in Active : alarm <= callbacks[i].unix_time
         /\ \E i \in Active : alarm = callbacks[i].unix_time

(* As long as the interrupt never came in the middle of an operation of the  *)
(* main thread (~interrupted), and the alarm never matched where its         *)
(* interrupt could not be taken for its entry (~overtaken): a callback never *)
(* runs before its time, and never after it was deleted or, when it is to    *)
(* run once, a second time.                                                  *)
CalledRightly == ~interrupted /\ ~overtaken => wrongs = {}

(* A one-shot callback runs at most once, wherever the interrupt comes:     *)
(* between two steps of the main thread, before an entry is copied or       *)
(* between two exchanges of a sort, which may then go wrong in any order.   *)
(* Nothing is claimed once it came in the middle of an entry that was       *)
(* copied or exchanged (torn): then one may run twice, or never.            *)
OnceOnly == ~torn => "twice" \notin wrongs

(* "Calls given callback after given amount of time" (rtc.h): not before. *)
NeverEarly == "early" \notin wrongs

(* And it does call it. *)
Called(r) == asked[r].runs > 0 \/ asked[r].state # "waiting"
CalledEventually == \A r \in Request : asked[r].state = "waiting" ~> Called(r)

(* What is due before midnight is called, if the interrupt never comes in the *)
(* middle of an operation of the main thread.                                 *)
CalledToday ==
  [](~interrupted) => \A r \in Request : (asked[r].state = "waiting" /\ asked[r].today) ~> Called(r)
=============================================================================
